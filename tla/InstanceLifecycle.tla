-------------------------- MODULE InstanceLifecycle --------------------------
(***************************************************************************)
(* The life of one game server: instances.state, its container in Docker,  *)
(* the job that holds its lock, and the supervisor's observer, the two     *)
(* permitted writers of the row.  The lock table and the lease are the     *)
(* subject of JobEngine and DaemonLease; here a job is its Runner, cut     *)
(* where it writes the row, touches the container or hands back its        *)
(* Outcome, and the observer's pass is cut at each of its reads.           *)
(***************************************************************************)
EXTENDS Integers, FiniteSets

CONSTANTS
  MaxJobs,    \* bound: jobs an operator submits
  MaxFaults,  \* bound: failures, container accidents, shutdowns and crashes
  Faults      \* the kinds of accident a run admits

\* "race"    a submission lands between the reads of an observer pass
\* "inspect" Docker cannot be asked whether the server of a backup is down
\* "db"      a write of the database fails
\* "drain"   the panel is shut down and refuses new jobs
\* "commit"  the panel dies between a commit and the AfterFinish behind it
\* "boot"    the panel dies again after the sweep of its boot
\* "crash"   the panel dies anywhere else
\* "cli"     somebody starts the container with docker
\* "oom"     the container is killed for memory or loops
AllFaults == {"race", "inspect", "db", "drain", "commit", "boot", "crash", "cli", "oom"}

ASSUME BoundsAssumption == MaxJobs \in Nat /\ MaxFaults \in Nat
ASSUME FaultsAssumption == Faults \subseteq AllFaults

\* The values of instances.state, and the row not existing at all.
State == {"created", "provisioning", "stopped", "starting", "running", "stopping",
          "backing_up", "restoring", "updating", "deleting", "error", "gone"}

\* The states only a job leaves, resolved by the recovery matrix when it died.
Transient == {"provisioning", "starting", "stopping", "backing_up", "restoring",
              "updating", "deleting"}

Kind == {"start", "stop", "restart", "backup", "restore", "update", "delete",
         "provision", "hold"}

\* The legal writes of instances.state; deleting has no successor but the
\* deletion of the row.
edgeList ==
  { <<"created", "provisioning">>, <<"error", "provisioning">>,
    <<"provisioning", "stopped">>, <<"provisioning", "error">>,
    <<"stopped", "starting">>, <<"stopped", "error">>,
    <<"starting", "running">>, <<"starting", "error">>, <<"starting", "stopped">>,
    <<"running", "stopping">>, <<"stopping", "starting">>, <<"stopping", "stopped">>,
    <<"stopping", "error">>, <<"running", "stopped">>, <<"running", "error">>,
    <<"stopped", "running">>, <<"stopped", "backing_up">>, <<"stopped", "restoring">>,
    <<"stopped", "updating">>, <<"backing_up", "stopped">>, <<"backing_up", "running">>,
    <<"restoring", "stopped">>, <<"restoring", "error">>, <<"updating", "stopped">>,
    <<"updating", "error">>, <<"stopped", "deleting">>, <<"error", "deleting">>,
    <<"error", "stopped">>, <<"error", "running">> }

VARIABLES
  state,     \* instances.state, or "gone"
  landed,    \* the install finished: the row names a container
  cont,      \* the container: "none", "exited" or "up"
  bad,       \* Docker reports an OOM kill or the restart count of a loop
  lock,      \* the kind of the job row that holds the instance lock, or "free"
  step,      \* where that job's goroutine stands; "none" when it has none
  fin,       \* the Outcome's OnFinish: <<from, to, mode>>, or NoFin
  resume,    \* the Outcome's AfterFinish starts the server
  after,     \* the job has committed and its AfterFinish has not run
  ckpt,      \* the last provision job wrote a checkpoint
  panel,     \* the process: "sweep", "reconcile", "intents", "up", "draining", "down"
  intent,    \* the sweep of this boot collected a resume intent
  obs,       \* the observer's pass: [at, row, to, rerun, park]
  owed,      \* owedStops names this container
  stopping,  \* a protective stop is in flight
  jobs,      \* jobs submitted so far
  faults,    \* accidents so far
  promised,  \* ghost: a quiesced backup stopped a server it must start again
  unproven   \* ghost: a restore or an update has not ended well since it claimed

job     == <<lock, step, fin, resume, after, ckpt>>
server  == <<cont, bad>>
guard   == <<owed, stopping>>
process == <<panel, intent>>
counts  == <<jobs, faults>>
ghosts  == <<promised, unproven>>
vars    == <<state, landed, server, job, process, obs, guard, counts, ghosts>>

NoFin == <<"none", "none", "cas">>
Pass(at, row, to, rerun, park) == [at |-> at, row |-> row, to |-> to, rerun |-> rerun, park |-> park]
NoPass == Pass("idle", "gone", "none", "none", FALSE)

\* An accident is one the run admits and within the bound.
Accident(f) == f \in Faults /\ faults < MaxFaults /\ faults' = faults + 1
Failure     == faults < MaxFaults /\ faults' = faults + 1

\* SetState and TxUpdateInstanceState: a compare-and-swap on the row.
Cas(from, to) == state' = IF state = from THEN to ELSE state
Init ==
  /\ \/ state = "created" /\ cont = "none" /\ landed = FALSE
     \/ state = "stopped" /\ cont = "exited" /\ landed = TRUE
     \/ state = "running" /\ cont = "up" /\ landed = TRUE
  /\ bad = FALSE /\ lock = "free" /\ step = "none" /\ fin = NoFin
  /\ resume = FALSE /\ after = FALSE /\ ckpt = FALSE
  /\ panel = "up" /\ intent = FALSE /\ obs = NoPass
  /\ owed = FALSE /\ stopping = FALSE
  /\ jobs = 0 /\ faults = 0 /\ promised = FALSE /\ unproven = FALSE

-----------------------------------------------------------------------------
(* Submission: the claim transaction of each kind. *)

\* The transition each kind's OnClaim writes.  "hold" stands for the kinds
\* that take the lock and leave the row alone: an import, a hot backup, a mod
\* install.
Claims(k, a, b) ==
  \/ k = "start"     /\ a = "stopped" /\ b = "starting"
  \/ k \in {"stop", "restart", "backup"} /\ a = "running" /\ b = "stopping"
  \/ k = "restore"   /\ a = "stopped" /\ b = "restoring"
  \/ k = "update"    /\ a = "stopped" /\ b = "updating"
  \/ k = "delete"    /\ a \in {"stopped", "error"} /\ b = "deleting"
  \/ k = "provision" /\ a \in {"created", "error"} /\ b = "provisioning"
  \/ k = "hold"      /\ a \in {"stopped", "running"} /\ b = a

\* The Runner's first step.
First(k) ==
  IF k = "start" THEN "start"
  ELSE IF k \in {"stop", "restart", "backup", "delete"} THEN "stop"
  ELSE "work"

\* Engine.Submit with a claim a to b: the lock, the row and the state move in
\* one transaction, and the Runner is dispatched.
Dispatch(k, a, b) ==
  /\ lock = "free" /\ state = a /\ state' = b
  /\ lock' = k /\ step' = First(k) /\ fin' = NoFin /\ resume' = FALSE
  /\ ckpt' = (ckpt /\ k # "provision")

\* An operator, a schedule or a setup chain submits a job.  The install is
\* only retried while it has not landed, everything else needs its container.
Submit(k) ==
  /\ panel = "up" /\ jobs < MaxJobs /\ jobs' = jobs + 1
  /\ "race" \in Faults \/ obs.at = "idle"
  /\ (k = "provision") <=> ~landed
  /\ \E b \in State : Claims(k, state, b) /\ Dispatch(k, state, b)
  /\ promised' = (k = "backup")
  /\ unproven' = (k \in {"restore", "update"} \/ unproven)
  /\ UNCHANGED <<landed, server, after, process, obs, guard, faults>>

-----------------------------------------------------------------------------
(* The Runners, each cut where it reads Docker or writes the row. *)

Return(f, r) == step' = "finish" /\ fin' = f /\ resume' = r
Goto(s) == step' = s /\ UNCHANGED <<fin, resume>>
Park(from) == <<from, "error", "cas">>
At(s) == step = s /\ UNCHANGED <<landed, lock, after, process, obs, jobs>>

\* rebuildIfDrifted and Runtime.Start.  A drifted container that is not
\* running is replaced, and a stop owed to the old one names nothing.
Start ==
  /\ At("start") /\ UNCHANGED <<state, ckpt, faults, stopping, ghosts>>
  /\ cont' = "up" /\ bad' = (bad /\ cont = "up")
  /\ owed' \in IF cont = "up" THEN {owed} ELSE IF cont = "exited" THEN {owed, FALSE} ELSE {FALSE}
  /\ Goto("ready")

\* The rebuild or the start fails; a rebuild that fails may have removed the
\* container already.
StartFails ==
  /\ At("start") /\ Failure /\ UNCHANGED <<state, ckpt, bad, guard, ghosts>>
  /\ cont' \in {cont} \cup (IF cont = "exited" THEN {"none"} ELSE {})
  /\ Return(Park("starting"), FALSE)

\* AwaitReady: a running container is ready or unconfirmed, both succeed.
Ready ==
  /\ At("ready") /\ cont = "up" /\ UNCHANGED <<state, server, ckpt, faults, guard, ghosts>>
  /\ Return(<<"starting", "running", "strict">>, FALSE)

\* The container exited, or its log could not be followed.
NotReady ==
  /\ At("ready") /\ UNCHANGED <<state, server, ckpt, guard, ghosts>>
  /\ IF cont = "up" THEN Failure ELSE UNCHANGED faults
  /\ Return(Park("starting"), FALSE)

\* stopContainer succeeds; clean says the save line was seen.
Stop(clean) ==
  /\ At("stop")
  /\ cont # "none" \/ lock = "delete"
  /\ cont' = (IF cont = "none" THEN "none" ELSE "exited")
  /\ UNCHANGED <<state, bad, ckpt, faults, guard, ghosts>>
  /\ \/ lock = "stop"    /\ Return(<<"stopping", "stopped", "strict">>, FALSE)
     \/ lock = "restart" /\ Goto("restart")
     \/ lock = "backup"  /\ Goto(IF clean THEN "quiesce" ELSE "unclean")
     \/ lock = "delete"  /\ Goto("remove")

\* stopFailure: the stop failed, or Docker had to kill the server.  A delete
\* ignores the kill and leaves the row to the next attempt.
StopFails(killed) ==
  /\ At("stop") /\ UNCHANGED <<state, bad, ckpt, guard, unproven>>
  /\ cont' = (IF killed THEN "exited" ELSE cont)
  /\ IF cont = "none" /\ lock # "delete" THEN UNCHANGED faults ELSE Failure
  /\ killed => cont = "up" /\ lock # "delete"
  /\ promised' = FALSE
  /\ Return(IF lock = "delete" THEN NoFin ELSE Park("stopping"), FALSE)

\* A restart with queued mod installs ends as a stop; otherwise the row goes
\* on to starting and the start phase follows, whether the swap matched or not.
RestartQueued ==
  /\ At("restart") /\ UNCHANGED <<state, server, ckpt, faults, guard, ghosts>>
  /\ Return(<<"stopping", "stopped", "strict">>, FALSE)

RestartGoesOn ==
  /\ At("restart") /\ UNCHANGED <<server, ckpt, guard, ghosts>>
  /\ \/ Cas("stopping", "starting") /\ Goto("start") /\ UNCHANGED faults
     \/ Accident("db") /\ UNCHANGED state /\ Return(NoFin, FALSE)

\* Mutant of Quiesce: only a complete backup owes the start.
QuiesceForgets ==
  /\ step \in {"quiesce", "unclean"} /\ At(step) /\ UNCHANGED <<server, ckpt, guard, ghosts>>
  /\ Cas("stopping", "stopped") /\ UNCHANGED faults
  /\ IF step = "quiesce" THEN Goto("enter") ELSE Return(NoFin, FALSE)

\* quiesce: the server is down.  Its row passes through stopped; a stop that
\* did not confirm the save ends the job there, owing only the start.
Quiesce ==
  /\ step \in {"quiesce", "unclean"} /\ At(step) /\ UNCHANGED <<server, ckpt, guard, ghosts>>
  /\ \/ Cas("stopping", "stopped") /\ UNCHANGED faults
        /\ IF step = "quiesce" THEN Goto("enter") ELSE Return(NoFin, TRUE)
     \/ Accident("db") /\ UNCHANGED state /\ Return(NoFin, TRUE)

EnterBackingUp ==
  /\ At("enter") /\ UNCHANGED <<server, ckpt, guard, ghosts>>
  /\ \/ Cas("stopped", "backing_up") /\ Goto("check") /\ UNCHANGED faults
     \/ Accident("db") /\ UNCHANGED state /\ Return(NoFin, TRUE)

\* consistencyClaim: Docker must agree that nothing runs.
ConsistencyClaim ==
  /\ At("check") /\ UNCHANGED <<state, server, ckpt, guard, ghosts>>
  /\ \/ cont # "up" /\ Goto("archive") /\ UNCHANGED faults
     \/ cont = "up" /\ Return(NoFin, TRUE) /\ UNCHANGED faults
     \/ Accident("inspect") /\ Return(NoFin, TRUE)

Archive ==
  /\ At("archive") /\ UNCHANGED <<state, server, ckpt, faults, guard, ghosts>>
  /\ Return(<<"backing_up", "stopped", "strict">>, TRUE)

\* abandonBackup: a cancelled or failed archive returns the row by itself.
AbandonBackup ==
  /\ At("archive") /\ UNCHANGED <<server, ckpt, guard, ghosts>>
  /\ \/ Cas("backing_up", "stopped") /\ UNCHANGED faults
     \/ Accident("db") /\ UNCHANGED state
  /\ Return(NoFin, TRUE)

\* A restore or an update, whose work on the tree is WorldSwap's: it ends in
\* stopped, or parks.  An update's finish insists on its own state, a failed
\* restore's does not; an update cancelled before its swap ends in stopped.
ReplaceDone ==
  /\ At("work") /\ lock \in {"restore", "update"}
  /\ UNCHANGED <<state, server, ckpt, faults, guard, ghosts>>
  /\ Return(<<IF lock = "restore" THEN "restoring" ELSE "updating", "stopped", "strict">>, FALSE)

ReplaceFails ==
  /\ At("work") /\ lock \in {"restore", "update"} /\ Failure
  /\ UNCHANGED <<state, server, ckpt, guard, ghosts>>
  /\ Return(IF lock = "restore" THEN Park("restoring") ELSE <<"updating", "error", "strict">>, FALSE)

\* ForceRemove and the files; a failure leaves the row in deleting.
Remove ==
  /\ At("remove") /\ UNCHANGED <<state, ckpt, bad, stopping, ghosts>>
  /\ \/ cont' = "none" /\ Return(<<"deleting", "gone", "strict">>, FALSE) /\ UNCHANGED faults
     \/ Failure /\ cont' \in {cont, "none"} /\ Return(NoFin, FALSE)
  /\ owed' = (owed /\ cont' # "none")

\* The provision phases up to the container, checkpointing on the way.
Checkpoint ==
  /\ At("work") /\ lock = "provision" /\ ~ckpt /\ ckpt' = TRUE
  /\ UNCHANGED <<state, server, fin, resume, faults, guard, ghosts, step>>

Provision ==
  /\ At("work") /\ lock = "provision" /\ UNCHANGED <<state, guard, ghosts>>
  /\ \/ ckpt /\ cont' = (IF cont = "up" THEN "up" ELSE "exited")
        /\ Return(<<"provisioning", "stopped", "strict">>, FALSE)
        /\ UNCHANGED <<bad, ckpt, faults>>
     \/ Failure /\ Return(Park("provisioning"), FALSE) /\ UNCHANGED <<server, ckpt>>

\* A job that only held the lock.
Held ==
  /\ At("work") /\ lock = "hold" /\ UNCHANGED <<state, server, ckpt, faults, guard, ghosts>>
  /\ Return(NoFin, FALSE)

\* FinishJob with the Outcome's OnFinish in its transaction.  A strict one
\* that finds another state rolls everything back, and so does a failed
\* write: the row stays running and the lock held until the next boot.
Commit ==
  /\ step = "finish" /\ UNCHANGED <<server, ckpt, process, obs, guard, jobs>>
  /\ fin = NoFin \/ state = fin[1] \/ fin[3] = "cas"
  /\ state' = (IF fin # NoFin /\ state = fin[1] THEN fin[2] ELSE state)
  /\ landed' = (landed \/ (lock = "provision" /\ state' = "stopped"))
  /\ lock' = "free" /\ step' = "none" /\ fin' = NoFin /\ resume' = FALSE
  /\ after' = (after \/ resume)
  /\ unproven' = (unproven /\ ~(lock \in {"restore", "update"} /\ state' = "stopped"))
  /\ UNCHANGED <<faults, promised>>

Rollback ==
  /\ step = "finish" /\ UNCHANGED <<server, ckpt, process, obs, guard, jobs>>
  /\ \/ fin[3] = "strict" /\ state # fin[1] /\ UNCHANGED faults
     \/ Accident("db")
  /\ step' = "none" /\ fin' = NoFin /\ resume' = FALSE
  /\ UNCHANGED <<state, landed, lock, after, ghosts>>

\* resumeAfterBackup: Starter.Submit, whose refusal is only logged.
AfterFinish ==
  /\ after /\ after' = FALSE
  /\ "race" \in Faults \/ obs.at = "idle"
  /\ IF panel # "draining" /\ lock = "free" /\ state = "stopped"
       THEN Dispatch("start", "stopped", "starting") /\ promised' = FALSE
       ELSE UNCHANGED <<state, lock, step, fin, resume, ckpt, promised>>
  /\ UNCHANGED <<landed, server, process, obs, guard, counts, unproven>>

-----------------------------------------------------------------------------
(* The observer, and reconciliation at boot: the same pass. *)

Observing == panel \in {"up", "reconcile"}
Look(a) == obs.at = a /\ Observing /\ UNCHANGED <<landed, intent, after, jobs>>
EndPass == obs' = NoPass /\ panel' = (IF panel = "reconcile" THEN "intents" ELSE panel)
NextRead(o) == obs' = o /\ UNCHANGED panel

\* Mutant of ObsHeld: the pass does not skip a locked instance.
ObsHeldNever ==
  /\ Look("idle") /\ NextRead(Pass("row", "gone", "none", "none", FALSE))
  /\ UNCHANGED <<state, server, lock, step, fin, resume, ckpt, guard, faults, ghosts>>

\* HeldLockKeys, read once at the top of the pass: a held instance is skipped.
ObsHeld ==
  /\ Look("idle")
  /\ IF lock # "free" THEN EndPass ELSE NextRead(Pass("row", "gone", "none", "none", FALSE))
  /\ UNCHANGED <<state, server, lock, step, fin, resume, ckpt, guard, faults, ghosts>>

\* ListInstances: the row the verdict will be about.
ObsRow ==
  /\ Look("row")
  /\ IF state = "gone" THEN EndPass ELSE NextRead(Pass("see", state, "none", "none", FALSE))
  /\ UNCHANGED <<state, server, lock, step, fin, resume, ckpt, guard, faults, ghosts>>

\* Mutant of Observe: an interrupted update is disposable and resolves to stopped.
ObserveTrusting(row, c, b) ==
  IF row = "running" THEN
    IF c = "none" \/ b THEN {"error"} ELSE IF c = "up" THEN {"none"} ELSE {"stopped"}
  ELSE IF row = "stopped" THEN IF c = "up" THEN {"running"} ELSE {"none"}
  ELSE IF row = "starting" THEN IF c = "up" THEN {"running", "error"} ELSE {"stopped"}
  ELSE IF row = "stopping" THEN IF c = "up" THEN {"error"} ELSE {"stopped"}
  ELSE IF row = "backing_up" THEN IF c = "up" THEN {"running"} ELSE {"stopped"}
  ELSE IF row = "updating" THEN {"stopped"}
  ELSE IF row \in {"restoring", "provisioning"} THEN {"error"}
  ELSE {"none"}

\* Observe: the states this row may be moved to under what Docker says, with
\* "none" for leaving it alone.  A recheck of a start's readiness may fail.
Observe(row, c, b) ==
  IF row = "running" THEN
    IF c = "none" \/ b THEN {"error"} ELSE IF c = "up" THEN {"none"} ELSE {"stopped"}
  ELSE IF row = "stopped" THEN IF c = "up" THEN {"running"} ELSE {"none"}
  ELSE IF row = "starting" THEN IF c = "up" THEN {"running", "error"} ELSE {"stopped"}
  ELSE IF row = "stopping" THEN IF c = "up" THEN {"error"} ELSE {"stopped"}
  ELSE IF row = "backing_up" THEN IF c = "up" THEN {"running"} ELSE {"stopped"}
  ELSE IF row \in {"restoring", "updating", "provisioning"} THEN {"error"}
  ELSE {"none"}

\* The job kind a row's verdict re-submits.
Rerun(row) == IF row = "provisioning" THEN "provision"
              ELSE IF row = "deleting" THEN "delete" ELSE "none"

\* managedContainers, Observe and stillOwed.  An OOM kill or a crash loop of a
\* running server asks for a stop; an owed one is raised again while the
\* container runs, and found done it parks the row.
ObsSee ==
  /\ Look("see")
  /\ LET done == owed /\ cont = "exited"
         park == ~done /\ ((owed /\ cont = "up") \/ (obs.row = "running" /\ cont # "none" /\ bad))
     IN /\ \E to \in IF done THEN {"error"} ELSE Observe(obs.row, cont, bad) :
             IF to = "none" /\ Rerun(obs.row) = "none" /\ ~park
               THEN EndPass
               ELSE NextRead(Pass("write", obs.row, to, Rerun(obs.row), park))
        /\ owed' = (owed /\ ~done)
  /\ UNCHANGED <<state, server, lock, step, fin, resume, ckpt, faults, stopping, ghosts>>

\* A rerun is a claim like any other.  Without one, park starts the stop and
\* leaves the row to a later pass, and every other verdict is written, if the
\* edge is legal and the row is still the one that was read.
ObsWrite ==
  /\ Look("write") /\ EndPass
  /\ LET reruns == /\ obs.rerun # "none" /\ lock = "free" /\ state = obs.row
                   /\ obs.rerun = "provision" => ckpt
         parks  == ~reruns /\ obs.park
         writes == ~reruns /\ ~obs.park /\ <<obs.row, obs.to>> \in edgeList
     IN /\ IF reruns THEN Dispatch(obs.rerun, obs.row, obs.row)
           ELSE /\ IF writes THEN Cas(obs.row, obs.to) ELSE UNCHANGED state
                /\ UNCHANGED <<lock, step, fin, resume, ckpt>>
        /\ owed' = (owed \/ parks) /\ stopping' = (stopping \/ parks)
  /\ promised' = (promised /\ state' # "error")
  /\ UNCHANGED <<server, faults, unproven>>

\* The protective stop of park, off the observer's goroutine; a failure
\* leaves it owed.
ProtectiveStop ==
  /\ stopping /\ stopping' = FALSE /\ panel \in {"up", "reconcile", "intents"}
  /\ \/ cont' = (IF cont = "up" THEN "exited" ELSE cont) /\ UNCHANGED faults
     \/ Failure /\ UNCHANGED cont
  /\ UNCHANGED <<state, landed, bad, job, process, obs, owed, jobs, ghosts>>

\* POST acknowledge: the only way out of error, to what Docker supports.
Acknowledge ==
  /\ panel = "up" /\ state = "error" /\ landed
  /\ state' = (IF cont = "up" THEN "running" ELSE "stopped")
  /\ unproven' = FALSE
  /\ UNCHANGED <<landed, server, job, process, obs, guard, counts, promised>>

-----------------------------------------------------------------------------
(* The process. *)

\* Shutdown: no job is accepted, the observer and its stops are cancelled.
Drain ==
  /\ panel = "up" /\ Accident("drain") /\ panel' = "draining"
  /\ obs' = NoPass /\ stopping' = FALSE
  /\ UNCHANGED <<state, landed, server, job, intent, owed, jobs, ghosts>>

Gone == /\ panel' = "down" /\ step' = "none" /\ fin' = NoFin /\ resume' = FALSE
        /\ after' = FALSE /\ intent' = FALSE /\ obs' = NoPass
        /\ owed' = FALSE /\ stopping' = FALSE
        /\ UNCHANGED <<state, landed, server, lock, ckpt, jobs, ghosts>>

Exit == panel = "draining" /\ step = "none" /\ ~after /\ Gone /\ UNCHANGED faults

\* The process dies with everything it holds in memory.
Crash ==
  /\ panel # "down" /\ Gone
  /\ IF after THEN Accident("commit")
     ELSE IF panel \in {"reconcile", "intents"} THEN Accident("boot")
     ELSE Accident("crash")

Boot == /\ panel = "down" /\ panel' = "sweep"
        /\ UNCHANGED <<state, landed, server, job, intent, obs, guard, counts, ghosts>>

\* Mutant of Sweep: the rows are closed, the locks left behind.
SweepLeavesLocks ==
  /\ panel = "sweep" /\ panel' = "reconcile" /\ intent' = (lock = "backup")
  /\ UNCHANGED <<state, landed, server, job, obs, guard, counts, ghosts>>

\* Sweep: every row of a dead process is closed and its lock released; a
\* quiesced backup's intent is collected.
Sweep ==
  /\ panel = "sweep" /\ panel' = "reconcile"
  /\ intent' = (lock = "backup") /\ lock' = "free"
  /\ UNCHANGED <<state, landed, server, step, fin, resume, after, ckpt, obs, guard, counts, ghosts>>

\* resumeIntents, then the panel serves.
ResumeIntents ==
  /\ panel = "intents" /\ panel' = "up" /\ intent' = FALSE
  /\ IF intent /\ state = "stopped" /\ lock = "free"
       THEN Dispatch("start", "stopped", "starting") /\ promised' = FALSE
       ELSE UNCHANGED <<state, lock, step, fin, resume, ckpt, promised>>
  /\ UNCHANGED <<landed, server, after, obs, guard, counts, unproven>>

-----------------------------------------------------------------------------
(* Docker and the world outside the panel. *)

Outside == UNCHANGED <<state, landed, job, process, obs, owed, stopping, jobs, unproven>>

\* The server exits for good, or its container is removed.
ServerExits == cont = "up" /\ Failure /\ cont' = "exited" /\ Outside /\ UNCHANGED <<bad, promised>>
Removed == cont = "exited" /\ Failure /\ cont' = "none" /\ owed' = FALSE /\ bad' = FALSE
           /\ UNCHANGED <<state, landed, job, process, obs, stopping, jobs, ghosts>>
DockerStart == /\ cont = "exited" /\ Accident("cli") /\ cont' = "up" /\ bad' = FALSE
               /\ promised' = FALSE /\ Outside
Misbehaves == cont = "up" /\ ~bad /\ Accident("oom") /\ bad' = TRUE /\ Outside
              /\ UNCHANGED <<cont, promised>>
\* The crash-loop window elapses: the evidence goes, the obligation does not.
EvidenceExpires == bad /\ bad' = FALSE /\ Outside /\ UNCHANGED <<cont, faults, promised>>

Runner ==
  \/ Start \/ StartFails \/ Ready \/ NotReady
  \/ \E b \in BOOLEAN : Stop(b) \/ StopFails(b)
  \/ RestartQueued \/ RestartGoesOn
  \/ Quiesce \/ EnterBackingUp \/ ConsistencyClaim \/ Archive \/ AbandonBackup
  \/ ReplaceDone \/ ReplaceFails \/ Remove \/ Checkpoint \/ Provision \/ Held
  \/ Commit \/ Rollback

Observer == ObsHeld \/ ObsRow \/ ObsSee \/ ObsWrite

Restarting == Exit \/ Boot \/ Sweep \/ ResumeIntents

Environment == ServerExits \/ Removed \/ DockerStart \/ Misbehaves \/ EvidenceExpires

Next ==
  \/ \E k \in Kind : Submit(k)
  \/ Runner \/ AfterFinish \/ Observer \/ ProtectiveStop \/ Acknowledge
  \/ Drain \/ Crash \/ Restarting \/ Environment

Spec == Init /\ [][Next]_vars

\* Goroutines run, the observer's ticker fires, the service manager restarts
\* the panel.  Nothing obliges an operator, a failure or Docker.
Fairness ==
  /\ WF_vars(Runner) /\ WF_vars(AfterFinish) /\ WF_vars(Observer)
  /\ WF_vars(ProtectiveStop) /\ WF_vars(Restarting)

FairSpec == Spec /\ Fairness

-----------------------------------------------------------------------------
TypeOK ==
  /\ state \in State /\ landed \in BOOLEAN /\ cont \in {"none", "exited", "up"} /\ bad \in BOOLEAN
  /\ lock \in Kind \cup {"free"} /\ fin \in (State \cup {"none"}) \X (State \cup {"none"}) \X {"strict", "cas"}
  /\ step \in {"none", "start", "ready", "stop", "restart", "quiesce", "unclean", "enter",
               "check", "archive", "work", "remove", "finish"}
  /\ resume \in BOOLEAN /\ after \in BOOLEAN /\ ckpt \in BOOLEAN /\ intent \in BOOLEAN
  /\ panel \in {"sweep", "reconcile", "intents", "up", "draining", "down"}
  /\ obs \in [at : {"idle", "row", "see", "write"}, row : State, to : State \cup {"none"},
              rerun : Kind \cup {"none"}, park : BOOLEAN]
  /\ owed \in BOOLEAN /\ stopping \in BOOLEAN
  /\ jobs \in 0..MaxJobs /\ faults \in 0..MaxFaults
  /\ promised \in BOOLEAN /\ unproven \in BOOLEAN

\* Whoever writes instances.state, a claim, a Runner's own swap, a commit, the
\* observer or an acknowledge, writes an edge of the lifecycle table; the row
\* itself only disappears out of deleting.
ValidEdges ==
  [][state' # state => <<state, state'>> \in edgeList \cup {<<"deleting", "gone">>}]_vars

\* B7: from the claim of a restore or an update until it ended in stopped or a
\* human acknowledged it, the row is one from which no start can be claimed,
\* through every crash, sweep and observer pass on the way.
UnprovenNotStarted ==
  unproven => state \in {"restoring", "updating", "error", "deleting", "gone"}

\* The observer moves a row only while no job holds its lock (C14), although
\* it read the lock three steps before it writes.
ObserverRespectsLock ==
  [][(obs.at = "write" /\ obs'.at = "idle" /\ panel' # "down" /\ panel' # "draining"
        /\ state' # state) => lock = "free"]_vars

\* A server a quiesced backup stopped comes back: once nothing of that backup
\* is left to run, the start it owes has been claimed, unless the stop was
\* parked in error or an operator took over.
RestartKept == ~(promised /\ panel = "up" /\ lock = "free" /\ ~after /\ cont # "up")

\* Every claim of the instance is released again, whatever fails, exits or is
\* killed under the job.
LockReleased == (lock # "free") ~> (lock = "free")

\* No transient state is for ever: a job, the sweep and the recovery matrix
\* between them resolve it.
TransientEnds == (state \in Transient) ~> (state \notin Transient)

\* Both: no claim and no transient state of an instance outlives its cause
\* (jobs: run, recoverStaleJobs; control: Recovery, Observer).
EverythingSettles == LockReleased /\ TransientEnds

=============================================================================
