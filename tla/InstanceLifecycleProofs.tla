----------------------- MODULE InstanceLifecycleProofs -----------------------
(***************************************************************************)
(* Proofs about InstanceLifecycle, for every bound and every set of        *)
(* accidents: the row only ever moves along the lifecycle table, and a     *)
(* restore or update that has not ended well is never startable.  For the  *)
(* accidents that leave the promise standing: the observer writes under a  *)
(* free lock, and a server a backup stopped is started again.              *)
(***************************************************************************)
EXTENDS InstanceLifecycle, TLAPS

\* The goroutine is where its kind's Runner can be.
StepOK ==
  /\ step \in {"start", "ready"} => lock \in {"start", "restart"}
  /\ step = "stop" => lock \in {"stop", "restart", "backup", "delete"}
  /\ step = "restart" => lock = "restart"
  /\ step \in {"quiesce", "unclean", "enter", "check", "archive"} => lock = "backup"
  /\ step = "remove" => lock = "delete"
  /\ step = "work" => lock \in {"restore", "update", "provision", "hold"}

\* The OnFinish a Runner of kind k may hand back, from and to.
Ending(k, a, b) ==
  \/ k \in {"start", "restart"} /\ a = "starting" /\ b \in {"running", "error"}
  \/ k \in {"stop", "restart"} /\ a = "stopping" /\ b \in {"stopped", "error"}
  \/ k = "backup" /\ a = "stopping" /\ b = "error"
  \/ k = "backup" /\ a = "backing_up" /\ b = "stopped"
  \/ k = "restore" /\ a = "restoring" /\ b \in {"stopped", "error"}
  \/ k = "update" /\ a = "updating" /\ b \in {"stopped", "error"}
  \/ k = "delete" /\ a = "deleting" /\ b = "gone"
  \/ k = "provision" /\ a = "provisioning" /\ b \in {"stopped", "error"}

FinOK == fin = NoFin \/ (step = "finish" /\ Ending(lock, fin[1], fin[2]))

\* A process that is not there has no goroutine and owes no callback.
DeadOK == panel \in {"down", "sweep"} => step = "none" /\ fin = NoFin /\ ~after

\* The only verdicts on a row that must not become startable.
ObsOK ==
  /\ obs.row \in {"restoring", "updating", "error", "deleting", "gone"} => obs.to \in {"error", "none"}
  /\ obs.rerun \in {"none", "provision", "delete"}

\* What the row's history says about it.
UnprovenOK == UnprovenNotStarted /\ (unproven => landed)

IInv == StepOK /\ FinOK /\ DeadOK /\ ObsOK /\ UnprovenOK

\* The initial states satisfy the inductive invariant.
LEMMA InitInv == Init => IInv
  BY DEF Init, IInv, StepOK, FinOK, DeadOK, ObsOK, UnprovenOK, UnprovenNotStarted, NoFin, NoPass, Pass

\* What every claim transaction leaves: a dispatched Runner and a legal move.
LEMMA DispatchStep ==
  ASSUME NEW k \in Kind, NEW a, NEW b, Dispatch(k, a, b)
  PROVE  state = a /\ state' = b /\ lock' = k /\ StepOK' /\ FinOK' /\ step' # "none"
  BY SMTT(20) DEF Dispatch, StepOK, FinOK, First, Kind
\* A Runner's step leaves the row alone or moves it by its own swap along one
\* of four edges, keeps the lock, and hands back an ending of its kind.
LEMMA RunnerStep ==
  ASSUME IInv, Runner, ~Commit, ~Rollback
  PROVE  /\ IInv'
         /\ state' # state => <<state, state'>> \in edgeList
<1> DEFINE Goal == IInv' /\ (state' # state => <<state, state'>> \in edgeList)
<1> USE DEF IInv, StepOK, FinOK, Ending, DeadOK, ObsOK, UnprovenOK, UnprovenNotStarted, At, Return,
            Goto, Park, NoFin, process, ghosts, guard, server, Cas, edgeList
<1>1. CASE Start
  BY <1>1 DEF Start
<1>2. CASE StartFails
  BY <1>2 DEF StartFails
<1>3. CASE Ready
  BY <1>3 DEF Ready
<1>4. CASE NotReady
  BY <1>4 DEF NotReady
<1>5. CASE RestartQueued
  BY <1>5 DEF RestartQueued
<1>6. CASE RestartGoesOn
  BY <1>6 DEF RestartGoesOn
<1>7. CASE Quiesce
  BY <1>7 DEF Quiesce
<1>8. CASE EnterBackingUp
  BY <1>8 DEF EnterBackingUp
<1>9. CASE ConsistencyClaim
  BY <1>9 DEF ConsistencyClaim
<1>10. CASE Archive
  BY <1>10 DEF Archive
<1>11. CASE AbandonBackup
  BY <1>11 DEF AbandonBackup
<1>12. CASE ReplaceDone
  BY <1>12 DEF ReplaceDone
<1>13. CASE ReplaceFails
  BY <1>13 DEF ReplaceFails
<1>14. CASE Remove
  <2>1. At("remove") /\ state' = state /\ unproven' = unproven
    BY <1>14 DEF Remove
  <2>2. step' = "finish" /\ (fin' = NoFin \/ fin' = <<"deleting", "gone", "strict">>)
    BY <1>14 DEF Remove
  <2>3. fin' = NoFin \/ Ending("delete", fin'[1], fin'[2])
    BY ONLY <2>2 DEF Ending
  <2>4. StepOK' /\ DeadOK' /\ ObsOK' /\ UnprovenOK' /\ FinOK'
    BY <2>1, <2>2, <2>3
  <2> QED BY <2>1, <2>4
<1>15. CASE Checkpoint
  BY <1>15 DEF Checkpoint
<1>16. CASE Provision
  <2>1. At("work") /\ lock = "provision" /\ state' = state /\ unproven' = unproven
    BY <1>16 DEF Provision
  <2>2. step' = "finish" /\ (fin' = Park("provisioning") \/ fin' = <<"provisioning", "stopped", "strict">>)
    BY <1>16 DEF Provision
  <2>3. Ending("provision", fin'[1], fin'[2])
    BY ONLY <2>2 DEF Ending, Park
  <2>4. StepOK' /\ DeadOK' /\ ObsOK' /\ UnprovenOK' /\ FinOK'
    BY <2>1, <2>2, <2>3
  <2> QED BY <2>1, <2>4
<1>17. CASE Held
  BY <1>17 DEF Held
<1>18. ASSUME NEW b \in BOOLEAN, Stop(b) PROVE Goal
  <2>1. At("stop") /\ state' = state /\ unproven' = unproven
    BY <1>18 DEF Stop
  <2>2. fin = NoFin
    BY <2>1
  <2>3. \/ lock = "stop" /\ step' = "finish" /\ fin'[1] = "stopping" /\ fin'[2] = "stopped"
        \/ lock = "restart" /\ step' = "restart" /\ fin' = NoFin
        \/ lock = "backup" /\ step' \in {"quiesce", "unclean"} /\ fin' = NoFin
        \/ lock = "delete" /\ step' = "remove" /\ fin' = NoFin
    BY <1>18, <2>2 DEF Stop
  <2>4. FinOK'
    BY <2>1, <2>3
  <2>5. StepOK' /\ DeadOK' /\ ObsOK' /\ UnprovenOK'
    BY <2>1, <2>3
  <2> QED BY <2>1, <2>4, <2>5
<1>19. ASSUME NEW b \in BOOLEAN, StopFails(b) PROVE Goal
  BY <1>19 DEF StopFails
<1>20. QED
  BY <1>1, <1>2, <1>3, <1>4, <1>5, <1>6, <1>7, <1>8, <1>9, <1>10, <1>11, <1>12, <1>13, <1>14, <1>15, <1>16, <1>17, <1>18, <1>19 DEF Runner

\* The commit applies the Outcome's ending; it is the only step that takes an
\* unproven row to stopped, and it settles the question.
LEMMA CommitStep ==
  ASSUME IInv, Commit
  PROVE  IInv' /\ (state' # state => <<state, state'>> \in edgeList \cup {<<"deleting", "gone">>})
<1> USE DEF IInv
<1>1. /\ step' = "none" /\ fin' = NoFin /\ lock' = "free" /\ panel' = panel /\ obs' = obs
      /\ step = "finish" /\ (landed => landed')
      /\ unproven' = (unproven /\ ~(lock \in {"restore", "update"} /\ state' = "stopped"))
  BY DEF Commit, process, IInv
<1>2. state' = state \/ (Ending(lock, state, fin[2]) /\ state' = fin[2])
  BY DEF Commit, FinOK
<1>3. StepOK' /\ FinOK' /\ ObsOK'
  BY <1>1 DEF StepOK, FinOK, ObsOK
<1>4. DeadOK'
  BY <1>1 DEF DeadOK
<1>5. UnprovenOK'
  BY <1>1, <1>2 DEF UnprovenOK, UnprovenNotStarted, Ending
<1>6. state' # state => <<state, state'>> \in edgeList \cup {<<"deleting", "gone">>}
  BY <1>2 DEF Ending, edgeList
<1> QED BY <1>3, <1>4, <1>5, <1>6

\* Every other step: claims, the observer, an operator and the process.
LEMMA OtherStep ==
  ASSUME IInv, Next, ~Runner
  PROVE  IInv' /\ (state' # state => <<state, state'>> \in edgeList)
<1> DEFINE Goal == IInv' /\ (state' # state => <<state, state'>> \in edgeList)
<1> USE DEF IInv
<1>1. ASSUME NEW k \in Kind, Submit(k) PROVE Goal
  <2>1. PICK b \in State : Claims(k, state, b) /\ Dispatch(k, state, b)
    BY <1>1 DEF Submit
  <2>2. StepOK' /\ FinOK' /\ state' = b
    BY <2>1, DispatchStep
  <2>3. /\ panel = "up" /\ panel' = panel /\ obs' = obs /\ landed' = landed
        /\ unproven' = (k \in {"restore", "update"} \/ unproven) /\ ((k = "provision") <=> ~landed)
    BY <1>1 DEF Submit, process
  <2>4. DeadOK' /\ ObsOK'
    BY <2>3 DEF DeadOK, ObsOK
  <2>5. UnprovenOK'
    BY <2>1, <2>2, <2>3 DEF UnprovenOK, UnprovenNotStarted, Claims
  <2>6. state' # state => <<state, state'>> \in edgeList
    BY <2>1, <2>2 DEF Claims, edgeList
  <2> QED BY <2>2, <2>4, <2>5, <2>6
<1>2. CASE AfterFinish
  <2>1. /\ after /\ panel' = panel /\ obs' = obs /\ landed' = landed /\ unproven' = unproven
        /\ panel \notin {"down", "sweep"}
    BY <1>2 DEF AfterFinish, process, DeadOK
  <2>2. \/ Dispatch("start", "stopped", "starting")
        \/ UNCHANGED <<state, lock, step, fin>>
    BY <1>2 DEF AfterFinish
  <2>3. StepOK' /\ FinOK' /\ (state' = state \/ (state = "stopped" /\ state' = "starting"))
    BY <2>2, DispatchStep DEF StepOK, FinOK, Kind
  <2>4. DeadOK' /\ ObsOK' /\ UnprovenOK'
    BY <2>1, <2>3 DEF DeadOK, ObsOK, UnprovenOK, UnprovenNotStarted
  <2> QED BY <2>3, <2>4 DEF edgeList
<1>3. CASE ObsHeld \/ ObsRow
  BY <1>3 DEF ObsHeld, ObsRow, Look, EndPass, NextRead, NoPass, Pass, StepOK, FinOK, DeadOK, ObsOK,
       UnprovenOK, UnprovenNotStarted, ghosts, Observing
<1>4. CASE ObsSee
  <2>1. /\ UNCHANGED <<state, lock, step, fin, unproven, landed, after>>
        /\ panel \in {"up", "reconcile"} /\ panel' \notin {"down", "sweep"}
    BY <1>4 DEF ObsSee, Look, EndPass, NextRead, ghosts, Observing
  <2>2. ObsOK'
    BY <1>4 DEF ObsSee, EndPass, NextRead, NoPass, Pass, ObsOK, Observe, Rerun
  <2> QED BY <2>1, <2>2 DEF StepOK, FinOK, DeadOK, UnprovenOK, UnprovenNotStarted
<1>5. CASE ObsWrite
  <2>1. /\ UNCHANGED <<unproven, landed, after>> /\ obs' = NoPass
        /\ panel \in {"up", "reconcile"} /\ panel' \notin {"down", "sweep"}
    BY <1>5 DEF ObsWrite, Look, EndPass, Observing
  <2>2. \/ obs.rerun \in {"provision", "delete"} /\ Dispatch(obs.rerun, obs.row, obs.row)
        \/ UNCHANGED <<lock, step, fin>> /\ state = obs.row /\ state' = obs.to /\ <<obs.row, obs.to>> \in edgeList
        \/ UNCHANGED <<lock, step, fin, state>>
    BY <1>5 DEF ObsWrite, Cas, ObsOK
  <2>3. ObsOK' /\ DeadOK'
    BY <2>1 DEF ObsOK, DeadOK, NoPass, Pass
  <2>4. StepOK' /\ FinOK' /\ (state' = state \/ (state = obs.row /\ state' = obs.to /\ <<obs.row, obs.to>> \in edgeList))
    BY <2>2, DispatchStep DEF StepOK, FinOK, Kind
  <2>5. UnprovenOK'
    BY <2>1, <2>4 DEF UnprovenOK, UnprovenNotStarted, ObsOK, edgeList
  <2> QED BY <2>3, <2>4, <2>5
<1>6. CASE ProtectiveStop \/ Drain \/ Boot
  BY <1>6 DEF ProtectiveStop, Drain, Boot, StepOK, FinOK, DeadOK, ObsOK, UnprovenOK, UnprovenNotStarted,
       ghosts, job, process, NoPass, Pass
<1>7. CASE Acknowledge
  BY <1>7 DEF Acknowledge, StepOK, FinOK, DeadOK, ObsOK, UnprovenOK, UnprovenNotStarted, job, process, edgeList
<1>8. CASE Crash \/ Exit
  BY <1>8 DEF Crash, Exit, Gone, StepOK, FinOK, DeadOK, ObsOK, UnprovenOK, UnprovenNotStarted, ghosts, NoPass, Pass
<1>9. CASE Sweep
  BY <1>9 DEF Sweep, StepOK, FinOK, DeadOK, ObsOK, UnprovenOK, UnprovenNotStarted, ghosts
<1>10. CASE ResumeIntents
  <2>1. /\ panel' = "up" /\ obs' = obs /\ landed' = landed /\ unproven' = unproven
    BY <1>10 DEF ResumeIntents
  <2>2. \/ Dispatch("start", "stopped", "starting")
        \/ UNCHANGED <<state, lock, step, fin>>
    BY <1>10 DEF ResumeIntents
  <2>3. StepOK' /\ FinOK' /\ (state' = state \/ (state = "stopped" /\ state' = "starting"))
    BY <2>2, DispatchStep DEF StepOK, FinOK, Kind
  <2>4. DeadOK' /\ ObsOK' /\ UnprovenOK'
    BY <2>1, <2>3 DEF DeadOK, ObsOK, UnprovenOK, UnprovenNotStarted
  <2> QED BY <2>3, <2>4 DEF edgeList
<1>11. CASE Environment
  BY <1>11 DEF Environment, ServerExits, Removed, DockerStart, Misbehaves, EvidenceExpires, Outside,
       StepOK, FinOK, DeadOK, ObsOK, UnprovenOK, UnprovenNotStarted, ghosts, job, process
<1> QED
  BY <1>1, <1>2, <1>3, <1>4, <1>5, <1>6, <1>7, <1>8, <1>9, <1>10, <1>11 DEF Next, Observer, Restarting

\* The inductive invariant.
LEMMA Invariant == Spec => []IInv
<1>1. IInv /\ [Next]_vars => IInv'
  <2> SUFFICES ASSUME IInv, [Next]_vars PROVE IInv'
    OBVIOUS
  <2>1. CASE Commit
    BY <2>1, CommitStep
  <2>2. CASE Rollback
    BY <2>2 DEF Rollback, IInv, StepOK, FinOK, DeadOK, ObsOK, UnprovenOK, UnprovenNotStarted, ghosts, process
  <2>3. CASE Runner /\ ~Commit /\ ~Rollback
    BY <2>3, RunnerStep
  <2>4. CASE Next /\ ~Runner
    BY <2>4, OtherStep
  <2>5. CASE UNCHANGED vars
    BY <2>5 DEF vars, IInv, StepOK, FinOK, DeadOK, ObsOK, UnprovenOK, UnprovenNotStarted, ghosts, job, process
  <2> QED BY <2>1, <2>2, <2>3, <2>4, <2>5 DEF Next, Runner
<1> QED BY <1>1, InitInv, PTL DEF Spec

\* B7 for every bound: an interrupted or failed restore or update never leaves
\* its row startable before a human acknowledged it (Observe's restoring and
\* updating rows, finishToError, finishUpdateTo and acknowledge together).
THEOREM UnprovenIsNotStarted == Spec => []UnprovenNotStarted
<1>1. IInv => UnprovenNotStarted
  BY DEF IInv, UnprovenOK
<1> QED BY <1>1, Invariant, PTL

\* instances.state only moves along edgeList, whoever writes it and however the
\* claims, swaps, commits and observer passes interleave.
THEOREM RowMovesAreLegal == Spec => ValidEdges
<1>1. IInv /\ [Next]_vars =>
        [state' # state => <<state, state'>> \in edgeList \cup {<<"deleting", "gone">>}]_vars
  <2> SUFFICES ASSUME IInv, Next
               PROVE  state' # state => <<state, state'>> \in edgeList \cup {<<"deleting", "gone">>}
    BY DEF vars
  <2>1. CASE Commit
    BY <2>1, CommitStep
  <2>2. CASE Rollback
    BY <2>2 DEF Rollback
  <2>3. CASE Runner /\ ~Commit /\ ~Rollback
    BY <2>3, RunnerStep
  <2>4. CASE ~Runner
    BY <2>4, OtherStep
  <2> QED BY <2>1, <2>2, <2>3, <2>4 DEF Runner
<1> QED BY <1>1, Invariant, PTL DEF Spec, ValidEdges

-----------------------------------------------------------------------------
(* The observer and the lock. *)

\* A pass that has begun began under a free lock and has not lost it since.
PassUnlocked == obs.at # "idle" => lock = "free" /\ panel \in {"up", "reconcile"}

\* As long as no submission lands inside a pass, what HeldLockKeys read at its
\* top still holds at its write: only submissions, AfterFinish and the boot's
\* resumeIntents claim, and the boot runs no pass beside them.
LEMMA PassStep ==
  ASSUME "race" \notin Faults, PassUnlocked, [Next]_vars
  PROVE  PassUnlocked'
<1> USE DEF PassUnlocked
<1>1. ASSUME NEW k \in Kind, Submit(k) PROVE PassUnlocked'
  BY <1>1 DEF Submit
<1>2. CASE Runner /\ ~Commit /\ ~Rollback
  <2>1. obs' = obs /\ panel' = panel /\ lock' = lock
    BY <1>2 DEF Runner, Start, StartFails, Ready, NotReady, Stop, StopFails, RestartQueued, RestartGoesOn,
         Quiesce, EnterBackingUp, ConsistencyClaim, Archive, AbandonBackup, ReplaceDone, ReplaceFails,
         Remove, Checkpoint, Provision, Held, At, process
  <2> QED BY <2>1
<1>3. CASE Commit \/ Rollback
  BY <1>3 DEF Commit, Rollback, process
<1>4. CASE AfterFinish
  BY <1>4 DEF AfterFinish, process
<1>5. CASE Observer
  BY <1>5 DEF Observer, ObsHeld, ObsRow, ObsSee, ObsWrite, Look, Observing, EndPass, NextRead, NoPass, Pass
<1>6. CASE ProtectiveStop \/ Acknowledge \/ Drain \/ Crash
  BY <1>6 DEF ProtectiveStop, Acknowledge, Drain, Crash, Gone, job, process, NoPass, Pass
<1>7. CASE Restarting
  BY <1>7 DEF Restarting, Exit, Gone, Boot, Sweep, ResumeIntents, job, NoPass, Pass
<1>8. CASE Environment
  BY <1>8 DEF Environment, ServerExits, Removed, DockerStart, Misbehaves, EvidenceExpires, Outside, job, process
<1>9. CASE UNCHANGED vars
  BY <1>9 DEF vars, job, process
<1> QED BY <1>1, <1>2, <1>3, <1>4, <1>5, <1>6, <1>7, <1>8, <1>9 DEF Next, Runner

\* A pass that has begun holds a free lock, in every reachable state.
LEMMA PassesUnlocked ==
  ASSUME "race" \notin Faults
  PROVE  Spec => []PassUnlocked
<1>1. Init => PassUnlocked
  BY DEF Init, PassUnlocked, NoPass, Pass
<1>2. PassUnlocked /\ [Next]_vars => PassUnlocked'
  BY PassStep
<1> QED BY <1>1, <1>2, PTL DEF Spec

\* C14 for every bound: without a submission inside the pass the observer
\* never moves a row a job has claimed (Observer.pass, HeldLockKeys), through
\* crashes, drains, boots and failed writes.
THEOREM ObserverWaitsForLock ==
  ASSUME "race" \notin Faults
  PROVE  Spec => ObserverRespectsLock
<1>1. PassUnlocked /\ [Next]_vars =>
        [(obs.at = "write" /\ obs'.at = "idle" /\ panel' # "down" /\ panel' # "draining"
            /\ state' # state) => lock = "free"]_vars
  BY DEF PassUnlocked
<1> QED BY <1>1, PassesUnlocked, PTL DEF Spec, ObserverRespectsLock

-----------------------------------------------------------------------------
(* The promise of a quiesced backup. *)

\* The accidents after which the start is still owed and still comes: the
\* panel dies under a job, somebody starts the container, the server is killed.
Orderly == Faults \subseteq {"crash", "cli", "oom"}

\* Nothing is owed by a process that has not observed yet, and none drains.
GuardInv == panel # "draining" /\ (panel \in {"down", "sweep", "reconcile"} => ~owed)

\* Who holds the promise: the backup's Runner up to its commit,
BackingUp ==
  /\ panel = "up" /\ lock = "backup"
  /\ \/ step = "stop" /\ state = "stopping"
     \/ step \in {"quiesce", "unclean"} /\ state = "stopping" /\ cont # "up"
     \/ step = "enter" /\ state = "stopped" /\ cont # "up"
     \/ step \in {"check", "archive"} /\ state = "backing_up" /\ cont # "up"
     \/ /\ step = "finish" /\ resume /\ cont # "up"
        /\ \/ fin = NoFin /\ state = "stopped"
           \/ fin = <<"backing_up", "stopped", "strict">> /\ state = "backing_up"

\* its AfterFinish behind the commit, beside a pass that can only park the row,
AwaitingStart ==
  /\ panel = "up" /\ lock = "free" /\ step = "none" /\ after /\ state = "stopped"
  /\ obs.at \in {"see", "write"} => obs.row = "stopped"
  /\ obs.at = "write" => obs.to = "error" /\ obs.rerun = "none" /\ ~obs.park

\* the job row the dead process left behind,
MidBackup == {"stopping", "stopped", "backing_up"}
Interrupted == panel \in {"down", "sweep"} /\ lock = "backup" /\ state \in MidBackup

\* or the intent of the boot, before and after its reconciliation.
Reconciling ==
  /\ panel = "reconcile" /\ lock = "free" /\ step = "none" /\ intent /\ state \in MidBackup
  /\ obs.at \in {"see", "write"} => obs.row = state
  /\ obs.at = "write" => /\ obs.row # "stopped" /\ obs.rerun = "none" /\ ~obs.park
                         /\ \/ obs.to = "error" /\ obs.row = "stopping"
                            \/ obs.to = "stopped" /\ cont # "up"
Intending == panel = "intents" /\ lock = "free" /\ step = "none" /\ intent /\ state = "stopped"

Holder == BackingUp \/ AwaitingStart \/ Interrupted \/ Reconciling \/ Intending

PromiseInv == promised => Holder /\ (cont = "up" => state = "stopping")

\* The supervisor's obligations begin with its own passes.
LEMMA GuardStep ==
  ASSUME Orderly, GuardInv, [Next]_vars
  PROVE  GuardInv'
<1> USE DEF GuardInv
<1>1. ASSUME NEW k \in Kind, Submit(k) PROVE GuardInv'
  BY <1>1 DEF Submit, process, guard
<1>2. CASE Runner /\ ~Start /\ ~Remove
  <2>1. owed' = owed /\ panel' = panel
    BY <1>2 DEF Runner, StartFails, Ready, NotReady, Stop, StopFails, RestartQueued, RestartGoesOn,
       Quiesce, EnterBackingUp, ConsistencyClaim, Archive, AbandonBackup, ReplaceDone, ReplaceFails,
       Checkpoint, Provision, Held, Commit, Rollback, At, process, guard
  <2> QED BY <2>1
<1>3. CASE Start \/ Remove
  <2>1. panel' = panel /\ (~owed => ~owed')
    BY <1>3 DEF Start, Remove, At, process
  <2> QED BY <2>1
<1>4. CASE AfterFinish \/ ProtectiveStop \/ Acknowledge
  BY <1>4 DEF AfterFinish, ProtectiveStop, Acknowledge, process, guard
<1>5. CASE Observer
  <2>1. panel \in {"up", "reconcile"} /\ panel' \in {panel, "intents"} /\ (panel' = "reconcile" => ~ObsWrite)
    BY <1>5 DEF Observer, ObsHeld, ObsRow, ObsSee, ObsWrite, Look, Observing, EndPass, NextRead
  <2>2. ~ObsWrite => (owed' => owed)
    BY <1>5 DEF Observer, ObsHeld, ObsRow, ObsSee, guard
  <2> QED BY <2>1, <2>2
<1>6. CASE Drain
  BY <1>6 DEF Drain, Accident, Orderly
<1>7. CASE Crash \/ Restarting
  BY <1>7 DEF Crash, Restarting, Exit, Gone, Boot, Sweep, ResumeIntents, guard
<1>8. CASE Environment
  BY <1>8 DEF Environment, ServerExits, Removed, DockerStart, Misbehaves, EvidenceExpires, Outside, process
<1>9. CASE UNCHANGED vars
  BY <1>9 DEF vars, process, guard
<1> QED BY <1>1, <1>2, <1>3, <1>4, <1>5, <1>6, <1>7, <1>8, <1>9 DEF Next, Runner

\* A goroutine that runs while the promise stands is the backup's own.
LEMMA OwnRunner ==
  ASSUME IInv, PromiseInv, promised, step # "none"
  PROVE  BackingUp /\ (cont = "up" => step = "stop")
  BY DEF IInv, DeadOK, PromiseInv, Holder, BackingUp, AwaitingStart, Interrupted, Reconciling, Intending

\* The backup's Runner hands the promise on, whether it archives, finds the
\* server up, is cancelled or fails; a failed stop withdraws it.
LEMMA PromiseRunner ==
  ASSUME Orderly, IInv, PassUnlocked, PromiseInv, Runner
  PROVE  PromiseInv'
<1> SUFFICES ASSUME promised' PROVE Holder' /\ (cont' = "up" => state' = "stopping")
  BY DEF PromiseInv
<1>1. promised /\ step # "none"
  BY DEF Runner, Start, StartFails, Ready, NotReady, Stop, StopFails, RestartQueued, RestartGoesOn,
       Quiesce, EnterBackingUp, ConsistencyClaim, Archive, AbandonBackup, ReplaceDone, ReplaceFails,
       Remove, Checkpoint, Provision, Held, Commit, Rollback, At, ghosts
<1>2. BackingUp /\ (cont = "up" => step = "stop")
  BY <1>1, OwnRunner
<1>3. lock = "backup" /\ panel = "up" /\ step \in {"stop", "quiesce", "unclean", "enter", "check", "archive", "finish"}
  BY <1>2 DEF BackingUp
<1>4. step # "finish" => fin = NoFin
  BY DEF IInv, FinOK
<1>5. ~Start /\ ~StartFails /\ ~Ready /\ ~NotReady /\ ~RestartQueued /\ ~RestartGoesOn
      /\ ~ReplaceDone /\ ~ReplaceFails /\ ~Remove /\ ~Checkpoint /\ ~Provision /\ ~Held
  BY <1>3 DEF Start, StartFails, Ready, NotReady, RestartQueued, RestartGoesOn, ReplaceDone, ReplaceFails,
       Remove, Checkpoint, Provision, Held, At
<1>6. "db" \notin Faults /\ "inspect" \notin Faults
  BY DEF Orderly
<1>7. ASSUME NEW b \in BOOLEAN, Stop(b) PROVE BackingUp' /\ cont' # "up"
  BY <1>2, <1>3, <1>7 DEF Stop, At, Goto, BackingUp, process
<1>8. ASSUME NEW b \in BOOLEAN, StopFails(b) PROVE FALSE
  BY <1>8 DEF StopFails
<1>9. CASE Quiesce
  BY <1>2, <1>3, <1>4, <1>6, <1>9 DEF Quiesce, At, Goto, Return, Accident, Cas, BackingUp, Holder, process, server
<1>10. CASE EnterBackingUp
  BY <1>2, <1>3, <1>4, <1>6, <1>10 DEF EnterBackingUp, At, Goto, Return, Accident, Cas, BackingUp, Holder, process, server
<1>11. CASE ConsistencyClaim
  BY <1>2, <1>3, <1>4, <1>6, <1>11 DEF ConsistencyClaim, At, Goto, Return, Accident, BackingUp, Holder, process, server
<1>12. CASE Archive
  BY <1>2, <1>3, <1>12 DEF Archive, At, Return, BackingUp, Holder, process, server
<1>13. CASE AbandonBackup
  BY <1>2, <1>3, <1>6, <1>13 DEF AbandonBackup, At, Return, Accident, Cas, BackingUp, Holder, process, server
<1>14. CASE Commit
  <2>1. /\ step = "finish" /\ resume /\ cont # "up"
        /\ \/ fin = NoFin /\ state = "stopped"
           \/ fin = <<"backing_up", "stopped", "strict">> /\ state = "backing_up"
    BY <1>2, <1>14 DEF Commit, BackingUp
  <2>2. state' = "stopped"
    BY <2>1, <1>14 DEF Commit, NoFin
  <2>3. panel' = "up" /\ lock' = "free" /\ step' = "none" /\ after' /\ obs' = obs /\ cont' = cont
    BY <2>1, <1>3, <1>14 DEF Commit, process, server
  <2>4. obs.at = "idle"
    BY <1>3 DEF PassUnlocked
  <2> QED BY <2>1, <2>2, <2>3, <2>4 DEF AwaitingStart, Holder
<1>15. CASE Rollback
  BY <1>2, <1>3, <1>6, <1>15 DEF Rollback, Accident, BackingUp, NoFin
<1> QED BY <1>5, <1>7, <1>8, <1>9, <1>10, <1>11, <1>12, <1>13, <1>14, <1>15 DEF Runner, Holder

\* What the observer reads and writes while the promise stands: nothing under
\* the backup's lock, at most the park of an owed stop before the AfterFinish,
\* and at boot the way of the row to stopped, where the intent finds it.
LEMMA PromiseObserver ==
  ASSUME IInv, PassUnlocked, GuardInv, PromiseInv, Observer
  PROVE  PromiseInv'
<1> SUFFICES ASSUME promised' PROVE Holder' /\ (cont' = "up" => state' = "stopping")
  BY DEF PromiseInv
<1>1. promised /\ cont' = cont /\ after' = after /\ intent' = intent /\ panel \in {"up", "reconcile"}
  BY DEF Observer, ObsHeld, ObsRow, ObsSee, ObsWrite, Look, Observing, ghosts, server
<1>2. (cont = "up" => state = "stopping") /\ (BackingUp \/ AwaitingStart \/ Reconciling)
  BY <1>1 DEF PromiseInv, Holder, Interrupted, Intending
<1>3. CASE BackingUp
  <2>1. lock = "backup" /\ obs.at = "idle"
    BY <1>3 DEF BackingUp, PassUnlocked
  <2>2. ObsHeld /\ UNCHANGED <<state, cont, lock, step, fin, resume, panel>>
    BY <1>3, <2>1 DEF Observer, ObsHeld, ObsRow, ObsSee, ObsWrite, Look, EndPass, BackingUp, server
  <2> QED BY <1>2, <1>3, <2>2 DEF BackingUp, Holder
<1>4. CASE AwaitingStart
  <2>1. cont # "up" /\ panel = "up" /\ lock = "free" /\ state = "stopped"
    BY <1>2, <1>4 DEF AwaitingStart
  <2>2. CASE ObsHeld \/ ObsRow
    BY <1>1, <1>4, <2>1, <2>2 DEF AwaitingStart, Holder, ObsHeld, ObsRow, Look, EndPass, NextRead, NoPass, Pass
  <2>3. CASE ObsSee
    <3>1. obs.row = "stopped" /\ UNCHANGED <<state, lock, step>>
      BY <1>4, <2>3 DEF AwaitingStart, ObsSee, Look
    <3>2. Observe("stopped", cont, bad) = {"none"} /\ Rerun("stopped") = "none"
      BY <2>1 DEF Observe, Rerun
    <3>3. panel' = "up" /\ (obs' = NoPass \/ obs' = Pass("write", "stopped", "error", "none", FALSE))
      BY <2>1, <2>3, <3>1, <3>2 DEF ObsSee, EndPass, NextRead
    <3> QED BY <1>1, <1>4, <2>1, <3>1, <3>3 DEF AwaitingStart, Holder, NoPass, Pass
  <2>4. CASE ObsWrite
    <3>1. obs.row = "stopped" /\ obs.to = "error" /\ obs.rerun = "none" /\ ~obs.park
      BY <1>4, <2>4 DEF AwaitingStart, ObsWrite, Look
    <3>2. state' = "error" /\ promised' = (promised /\ state' # "error")
      BY <2>1, <2>4, <3>1 DEF ObsWrite, Cas, edgeList
    <3> QED BY <3>2
  <2> QED BY <2>2, <2>3, <2>4 DEF Observer
<1>5. CASE Reconciling
  <2>1. panel = "reconcile" /\ lock = "free" /\ step = "none" /\ intent /\ state \in MidBackup /\ ~owed
    BY <1>5 DEF Reconciling, GuardInv
  <2>2. CASE ObsHeld \/ ObsRow
    BY <1>1, <1>2, <1>5, <2>1, <2>2 DEF Reconciling, MidBackup, Holder, ObsHeld, ObsRow, Look, EndPass, NextRead, Pass
  <2>3. CASE ObsSee
    <3>1. obs.row = state /\ UNCHANGED <<state, lock, step>>
      BY <1>5, <2>3 DEF Reconciling, ObsSee, Look
    <3>2. \/ state = "stopped" /\ Observe(state, cont, bad) = {"none"}
          \/ state = "stopping" /\ Observe(state, cont, bad) = IF cont = "up" THEN {"error"} ELSE {"stopped"}
          \/ state = "backing_up" /\ Observe(state, cont, bad) = {"stopped"} /\ cont # "up"
      BY <1>2, <2>1 DEF MidBackup, Observe
    <3>3. Rerun(state) = "none"
      BY <2>1 DEF MidBackup, Rerun
    <3>4. \/ state = "stopped" /\ obs' = NoPass /\ panel' = "intents"
          \/ state = "stopping" /\ obs' = Pass("write", state, "error", "none", FALSE) /\ panel' = panel
          \/ /\ state # "stopped" /\ cont # "up" /\ panel' = panel
             /\ obs' = Pass("write", state, "stopped", "none", FALSE)
      BY <2>1, <2>3, <3>1, <3>2, <3>3 DEF ObsSee, EndPass, NextRead, MidBackup
    <3> QED BY <1>1, <1>2, <2>1, <3>1, <3>4 DEF Reconciling, Intending, Holder, NoPass, Pass
  <2>4. CASE ObsWrite
    <3>1. /\ obs.row = state /\ obs.row # "stopped" /\ obs.rerun = "none" /\ ~obs.park
          /\ \/ obs.to = "error" /\ obs.row = "stopping"
             \/ obs.to = "stopped" /\ cont # "up"
      BY <1>5, <2>4 DEF Reconciling, ObsWrite, Look
    <3>2. <<obs.row, obs.to>> \in edgeList
      BY <2>1, <3>1 DEF MidBackup, edgeList
    <3>3. state' = obs.to /\ UNCHANGED <<lock, step>> /\ panel' = "intents" /\ state' # "error"
      BY <1>1, <2>1, <2>4, <3>1, <3>2 DEF ObsWrite, Cas, EndPass
    <3> QED BY <1>1, <2>1, <3>1, <3>3 DEF Intending, Holder
  <2> QED BY <2>2, <2>3, <2>4 DEF Observer
<1> QED BY <1>2, <1>3, <1>4, <1>5

\* Claims, the process and Docker keep the promise held or settle it.
LEMMA PromiseOther ==
  ASSUME Orderly, IInv, PassUnlocked, GuardInv, PromiseInv, Next, ~Runner, ~Observer
  PROVE  PromiseInv'
<1> SUFFICES ASSUME promised' PROVE Holder' /\ (cont' = "up" => state' = "stopping")
  BY DEF PromiseInv
<1> DEFINE Goal == Holder' /\ (cont' = "up" => state' = "stopping")
<1>1. ASSUME NEW k \in Kind, Submit(k) PROVE Goal
  <2>1. k = "backup" /\ panel' = "up"
    BY <1>1 DEF Submit, process
  <2>2. PICK b \in State : Claims(k, state, b) /\ Dispatch(k, state, b)
    BY <1>1 DEF Submit
  <2>3. state' = "stopping" /\ lock' = "backup" /\ step' = "stop"
    BY <2>1, <2>2 DEF Claims, Dispatch, First
  <2> QED BY <2>1, <2>3 DEF BackingUp, Holder
<1>2. CASE AfterFinish
  <2>1. /\ ~(lock = "free" /\ state = "stopped")
        /\ UNCHANGED <<state, lock, step, fin, resume, cont, panel, intent, obs, promised>>
    BY <1>2 DEF AfterFinish, GuardInv, process, server
  <2>2. promised /\ after
    BY <1>2, <2>1 DEF AfterFinish
  <2>3. BackingUp \/ Reconciling
    BY <2>1, <2>2 DEF PromiseInv, Holder, AwaitingStart, Interrupted, Intending, IInv, DeadOK
  <2> QED BY <2>1, <2>2, <2>3 DEF PromiseInv, BackingUp, Reconciling, Holder
<1>3. CASE ProtectiveStop
  BY <1>3 DEF ProtectiveStop, ghosts, job, process, PromiseInv, Holder, BackingUp, AwaitingStart, Interrupted,
       Reconciling, Intending
<1>4. CASE Acknowledge
  BY <1>4 DEF Acknowledge, PromiseInv, Holder, BackingUp, AwaitingStart, Interrupted, Reconciling, Intending, MidBackup
<1>5. CASE Drain
  BY <1>5 DEF Drain, Accident, Orderly
<1>6. CASE Crash
  <2>1. promised /\ UNCHANGED <<state, lock, cont>> /\ panel' = "down"
    BY <1>6 DEF Crash, Gone, ghosts, server
  <2>2. ~after /\ panel \notin {"reconcile", "intents"}
    BY <1>6 DEF Crash, Accident, Orderly
  <2>3. BackingUp \/ Interrupted
    BY <2>1, <2>2 DEF PromiseInv, Holder, AwaitingStart, Reconciling, Intending
  <2> QED BY <2>1, <2>3 DEF PromiseInv, BackingUp, Interrupted, MidBackup, Holder
<1>7. CASE Exit
  BY <1>7 DEF Exit, GuardInv
<1>8. CASE Boot
  BY <1>8 DEF Boot, ghosts, job, server, PromiseInv, Holder, BackingUp, AwaitingStart, Interrupted, Reconciling, Intending
<1>9. CASE Sweep
  <2>1. panel = "sweep" /\ promised /\ UNCHANGED <<state, cont, obs, step>> /\ panel' = "reconcile" /\ lock' = "free"
        /\ intent' = (lock = "backup")
    BY <1>9 DEF Sweep, ghosts, server
  <2>2. lock = "backup" /\ state \in MidBackup
    BY <2>1 DEF PromiseInv, Holder, BackingUp, AwaitingStart, Interrupted, Reconciling, Intending
  <2>3. step = "none" /\ obs.at = "idle"
    BY <2>1 DEF IInv, DeadOK, PassUnlocked
  <2> QED BY <2>1, <2>2, <2>3 DEF PromiseInv, Reconciling, Holder
<1>10. CASE ResumeIntents
  BY <1>10 DEF ResumeIntents, PromiseInv, Holder, BackingUp, AwaitingStart, Interrupted, Reconciling, Intending
<1>11. CASE Environment
  <2>1. /\ promised /\ UNCHANGED <<state, lock, step, fin, resume, after, panel, intent, obs>>
        /\ cont' = "up" => cont = "up"
    BY <1>11 DEF Environment, ServerExits, Removed, DockerStart, Misbehaves, EvidenceExpires, Outside, job, process, ghosts
  <2> QED BY <2>1 DEF PromiseInv, Holder, BackingUp, AwaitingStart, Interrupted, Reconciling, Intending
<1> QED BY <1>1, <1>2, <1>3, <1>4, <1>5, <1>6, <1>7, <1>8, <1>9, <1>10, <1>11 DEF Next, Restarting

\* A server a quiesced backup stopped is started again, whatever interleaving
\* of the Runner, the observer, a crash of the panel and its boot follows
\* (quiesce, resumeAfterBackup, Sweep, resumeIntents), for every bound.
THEOREM RestartIsKept ==
  ASSUME Orderly
  PROVE  Spec => []RestartKept
<1> DEFINE Inv == GuardInv /\ PromiseInv
<1>1. "race" \notin Faults
  BY DEF Orderly
<1>2. Init => Inv
  BY DEF Init, GuardInv, PromiseInv
<1>3. IInv /\ PassUnlocked /\ Inv /\ [Next]_vars => Inv'
  <2> SUFFICES ASSUME IInv, PassUnlocked, Inv, [Next]_vars PROVE PromiseInv'
    BY GuardStep
  <2>1. CASE UNCHANGED vars
    BY <2>1 DEF vars, ghosts, job, process, server, PromiseInv, Holder, BackingUp, AwaitingStart, Interrupted,
         Reconciling, Intending
  <2> QED BY <2>1, PromiseRunner, PromiseObserver, PromiseOther
<1>4. IInv /\ Inv => RestartKept
  BY DEF PromiseInv, Holder, BackingUp, AwaitingStart, Interrupted, Reconciling, Intending, RestartKept
<1>5. Spec => []PassUnlocked
  BY <1>1, PassesUnlocked
<1> QED BY <1>2, <1>3, <1>4, <1>5, Invariant, PTL DEF Spec

=============================================================================
