---------------------------- MODULE JobSequences ----------------------------
(***************************************************************************)
(* Sequences of jobs over one server (internal/instance/control): the      *)
(* definition operation that builds a new server step by step, the chains  *)
(* of a schedule or a world tool, the queue of mod installs that waits for *)
(* a stop, and the auto-stop clock.  They meet at the instance lock, which *)
(* one job holds, and at the state of the server.                          *)
(***************************************************************************)
EXTENDS Naturals, Sequences, FiniteSets

CONSTANTS
  Definitions,  \* plans of an operation: sequences of <<kind, ref>>
  ChainPlans,   \* plans of a chain: [from, steps], a step <<type, must>>
  Packages,     \* mods that can be queued
  Offered,      \* those of Packages an update is offered for
  Askers,       \* users who may queue mods
  Resumers,     \* concurrent requests to resume an operation, numbers
  MaxAsked,     \* requests of users and schedules (bound)
  MaxDeaths     \* deaths of the panel (bound)

ASSUME SequencesAssumption ==
  /\ Offered \subseteq Packages /\ Resumers \subseteq Nat
  /\ \A d \in Definitions : Len(d) \in Nat \ {0} /\ d[1] = <<"provision", "">>
  /\ MaxAsked \in Nat /\ MaxDeaths \in Nat

MaxChainSteps == 20
ChainJobs == {"backup", "stop", "start", "restart", "game_update"}
StepTypes == ChainJobs \cup {"command", "wait", "ready", "empty"}

(* What ValidateSteps accepts; "ready" and "empty" are the two conditions  *)
(* of wait_for, and must marks a command that may not be skipped.          *)
ValidateSteps(steps) ==
  /\ Len(steps) \in 1..MaxChainSteps
  /\ \A n \in 1..Len(steps) : steps[n] \in StepTypes \X BOOLEAN

ASSUME ChainPlansAssumption == \A p \in ChainPlans : ValidateSteps(p.steps)

(* The chain of a world tool: a snapshot if there is a world, then the     *)
(* command on a server started for it.                                     *)
WorldToolSteps(snapshot) ==
  [from |-> "stopped",
   steps |-> (IF snapshot THEN <<<<"backup", FALSE>>>> ELSE <<>>)
             \o <<<<"start", FALSE>>, <<"ready", FALSE>>, <<"command", TRUE>>>>]

VARIABLES
  host,   \* instances row: state, and whether it has a container
  built,    \* (history) the steps whose effect the server has
  task,     \* the job that holds the instance lock
  followUps,    \* AfterFinish of the last job: subset of {"advance", "resume"}
  op,       \* instance_operations row: state, cursor and steps
  advancing,\* the step Advance has read and is about to submit, 0 if none
  resumes,  \* resume requests: what each has read
  chain,    \* the job that holds the chain lock
  line,     \* queued_mod_installs, oldest first
  owesStart,\* queued_mod_starts
  drain,    \* the supervisor's Drain: the entries it works on
  allowed,  \* users who may manage mods
  crowd,    \* connected players: unknown, some or none
  idleFor,  \* idleClock of the server: none, counting or over
  cutSoon,  \* a power cut falls within the quiet lead
  asked, deaths

sequenceVars == <<host, built, task, followUps, op, advancing, resumes, chain, line, owesStart,
                  drain,
                  allowed, crowd, idleFor, cutSoon, asked, deaths>>

NoTask == [kind |-> "none", ref |-> "", by |-> ""]
NoResume == [at |-> 0, was |-> "", marked |-> FALSE]
NoChain == [plan |-> [from |-> "", steps |-> <<>>], at |-> 0, phase |-> "none", was |-> "", cancel |-> FALSE]
NoDrain == [entries |-> {}, submitted |-> FALSE]

(* A server just created and waiting for its install, or one that has been *)
(* defined before.                                                         *)
SequencesInit ==
  /\ \E d \in Definitions :
       \/ /\ op = [state |-> "running", at |-> 1, steps |-> d] /\ built = {}
          /\ host = [state |-> "provisioning", container |-> FALSE]
          /\ task = [kind |-> "provision", ref |-> "", by |-> "operation"]
       \/ /\ op = [state |-> "completed", at |-> Len(d) + 1, steps |-> d]
          /\ built = {d[n] : n \in 1..Len(d)}
          /\ host = [state |-> "running", container |-> TRUE]
          /\ task = NoTask
  /\ followUps = {} /\ advancing = 0 /\ resumes = [r \in Resumers |-> NoResume]
  /\ chain = NoChain /\ line = <<>> /\ owesStart = FALSE /\ drain = NoDrain
  /\ allowed = Askers /\ crowd = "unknown" /\ idleFor = "none" /\ cutSoon = FALSE
  /\ asked = 0 /\ deaths = 0

----------------------------------------------------------------------------
(* Submissions claim the instance lock and move the state.                 *)

(* The states a job of each kind is admitted from (transitionClaim and the *)
(* other OnClaim callbacks).                                               *)
ClaimedFrom(kind) ==
  CASE kind = "provision" -> {"error"}
    [] kind \in {"start", "game_update", "mod_install", "config_apply"} -> {"stopped"}
    [] kind \in {"stop", "restart"} -> {"running"}
    [] kind = "backup" -> {"running", "stopped"}

ClaimedAs(kind) ==
  CASE kind = "provision" -> "provisioning"
    [] kind = "start" -> "starting"
    [] kind \in {"stop", "restart"} -> "stopping"
    [] kind = "game_update" -> "updating"
    [] kind = "backup" -> IF host.state = "running" THEN "stopping" ELSE "stopped"
    [] OTHER -> "stopped"

Admissible(kind) ==
  /\ task = NoTask /\ host.state \in ClaimedFrom(kind)
  /\ kind \in {"start", "stop", "restart"} => host.container

Take(kind, ref, by) ==
  /\ task' = [kind |-> kind, ref |-> ref, by |-> by]
  /\ host' = [host EXCEPT !.state = ClaimedAs(kind)]

----------------------------------------------------------------------------
(* The definition operation.                                               *)

OpenOperation == op.state \in {"running", "interrupted"}
OperationSettled == ~OpenOperation

(* OnJobFinished in the finish transaction of a job, matching its kind and *)
(* its ref with the outstanding step; a mutant matches the kind alone.     *)
OnJobFinishedAnyRef(kind, ref, ok) ==
  op' = IF OpenOperation /\ op.at <= Len(op.steps) /\ op.steps[op.at][1] = kind
        THEN IF ok THEN [op EXCEPT !.at = @ + 1,
                                   !.state = IF op.at = Len(op.steps) THEN "completed" ELSE "running"]
                   ELSE [op EXCEPT !.state = "interrupted"]
        ELSE op

OnOperationJobFinished(kind, ref, ok) ==
  op' = IF OpenOperation /\ op.at <= Len(op.steps) /\ op.steps[op.at] = <<kind, ref>>
        THEN IF ok THEN [op EXCEPT !.at = @ + 1,
                                   !.state = IF op.at = Len(op.steps) THEN "completed" ELSE "running"]
                   ELSE [op EXCEPT !.state = "interrupted"]
        ELSE op

(* Advance, the AfterFinish of provision, mod_install and config_apply: it *)
(* reads the row, then submits the step it read.  A refused submission is  *)
(* logged and the row stays "running".                                     *)
AdvanceReads ==
  /\ "advance" \in followUps /\ followUps' = followUps \ {"advance"}
  /\ advancing' = IF op.state = "running" /\ op.at <= Len(op.steps) THEN op.at ELSE 0
  /\ UNCHANGED <<host, built, task, op, resumes, chain, line, owesStart, drain, allowed, crowd,
                 idleFor, cutSoon, asked, deaths>>

SubmitOperationStep(n) == Take(op.steps[n][1], op.steps[n][2], "operation")

Advance ==
  /\ advancing # 0 /\ advancing' = 0
  /\ IF Admissible(op.steps[advancing][1]) THEN SubmitOperationStep(advancing)
                                           ELSE UNCHANGED <<task, host>>
  /\ UNCHANGED <<built, followUps, op, resumes, chain, line, owesStart, drain, allowed, crowd,
                 idleFor,
                 cutSoon, asked, deaths>>

(* resumeOperation: read the instance and the row, mark it running, submit *)
(* the step that was read, and mark it interrupted again if that fails.    *)
(* Requests are alike: a new one takes the lowest free number.             *)
ResumeReads(r) ==
  /\ resumes[r] = NoResume /\ (\A x \in Resumers : x < r => resumes[x] # NoResume)
  /\ asked < MaxAsked /\ asked' = asked + 1
  /\ OpenOperation /\ op.at <= Len(op.steps)
  /\ op.steps[op.at][1] = "provision" => host.state = "error"
  /\ resumes' = [resumes EXCEPT ![r] = [at |-> op.at, was |-> op.state, marked |-> FALSE]]
  /\ UNCHANGED <<host, built, task, followUps, op, advancing, chain, line, owesStart, drain,
                 allowed,
                 crowd, idleFor, cutSoon, deaths>>

(* SetOperationState moves an open operation only.                         *)
SetOperationState(to) == op' = IF OpenOperation THEN [op EXCEPT !.state = to] ELSE op

ResumeMarks(r) ==
  /\ resumes[r].at # 0 /\ ~resumes[r].marked
  /\ resumes' = [resumes EXCEPT ![r].marked = TRUE]
  /\ IF resumes[r].was = "interrupted" THEN SetOperationState("running") ELSE UNCHANGED op
  /\ UNCHANGED <<host, built, task, followUps, advancing, chain, line, owesStart, drain, allowed,
                 crowd,
                 idleFor, cutSoon, asked, deaths>>

ResumeSubmits(r) ==
  /\ resumes[r].marked /\ resumes' = [resumes EXCEPT ![r] = NoResume]
  /\ IF Admissible(op.steps[resumes[r].at][1])
     THEN SubmitOperationStep(resumes[r].at) /\ UNCHANGED op
     ELSE /\ IF resumes[r].was = "interrupted" THEN SetOperationState("interrupted") ELSE UNCHANGED op
          /\ UNCHANGED <<task, host>>
  /\ UNCHANGED <<built, followUps, advancing, chain, line, owesStart, drain, allowed, crowd,
                 idleFor,
                 cutSoon, asked, deaths>>

(* abandonOperation: refused while the install is the outstanding step.    *)
AbandonOperation ==
  /\ asked < MaxAsked /\ asked' = asked + 1
  /\ OpenOperation /\ op.at <= Len(op.steps) /\ op.steps[op.at][1] # "provision"
  /\ SetOperationState("abandoned")
  /\ UNCHANGED <<host, built, task, followUps, advancing, resumes, chain, line, owesStart, drain,
                 allowed, crowd, idleFor, cutSoon, deaths>>

----------------------------------------------------------------------------
(* The job that holds the instance lock finishes.                          *)

(* Where the finish transaction leaves the state.  A restart that finds    *)
(* queued installs stops instead, and owes the start (stopForQueue).       *)
FinishedAs(kind, ok) ==
  CASE kind = "provision" -> IF ok THEN {"stopped"} ELSE {"error"}
    [] kind \in {"start", "restart"} -> IF ok THEN {"running"} ELSE {"error"}
    [] kind = "stop" -> IF ok THEN {"stopped"} ELSE {"error"}
    [] kind = "backup" /\ host.state = "stopping" -> IF ok THEN {"stopped"} ELSE {"stopped", "error"}
    [] kind = "game_update" -> IF ok THEN {"stopped"} ELSE {"stopped", "error"}
    [] OTHER -> {"stopped"}

StopsForQueue(ok) == ok /\ task.kind = "restart" /\ line # <<>>

FinishTask(ok) ==
  /\ task # NoTask /\ task' = NoTask
  /\ \E s \in FinishedAs(task.kind, ok) :
       /\ host' = [state |-> IF StopsForQueue(ok) THEN "stopped" ELSE s,
                     container |-> host.container \/ (task.kind = "provision" /\ ok)]
       /\ followUps' = followUps
            \cup (IF ok /\ task.by = "operation" /\ task.kind # "start" THEN {"advance"} ELSE {})
            \cup (IF task.kind = "backup" /\ host.state = "stopping" /\ s = "stopped"
                  THEN {"resume"} ELSE {})
  /\ owesStart' = (owesStart \/ StopsForQueue(ok))
  /\ OnOperationJobFinished(task.kind, task.ref, ok)
  /\ built' = IF ok THEN built \cup {<<task.kind, task.ref>>} ELSE built
  /\ chain' = IF task.by = "chain" THEN [chain EXCEPT !.phase = IF ok THEN "child ok" ELSE "child failed"]
                              ELSE chain
  /\ UNCHANGED <<advancing, resumes, line, drain, allowed, crowd, idleFor, cutSoon, asked, deaths>>

(* resumeAfterBackup: the start that follows a backup of a running server. *)
ResumeAfterBackup ==
  /\ "resume" \in followUps /\ followUps' = followUps \ {"resume"}
  /\ IF Admissible("start") THEN Take("start", "", "") ELSE UNCHANGED <<task, host>>
  /\ UNCHANGED <<built, op, advancing, resumes, chain, line, owesStart, drain, allowed, crowd,
                 idleFor,
                 cutSoon, asked, deaths>>

----------------------------------------------------------------------------
(* Users and the supervisor: start (refused while an operation is open),   *)
(* stop and restart, and the auto-stop.                                    *)
Act(kind) ==
  /\ kind \in {"start", "stop", "restart"} /\ asked < MaxAsked /\ asked' = asked + 1
  /\ kind = "start" => OperationSettled
  /\ Admissible(kind) /\ Take(kind, "", "")
  /\ UNCHANGED <<built, followUps, op, advancing, resumes, chain, line, owesStart, drain, allowed,
                 crowd,
                 idleFor, cutSoon, deaths>>

(* autoStop on the observer's tick.  The clock restarts unless the server  *)
(* runs with nobody on it; a submission that meets a job keeps it.         *)
AutoStop ==
  /\ IF host.state # "running" \/ ~host.container \/ crowd # "none"
     THEN idleFor # "none" /\ idleFor' = "none" /\ UNCHANGED <<task, host>>
     ELSE \/ idleFor = "none" /\ idleFor' = "counting" /\ UNCHANGED <<task, host>>
          \/ /\ idleFor = "over" /\ task = NoTask
             /\ idleFor' = "none" /\ Take("stop", "", "")
  /\ UNCHANGED <<built, followUps, op, advancing, resumes, chain, line, owesStart, drain, allowed,
                 crowd,
                 cutSoon, asked, deaths>>

----------------------------------------------------------------------------
(* Chains.  The chain holds a lock of its own; its steps are child jobs    *)
(* under the instance lock, commands and waits.                            *)
Step == chain.plan.steps[chain.at]
Running == host.state = "running"
Goes == chain' = IF chain.at = Len(chain.plan.steps) THEN NoChain
                 ELSE [chain EXCEPT !.at = @ + 1, !.phase = "step"]
Ends == chain' = NoChain
ChainOnly == UNCHANGED <<built, followUps, op, advancing, resumes, line, owesStart, drain, allowed,
                         crowd,
                         idleFor, cutSoon, deaths>>
ChainAlone == ChainOnly /\ UNCHANGED <<host, task, asked>>

(* Submit: a game update of a modded server must be confirmed, and a chain *)
(* cannot confirm it.                                                      *)
Modded == \E m \in Packages : <<"mod_install", m>> \in built
ChainSubmit(plan) ==
  /\ chain = NoChain /\ asked < MaxAsked /\ asked' = asked + 1
  /\ Modded => \A n \in 1..Len(plan.steps) : plan.steps[n][1] # "game_update"
  /\ chain' = [plan |-> plan, at |-> 1, phase |-> "begin", was |-> "", cancel |-> FALSE]
  /\ ChainOnly /\ UNCHANGED <<host, task>>

ChainCancel ==
  /\ chain # NoChain /\ ~chain.cancel /\ asked < MaxAsked /\ asked' = asked + 1
  /\ chain' = [chain EXCEPT !.cancel = TRUE]
  /\ ChainOnly /\ UNCHANGED <<host, task>>

(* requireState.                                                           *)
ChainBegins ==
  /\ chain.phase = "begin"
  /\ IF chain.plan.from \in {"", host.state} THEN chain' = [chain EXCEPT !.phase = "step"] ELSE Ends
  /\ ChainAlone

(* Run, before each step, and the waits that answer a cancel.              *)
ChainCancelled ==
  /\ chain.cancel /\ chain.phase \in {"step", "ready", "empty", "settle", "child"}
  /\ Ends
  /\ task' = IF chain.phase = "child" /\ task.by = "chain" THEN [task EXCEPT !.by = ""] ELSE task
  /\ ChainOnly /\ UNCHANGED <<host, asked>>

AtStep(type) == chain.phase = "step" /\ ~chain.cancel /\ Step[1] = type

ChainSleep == AtStep("wait") /\ Goes /\ ChainAlone

(* sendCommand and skipOrFail: a server that is not running or has no RCON *)
(* skips the step unless it must be sent.  One that does not answer in the *)
(* window fails it.                                                        *)
SendCommand ==
  /\ AtStep("command")
  /\ \/ Running /\ (Goes \/ Ends)
     \/ IF Step[2] THEN Ends ELSE Goes
  /\ ChainAlone

(* waitFor: skipped unless the server runs.                                *)
WaitFor(type) ==
  /\ AtStep(type)
  /\ IF Running /\ host.container THEN chain' = [chain EXCEPT !.phase = type] ELSE Goes
  /\ ChainAlone

(* waitReady goes on when the log says ready or the limit passes, and      *)
(* fails when the container is gone.  waitEmpty fails once the server      *)
(* leaves running.                                                         *)
WaitReady == chain.phase = "ready" /\ (Goes \/ (~Running /\ Ends)) /\ ChainAlone
WaitEmpty ==
  /\ chain.phase = "empty"
  /\ \/ ~Running /\ Ends
     \/ Running /\ crowd = "none" /\ Goes
  /\ ChainAlone

(* The job of a step (SubmitStep, submitStop, submitStart, submitRestart,  *)
(* submitGameUpdate): nothing to do when the state is already there.       *)
Satisfied(kind) == (kind = "stop" /\ host.state = "stopped") \/ (kind = "start" /\ Running)
ChainChild ==
  \E kind \in ChainJobs :
    /\ AtStep(kind)
    /\ \/ Satisfied(kind) /\ Goes /\ UNCHANGED <<task, host>>
       \/ /\ ~Satisfied(kind) /\ Admissible(kind) /\ (kind = "game_update" => ~Modded)
          /\ Take(kind, "", "chain")
          /\ chain' = [chain EXCEPT !.phase = "child", !.was = host.state]
       \/ /\ ~Satisfied(kind) /\ ~(Admissible(kind) /\ (kind = "game_update" => ~Modded))
          /\ Ends /\ UNCHANGED <<task, host>>
    /\ ChainOnly /\ UNCHANGED asked

(* waitChild; a backup of a running server is over when it runs again.     *)
ChainChildEnds ==
  /\ \/ chain.phase = "child failed" /\ Ends
     \/ /\ chain.phase = "child ok"
        /\ IF Step[1] = "backup" /\ chain.was = "running" THEN chain' = [chain EXCEPT !.phase = "settle"]
           ELSE Goes
  /\ ChainAlone

\* A wrong version: the wait has no deadline.
AwaitStateForever ==
  /\ chain.phase = "settle"
  /\ \/ Running /\ Goes
     \/ host.state = "error" /\ Ends
  /\ ChainAlone

(* awaitState until the settle deadline, and waitEmpty until its limit.    *)
AwaitState ==
  /\ chain.phase = "settle"
  /\ \/ Running /\ Goes
     \/ host.state = "error" /\ Ends
     \/ ~Running /\ Ends
  /\ ChainAlone
LimitPasses == chain.phase = "empty" /\ Goes /\ ChainAlone

----------------------------------------------------------------------------
(* The mod queue.                                                          *)
Entry == [mod : Packages, by : Askers]
InLine(m) == {n \in 1..Len(line) : line[n].mod = m}

(* One row per package, a later request takes its place.                   *)
Queued(e) == IF InLine(e.mod) = {} THEN Append(line, e)
             ELSE [n \in 1..Len(line) |-> IF line[n].mod = e.mod THEN e ELSE line[n]]

MayInstall(u) == u \in allowed

QueueModInstall(e) ==
  /\ asked < MaxAsked /\ asked' = asked + 1 /\ MayInstall(e.by)
  /\ line' = Queued(e)
  /\ UNCHANGED <<host, built, task, followUps, op, advancing, resumes, chain, owesStart, drain,
                 allowed,
                 crowd, idleFor, cutSoon, deaths>>

(* UnqueueModInstalls deletes by name.                                     *)
Unqueued(names) == SelectSeq(line, LAMBDA e : e.mod \notin names)

UnqueueModInstall(m) ==
  /\ asked < MaxAsked /\ asked' = asked + 1 /\ InLine(m) # {}
  /\ line' = Unqueued({m})
  /\ UNCHANGED <<host, built, task, followUps, op, advancing, resumes, chain, owesStart, drain,
                 allowed,
                 crowd, idleFor, cutSoon, deaths>>

(* updateBatch: the offered updates of the head's requester, if the head   *)
(* is one and there are two; else the head alone.                          *)
UpdateBatch ==
  LET mine == {n \in 1..Len(line) : line[n].by = line[1].by /\ line[n].mod \in Offered}
  IN IF 1 \in mine /\ Cardinality(mine) >= 2 THEN {line[n] : n \in mine} ELSE {line[1]}

(* InstancesWithModQueue: an install is queued or a start is owed.         *)
Drains == drain = NoDrain /\ (line # <<>> \/ owesStart)
DrainOnly == UNCHANGED <<built, followUps, op, advancing, resumes, chain, allowed, crowd, idleFor,
                         cutSoon, asked, deaths>>

(* step on a server that runs again: the owed start has been overtaken.    *)
ClearQueuedModStart ==
  /\ Drains /\ owesStart /\ host.state \in {"running", "starting"}
  /\ owesStart' = FALSE
  /\ DrainOnly /\ UNCHANGED <<host, task, line, drain>>

DrainReady == Drains /\ host.state = "stopped" /\ OperationSettled /\ ~cutSoon

(* installNext and installUpdates read the queue and the requester's       *)
(* permission, submit, and delete the rows.  What may no longer be asked   *)
(* for is dropped.                                                         *)
DrainReads ==
  /\ DrainReady /\ line # <<>>
  /\ IF MayInstall(line[1].by)
     THEN drain' = [entries |-> UpdateBatch, submitted |-> FALSE] /\ UNCHANGED line
     ELSE line' = Unqueued({line[1].mod}) /\ UNCHANGED drain
  /\ DrainOnly /\ UNCHANGED <<host, task, owesStart>>

DrainSubmits ==
  /\ drain # NoDrain /\ ~drain.submitted
  /\ IF Admissible("mod_install")
     THEN /\ \E e \in drain.entries :
               Take("mod_install", IF Cardinality(drain.entries) = 1 THEN e.mod ELSE "", "")
          /\ drain' = [drain EXCEPT !.submitted = TRUE]
     ELSE drain' = NoDrain /\ UNCHANGED <<task, host>>
  /\ DrainOnly /\ UNCHANGED <<line, owesStart>>

DrainUnqueues ==
  /\ drain.submitted /\ drain' = NoDrain
  /\ line' = Unqueued({e.mod : e \in drain.entries})
  /\ DrainOnly /\ UNCHANGED <<host, task, owesStart>>

(* startOwed: a busy lock leaves the start owed; a server without a        *)
(* container is not started.                                               *)
StartOwed ==
  /\ DrainReady /\ line = <<>> /\ (host.container => task = NoTask)
  /\ owesStart /\ owesStart' = FALSE
  /\ IF host.container THEN Take("start", "", "") ELSE UNCHANGED <<task, host>>
  /\ DrainOnly /\ UNCHANGED <<line, drain>>

----------------------------------------------------------------------------
(* The world around: players come and go, time passes, permissions change, *)
(* the game dies, the panel dies.                                          *)
Around ==
  /\ \/ /\ asked < MaxAsked /\ asked' = asked + 1
        /\ \/ \E u \in allowed : allowed' = allowed \ {u} /\ UNCHANGED <<crowd, cutSoon>>
           \/ cutSoon' = TRUE /\ UNCHANGED <<allowed, crowd>>
           \/ crowd' \in {"some", "none"} \ {crowd} /\ UNCHANGED <<allowed, cutSoon>>
        /\ UNCHANGED idleFor
     \/ idleFor = "counting" /\ idleFor' = "over" /\ UNCHANGED <<allowed, crowd, cutSoon, asked>>
  /\ UNCHANGED <<host, built, task, followUps, op, advancing, resumes, chain, line, owesStart,
                 drain, deaths>>

CutPasses ==
  /\ cutSoon /\ cutSoon' = FALSE
  /\ UNCHANGED <<host, built, task, followUps, op, advancing, resumes, chain, line, owesStart,
                 drain,
                 allowed, crowd, idleFor, asked, deaths>>

(* A dead panel's jobs are swept without the finish hooks, the observer    *)
(* settles what the job left half done, a provision is submitted again,    *)
(* and InterruptIdleOperations marks the operations no job works on.       *)
InterruptIdleOperations(busy) ==
  op' = IF op.state = "running" /\ ~busy THEN [op EXCEPT !.state = "interrupted"] ELSE op

PanelRestarts ==
  /\ deaths < MaxDeaths /\ deaths' = deaths + 1
  /\ IF host.state = "provisioning"
     THEN /\ task' = [kind |-> "provision", ref |-> "", by |-> "operation"]
          /\ UNCHANGED host /\ InterruptIdleOperations(TRUE)
     ELSE /\ task' = NoTask /\ InterruptIdleOperations(FALSE)
          /\ \E s \in IF host.state \in {"starting", "stopping", "updating"}
                      THEN {"stopped", "running", "error"} ELSE {host.state} :
               host' = [host EXCEPT !.state = s]
  /\ followUps' = {} /\ advancing' = 0 /\ resumes' = [r \in Resumers |-> NoResume]
  /\ chain' = NoChain /\ drain' = NoDrain /\ idleFor' = "none" /\ crowd' = "unknown"
  /\ UNCHANGED <<built, line, owesStart, allowed, cutSoon, asked>>

----------------------------------------------------------------------------
ChainWork ==
  \/ ChainBegins \/ ChainCancelled \/ ChainSleep \/ SendCommand
  \/ WaitFor("ready") \/ WaitFor("empty") \/ WaitReady \/ WaitEmpty \/ LimitPasses
  \/ ChainChild \/ ChainChildEnds \/ AwaitState

DrainWork == ClearQueuedModStart \/ DrainReads \/ DrainSubmits \/ DrainUnqueues \/ StartOwed

SequencesNext ==
  \/ \E ok \in BOOLEAN : FinishTask(ok)
  \/ AdvanceReads \/ Advance \/ ResumeAfterBackup
  \/ \E r \in Resumers : ResumeReads(r) \/ ResumeMarks(r) \/ ResumeSubmits(r)
  \/ AbandonOperation
  \/ \E k \in {"start", "stop", "restart"} : Act(k)
  \/ AutoStop
  \/ \E p \in ChainPlans : ChainSubmit(p)
  \/ ChainCancel \/ ChainWork
  \/ \E e \in Entry : QueueModInstall(e)
  \/ \E m \in Packages : UnqueueModInstall(m)
  \/ DrainWork \/ Around \/ CutPasses \/ PanelRestarts

(* Every admitted job ends, its callbacks run, the chain's goroutine and   *)
(* the supervisor's loop go on, and a power cut passes.                    *)
SequencesFairness ==
  /\ WF_sequenceVars(\E ok \in BOOLEAN : FinishTask(ok))
  /\ WF_sequenceVars(AdvanceReads \/ Advance \/ ResumeAfterBackup)
  /\ WF_sequenceVars(ChainWork)
  /\ WF_sequenceVars(DrainWork)
  /\ WF_sequenceVars(CutPasses)

SequencesSpec == SequencesInit /\ [][SequencesNext]_sequenceVars /\ SequencesFairness

----------------------------------------------------------------------------
(* An operation reports completed only for a server that has every step of *)
(* its definition, although two requests may resume it at once, a stale    *)
(* one submits a step that has already run, and the panel dies at will     *)
(* (Operations.OnJobFinished, Advance; resumeOperation).                   *)
CompletedMeansBuilt == op.state = "completed" => \A n \in 1..Len(op.steps) : op.steps[n] \in built

(* A chain always ends, also when a user stops the server it waits for     *)
(* (Chainer.Run, awaitState, waitEmpty).                                   *)
ChainEnds == (chain # NoChain) ~> (chain = NoChain)

(* A server stopped by a restart for its queued installs gets its start,   *)
(* whatever becomes of the installs, unless it fails or an unfinished      *)
(* definition holds the queue (Restarter.stopForQueue; ModQueue.Drain).    *)
OwedStartServed == owesStart ~> (~owesStart \/ host.state = "error" \/ OpenOperation)

(* Nothing the panel began by itself is left waiting: chains end and owed  *)
(* starts are served (control/chain.go, control/mod_queue.go).             *)
SequencesEnd == ChainEnds /\ OwedStartServed
=============================================================================
