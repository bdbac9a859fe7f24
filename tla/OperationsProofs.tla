-------------------------- MODULE OperationsProofs --------------------------
(***************************************************************************)
(* Proofs about the operator's requests and what the panel tells of them,  *)
(* for every number of editors, packages, resumers, machines, destinations,*)
(* rules, identifiers and builds: stored launch settings stay valid and a  *)
(* container that runs with others is marked (InstanceSettings); a         *)
(* completed operation has built each of its steps (JobSequences); an edge *)
(* of a condition is announced once to a destination (Outbox); what the    *)
(* cache publishes is whole and a row names the build its server runs      *)
(* (Provisioning); what is saved to a configuration file is what the next  *)
(* start loads (ConfigFiles).                                              *)
(***************************************************************************)
EXTENDS Outbox, JobSequences, InstanceSettings, Provisioning, ConfigFiles,
        FiniteSetTheorems, SequenceTheorems, WellFoundedInduction, TLAPS

----------------------------------------------------------------------------
(* Instance settings.                                                      *)

Bodies == UNION {[named -> {0, 1}] : named \in SUBSET Columns}

PatchRequest == [at : {"write"}, current : [Columns -> {0, 1}], body : Bodies]

\* What a request will write of the launch settings was validated together.
RequestsOk ==
  /\ requests \in [Editors -> {NoEdit} \cup PatchRequest]
  /\ \A e \in Editors : requests[e].at = "write" /\ Touches(requests[e].body, LaunchFields) =>
       ValidateLaunch(Merged(requests[e].current, requests[e].body, LaunchFields))

\* The container runs where the row says so, and a start that has taken the row
\* runs with it unless a write crossed it.
BoxOk ==
  /\ box.up \in BOOLEAN /\ box \in [launch : [LaunchFields -> {0, 1}], up : BOOLEAN]
  /\ starter \in {"none", "build", "run", "ready"} /\ (starter # "none") = (life = "starting")
  /\ life \in {"stopped", "starting", "running", "error"}
  /\ life = "stopped" \/ starter \in {"build", "run"} => ~box.up
  /\ life = "running" \/ starter = "ready" => box.up
  /\ SpecTaken /\ ~crossed => box.launch = launchSpecFor
  /\ box.up /\ ~crossed /\ box.launch # launchSpecFor => flag

SettingsInv ==
  /\ columns \in [Columns -> {0, 1}] /\ flag \in BOOLEAN /\ crossed \in BOOLEAN
  /\ RequestsOk /\ BoxOk /\ StoredLaunchValid

\* A write of a valid request leaves valid launch settings, and other than the
\* stored ones only where it touches them.
LEMMA WritesValid ==
  ASSUME SettingsInv, NEW e \in Editors, requests[e].at = "write",
         columns' = writes(requests[e].current, requests[e].body)
  PROVE  /\ columns' \in [Columns -> {0, 1}]
         /\ StoredLaunchValid'
         /\ ~Touches(requests[e].body, LaunchFields) => launchSpecFor' = launchSpecFor
<1>1. requests[e] \in PatchRequest
  BY DEF SettingsInv, RequestsOk, NoEdit
<1>2. PICK cur \in [Columns -> {0, 1}], body \in Bodies :
         requests[e].current = cur /\ requests[e].body = body
  BY <1>1 DEF PatchRequest
<1>3. PICK named \in SUBSET Columns : body \in [named -> {0, 1}]
  BY <1>2 DEF Bodies
<1>4. \A f \in Columns : columns'[f] =
        IF f \in LaunchFields /\ Touches(body, LaunchFields)
        THEN (IF f \in named THEN body[f] ELSE cur[f])
        ELSE IF f \in PolicyFields /\ Touches(body, PolicyFields)
        THEN (IF f \in named THEN body[f] ELSE cur[f])
        ELSE IF f \notin LaunchFields \cup PolicyFields /\ f \in named /\ body[f] # cur[f] THEN body[f]
        ELSE columns[f]
  BY <1>2, <1>3 DEF writes, mergeInstanceLaunch, mergeBackupPolicy, Merged, PolicyFields, LaunchFields
<1>5. columns' = [f \in Columns |-> columns'[f]]
  BY DEF writes
<1>6. columns' \in [Columns -> {0, 1}]
  <2>1. \A f \in Columns : columns'[f] \in {0, 1}
    BY <1>4, <1>3 DEF SettingsInv
  <2> QED BY <2>1, <1>5
<1>7. ~Touches(body, LaunchFields) => launchSpecFor' = launchSpecFor
  <2> SUFFICES ASSUME ~Touches(body, LaunchFields) PROVE launchSpecFor' = launchSpecFor
    OBVIOUS
  <2>1. \A f \in LaunchFields : f \in Columns /\ f \notin PolicyFields
    BY DEF LaunchFields, PolicyFields, Columns
  <2>2. \A f \in LaunchFields : columns'[f] = columns[f]
    BY <2>1, <1>4
  <2> QED BY <2>2 DEF launchSpecFor
<1>8. StoredLaunchValid'
  <2>0. {"password", "server_name"} \subseteq LaunchFields /\ LaunchFields \subseteq Columns
    BY DEF LaunchFields, Columns
  <2>1. CASE Touches(body, LaunchFields)
    <3>1. ValidateLaunch(Merged(cur, body, LaunchFields))
      BY <2>1, <1>2 DEF SettingsInv, RequestsOk
    <3>2. \A f \in LaunchFields : columns'[f] = Merged(cur, body, LaunchFields)[f]
      BY <2>0, <2>1, <1>3, <1>4 DEF Merged
    <3> QED BY <3>1, <3>2, <2>0 DEF StoredLaunchValid, ValidateLaunch, launchSpecFor
  <2>2. CASE ~Touches(body, LaunchFields)
    <3>1. ValidateLaunch(launchSpecFor)
      BY DEF SettingsInv, StoredLaunchValid
    <3> QED BY <2>2, <1>7, <3>1 DEF StoredLaunchValid, ValidateLaunch
  <2> QED BY <2>1, <2>2
<1> QED BY <1>2, <1>6, <1>7, <1>8

\* Every step of a request, a start, a stop and an acknowledgement keeps it.
LEMMA SettingsStep == SettingsInv /\ [SettingsNext]_settingsVars => SettingsInv'
<1> SUFFICES ASSUME SettingsInv, [SettingsNext]_settingsVars PROVE SettingsInv'
  OBVIOUS
<1>1. ASSUME NEW e \in Editors, patchInstance(e) PROVE SettingsInv'
  <2>1. PICK named \in SUBSET Edited : \E body \in [named -> {0, 1}] :
          /\ Touches(body, LaunchFields) => ValidateLaunch(Merged(columns, body, LaunchFields))
          /\ requests' = [requests EXCEPT ![e] = [at |-> "write", current |-> columns, body |-> body]]
    BY <1>1 DEF patchInstance
  <2>2. PICK body \in [named -> {0, 1}] :
          /\ Touches(body, LaunchFields) => ValidateLaunch(Merged(columns, body, LaunchFields))
          /\ requests' = [requests EXCEPT ![e] = [at |-> "write", current |-> columns, body |-> body]]
    BY <2>1
  <2>3. body \in Bodies
    BY SettingsAssumption DEF Bodies
  <2>4. [at |-> "write", current |-> columns, body |-> body] \in PatchRequest
    BY <2>3 DEF PatchRequest, SettingsInv
  <2>5. RequestsOk'
    BY <2>2, <2>4 DEF SettingsInv, RequestsOk
  <2>6. BoxOk' /\ StoredLaunchValid'
    BY <1>1 DEF patchInstance, SettingsInv, BoxOk, StoredLaunchValid, SpecTaken, launchSpecFor
  <2> QED BY <1>1, <2>5, <2>6 DEF patchInstance, SettingsInv
<1>2. ASSUME NEW e \in Editors, UpdateInstance(e) PROVE SettingsInv'
  <2>1. RequestsOk'
    BY <1>2 DEF UpdateInstance, SettingsInv, RequestsOk, NoEdit
  <2>2. CASE UNCHANGED <<columns, flag, crossed>>
    <3>1. BoxOk' /\ StoredLaunchValid'
      BY <1>2, <2>2 DEF UpdateInstance, SettingsInv, BoxOk, StoredLaunchValid, SpecTaken, launchSpecFor
    <3> QED BY <3>1, <2>1, <2>2 DEF SettingsInv
  <2>3. CASE /\ columns' = writes(requests[e].current, requests[e].body)
             /\ flag' = (flag \/ Touches(requests[e].body, LaunchFields))
             /\ crossed' = (crossed \/ (SpecTaken /\ Touches(requests[e].body, LaunchFields)))
    <3>1. requests[e].at = "write" /\ UNCHANGED <<life, box, starter>>
      BY <1>2 DEF UpdateInstance
    <3>2. /\ columns' \in [Columns -> {0, 1}] /\ StoredLaunchValid'
          /\ ~Touches(requests[e].body, LaunchFields) => launchSpecFor' = launchSpecFor
      BY <3>1, <2>3, WritesValid
    <3>3. flag' \in BOOLEAN /\ crossed' \in BOOLEAN
      BY <2>3 DEF SettingsInv, Touches
    <3>4. BoxOk'
      BY <3>1, <3>2, <2>3 DEF SettingsInv, BoxOk, SpecTaken
    <3> QED BY <3>2, <3>3, <3>4, <2>1 DEF SettingsInv
  <2> QED BY <1>2, <2>2, <2>3 DEF UpdateInstance
<1>3. CASE UNCHANGED <<columns, requests>>
  <2>1. RequestsOk' /\ StoredLaunchValid' /\ launchSpecFor' = launchSpecFor
    BY <1>3 DEF SettingsInv, RequestsOk, StoredLaunchValid, launchSpecFor
  <2>2. launchSpecFor \in [LaunchFields -> {0, 1}]
    BY DEF SettingsInv, launchSpecFor, LaunchFields, Columns
  <2>3. ASSUME NEW up \in BOOLEAN, box' = [box EXCEPT !.up = up]
        PROVE  box'.up = up /\ box'.launch = box.launch /\ box' \in [launch : [LaunchFields -> {0, 1}], up : BOOLEAN]
    BY <2>3 DEF SettingsInv, BoxOk
  <2> USE DEF SettingsInv, BoxOk, SpecTaken
  <2>4. CASE RivalRenamed \/ SubmitStart \/ FinishStart \/ StartFails \/ acknowledge \/ UNCHANGED settingsVars
    BY <1>3, <2>1, <2>4 DEF RivalRenamed, SubmitStart, FinishStart, StartFails, acknowledge, settingsVars
  <2>5. CASE rebuildIfDrifted
    BY <1>3, <2>1, <2>2, <2>5 DEF rebuildIfDrifted, BuildSpec
  <2>6. CASE StartContainer
    <3>1. box'.up /\ box'.launch = box.launch /\ box' \in [launch : [LaunchFields -> {0, 1}], up : BOOLEAN]
      BY <2>3, <2>6 DEF StartContainer
    <3> QED BY <3>1, <1>3, <2>1, <2>6 DEF StartContainer
  <2>7. CASE Stop \/ StopByHand
    <3>1. ~box'.up /\ box'.launch = box.launch /\ box' \in [launch : [LaunchFields -> {0, 1}], up : BOOLEAN]
      BY <2>3, <2>7 DEF Stop, StopByHand
    <3> QED BY <3>1, <1>3, <2>1, <2>7 DEF Stop, StopByHand
  <2>8. CASE \E e \in Editors : patchInstance(e) \/ UpdateInstance(e)
    BY <1>1, <1>2, <2>8
  <2> QED BY <2>4, <2>5, <2>6, <2>7, <2>8 DEF SettingsNext
<1>4. (\E e \in Editors : patchInstance(e) \/ UpdateInstance(e)) \/ UNCHANGED <<columns, requests>>
  BY DEF SettingsNext, settingsVars, RivalRenamed, SubmitStart, rebuildIfDrifted, StartContainer,
         FinishStart, StartFails, Stop, StopByHand, acknowledge
<1> QED BY <1>1, <1>2, <1>3, <1>4

\* Whatever edits, starts and stops cross each other, the stored launch settings
\* are ones that were validated together, and a container running with other
\* settings is marked as in need of a restart, except after a write between a
\* start's reading of the row and its end (api: patchInstance; store:
\* UpdateInstance).
THEOREM SettingsAreSound == SettingsSpec => []SettingsSound
<1>1. SettingsInit => SettingsInv
  <2> SUFFICES ASSUME SettingsInit PROVE SettingsInv
    OBVIOUS
  <2>1. RequestsOk
    BY DEF SettingsInit, RequestsOk, NoEdit
  <2>2. launchSpecFor = [f \in LaunchFields |-> 0]
    BY DEF SettingsInit, launchSpecFor, LaunchFields, Columns
  <2>3. StoredLaunchValid
    BY <2>2 DEF StoredLaunchValid, ValidateLaunch, LaunchFields
  <2>4. BoxOk
    BY <2>2 DEF SettingsInit, BoxOk, SpecTaken
  <2> QED BY <2>1, <2>3, <2>4 DEF SettingsInit, SettingsInv
<1>2. SettingsInv => SettingsSound
  BY DEF SettingsInv, BoxOk, SettingsSound, FlagWhenSettled
<1> QED BY <1>1, <1>2, SettingsStep, PTL DEF SettingsSpec

----------------------------------------------------------------------------
(* Operations and their step chains.                                       *)

OperationStates == {"running", "interrupted", "completed", "abandoned"}

\* Every step before the cursor has been built, and a completed operation has
\* its cursor behind the last.
CursorInv ==
  /\ op \in [state : OperationStates, at : Nat \ {0}, steps : Definitions]
  /\ \A n \in 1..(op.at - 1) : op.steps[n] \in built
  /\ op.state = "completed" => op.at = Len(op.steps) + 1

\* Of all steps only the finish of a job moves the cursor or builds anything;
\* the others mark the operation running, interrupted or abandoned.
LEMMA CursorStands ==
  ASSUME [SequencesNext]_sequenceVars, ~\E ok \in BOOLEAN : FinishTask(ok)
  PROVE  built' = built /\ (op' = op \/ \E s \in OperationStates \ {"completed"} : op' = [op EXCEPT !.state = s])
<1> USE DEF OperationStates
<1>1. CASE AdvanceReads \/ Advance \/ ResumeAfterBackup
  BY <1>1 DEF AdvanceReads, Advance, ResumeAfterBackup
<1>2. ASSUME NEW r \in Resumers, ResumeReads(r) \/ ResumeMarks(r) \/ ResumeSubmits(r)
      PROVE  built' = built /\ (op' = op \/ \E s \in OperationStates \ {"completed"} : op' = [op EXCEPT !.state = s])
  BY <1>2 DEF ResumeReads, ResumeMarks, ResumeSubmits, SetOperationState
<1>3. CASE AbandonOperation
  BY <1>3 DEF AbandonOperation, SetOperationState
<1>4. CASE AutoStop \/ \E k \in {"start", "stop", "restart"} : Act(k)
  BY <1>4 DEF AutoStop, Act
<1>5. CASE ChainCancel \/ ChainWork \/ \E p \in ChainPlans : ChainSubmit(p)
  BY <1>5 DEF ChainCancel, ChainSubmit, ChainWork, ChainBegins, ChainCancelled, ChainSleep, SendCommand, WaitFor,
     WaitReady, WaitEmpty, LimitPasses, ChainChild, ChainChildEnds, AwaitState, ChainAlone, ChainOnly
<1>6. CASE DrainWork \/ (\E e \in Entry : QueueModInstall(e)) \/ \E m \in Packages : UnqueueModInstall(m)
  BY <1>6 DEF QueueModInstall, UnqueueModInstall, DrainWork, ClearQueuedModStart, DrainReads, DrainSubmits,
     DrainUnqueues, StartOwed, DrainOnly
<1>7. CASE Around \/ CutPasses
  BY <1>7 DEF Around, CutPasses
<1>8. CASE PanelRestarts
  BY <1>8 DEF PanelRestarts, InterruptIdleOperations
<1>9. CASE UNCHANGED sequenceVars
  BY <1>9 DEF sequenceVars
<1> QED BY <1>1, <1>2, <1>3, <1>4, <1>5, <1>6, <1>7, <1>8, <1>9 DEF SequencesNext

\* The cursor moves by one, over a step that the same transaction saw finish.
LEMMA CursorStep == CursorInv /\ [SequencesNext]_sequenceVars => CursorInv'
<1> SUFFICES ASSUME CursorInv, [SequencesNext]_sequenceVars PROVE CursorInv'
  OBVIOUS
<1>0. op \in [state : OperationStates, at : Nat \ {0}, steps : Definitions] /\ Len(op.steps) \in Nat
  BY SequencesAssumption DEF CursorInv
<1>1. CASE ~\E ok \in BOOLEAN : FinishTask(ok)
  <2>1. built' = built /\ (op' = op \/ \E s \in OperationStates \ {"completed"} : op' = [op EXCEPT !.state = s])
    BY <1>1, CursorStands
  <2> QED BY <2>1, <1>0 DEF CursorInv
<1>2. ASSUME NEW ok \in BOOLEAN, FinishTask(ok) PROVE CursorInv'
  <2>1. OnOperationJobFinished(task.kind, task.ref, ok)
        /\ built' = IF ok THEN built \cup {<<task.kind, task.ref>>} ELSE built
    BY <1>2 DEF FinishTask
  <2>2. CASE op' = op
    BY <2>1, <2>2 DEF CursorInv
  <2>3. CASE ~ok /\ op' = [op EXCEPT !.state = "interrupted"]
    BY <2>1, <2>3, <1>0 DEF CursorInv, OperationStates
  <2>4. CASE /\ ok /\ op.at <= Len(op.steps) /\ op.steps[op.at] = <<task.kind, task.ref>>
             /\ op' = [op EXCEPT !.at = @ + 1,
                                 !.state = IF op.at = Len(op.steps) THEN "completed" ELSE "running"]
    <3>1. op'.at = op.at + 1 /\ op'.steps = op.steps
          /\ op'.state = IF op.at = Len(op.steps) THEN "completed" ELSE "running"
      BY <2>4, <1>0
    <3>2. op' \in [state : OperationStates, at : Nat \ {0}, steps : Definitions]
      <4>1. PICK s \in OperationStates : op' = [op EXCEPT !.at = @ + 1, !.state = s]
        BY <2>4 DEF OperationStates
      <4>2. op.at + 1 \in Nat \ {0}
        BY <1>0
      <4> QED BY <4>1, <4>2, <1>0
    <3>3. ASSUME NEW n \in 1..(op'.at - 1) PROVE op'.steps[n] \in built'
      <4>1. n \in 1..(op.at - 1) \/ n = op.at
        BY <3>1, <1>0
      <4> QED BY <4>1, <3>1, <2>1, <2>4 DEF CursorInv
    <3> QED BY <3>1, <3>2, <3>3, <1>0 DEF CursorInv
  <2>5. CASE ~(OpenOperation /\ op.at <= Len(op.steps) /\ op.steps[op.at] = <<task.kind, task.ref>>)
    BY <2>1, <2>2, <2>5 DEF OnOperationJobFinished
  <2>6. CASE (OpenOperation /\ op.at <= Len(op.steps) /\ op.steps[op.at] = <<task.kind, task.ref>>) /\ ok
    BY <2>1, <2>4, <2>6 DEF OnOperationJobFinished
  <2>7. CASE (OpenOperation /\ op.at <= Len(op.steps) /\ op.steps[op.at] = <<task.kind, task.ref>>) /\ ~ok
    BY <2>1, <2>3, <2>7 DEF OnOperationJobFinished
  <2> QED BY <2>5, <2>6, <2>7
<1> QED BY <1>1, <1>2

\* An operation that is marked completed has had every step of its definition
\* finished by a job of that step, through crashes, resumes and abandonments
\* (store: OnOperationJobFinished, InterruptIdleOperations).
THEOREM CompletedIsBuilt == SequencesSpec => []CompletedMeansBuilt
<1>1. SequencesInit => CursorInv
  <2> SUFFICES ASSUME SequencesInit PROVE CursorInv
    OBVIOUS
  <2>1. PICK d \in Definitions :
          \/ op = [state |-> "running", at |-> 1, steps |-> d]
          \/ op = [state |-> "completed", at |-> Len(d) + 1, steps |-> d] /\ built = {d[n] : n \in 1..Len(d)}
    BY DEF SequencesInit
  <2>2. Len(d) \in Nat \ {0}
    BY SequencesAssumption
  <2> QED BY <2>1, <2>2 DEF CursorInv, OperationStates
<1>2. CursorInv => CompletedMeansBuilt
  <2> SUFFICES ASSUME CursorInv, op.state = "completed", NEW n \in 1..Len(op.steps) PROVE op.steps[n] \in built
    BY DEF CompletedMeansBuilt
  <2>1. Len(op.steps) \in Nat
    BY SequencesAssumption DEF CursorInv
  <2> QED BY <2>1 DEF CursorInv
<1> QED BY <1>1, <1>2, CursorStep, PTL DEF SequencesSpec

----------------------------------------------------------------------------
(* The notification outbox.                                                *)

ConditionKinds == {"low_disk", "restart_required", "instance_error", "update_available", "crash_loop",
                   "job_failed", "unclean_stop", "stale_backup", "backup_attention", "job_stuck"}
ConditionRow == [kind : ConditionKinds, of : Scopes, open : BOOLEAN]

Deliveries == [hook : Hooks, cond : Nat, rule : Rules \cup {"none"},
               edge : {"event", "opened", "resolved"}, edits : Nat,
               status : {"pending", "delivered", "failed"}, remote : BOOLEAN, gone : BOOLEAN]

\* A finite set has a listing without repetition, and Listing is one.
LEMMA ListingLists ==
  ASSUME NEW S, IsFiniteSet(S)
  PROVE  /\ Cardinality(S) \in Nat
         /\ Listing(S) \in [1..Cardinality(S) -> S]
         /\ Listing(S) \in Seq(S) /\ Len(Listing(S)) = Cardinality(S)
         /\ \A a, b \in 1..Cardinality(S) : Listing(S)[a] = Listing(S)[b] => a = b
<1>1. Cardinality(S) \in Nat /\ ExistsBijection(1..Cardinality(S), S)
  BY FS_CardinalityType
<1> DEFINE Fits(q) == \A a, b \in DOMAIN q : q[a] = q[b] => a = b
<1>2. \E q \in [1..Cardinality(S) -> S] : Fits(q)
  <2>1. PICK q \in [1..Cardinality(S) -> S] : \A a, b \in 1..Cardinality(S) : q[a] = q[b] => a = b
    BY <1>1 DEF ExistsBijection, Bijection, Injection, IsInjective
  <2>2. DOMAIN q = 1..Cardinality(S)
    OBVIOUS
  <2> QED BY <2>1, <2>2
<1>3. Listing(S) \in [1..Cardinality(S) -> S] /\ Fits(Listing(S))
  <2>1. Listing(S) = CHOOSE q \in [1..Cardinality(S) -> S] : Fits(q)
    BY Zenon DEF Listing
  <2> HIDE DEF Fits
  <2> QED BY <1>2, <2>1
<1> QED BY <1>1, <1>3

\* A scan finds finitely many conditions, of the kinds the evaluation knows.
LEMMA EvaluateIsFinite ==
  ASSUME NEW f
  PROVE  IsFiniteSet(Evaluate(f)) /\ Evaluate(f) \subseteq [kind : ConditionKinds, of : Scopes]
<1> DEFINE Pairs == ConditionKinds \X Scopes
<1> DEFINE C == [p \in Pairs |-> Condition(p[1], p[2])]
<1> DEFINE T == [kind : ConditionKinds, of : Scopes]
<1>1. IsFiniteSet(ConditionKinds)
  <2> DEFINE q == [n \in 1..10 |->
               CASE n = 1 -> "low_disk" [] n = 2 -> "restart_required" [] n = 3 -> "instance_error"
                 [] n = 4 -> "update_available" [] n = 5 -> "crash_loop" [] n = 6 -> "job_failed"
                 [] n = 7 -> "unclean_stop" [] n = 8 -> "stale_backup" [] n = 9 -> "backup_attention"
                 [] OTHER -> "job_stuck"]
  <2>1. \A n \in 1..10 : q[n] \in ConditionKinds
    BY DEF ConditionKinds
  <2>2. \A k \in ConditionKinds : \E n \in 1..10 : q[n] = k
    <3>1. /\ q[1] = "low_disk" /\ q[2] = "restart_required" /\ q[3] = "instance_error"
          /\ q[4] = "update_available" /\ q[5] = "crash_loop" /\ q[6] = "job_failed"
          /\ q[7] = "unclean_stop" /\ q[8] = "stale_backup" /\ q[9] = "backup_attention" /\ q[10] = "job_stuck"
      OBVIOUS
    <3> HIDE DEF q
    <3> QED BY <3>1 DEF ConditionKinds
  <2>3. q \in Surjection(1..10, ConditionKinds)
    BY <2>1, <2>2 DEF Surjection
  <2> HIDE DEF q
  <2>4. IsFiniteSet(1..10)
    <3>1. 1 \in Int /\ 10 \in Int
      OBVIOUS
    <3> QED BY <3>1, FS_Interval, Zenon
  <2> QED BY <2>3, <2>4, FS_Surjection, Zenon
<1>2. IsFiniteSet(Scopes)
  BY OutboxAssumption, FS_AddElement DEF Scopes
<1>3. IsFiniteSet(Pairs)
  BY <1>1, <1>2, FS_Product
<1>4. C \in Surjection(Pairs, T)
  <2>1. \A p \in Pairs : C[p] \in T
    BY DEF Condition
  <2>2. \A t \in T : \E p \in Pairs : C[p] = t
    <3> TAKE t \in T
    <3>1. <<t.kind, t.of>> \in Pairs
      OBVIOUS
    <3>2. C[<<t.kind, t.of>>] = [kind |-> t.kind, of |-> t.of]
      BY <3>1 DEF Condition
    <3> QED BY <3>1, <3>2
  <2> QED BY <2>1, <2>2 DEF Surjection
<1>5. IsFiniteSet(T)
  BY <1>3, <1>4, FS_Surjection
<1>6. Evaluate(f) \subseteq T
  BY DEF Evaluate, lowDisk, perInstance, updateAvailable, crashLoop, failedJobs, uncleanStops, staleBackups,
         flaggedBackups, stuckJobs, Condition, ConditionKinds, Scopes
<1> QED BY <1>5, <1>6, FS_Subset

\* A set of naturals that is not empty has a least member.
LEMMA SomeIsLeast ==
  ASSUME NEW S \in SUBSET Nat, S # {}
  PROVE  \E d \in S : \A x \in S : d <= x
<1>1. PICK d \in S : \A x \in S : ~(<<x, d>> \in OpToRel(<, Nat))
  BY NatLessThanWellFounded, WFMin
<1>2. \A x \in S : d <= x
  <2> TAKE x \in S
  <2>1. x \in Nat /\ d \in Nat
    OBVIOUS
  <2>2. ~(x < d)
    BY <1>1, <2>1 DEF OpToRel
  <2> QED BY <2>1, <2>2
<1> QED BY <1>2

\* The row a resolution edits is a number.
LEMMA EditedIsNat ==
  ASSUME rows \in Seq(Deliveries), NEW what, NEW h
  PROVE  DeliveryForEvent(what, h) \in Nat
<1> DEFINE ds == {d \in 1..Len(rows) : rows[d].cond = what.cond /\ rows[d].rule = what.rule
                     /\ rows[d].edge = "opened" /\ rows[d].hook = h /\ ~rows[d].gone}
<1>1. DeliveryForEvent(what, h) = IF what.edge # "resolved" THEN 0
        ELSE IF ds = {} THEN 0 ELSE CHOOSE d \in ds : \A x \in ds : d <= x
  BY Zenon DEF DeliveryForEvent
<1>2. ds \in SUBSET Nat
  OBVIOUS
<1> HIDE DEF ds
<1>3. ds # {} => \E d \in ds : \A x \in ds : d <= x
  BY <1>2, SomeIsLeast
<1>4. ds # {} => (CHOOSE d \in ds : \A x \in ds : d <= x) \in ds
  BY <1>3
<1>5. ds # {} => (CHOOSE d \in ds : \A x \in ds : d <= x) \in Nat
  BY <1>2, <1>4
<1>6. CASE what.edge = "resolved" /\ ds # {}
  BY <1>1, <1>5, <1>6
<1>7. CASE what.edge # "resolved" \/ ds = {}
  BY <1>1, <1>7
<1> QED BY <1>6, <1>7

\* What render writes: a row of the event for each destination, none twice.
LEMMA RenderedRows ==
  ASSUME rows \in Seq(Deliveries), NEW what, what.cond \in Nat, what.rule \in Rules \cup {"none"},
         what.edge \in {"event", "opened", "resolved"}, NEW i, NEW keep
  PROVE  LET new == render(what, i, keep) IN
         /\ new \in Seq(Deliveries) /\ Len(new) \in Nat
         /\ \A n \in 1..Len(new) : new[n].cond = what.cond /\ new[n].rule = what.rule /\ new[n].edge = what.edge
         /\ \A n, m \in 1..Len(new) : new[n].hook = new[m].hook => n = m
<1> DEFINE S == {h \in EnabledWebhooks \cap keep : Serves(h, i)}
<1> DEFINE hs == Listing(S)
<1> DEFINE k == Cardinality(S)
<1> DEFINE D(n) == NewDelivery(hs[n], what, DeliveryForEvent(what, hs[n]))
<1>1. S \in SUBSET Hooks
  BY DEF EnabledWebhooks
<1>2. IsFiniteSet(S)
  BY <1>1, FS_Subset, OutboxAssumption, Zenon
<1>3. /\ k \in Nat /\ hs \in [1..k -> S] /\ Len(hs) = k
      /\ \A a, b \in 1..k : hs[a] = hs[b] => a = b
  BY <1>2, ListingLists, Zenon
<1>4. render(what, i, keep) = [n \in 1..Len(hs) |-> D(n)]
  BY Zenon DEF render
<1> HIDE DEF S, hs, k
<1>5. ASSUME NEW n \in 1..k
      PROVE  /\ D(n) \in Deliveries /\ D(n).hook = hs[n]
             /\ D(n).cond = what.cond /\ D(n).rule = what.rule /\ D(n).edge = what.edge
  <2>1. hs[n] \in Hooks
    BY <1>1, <1>3
  <2>2. DeliveryForEvent(what, hs[n]) \in Nat
    BY EditedIsNat
  <2> QED BY <2>1, <2>2 DEF NewDelivery, Deliveries
<1> HIDE DEF D
<1>6. render(what, i, keep) = [n \in 1..k |-> D(n)]
  BY <1>3, <1>4
<1>7. render(what, i, keep) \in Seq(Deliveries) /\ Len(render(what, i, keep)) = k
  BY <1>3, <1>5, <1>6
<1>8. \A n \in 1..k : render(what, i, keep)[n] = D(n)
  BY <1>6
<1> QED BY <1>3, <1>5, <1>7, <1>8

\* A claim that may be owed: of a condition that exists, a resolution of one
\* that has ended.
Owed(t) ==
  /\ t.cond \in 1..Len(conditions) /\ t.rule \in Rules /\ t.edge \in {"opened", "resolved"}
  /\ t.edge = "resolved" => ~conditions[t.cond].open

EdgeInv ==
  /\ conditions \in Seq(ConditionRow) /\ rows \in Seq(Deliveries)
  /\ scan = [at |-> scan.at, todo |-> scan.todo]
  /\ \A t \in scan.todo : Owed(t)
  /\ \A d \in 1..Len(rows) : rows[d].cond # 0 =>
       Owed(rows[d]) /\ Claim(rows[d].cond, rows[d].rule, rows[d].edge) \in notified
  /\ EdgeOnce

\* Rows that announce nothing of a condition may be added at will.
LEMMA MoreRows ==
  ASSUME EdgeInv, UNCHANGED <<conditions, notified, scan>>, NEW new \in Seq(Deliveries),
         \A n \in 1..Len(new) : new[n].cond = 0, rows' = rows \o new
  PROVE  EdgeInv'
<1>1. /\ rows' \in Seq(Deliveries) /\ Len(rows') = Len(rows) + Len(new)
      /\ \A d \in 1..Len(rows') : rows'[d] = IF d <= Len(rows) THEN rows[d] ELSE new[d - Len(rows)]
  BY ConcatProperties DEF EdgeInv
<1>2. \A d \in 1..Len(rows') : rows'[d].cond # 0 => d \in 1..Len(rows) /\ rows'[d] = rows[d]
  <2> TAKE d \in 1..Len(rows')
  <2>1. Len(rows) \in Nat /\ Len(new) \in Nat
    BY DEF EdgeInv
  <2>2. CASE d <= Len(rows)
    BY <1>1, <2>1, <2>2
  <2>3. CASE d > Len(rows)
    <3>1. d - Len(rows) \in 1..Len(new)
      BY <1>1, <2>1, <2>3
    <3> QED BY <1>1, <2>1, <2>3, <3>1
  <2> QED BY <2>1, <2>2, <2>3
<1>4. EdgeOnce'
  <2> SUFFICES ASSUME NEW d \in 1..Len(rows'), rows'[d].cond # 0
               PROVE  /\ \A x \in 1..Len(rows') :
                           /\ rows'[x].cond = rows'[d].cond /\ rows'[x].rule = rows'[d].rule
                           /\ rows'[x].edge = rows'[d].edge /\ rows'[x].hook = rows'[d].hook
                           => x = d
                      /\ rows'[d].edge = "resolved" =>
                           /\ ~conditions[rows'[d].cond].open
                           /\ Claim(rows'[d].cond, rows'[d].rule, "opened") \in notified
    BY DEF EdgeOnce, Claim
  <2>1. d \in 1..Len(rows) /\ rows'[d] = rows[d]
    BY <1>2
  <2>2. \A x \in 1..Len(rows') : rows'[x].cond = rows'[d].cond => x \in 1..Len(rows) /\ rows'[x] = rows[x]
    BY <1>2
  <2> QED BY <2>1, <2>2 DEF EdgeInv, EdgeOnce
<1>3. \A d \in 1..Len(rows') : rows'[d].cond # 0 =>
       Owed(rows[d]) /\ rows'[d] = rows[d] /\ Claim(rows[d].cond, rows[d].rule, rows[d].edge) \in notified
  BY <1>2 DEF EdgeInv
<1> QED BY <1>1, <1>3, <1>4 DEF EdgeInv, Owed

\* A scan opens conditions behind the known ones and never opens one again.
LEMMA ConditionsEnd ==
  ASSUME EdgeInv, ReconcileConditions(Evaluate(facts))
  PROVE  /\ conditions' \in Seq(ConditionRow) /\ Len(conditions) <= Len(conditions')
         /\ \A c \in 1..Len(conditions) : ~conditions[c].open => ~conditions'[c].open
<1> DEFINE seen == Evaluate(facts)
<1> DEFINE S == upsertCondition(seen)
<1> DEFINE fresh == Listing(S)
<1> DEFINE k == Cardinality(S)
<1> DEFINE kept == resolveMissing(seen)
<1> DEFINE added == [n \in 1..Len(fresh) |-> [kind |-> fresh[n].kind, of |-> fresh[n].of, open |-> TRUE]]
<1>1. conditions' = kept \o added
  BY DEF ReconcileConditions
<1>2. IsFiniteSet(seen) /\ seen \subseteq [kind : ConditionKinds, of : Scopes]
  BY EvaluateIsFinite
<1>3. S \in SUBSET seen
  BY DEF upsertCondition
<1>4. IsFiniteSet(S)
  BY <1>2, <1>3, FS_Subset, Zenon
<1>5. k \in Nat /\ fresh \in [1..k -> S] /\ Len(fresh) = k
  BY <1>4, ListingLists, Zenon
<1>6. added \in Seq(ConditionRow)
  <2> HIDE DEF S, fresh, k, seen
  <2>1. \A n \in 1..k : [kind |-> fresh[n].kind, of |-> fresh[n].of, open |-> TRUE] \in ConditionRow
    BY <1>2, <1>3, <1>5 DEF ConditionRow
  <2> QED BY <1>5, <2>1
<1>7. kept \in Seq(ConditionRow) /\ Len(kept) = Len(conditions)
      /\ \A c \in 1..Len(conditions) : ~conditions[c].open => ~kept[c].open
  <2> HIDE DEF seen
  <2> DEFINE R(c) == [conditions[c] EXCEPT !.open = @ /\ Condition(conditions[c].kind, conditions[c].of) \in seen]
  <2>1. ASSUME NEW c \in 1..Len(conditions) PROVE R(c) \in ConditionRow /\ (~conditions[c].open => ~R(c).open)
    <3>1. conditions[c] \in ConditionRow
      BY DEF EdgeInv
    <3>2. (conditions[c].open /\ Condition(conditions[c].kind, conditions[c].of) \in seen) \in BOOLEAN
      OBVIOUS
    <3> QED BY <3>1, <3>2 DEF ConditionRow
  <2>2. kept = [c \in 1..Len(conditions) |-> R(c)]
    BY Zenon DEF resolveMissing
  <2>3. Len(conditions) \in Nat
    BY DEF EdgeInv
  <2> HIDE DEF R
  <2> HIDE DEF kept
  <2> QED BY <2>1, <2>2, <2>3
<1> HIDE DEF kept, added
<1>8. /\ conditions' \in Seq(ConditionRow) /\ Len(conditions') = Len(kept) + Len(added)
      /\ \A c \in 1..(Len(kept) + Len(added)) : conditions'[c] =
           IF c <= Len(kept) THEN kept[c] ELSE added[c - Len(kept)]
  <2>1. kept \in Seq(ConditionRow) /\ added \in Seq(ConditionRow)
    BY <1>6, <1>7
  <2> QED BY <1>1, <2>1, ConcatProperties, Zenon
<1>9. Len(added) \in Nat /\ Len(conditions) \in Nat
  BY <1>6 DEF EdgeInv
<1> QED BY <1>7, <1>8, <1>9

\* The claims behind a row stand.
Backed(d) ==
  /\ Claim(rows[d].cond, rows[d].rule, rows[d].edge) \in notified => Claim(rows[d].cond, rows[d].rule, rows[d].edge) \in notified'
  /\ Claim(rows[d].cond, rows[d].rule, "opened") \in notified => Claim(rows[d].cond, rows[d].rule, "opened") \in notified'

\* A step that adds no row, opens no condition again and drops a claim only
\* where it drops the rows behind it.
LEMMA EdgesStand ==
  ASSUME EdgeInv,
         conditions' \in Seq(ConditionRow), Len(conditions) <= Len(conditions'),
         \A c \in 1..Len(conditions) : ~conditions[c].open => ~conditions'[c].open,
         rows' \in Seq(Deliveries), Len(rows') = Len(rows),
         \A d \in 1..Len(rows) :
           /\ rows'[d].hook = rows[d].hook /\ rows'[d].rule = rows[d].rule /\ rows'[d].edge = rows[d].edge
           /\ rows'[d].cond = 0 \/ (rows'[d].cond = rows[d].cond /\ Backed(d)),
         scan' = [at |-> scan'.at, todo |-> scan'.todo],
         \A t \in scan'.todo : Owed(t)'
  PROVE  EdgeInv'
<1>1. Len(conditions) \in Nat /\ Len(conditions') \in Nat
  BY DEF EdgeInv
<1>2. ASSUME NEW d \in 1..Len(rows'), rows'[d].cond # 0
      PROVE  /\ Owed(rows[d])' /\ d \in 1..Len(rows) /\ rows'[d].cond = rows[d].cond /\ rows[d].cond # 0
             /\ Claim(rows'[d].cond, rows'[d].rule, rows'[d].edge) \in notified'
  <2>1. d \in 1..Len(rows) /\ rows'[d].cond = rows[d].cond /\ rows[d].cond # 0 /\ Backed(d)
        /\ rows'[d].rule = rows[d].rule /\ rows'[d].edge = rows[d].edge
    BY <1>2
  <2>2. Owed(rows[d]) /\ Claim(rows[d].cond, rows[d].rule, rows[d].edge) \in notified
    BY <2>1 DEF EdgeInv
  <2>3. rows[d].cond \in 1..Len(conditions) /\ rows[d].cond \in 1..Len(conditions')
    BY <1>1, <2>2 DEF Owed
  <2>4. Owed(rows[d])'
    BY <2>1, <2>2, <2>3 DEF Owed
  <2> QED BY <2>1, <2>2, <2>4 DEF Backed
<1>3. EdgeOnce'
  <2> SUFFICES ASSUME NEW d \in 1..Len(rows'), rows'[d].cond # 0
               PROVE  /\ \A x \in 1..Len(rows') :
                           /\ rows'[x].cond = rows'[d].cond /\ rows'[x].rule = rows'[d].rule
                           /\ rows'[x].edge = rows'[d].edge /\ rows'[x].hook = rows'[d].hook
                           => x = d
                      /\ rows'[d].edge = "resolved" =>
                           /\ ~conditions'[rows'[d].cond].open
                           /\ Claim(rows'[d].cond, rows'[d].rule, "opened") \in notified'
    BY DEF EdgeOnce, Claim
  <2>1. /\ d \in 1..Len(rows) /\ rows'[d].cond = rows[d].cond /\ rows[d].cond # 0 /\ Backed(d)
        /\ rows'[d].rule = rows[d].rule /\ rows'[d].edge = rows[d].edge /\ rows'[d].hook = rows[d].hook
    OBVIOUS
  <2>2. \A x \in 1..Len(rows') : rows'[x].cond = rows'[d].cond =>
          x \in 1..Len(rows) /\ rows'[x].cond = rows[x].cond /\ rows'[x].rule = rows[x].rule
          /\ rows'[x].edge = rows[x].edge /\ rows'[x].hook = rows[x].hook
    OBVIOUS
  <2>3. /\ \A x \in 1..Len(rows) :
             /\ rows[x].cond = rows[d].cond /\ rows[x].rule = rows[d].rule
             /\ rows[x].edge = rows[d].edge /\ rows[x].hook = rows[d].hook
             => x = d
        /\ rows[d].edge = "resolved" => Claim(rows[d].cond, rows[d].rule, "opened") \in notified
    BY <2>1 DEF EdgeInv, EdgeOnce
  <2>4. rows'[d].edge = "resolved" => ~conditions'[rows'[d].cond].open
    BY <1>2, <2>1 DEF Owed
  <2> QED BY <2>1, <2>2, <2>3, <2>4 DEF Backed
<1>4. \A d \in 1..Len(rows') : rows'[d].cond # 0 =>
        Owed(rows[d])' /\ Claim(rows'[d].cond, rows'[d].rule, rows'[d].edge) \in notified'
  BY <1>2
<1> QED BY <1>3, <1>4 DEF EdgeInv, Claim

\* A claim and the rows it writes: no row announces the edge yet, the new rows
\* go to different destinations, and a resolution follows its opening.
LEMMA ClaimedOnce ==
  ASSUME EdgeInv, NEW t \in scan.todo, NEW new \in Seq(Deliveries),
         \A n \in 1..Len(new) : new[n].cond = t.cond /\ new[n].rule = t.rule /\ new[n].edge = t.edge,
         \A n, m \in 1..Len(new) : new[n].hook = new[m].hook => n = m,
         Claim(t.cond, t.rule, t.edge) \notin notified,
         t.edge = "opened" \/ Claim(t.cond, t.rule, "opened") \in notified,
         notified' = notified \cup {Claim(t.cond, t.rule, t.edge)},
         rows' = rows \o new, scan' = [scan EXCEPT !.todo = @ \ {t}], UNCHANGED conditions
  PROVE  EdgeInv'
<1>0. Len(rows) \in Nat /\ Len(new) \in Nat /\ Owed(t)
  BY DEF EdgeInv
<1>1. /\ rows' \in Seq(Deliveries) /\ Len(rows') = Len(rows) + Len(new)
      /\ \A d \in 1..Len(rows') : rows'[d] = IF d <= Len(rows) THEN rows[d] ELSE new[d - Len(rows)]
  BY ConcatProperties DEF EdgeInv
<1> DEFINE Old(d) == d \in 1..Len(rows) /\ rows'[d] = rows[d]
<1> DEFINE Fresh(d) == d - Len(rows) \in 1..Len(new) /\ rows'[d] = new[d - Len(rows)]
                       /\ rows'[d].cond = t.cond /\ rows'[d].rule = t.rule /\ rows'[d].edge = t.edge
<1>2. \A d \in 1..Len(rows') : Old(d) \/ Fresh(d)
  <2> TAKE d \in 1..Len(rows')
  <2>1. CASE d <= Len(rows)
    BY <1>0, <1>1, <2>1
  <2>2. CASE d > Len(rows)
    <3>1. d - Len(rows) \in 1..Len(new) /\ rows'[d] = new[d - Len(rows)]
      BY <1>0, <1>1, <2>2
    <3> QED BY <3>1
  <2> QED BY <1>0, <2>1, <2>2
<1>3. ASSUME NEW d \in 1..Len(rows'), rows'[d].cond # 0
      PROVE  Owed(rows'[d]) /\ Claim(rows'[d].cond, rows'[d].rule, rows'[d].edge) \in notified'
  <2>1. CASE Old(d)
    BY <1>3, <2>1 DEF EdgeInv
  <2>2. CASE Fresh(d)
    BY <1>0, <2>2 DEF Owed
  <2> QED BY <1>2, <2>1, <2>2
<1>4. ASSUME NEW d \in 1..Len(rows'), NEW x \in 1..Len(rows'), rows'[d].cond # 0,
             rows'[x].cond = rows'[d].cond, rows'[x].rule = rows'[d].rule,
             rows'[x].edge = rows'[d].edge, rows'[x].hook = rows'[d].hook
      PROVE  x = d
  <2>1. CASE Old(d) /\ Old(x)
    BY <1>4, <2>1 DEF EdgeInv, EdgeOnce
  <2>2. CASE Fresh(d) /\ Fresh(x)
    <3>1. d - Len(rows) = x - Len(rows)
      BY <1>4, <2>2
    <3> QED BY <1>0, <1>1, <3>1
  <2>3. ASSUME NEW a \in {d, x}, Old(a), rows'[a].cond = t.cond, rows'[a].rule = t.rule, rows'[a].edge = t.edge
        PROVE  FALSE
    <3>1. Claim(rows[a].cond, rows[a].rule, rows[a].edge) \in notified
      BY <1>4, <2>3 DEF EdgeInv
    <3> QED BY <2>3, <3>1
  <2> HIDE DEF Old
  <2>4. CASE Old(d) /\ Fresh(x)
    BY <1>4, <2>3, <2>4
  <2>5. CASE Fresh(d) /\ Old(x)
    BY <1>4, <2>3, <2>5
  <2> QED BY <1>2, <2>1, <2>2, <2>4, <2>5
<1>5. ASSUME NEW d \in 1..Len(rows'), rows'[d].cond # 0, rows'[d].edge = "resolved"
      PROVE  ~conditions[rows'[d].cond].open /\ Claim(rows'[d].cond, rows'[d].rule, "opened") \in notified'
  <2>1. CASE Old(d)
    BY <1>5, <2>1 DEF EdgeInv, EdgeOnce
  <2>2. CASE Fresh(d)
    BY <1>0, <1>5, <2>2 DEF Owed
  <2> QED BY <1>2, <2>1, <2>2
<1>6. EdgeOnce'
  BY <1>4, <1>5 DEF EdgeOnce, Claim
<1>7. scan' = [at |-> scan.at, todo |-> scan.todo \ {t}]
  BY DEF EdgeInv
<1>8. \A q \in scan'.todo : Owed(q)
  BY <1>7 DEF EdgeInv
<1> QED BY <1>1, <1>3, <1>6, <1>7, <1>8 DEF EdgeInv, Owed, Claim

\* A send changes what became of its row, never whose edge it announces.
LEMMA RowKeeps ==
  ASSUME EdgeInv, NEW d, NEW status \in {"pending", "delivered", "failed"}, NEW remote \in BOOLEAN,
         \/ rows' = [rows EXCEPT ![d].status = status]
         \/ rows' = [rows EXCEPT ![d].status = status, ![d].remote = remote]
  PROVE  /\ rows' \in Seq(Deliveries) /\ Len(rows') = Len(rows)
         /\ \A x \in 1..Len(rows) :
              /\ rows'[x].cond = rows[x].cond /\ rows'[x].rule = rows[x].rule
              /\ rows'[x].edge = rows[x].edge /\ rows'[x].hook = rows[x].hook
<1>1. /\ rows \in Seq(Deliveries) /\ DOMAIN rows = 1..Len(rows) /\ Len(rows) \in Nat
      /\ \A x \in 1..Len(rows) : rows[x] \in Deliveries
  BY DEF EdgeInv
<1> DEFINE Same(x, r) == r.cond = rows[x].cond /\ r.rule = rows[x].rule /\ r.edge = rows[x].edge /\ r.hook = rows[x].hook
<1>2. \A x \in 1..Len(rows) :
        /\ [rows[x] EXCEPT !.status = status] \in Deliveries
        /\ Same(x, [rows[x] EXCEPT !.status = status])
        /\ [[rows[x] EXCEPT !.status = status] EXCEPT !.remote = remote] \in Deliveries
        /\ Same(x, [[rows[x] EXCEPT !.status = status] EXCEPT !.remote = remote])
  BY <1>1 DEF Deliveries
<1> HIDE DEF Same
<1>3. /\ rows' \in [1..Len(rows) -> Deliveries]
      /\ \A x \in 1..Len(rows) : rows'[x] \in Deliveries /\ Same(x, rows'[x])
  <2>1. CASE rows' = [rows EXCEPT ![d].status = status]
    <3>1. rows' = [x \in 1..Len(rows) |-> IF x = d THEN [rows[x] EXCEPT !.status = status] ELSE rows[x]]
      BY <1>1, <2>1
    <3>0. \A x \in 1..Len(rows) : Same(x, rows[x])
      BY DEF Same
    <3>2. \A x \in 1..Len(rows) : rows'[x] \in Deliveries /\ Same(x, rows'[x])
      BY <1>1, <1>2, <3>0, <3>1
    <3>3. rows' = [x \in 1..Len(rows) |-> rows'[x]]
      BY <3>1
    <3> QED BY <3>2, <3>3
  <2>2. CASE rows' = [rows EXCEPT ![d].status = status, ![d].remote = remote]
    <3>1. rows' = [x \in 1..Len(rows) |->
            IF x = d THEN [[rows[x] EXCEPT !.status = status] EXCEPT !.remote = remote] ELSE rows[x]]
      BY <1>1, <2>2
    <3>0. \A x \in 1..Len(rows) : Same(x, rows[x])
      BY DEF Same
    <3>2. \A x \in 1..Len(rows) : rows'[x] \in Deliveries /\ Same(x, rows'[x])
      BY <1>1, <1>2, <3>0, <3>1
    <3>3. rows' = [x \in 1..Len(rows) |-> rows'[x]]
      BY <3>1
    <3> QED BY <3>2, <3>3
  <2> QED BY <2>1, <2>2
<1>4. rows' \in Seq(Deliveries) /\ Len(rows') = Len(rows)
  BY <1>1, <1>3
<1> QED BY <1>3, <1>4 DEF Same

\* A step that only changes what became of its rows.
LEMMA RowsKept ==
  ASSUME EdgeInv, UNCHANGED <<conditions, notified, scan>>,
         rows' \in Seq(Deliveries), Len(rows') = Len(rows),
         \A x \in 1..Len(rows) :
           /\ rows'[x].cond = rows[x].cond /\ rows'[x].rule = rows[x].rule
           /\ rows'[x].edge = rows[x].edge /\ rows'[x].hook = rows[x].hook
  PROVE  EdgeInv'
<1>1. \A d \in 1..Len(rows) : Backed(d)
  BY DEF Backed
<1>2. scan' = [at |-> scan'.at, todo |-> scan'.todo] /\ \A t \in scan'.todo : Owed(t)'
  BY DEF EdgeInv, Owed
<1>3. conditions' \in Seq(ConditionRow) /\ Len(conditions) \in Nat /\ Len(conditions) <= Len(conditions')
  BY DEF EdgeInv
<1> QED BY <1>1, <1>2, <1>3, EdgesStand

\* A step that touches neither a row, nor a claim, nor a condition.
LEMMA RowsUntouched ==
  ASSUME EdgeInv, UNCHANGED <<conditions, notified, rows>>,
         scan' = [at |-> scan'.at, todo |-> scan'.todo], \A t \in scan'.todo : Owed(t)
  PROVE  EdgeInv'
BY DEF EdgeInv, EdgeOnce, Owed, Claim

\* What a built-in event writes announces nothing of a condition.
LEMMA BuiltinRows ==
  ASSUME EdgeInv, NEW i, NEW keep, rows' = rows \o render(Builtin, i, keep),
         UNCHANGED <<conditions, notified, scan>>
  PROVE  EdgeInv'
<1>1. rows \in Seq(Deliveries) /\ Builtin.cond = 0 /\ Builtin.cond \in Nat
      /\ Builtin.rule \in Rules \cup {"none"} /\ Builtin.edge \in {"event", "opened", "resolved"}
  BY DEF EdgeInv, Builtin
<1> DEFINE new == render(Builtin, i, keep)
<1>2. new \in Seq(Deliveries) /\ \A n \in 1..Len(new) : new[n].cond = Builtin.cond
  BY <1>1, RenderedRows
<1> HIDE DEF new
<1>3. \A n \in 1..Len(new) : new[n].cond = 0
  BY <1>1, <1>2
<1>4. rows' = rows \o new
  BY DEF new
<1> QED BY <1>2, <1>3, <1>4, MoreRows

\* What the scan carries to its dispatch is owed.
LEMMA DispatchedIsOwed ==
  ASSUME EdgeInv, DispatchAlerts
  PROVE  EdgeInv'
<1> DEFINE edges == {[cond |-> c, edge |-> "resolved"] : c \in {x \in ResolvedUnannounced : ~Reopened(x)}}
                    \cup {[cond |-> c, edge |-> "opened"] : c \in Open}
<1>1. /\ scan' = [at |-> "dispatch",
                  todo |-> {[cond |-> e.cond, edge |-> e.edge, rule |-> r, row |-> rules[r]] :
                              e \in edges, r \in {x \in Rules : rules[x].live}}]
      /\ conditions' = conditions /\ notified' = notified /\ rows' = rows
  BY DEF DispatchAlerts
<1>2. \A e \in edges : e.cond \in 1..Len(conditions) /\ e.edge \in {"opened", "resolved"}
                       /\ (e.edge = "resolved" => ~conditions[e.cond].open)
  <2> TAKE e \in edges
  <2>1. CASE \E c \in {x \in ResolvedUnannounced : ~Reopened(x)} : e = [cond |-> c, edge |-> "resolved"]
    <3>1. PICK c \in ResolvedUnannounced : e = [cond |-> c, edge |-> "resolved"]
      BY <2>1, Zenon
    <3>2. c \in 1..Len(conditions) /\ ~conditions[c].open
      BY Zenon DEF ResolvedUnannounced
    <3> QED BY <3>1, <3>2
  <2>2. CASE \E c \in Open : e = [cond |-> c, edge |-> "opened"]
    BY <2>2 DEF Open
  <2> QED BY <2>1, <2>2, Zenon
<1> HIDE DEF edges
<1>3. \A t \in scan'.todo : \E e \in edges, r \in Rules :
        t = [cond |-> e.cond, edge |-> e.edge, rule |-> r, row |-> rules[r]]
  BY <1>1
<1>4. \A t \in scan'.todo : Owed(t)
  BY <1>2, <1>3 DEF Owed
<1>5. scan' = [at |-> scan'.at, todo |-> scan'.todo]
  BY <1>1
<1> QED BY <1>1, <1>4, <1>5, RowsUntouched

\* A dispatch claims its edge and writes its rows at once, or leaves all as it is.
LEMMA DispatchedOnce ==
  ASSUME EdgeInv, NEW t \in scan.todo, dispatchOne(t)
  PROVE  EdgeInv'
<1> DEFINE new == render(t, conditions[t.cond].of, t.row.to)
<1>1. Owed(t) /\ rows \in Seq(Deliveries)
  BY DEF EdgeInv
<1>2. t.cond \in Nat /\ t.rule \in Rules \cup {"none"} /\ t.edge \in {"event", "opened", "resolved"}
  BY <1>1 DEF Owed, EdgeInv
<1>3. /\ new \in Seq(Deliveries)
      /\ \A n \in 1..Len(new) : new[n].cond = t.cond /\ new[n].rule = t.rule /\ new[n].edge = t.edge
      /\ \A n, m \in 1..Len(new) : new[n].hook = new[m].hook => n = m
  BY <1>1, <1>2, RenderedRows
<1>4. /\ MarkNotified(t, new) \/ UNCHANGED <<notified, rows, sends>>
      /\ scan' = [scan EXCEPT !.todo = @ \ {t}] /\ conditions' = conditions
  BY Zenon DEF dispatchOne
<1> HIDE DEF new
<1>5. CASE UNCHANGED <<notified, rows, sends>>
  <2>1. scan' = [at |-> scan.at, todo |-> scan.todo \ {t}]
    BY <1>4 DEF EdgeInv
  <2>2. \A x \in scan'.todo : Owed(x)
    BY <2>1 DEF EdgeInv
  <2>3. scan' = [at |-> scan'.at, todo |-> scan'.todo]
    BY <2>1
  <2> QED BY <1>4, <1>5, <2>2, <2>3, RowsUntouched
<1>6. CASE ~UNCHANGED <<notified, rows, sends>>
  <2>1. /\ Claim(t.cond, t.rule, t.edge) \notin notified
        /\ t.edge = "opened" \/ Claim(t.cond, t.rule, "opened") \in notified
        /\ notified' = notified \cup {Claim(t.cond, t.rule, t.edge)} /\ rows' = rows \o new
    BY <1>4, <1>6, Zenon DEF MarkNotified
  <2> QED BY <1>3, <1>4, <2>1, ClaimedOnce
<1> QED BY <1>5, <1>6

\* A rule that goes takes its claims, and its rows announce no condition any more.
LEMMA RuleTakesItsClaims ==
  ASSUME EdgeInv, NEW s, NEW r, DeleteAlertRule(s, r)
  PROVE  EdgeInv'
<1>1. /\ rows \in Seq(Deliveries) /\ DOMAIN rows = 1..Len(rows) /\ Len(rows) \in Nat
      /\ \A x \in 1..Len(rows) : rows[x] \in Deliveries
  BY DEF EdgeInv
<1>2. /\ notified' = {n \in notified : n[2] # r}
      /\ rows' = [d \in 1..Len(rows) |-> IF rows[d].rule = r THEN [rows[d] EXCEPT !.cond = 0] ELSE rows[d]]
      /\ conditions' = conditions /\ scan' = scan
  BY <1>1 DEF DeleteAlertRule
<1>3. \A x \in 1..Len(rows) :
        /\ [rows[x] EXCEPT !.cond = 0] \in Deliveries /\ [rows[x] EXCEPT !.cond = 0].cond = 0
        /\ [rows[x] EXCEPT !.cond = 0].hook = rows[x].hook /\ [rows[x] EXCEPT !.cond = 0].rule = rows[x].rule
        /\ [rows[x] EXCEPT !.cond = 0].edge = rows[x].edge
  BY <1>1 DEF Deliveries
<1>4. \A d \in 1..Len(rows) : rows[d].rule # r => Backed(d)
  BY <1>2 DEF Backed, Claim
<1>5. \A d \in 1..Len(rows) :
        /\ rows'[d] \in Deliveries
        /\ rows'[d].hook = rows[d].hook /\ rows'[d].rule = rows[d].rule /\ rows'[d].edge = rows[d].edge
        /\ rows'[d].cond = 0 \/ (rows'[d].cond = rows[d].cond /\ Backed(d))
  <2> TAKE d \in 1..Len(rows)
  <2>1. CASE rows[d].rule = r
    BY <1>2, <1>3, <2>1
  <2>2. CASE rows[d].rule # r
    BY <1>1, <1>2, <1>4, <2>2
  <2> QED BY <2>1, <2>2
<1>6. rows' = [d \in 1..Len(rows) |-> rows'[d]]
  BY <1>2
<1>7. rows' \in Seq(Deliveries) /\ Len(rows') = Len(rows)
  BY <1>1, <1>5, <1>6
<1>8. scan' = [at |-> scan'.at, todo |-> scan'.todo] /\ \A t \in scan'.todo : Owed(t)'
  BY <1>2 DEF EdgeInv, Owed
<1>9. conditions' \in Seq(ConditionRow) /\ Len(conditions) \in Nat /\ Len(conditions) <= Len(conditions')
  BY <1>2 DEF EdgeInv
<1>10. \A c \in 1..Len(conditions) : ~conditions[c].open => ~conditions'[c].open
  BY <1>2
<1> QED BY <1>5, <1>7, <1>8, <1>9, <1>10, EdgesStand

\* A destination that goes marks its rows, which keep whose edge they announce.
LEMMA HookMarksItsRows ==
  ASSUME EdgeInv, NEW s, NEW h, DeleteWebhook(s, h)
  PROVE  EdgeInv'
<1>1. /\ rows \in Seq(Deliveries) /\ DOMAIN rows = 1..Len(rows) /\ Len(rows) \in Nat
      /\ \A x \in 1..Len(rows) : rows[x] \in Deliveries
  BY DEF EdgeInv
<1> DEFINE R(d) == [rows[d] EXCEPT !.gone = @ \/ rows[d].hook = h]
<1>2. /\ rows' = [d \in 1..Len(rows) |-> R(d)] /\ UNCHANGED <<conditions, notified, scan>>
  BY <1>1, Zenon DEF DeleteWebhook
<1>3. ASSUME NEW d \in 1..Len(rows)
      PROVE  /\ R(d) \in Deliveries /\ R(d).cond = rows[d].cond /\ R(d).rule = rows[d].rule
             /\ R(d).edge = rows[d].edge /\ R(d).hook = rows[d].hook
  <2>1. (rows[d].gone \/ rows[d].hook = h) \in BOOLEAN /\ rows[d] \in Deliveries
    BY <1>1
  <2> QED BY <2>1 DEF Deliveries
<1> HIDE DEF R
<1>4. \A d \in 1..Len(rows) : rows'[d] = R(d)
  BY <1>2
<1>5. rows' \in Seq(Deliveries) /\ Len(rows') = Len(rows)
  BY <1>1, <1>2, <1>3
<1> QED BY <1>2, <1>3, <1>4, <1>5, RowsKept

\* Destinations and rules.
LEMMA ConfigureKeepsEdges ==
  ASSUME EdgeInv, Configure
  PROVE  EdgeInv'
<1>1. PICK s \in Scopes :
        \/ \E h \in Hooks :
             \/ \E k \in {"discord", "generic"}, all \in BOOLEAN : CreateWebhook(s, h, k, all)
             \/ \E on, all \in BOOLEAN : UpdateWebhook(s, h, on, all)
             \/ DeleteWebhook(s, h) \/ TestWebhook(s, h)
        \/ \E r \in Rules :
             \/ \E rec \in EditedRules : CreateAlertRule(s, r, rec) \/ PatchAlertRule(s, r, rec)
             \/ DeleteAlertRule(s, r)
  BY Zenon DEF Configure
<1>0. scan = [at |-> scan.at, todo |-> scan.todo] /\ \A t \in scan.todo : Owed(t)
  BY DEF EdgeInv
<1>2. CASE conditions' = conditions /\ notified' = notified /\ rows' = rows /\ scan' = scan
  BY <1>0, <1>2, RowsUntouched
<1>3. ASSUME NEW h \in Hooks, NEW k, NEW all, CreateWebhook(s, h, k, all) PROVE EdgeInv'
  BY <1>2, <1>3 DEF CreateWebhook
<1>4. ASSUME NEW h \in Hooks, NEW on, NEW all, UpdateWebhook(s, h, on, all) PROVE EdgeInv'
  BY <1>2, <1>4 DEF UpdateWebhook
<1>5. ASSUME NEW h \in Hooks, DeleteWebhook(s, h) PROVE EdgeInv'
  BY <1>5, HookMarksItsRows
<1>6. ASSUME NEW h \in Hooks, TestWebhook(s, h) PROVE EdgeInv'
  <2> DEFINE d == NewDelivery(h, Builtin, 0)
  <2>1. d \in Deliveries /\ d.cond = 0
    BY DEF NewDelivery, Builtin, Deliveries
  <2>2. rows' = Append(rows, d) /\ conditions' = conditions /\ notified' = notified /\ scan' = scan
    BY <1>6 DEF TestWebhook
  <2> HIDE DEF d
  <2>3. rows' = rows \o <<d>>
    BY <2>1, <2>2 DEF EdgeInv
  <2>4. <<d>> \in Seq(Deliveries) /\ \A n \in 1..Len(<<d>>) : <<d>>[n].cond = 0
    BY <2>1
  <2> QED BY <2>2, <2>3, <2>4, MoreRows
<1>7. ASSUME NEW r \in Rules, NEW rec, CreateAlertRule(s, r, rec) \/ PatchAlertRule(s, r, rec) PROVE EdgeInv'
  BY <1>2, <1>7 DEF CreateAlertRule, PatchAlertRule
<1>8. ASSUME NEW r \in Rules, DeleteAlertRule(s, r) PROVE EdgeInv'
  BY <1>8, RuleTakesItsClaims
<1> QED BY <1>1, <1>3, <1>4, <1>5, <1>6, <1>7, <1>8, Zenon

\* What happens to the instances, and the built-in events it writes.
LEMMA HappenKeepsEdges ==
  ASSUME EdgeInv, Happen \/ NotifyPublicBuild
  PROVE  EdgeInv'
<1>1. ASSUME NEW new, Recorded(new, TRUE) \/ Recorded(new, FALSE)
      PROVE  rows' = rows \o new
  BY <1>1 DEF Recorded
<1>2. ASSUME NEW i, NEW e, NotifyUnexpectedStop(i, e) PROVE EdgeInv'
  <2>1. PICK f : Recorded(prepareExcept(f, i, {"crash_loop", "instance_error"}), TRUE)
    BY <1>2, Zenon DEF NotifyUnexpectedStop
  <2>2. rows' = rows \o prepareExcept(f, i, {"crash_loop", "instance_error"})
    BY <1>1, <2>1
  <2>3. rows' = rows \o render(Builtin, i, {h \in Hooks : hooks[h].catchAll} \ ruleOwned(f, {"crash_loop", "instance_error"}))
    BY <2>2, Zenon DEF prepareExcept
  <2>4. conditions' = conditions /\ notified' = notified /\ scan' = scan
    BY <1>2 DEF NotifyUnexpectedStop
  <2> QED BY <2>3, <2>4, BuiltinRows
<1>3. ASSUME NEW i, OnJobFinished(i) PROVE EdgeInv'
  <2>1. PICK f : Recorded(prepareExcept(f, i, {"job_failed"}), FALSE)
    BY <1>3, Zenon DEF OnJobFinished
  <2>2. rows' = rows \o prepareExcept(f, i, {"job_failed"})
    BY <1>1, <2>1
  <2>3. rows' = rows \o render(Builtin, i, {h \in Hooks : hooks[h].catchAll} \ ruleOwned(f, {"job_failed"}))
    BY <2>2, Zenon DEF prepareExcept
  <2>4. conditions' = conditions /\ notified' = notified /\ scan' = scan
    BY <1>3 DEF OnJobFinished
  <2> QED BY <2>3, <2>4, BuiltinRows
<1>4. ASSUME NEW kind, NEW i, emitByRules(kind, i) PROVE EdgeInv'
  <2>1. PICK keep : Recorded(render(Builtin, i, keep), TRUE)
    BY <1>4, Zenon DEF emitByRules
  <2>2. rows' = rows \o render(Builtin, i, keep)
    BY <1>1, <2>1
  <2>3. conditions' = conditions /\ notified' = notified /\ scan' = scan
    BY <1>4 DEF emitByRules
  <2> QED BY <2>2, <2>3, BuiltinRows
<1>5. ASSUME NEW i, NEW f, FactChanges(i, f) PROVE EdgeInv'
  <2>1. conditions' = conditions /\ notified' = notified /\ scan' = scan /\ rows' = rows
    BY <1>5 DEF FactChanges
  <2> QED BY <2>1, RowsUntouched DEF EdgeInv
<1>6. CASE NotifyPublicBuild
  <2>1. PICK f : Recorded(prepareExcept(f, Everywhere, {"update_available"}), FALSE)
    BY <1>6, Zenon DEF NotifyPublicBuild
  <2>2. rows' = rows \o prepareExcept(f, Everywhere, {"update_available"})
    BY <1>1, <2>1
  <2>3. rows' = rows \o render(Builtin, Everywhere, {h \in Hooks : hooks[h].catchAll} \ ruleOwned(f, {"update_available"}))
    BY <2>2, Zenon DEF prepareExcept
  <2>4. conditions' = conditions /\ notified' = notified /\ scan' = scan
    BY <1>6 DEF NotifyPublicBuild
  <2> QED BY <2>3, <2>4, BuiltinRows
<1> QED BY <1>2, <1>3, <1>4, <1>5, <1>6, Zenon DEF Happen

\* The scan, the dispatcher and the send jobs.
LEMMA WorkKeepsEdges ==
  ASSUME EdgeInv, Work
  PROVE  EdgeInv'
<1>0. scan = [at |-> scan.at, todo |-> scan.todo] /\ \A t \in scan.todo : Owed(t)
  BY DEF EdgeInv
<1>1. CASE ScanReconcile
  <2>1. /\ conditions' \in Seq(ConditionRow) /\ Len(conditions) <= Len(conditions')
        /\ \A c \in 1..Len(conditions) : ~conditions[c].open => ~conditions'[c].open
    BY <1>1, ConditionsEnd DEF ScanReconcile
  <2>2. scan' = [scan EXCEPT !.at = "reconciled"] /\ notified' = notified /\ rows' = rows
    BY <1>1 DEF ScanReconcile
  <2>3. scan' = [at |-> "reconciled", todo |-> scan.todo]
    BY <1>0, <2>2
  <2>4. \A t \in scan'.todo : Owed(t)'
    <3> TAKE t \in scan'.todo
    <3>1. Owed(t) /\ Len(conditions) \in Nat /\ Len(conditions') \in Nat
      BY <1>0, <2>1, <2>3 DEF EdgeInv
    <3> QED BY <2>1, <3>1 DEF Owed
  <2>5. scan' = [at |-> scan'.at, todo |-> scan'.todo]
    BY <2>3
  <2>6. \A d \in 1..Len(rows) : Backed(d)
    BY <2>2 DEF Backed
  <2>7. rows' \in Seq(Deliveries)
    BY <2>2 DEF EdgeInv
  <2> QED BY <2>1, <2>2, <2>4, <2>5, <2>6, <2>7, EdgesStand
<1>2. CASE DispatchAlerts
  BY <1>2, DispatchedIsOwed
<1>3. CASE ScanEnds
  <2>1. scan' = [at |-> "idle", todo |-> {}] /\ conditions' = conditions /\ notified' = notified /\ rows' = rows
    BY <1>3 DEF ScanEnds, IdleScan
  <2>2. scan' = [at |-> scan'.at, todo |-> scan'.todo] /\ \A t \in scan'.todo : Owed(t)
    BY <2>1
  <2> QED BY <2>1, <2>2, RowsUntouched
<1>4. ASSUME NEW t \in scan.todo, dispatchOne(t) PROVE EdgeInv'
  BY <1>4, DispatchedOnce
<1>5. CASE conditions' = conditions /\ notified' = notified /\ rows' = rows /\ scan' = scan
  BY <1>0, <1>5, RowsUntouched
<1>6. CASE DispatchPass
  BY <1>5, <1>6 DEF DispatchPass
<1>7. ASSUME NEW d, SubmitListed(d) PROVE EdgeInv'
  BY <1>5, <1>7 DEF SubmitListed
<1>8. ASSUME NEW d, NEW status \in {"pending", "delivered", "failed"}, NEW remote \in BOOLEAN,
             \/ rows' = [rows EXCEPT ![d].status = status]
             \/ rows' = [rows EXCEPT ![d].status = status, ![d].remote = remote],
             conditions' = conditions /\ notified' = notified /\ scan' = scan
      PROVE  EdgeInv'
  BY <1>8, RowKeeps, RowsKept
<1>9. ASSUME NEW d, RunDelivery(d) PROVE EdgeInv'
  <2>1. /\ rows' = rows \/ rows' = [rows EXCEPT ![d].status = "failed"]
        /\ conditions' = conditions /\ notified' = notified /\ scan' = scan
    BY <1>9 DEF RunDelivery, FinishDelivery
  <2>2. CASE rows' = rows
    BY <1>5, <2>1, <2>2
  <2>3. CASE rows' = [rows EXCEPT ![d].status = "failed"]
    BY <1>8, <2>1, <2>3
  <2> QED BY <2>1, <2>2, <2>3
<1>10. ASSUME NEW d, RecordDelivered(d) PROVE EdgeInv'
  <2>1. PICK found : rows' = [rows EXCEPT ![d].status = "delivered",
                            ![d].remote = @ \/ (hooks[rows[d].hook].kind = "discord" /\ ~found)]
    BY <1>10, Zenon DEF RecordDelivered
  <2>2. PICK remote \in BOOLEAN : rows' = [rows EXCEPT ![d].status = "delivered", ![d].remote = remote]
    BY <2>1
  <2>3. conditions' = conditions /\ notified' = notified /\ scan' = scan
    BY <1>10 DEF RecordDelivered
  <2> QED BY <1>8, <2>2, <2>3
<1> QED BY <1>1, <1>2, <1>3, <1>4, <1>6, <1>7, <1>9, <1>10, Zenon DEF Work

\* A rule writes at most one delivery of each edge of a condition to a
\* destination, and no resolution of what it did not announce, however often the
\* scan runs and wherever the panel dies
\* (store: MarkNotified; delivery: dispatchOne).
THEOREM EdgeIsAnnouncedOnce == OutboxSpec => []EdgeOnce
<1>1. OutboxInit => EdgeInv
  BY DEF OutboxInit, EdgeInv, EdgeOnce, IdleScan, Owed
<1>2. EdgeInv /\ [OutboxNext]_outboxVars => EdgeInv'
  <2> SUFFICES ASSUME EdgeInv, [OutboxNext]_outboxVars PROVE EdgeInv'
    OBVIOUS
  <2>0. scan = [at |-> scan.at, todo |-> scan.todo] /\ \A t \in scan.todo : Owed(t)
    BY DEF EdgeInv
  <2>1. CASE UNCHANGED outboxVars
    BY <2>0, <2>1, RowsUntouched DEF outboxVars
  <2>2. CASE TimePasses
    BY <2>0, <2>2, RowsUntouched DEF TimePasses
  <2>3. CASE OutboxKill
    <3>1. scan' = [at |-> "idle", todo |-> {}] /\ conditions' = conditions /\ notified' = notified /\ rows' = rows
      BY <2>3 DEF OutboxKill, IdleScan
    <3>2. scan' = [at |-> scan'.at, todo |-> scan'.todo] /\ \A t \in scan'.todo : Owed(t)
      BY <3>1
    <3> QED BY <3>1, <3>2, RowsUntouched
  <2> QED BY <2>1, <2>2, <2>3, ConfigureKeepsEdges, HappenKeepsEdges, WorkKeepsEdges DEF OutboxNext
<1>3. EdgeInv => EdgeOnce
  BY DEF EdgeInv
<1> QED BY <1>1, <1>2, <1>3, PTL DEF OutboxSpec

----------------------------------------------------------------------------
(* Provisioning and the cache of game builds.                              *)

Holding == {"clear", "start", "fetch", "publish"}
Phases == {"none", "dirs", "query", "lock", "clone", "container", "finish"} \cup Holding
CacheDirs == Parts \cup {Final(b) : b \in Builds}

HelperRow == [key : Parts, dir : CacheDirs \cup {Deleted}, build : Builds, of : Ids \cup {"nobody"}]
ProvisionRow == [phase : Phases, build : Nat, part : Parts \cup {Deleted}, try : Nat]

CacheTypes ==
  /\ prov \in [Ids -> ProvisionRow] /\ steam \in [Branches -> Builds] /\ leaked \in BOOLEAN
  /\ dirs \in [CacheDirs -> [build : Nat, whole : BOOLEAN]] /\ helpers \in SUBSET HelperRow
  /\ \A i \in Ids : prov[i].phase \in {"lock"} \cup Holding => prov[i].part \in Parts

\* One job at a time holds the cache; a helper somebody waits for is the one
\* of a download, in its directory.
OneDownload ==
  /\ \A i, j \in Ids : prov[i].phase \in Holding /\ prov[j].phase \in Holding => i = j
  /\ \A h \in helpers : h.of # "nobody" => prov[h.of].phase = "fetch" /\ h.dir = prov[h.of].part
  /\ \A g, h \in helpers : g.of # "nobody" /\ g.of = h.of => g = h
  /\ \A i \in Ids : prov[i].phase \in {"fetch", "publish"} => dirs[prov[i].part].build \in Builds
  /\ \A i \in Ids : prov[i].phase \in {"start", "fetch"} => prov[i].try > 0

\* Nobody else writes the directory of a download after it was cleared, and
\* what is published is whole.
CacheSound ==
  /\ \A h \in helpers : h.dir = h.key
  /\ \A i \in Ids :
       /\ prov[i].phase = "start" /\ prov[i].try = 1 => \A h \in helpers : h.dir # prov[i].part
       /\ prov[i].phase = "fetch" => \A h \in helpers : h.dir = prov[i].part => h.of = i
       /\ prov[i].phase = "publish" => dirs[prov[i].part].whole /\ \A h \in helpers : h.dir # prov[i].part
  /\ \A b \in Builds : dirs[Final(b)] # NoDir => dirs[Final(b)] = [build |-> b, whole |-> TRUE]

CacheInv == CacheTypes /\ OneDownload /\ (~leaked => CacheSound)

\* A directory of a download is none of a published build.
LEMMA DirsApart ==
  ASSUME NEW p \in Parts, NEW b
  PROVE  p # Final(b) /\ p # Deleted /\ p \in CacheDirs
BY DEF Parts, Final, Deleted, CacheDirs

\* A job that does not hold the cache, before and after its step, leaves it alone.
LEMMA JobBesideTheCache ==
  ASSUME CacheInv, NEW i \in Ids, NEW r \in ProvisionRow, r.phase \notin Holding,
         r.phase = "lock" => r.part \in Parts, prov[i].phase # "fetch",
         prov' = [prov EXCEPT ![i] = r], UNCHANGED <<helpers, dirs, steam, leaked>>
  PROVE  CacheInv'
<1>1. prov' \in [Ids -> ProvisionRow] /\ prov'[i] = r /\ \A j \in Ids : j # i => prov'[j] = prov[j]
  BY DEF CacheInv, CacheTypes
<1>2. CacheTypes'
  BY <1>1 DEF CacheInv, CacheTypes
<1>3. \A h \in helpers : h.of # "nobody" => h.of \in Ids /\ h.of # i
  BY DEF CacheInv, CacheTypes, OneDownload, HelperRow
<1>4. OneDownload'
  BY <1>1, <1>3 DEF CacheInv, OneDownload, Holding
<1>5. (~leaked => CacheSound)'
  BY <1>1 DEF CacheInv, CacheSound, Holding
<1> QED BY <1>2, <1>4, <1>5 DEF CacheInv

\* A job that gives up, and what is left of its helper runs for nobody.
LEMMA HelpersLeft ==
  ASSUME CacheInv, NEW i \in Ids, NEW left \in SUBSET {h \in helpers : h.of = i},
         helpers' = {h \in helpers : h.of # i} \cup {[h EXCEPT !.of = "nobody"] : h \in left}
  PROVE  /\ helpers' \in SUBSET HelperRow
         /\ \A g \in helpers' : \E h \in helpers : g.dir = h.dir /\ g.key = h.key /\ (g = h \/ g.of = "nobody")
         /\ \A g \in helpers' : g.of # i /\ (g.of # "nobody" => g \in helpers)
         /\ prov[i].phase # "fetch" => helpers' = helpers
         /\ \A g \in helpers' : g \in helpers \/ \E h \in helpers : h.of = i /\ g.dir = h.dir
<1>2. \A h \in helpers : LET g == [h EXCEPT !.of = "nobody"] IN
        g \in HelperRow /\ g.dir = h.dir /\ g.key = h.key /\ g.of = "nobody"
  BY DEF CacheInv, CacheTypes, HelperRow
<1>3. \A g \in helpers' : (g \in helpers /\ g.of # i) \/ \E h \in left : g = [h EXCEPT !.of = "nobody"]
  OBVIOUS
<1>4. i # "nobody"
  BY ProvisioningAssumption
<1>5. \A h \in helpers : h \in HelperRow
  BY DEF CacheInv, CacheTypes
<1>6. ASSUME prov[i].phase # "fetch" PROVE helpers' = helpers
  <2>1. \A h \in helpers : h.of # i
    BY <1>4, <1>6 DEF CacheInv, OneDownload
  <2> QED BY <2>1
<1>7. ASSUME NEW g \in helpers'
      PROVE  /\ g \in HelperRow
             /\ \E h \in helpers : g.dir = h.dir /\ g.key = h.key /\ (g = h \/ g.of = "nobody")
             /\ g.of # i /\ (g.of # "nobody" => g \in helpers)
             /\ g \in helpers \/ \E h \in helpers : h.of = i /\ g.dir = h.dir
  <2>1. CASE g \in helpers /\ g.of # i
    BY <1>5, <2>1
  <2>2. ASSUME NEW h \in left, g = [h EXCEPT !.of = "nobody"]
        PROVE  h \in helpers /\ h.of = i /\ g \in HelperRow /\ g.dir = h.dir /\ g.key = h.key /\ g.of = "nobody"
    BY <1>2, <2>2
  <2> QED BY <1>3, <1>4, <2>1, <2>2
<1> QED BY <1>6, <1>7

\* A job that gives up an attempt, for good or to try again, leaves at most a
\* stray of its own.
LEMMA AttemptGivenUp ==
  ASSUME CacheInv, NEW i \in Ids, NEW left \in SUBSET {h \in helpers : h.of = i},
         helpers' = {h \in helpers : h.of # i} \cup {[h EXCEPT !.of = "nobody"] : h \in left},
         NEW r \in ProvisionRow, prov' = [prov EXCEPT ![i] = r],
         \/ r.phase = "none"
         \/ prov[i].phase = "fetch" /\ r.phase = "start" /\ r.try > 1 /\ r.part = prov[i].part,
         UNCHANGED <<dirs, steam, leaked>>
  PROVE  CacheInv'
<1>1. prov' \in [Ids -> ProvisionRow] /\ prov'[i] = r /\ \A j \in Ids : j # i => prov'[j] = prov[j]
  BY DEF CacheInv, CacheTypes
<1>2. /\ helpers' \in SUBSET HelperRow
      /\ \A g \in helpers' : \E h \in helpers : g.dir = h.dir /\ g.key = h.key /\ (g = h \/ g.of = "nobody")
      /\ \A g \in helpers' : g.of # i /\ (g.of # "nobody" => g \in helpers)
      /\ prov[i].phase # "fetch" => helpers' = helpers
  BY HelpersLeft
<1>3. r.try \in Nat
  BY DEF ProvisionRow
<1>4. CacheTypes'
  BY <1>1, <1>2 DEF CacheInv, CacheTypes, Holding
<1>5. \A g \in helpers' : g.of # "nobody" => g.of \in Ids /\ g.of # i /\ g \in helpers
  BY <1>2 DEF HelperRow
<1>6. OneDownload'
  <2>1. \A j, k \in Ids : prov'[j].phase \in Holding /\ prov'[k].phase \in Holding => j = k
    BY <1>1 DEF CacheInv, OneDownload, Holding
  <2>2. \A h \in helpers' : h.of # "nobody" => prov'[h.of].phase = "fetch" /\ h.dir = prov'[h.of].part
    BY <1>1, <1>5 DEF CacheInv, OneDownload
  <2>3. \A g, h \in helpers' : g.of # "nobody" /\ g.of = h.of => g = h
    BY <1>5 DEF CacheInv, OneDownload
  <2>4. \A j \in Ids : prov'[j].phase \in {"fetch", "publish"} => dirs'[prov'[j].part].build \in Builds
    BY <1>1 DEF CacheInv, OneDownload
  <2>5. \A j \in Ids : prov'[j].phase \in {"start", "fetch"} => prov'[j].try > 0
    BY <1>1, <1>3 DEF CacheInv, OneDownload
  <2> QED BY <2>1, <2>2, <2>3, <2>4, <2>5 DEF OneDownload, Builds
<1>7. ASSUME ~leaked PROVE CacheSound'
  <2>1. CacheSound
    BY <1>7 DEF CacheInv
  <2>2. \A h \in helpers' : h.dir = h.key
    BY <1>2, <2>1 DEF CacheSound
  <2>3. \A b \in Builds : dirs'[Final(b)] # NoDir => dirs'[Final(b)] = [build |-> b, whole |-> TRUE]
    BY <2>1 DEF CacheSound
  <2>4. ASSUME NEW j \in Ids
        PROVE  /\ prov'[j].phase = "start" /\ prov'[j].try = 1 => \A h \in helpers' : h.dir # prov'[j].part
               /\ prov'[j].phase = "fetch" => \A h \in helpers' : h.dir = prov'[j].part => h.of = j
               /\ prov'[j].phase = "publish" =>
                    dirs'[prov'[j].part].whole /\ \A h \in helpers' : h.dir # prov'[j].part
    <3>1. CASE j = i
      BY <1>1, <3>1
    <3>2. CASE j # i /\ prov[i].phase = "fetch"
      BY <1>1, <3>2 DEF CacheInv, OneDownload, Holding
    <3>3. CASE j # i /\ prov[i].phase # "fetch"
      BY <1>1, <1>2, <2>1, <3>3 DEF CacheSound
    <3> QED BY <3>1, <3>2, <3>3
  <2> QED BY <2>2, <2>3, <2>4 DEF CacheSound, Builds, Final, NoDir
<1> QED BY <1>4, <1>6, <1>7 DEF CacheInv

\* After the clearing nobody writes the directory, and one helper is started in it.
LEMMA DownloadBegins ==
  ASSUME CacheInv, NEW i \in Ids, Ensure(i) \/ clearSurvivingDownload(i)
  PROVE  CacheInv'
<1>0. /\ prov \in [Ids -> ProvisionRow] /\ prov[i] \in ProvisionRow
      /\ \A h \in helpers : h \in HelperRow
  BY DEF CacheInv, CacheTypes
<1>1. CASE Ensure(i)
  <2>1. UNCHANGED <<helpers, dirs, steam, leaked>> /\ prov[i].phase = "lock" /\ ~CacheLocked
    BY <1>1 DEF Ensure
  <2>2. CASE prov' = [prov EXCEPT ![i] = [NoProv EXCEPT !.phase = "clone", !.build = prov[i].build]]
    <3> DEFINE r == [NoProv EXCEPT !.phase = "clone", !.build = prov[i].build]
    <3>1. r \in ProvisionRow /\ r.phase = "clone"
      BY <1>0 DEF ProvisionRow, NoProv, Phases
    <3>2. prov' = [prov EXCEPT ![i] = r]
      BY <2>2
    <3> HIDE DEF r
    <3> QED BY <2>1, <3>1, <3>2, JobBesideTheCache DEF Holding
  <2>3. CASE prov' = [prov EXCEPT ![i] = [prov[i] EXCEPT !.phase = "clear"]]
    <3> DEFINE r == [prov[i] EXCEPT !.phase = "clear"]
    <3>1. r \in ProvisionRow /\ r.phase = "clear" /\ r.part = prov[i].part
      BY <1>0 DEF ProvisionRow, Phases, Holding
    <3>2. prov' \in [Ids -> ProvisionRow] /\ prov'[i] = r /\ \A j \in Ids : j # i => prov'[j] = prov[j]
      BY <1>0, <2>3, <3>1
    <3> HIDE DEF r
    <3>3. \A j \in Ids : prov[j].phase \notin Holding
      BY <2>1 DEF CacheLocked, Holding
    <3>4. CacheTypes'
      BY <2>1, <3>1, <3>2 DEF CacheInv, CacheTypes
    <3>5. OneDownload'
      BY <2>1, <3>1, <3>2, <3>3, <1>0 DEF CacheInv, OneDownload, HelperRow, Holding
    <3>6. (~leaked => CacheSound)'
      BY <2>1, <3>1, <3>2, <3>3 DEF CacheInv, CacheSound, Holding
    <3> QED BY <3>4, <3>5, <3>6 DEF CacheInv
  <2> QED BY <1>1, <2>2, <2>3, Zenon DEF Ensure
<1>2. CASE clearSurvivingDownload(i)
  <2>1. /\ UNCHANGED <<dirs, steam, leaked>> /\ prov[i].phase = "clear"
        /\ helpers' = {h \in helpers : h.key # prov[i].part}
        /\ prov' = [prov EXCEPT ![i].phase = "start", ![i].try = 1]
    BY <1>2 DEF clearSurvivingDownload, RemoveThrowaways
  <2>2. /\ prov' \in [Ids -> ProvisionRow] /\ \A j \in Ids : j # i => prov'[j] = prov[j]
        /\ prov'[i].phase = "start" /\ prov'[i].part = prov[i].part /\ prov'[i].try = 1
    BY <1>0, <2>1 DEF ProvisionRow, Phases, Holding
  <2>3. CacheTypes'
    BY <2>1, <2>2 DEF CacheInv, CacheTypes, Holding
  <2>4. OneDownload'
    BY <2>1, <2>2, <1>0 DEF CacheInv, OneDownload, HelperRow, Holding
  <2>5. ASSUME ~leaked PROVE CacheSound'
    <3>1. CacheSound
      BY <2>5 DEF CacheInv
    <3>2. \A j \in Ids : j # i => prov'[j].phase \notin Holding
      BY <2>1, <2>2 DEF CacheInv, OneDownload, Holding
    <3> QED BY <2>1, <2>2, <3>1, <3>2 DEF CacheSound, Holding
  <2> QED BY <2>1, <2>3, <2>4, <2>5 DEF CacheInv
<1> QED BY <1>1, <1>2

\* A helper that ends touches its own directory only.
LEMMA HelperTouchesItsOwn ==
  ASSUME CacheInv, NEW h \in helpers, dirs' = HelperLeaves(h)
  PROVE  /\ dirs' \in [CacheDirs -> [build : Nat, whole : BOOLEAN]]
         /\ \A d \in CacheDirs : d # h.dir => dirs'[d] = dirs[d]
         /\ h.dir \in CacheDirs => /\ dirs'[h.dir].build = h.build /\ h.build \in Builds
                                   /\ dirs'[h.dir].whole = (\A g \in helpers \ {h} : g.dir # h.dir)
<1>1. dirs \in [CacheDirs -> [build : Nat, whole : BOOLEAN]] /\ DOMAIN dirs = CacheDirs /\ h \in HelperRow
  BY DEF CacheInv, CacheTypes
<1>2. h.build \in Builds /\ h.build \in Nat /\ h.dir \in CacheDirs \cup {Deleted}
  BY <1>1, ProvisioningAssumption DEF HelperRow, Builds
<1> DEFINE w == \A g \in helpers \ {h} : g.dir # h.dir
<1>3. dirs' = IF h.dir \in CacheDirs THEN [dirs EXCEPT ![h.dir] = [build |-> h.build, whole |-> w]] ELSE dirs
  BY <1>1, Zenon DEF HelperLeaves
<1>4. w \in BOOLEAN
  OBVIOUS
<1> HIDE DEF w
<1>5. [build |-> h.build, whole |-> w] \in [build : Nat, whole : BOOLEAN]
  BY <1>2, <1>4
<1>6. /\ dirs' \in [CacheDirs -> [build : Nat, whole : BOOLEAN]]
      /\ \A d \in CacheDirs : d # h.dir => dirs'[d] = dirs[d]
      /\ h.dir \in CacheDirs => dirs'[h.dir].build = h.build /\ dirs'[h.dir].whole = w
  BY <1>1, <1>3, <1>5
<1> QED BY <1>2, <1>6 DEF w

\* The helper of an attempt is alone in its directory, or the attempt before
\* it leaked one.
LEMMA HelperStarts ==
  ASSUME CacheInv, NEW i \in Ids, instances[i].branch \in Branches, StartHelper(i)
  PROVE  CacheInv'
<1> DEFINE p == prov[i].part
<1> DEFINE b == steam[instances[i].branch]
<1> DEFINE new == [key |-> p, dir |-> p, build |-> b, of |-> i]
<1>0. prov \in [Ids -> ProvisionRow] /\ prov[i] \in ProvisionRow /\ (\A h \in helpers : h \in HelperRow)
      /\ dirs \in [CacheDirs -> [build : Nat, whole : BOOLEAN]] /\ leaked \in BOOLEAN
  BY DEF CacheInv, CacheTypes
<1>1. /\ prov[i].phase = "start" /\ steam' = steam
      /\ helpers' = helpers \cup {new} /\ dirs' = [dirs EXCEPT ![p] = [build |-> b, whole |-> FALSE]]
      /\ leaked' = (leaked \/ (prov[i].try > 1 /\ \E h \in helpers : h.dir = p))
      /\ prov' = [prov EXCEPT ![i].phase = "fetch"]
  BY DEF StartHelper
<1>2. p \in Parts /\ p \in CacheDirs /\ b \in Builds /\ b \in Nat /\ i # "nobody"
  <2>1. p \in Parts
    BY <1>1 DEF CacheInv, CacheTypes, Holding
  <2>2. p \in CacheDirs
    BY <2>1 DEF CacheDirs
  <2>3. b \in Builds
    BY DEF CacheInv, CacheTypes
  <2>4. b \in Nat /\ i # "nobody"
    BY <2>3, ProvisioningAssumption DEF Builds
  <2> QED BY <2>1, <2>2, <2>3, <2>4
<1>3. new \in HelperRow /\ new.dir = p /\ new.key = p /\ new.of = i
  BY <1>2 DEF HelperRow
<1>4. /\ prov' \in [Ids -> ProvisionRow] /\ \A j \in Ids : j # i => prov'[j] = prov[j]
      /\ prov'[i].phase = "fetch" /\ prov'[i].part = p /\ prov'[i].try = prov[i].try
  BY <1>0, <1>1 DEF ProvisionRow, Phases, Holding
<1> HIDE DEF new
<1>5. /\ dirs' \in [CacheDirs -> [build : Nat, whole : BOOLEAN]] /\ dirs'[p].build = b
      /\ \A d \in CacheDirs : d # p => dirs'[d] = dirs[d]
  BY <1>0, <1>1, <1>2
<1>6. leaked' \in BOOLEAN
  BY <1>0, <1>1
<1>7. CacheTypes'
  BY <1>1, <1>2, <1>3, <1>4, <1>5, <1>6 DEF CacheInv, CacheTypes, Holding
<1>8. \A h \in helpers : h.of # i
  BY <1>1, <1>2 DEF CacheInv, OneDownload
<1>9. \A j \in Ids : j # i => prov[j].phase \notin Holding
  BY <1>1 DEF CacheInv, OneDownload, Holding
<1>10. OneDownload'
  <2>1. \A h \in helpers' : h.of # "nobody" => prov'[h.of].phase = "fetch" /\ h.dir = prov'[h.of].part
    BY <1>0, <1>1, <1>3, <1>4, <1>8 DEF CacheInv, OneDownload, HelperRow
  <2>2. \A g, h \in helpers' : g.of # "nobody" /\ g.of = h.of => g = h
    BY <1>1, <1>3, <1>8 DEF CacheInv, OneDownload
  <2>3. prov'[i].try > 0 /\ dirs'[prov'[i].part].build \in Builds
    BY <1>1, <1>2, <1>4, <1>5 DEF CacheInv, OneDownload
  <2> QED BY <1>4, <1>9, <2>1, <2>2, <2>3 DEF OneDownload, Holding, Builds
<1>11. ASSUME ~leaked' PROVE CacheSound'
  <2>1. CacheSound /\ ~(prov[i].try > 1 /\ \E h \in helpers : h.dir = p)
    BY <1>0, <1>1, <1>11 DEF CacheInv
  <2>2. prov[i].try = 1 \/ prov[i].try > 1
    BY <1>0, <1>1 DEF CacheInv, OneDownload, ProvisionRow
  <2>3. \A h \in helpers : h.dir # p
    BY <1>1, <2>1, <2>2 DEF CacheSound
  <2>4. \A h \in helpers' : h.dir = h.key /\ (h.dir = p => h.of = i)
    BY <1>1, <1>3, <2>1, <2>3 DEF CacheSound
  <2>5. \A c \in Builds : Final(c) \in CacheDirs /\ Final(c) # p
    BY <1>2, DirsApart DEF CacheDirs
  <2>6. \A c \in Builds : dirs'[Final(c)] # NoDir => dirs'[Final(c)] = [build |-> c, whole |-> TRUE]
    BY <1>5, <2>1, <2>5 DEF CacheSound
  <2> QED BY <1>4, <1>9, <2>4, <2>6 DEF CacheSound, Holding, Builds, Final, NoDir
<1> QED BY <1>7, <1>10, <1>11 DEF CacheInv

\* A helper that ends, waited for or not, leaves a whole tree where it was alone.
LEMMA HelperEnds ==
  ASSUME CacheInv, NEW h \in helpers, dirs' = HelperLeaves(h), helpers' = helpers \ {h},
         \/ h.of = "nobody" /\ prov' = prov
         \/ h.of \in Ids /\ prov' = [prov EXCEPT ![h.of].phase = "publish"],
         UNCHANGED <<steam, leaked>>
  PROVE  CacheInv'
<1>0. prov \in [Ids -> ProvisionRow] /\ (\A g \in helpers : g \in HelperRow) /\ leaked \in BOOLEAN
  BY DEF CacheInv, CacheTypes
<1>1. /\ dirs' \in [CacheDirs -> [build : Nat, whole : BOOLEAN]]
      /\ \A d \in CacheDirs : d # h.dir => dirs'[d] = dirs[d]
      /\ h.dir \in CacheDirs => /\ dirs'[h.dir].build = h.build /\ h.build \in Builds
                                /\ dirs'[h.dir].whole = (\A g \in helpers \ {h} : g.dir # h.dir)
  BY HelperTouchesItsOwn
<1>2. "nobody" \notin Ids
  BY ProvisioningAssumption
<1>3. \A j \in Ids : prov[j].phase \in {"lock"} \cup Holding => prov[j].part \in Parts /\ prov[j].part \in CacheDirs
  BY DirsApart DEF CacheInv, CacheTypes
<1>4. \A j \in Ids : prov[j].phase \in {"fetch", "publish"} => dirs'[prov[j].part].build \in Builds
  BY <1>1, <1>3 DEF CacheInv, OneDownload, Holding
<1>5. \A c \in Builds : Final(c) \in CacheDirs
  BY DEF CacheDirs
<1>6. ASSUME ~leaked, h.dir \in Parts
      PROVE  \A c \in Builds : dirs'[Final(c)] # NoDir => dirs'[Final(c)] = [build |-> c, whole |-> TRUE]
  BY <1>1, <1>5, <1>6, DirsApart DEF CacheInv, CacheSound
<1>7. ~leaked => h.dir \in Parts
  BY <1>0 DEF CacheInv, CacheSound, HelperRow
<1>8. CASE h.of = "nobody" /\ prov' = prov
  <2>1. CacheTypes'
    BY <1>1, <1>8 DEF CacheInv, CacheTypes
  <2>2. OneDownload'
    BY <1>4, <1>8 DEF CacheInv, OneDownload, Builds
  <2>3. ASSUME ~leaked PROVE CacheSound'
    <3>1. CacheSound
      BY <2>3 DEF CacheInv
    <3>2. \A j \in Ids : prov[j].phase = "publish" => prov[j].part # h.dir
      BY <3>1 DEF CacheSound
    <3>3. \A j \in Ids : prov[j].phase = "publish" => dirs'[prov[j].part].whole
      BY <1>1, <1>3, <3>1, <3>2 DEF CacheSound, Holding
    <3> QED BY <1>6, <1>7, <1>8, <2>3, <3>1, <3>3 DEF CacheSound, Builds, Final, NoDir
  <2> QED BY <2>1, <2>2, <2>3 DEF CacheInv
<1>9. CASE h.of \in Ids /\ prov' = [prov EXCEPT ![h.of].phase = "publish"]
  <2> DEFINE i == h.of
  <2>0. prov[i] \in ProvisionRow /\ prov[i].phase = "fetch" /\ h.dir = prov[i].part /\ i \in Ids
    BY <1>0, <1>2, <1>9 DEF CacheInv, OneDownload
  <2>1. /\ prov' \in [Ids -> ProvisionRow] /\ \A j \in Ids : j # i => prov'[j] = prov[j]
        /\ prov'[i].phase = "publish" /\ prov'[i].part = prov[i].part
    BY <1>0, <1>9, <2>0 DEF ProvisionRow, Phases, Holding
  <2>2. CacheTypes'
    BY <1>1, <2>0, <2>1 DEF CacheInv, CacheTypes, Holding
  <2>3. \A g \in helpers' : g.of # i
    BY <1>2, <2>0 DEF CacheInv, OneDownload
  <2>4. \A j \in Ids : j # i => prov[j].phase \notin Holding
    BY <2>0 DEF CacheInv, OneDownload, Holding
  <2>5. OneDownload'
    <3>1. \A g \in helpers' : g.of # "nobody" => prov'[g.of].phase = "fetch" /\ g.dir = prov'[g.of].part
      BY <1>0, <2>1, <2>3 DEF CacheInv, OneDownload, HelperRow
    <3> QED BY <1>4, <2>0, <2>1, <2>4, <3>1 DEF CacheInv, OneDownload, Holding, Builds
  <2>6. ASSUME ~leaked PROVE CacheSound'
    <3>1. CacheSound
      BY <2>6 DEF CacheInv
    <3>2. \A g \in helpers' : g.dir # prov[i].part
      BY <2>0, <2>3, <3>1 DEF CacheSound
    <3>3. dirs'[prov[i].part].whole
      BY <1>1, <1>3, <2>0, <3>2 DEF Holding
    <3> QED BY <1>6, <1>7, <2>1, <2>4, <2>6, <3>1, <3>2, <3>3 DEF CacheSound, Holding, Builds, Final, NoDir
  <2> QED BY <2>2, <2>5, <2>6 DEF CacheInv
<1> QED BY <1>8, <1>9

\* What is published is what the one download left.
LEMMA BuildPublished ==
  ASSUME CacheInv, NEW i \in Ids, publishBuild(i)
  PROVE  CacheInv'
<1> DEFINE p == prov[i].part
<1> DEFINE actual == dirs[p].build
<1> DEFINE fresh == dirs[Final(actual)] = NoDir
<1> DEFINE Moved(h) == IF h.dir = p THEN [h EXCEPT !.dir = IF fresh THEN Final(actual) ELSE Deleted] ELSE h
<1> DEFINE r == [NoProv EXCEPT !.phase = "clone", !.build = actual]
<1>0. prov \in [Ids -> ProvisionRow] /\ prov[i] \in ProvisionRow /\ (\A h \in helpers : h \in HelperRow)
      /\ dirs \in [CacheDirs -> [build : Nat, whole : BOOLEAN]] /\ leaked \in BOOLEAN
  BY DEF CacheInv, CacheTypes
<1>1. /\ prov[i].phase = "publish" /\ steam' = steam /\ leaked' = leaked
      /\ dirs' = [dirs EXCEPT ![p] = NoDir, ![Final(actual)] = IF fresh THEN dirs[p] ELSE @]
      /\ helpers' = {Moved(h) : h \in helpers}
      /\ prov' = [prov EXCEPT ![i] = r]
  BY DEF publishBuild
<1>2. p \in Parts /\ actual \in Builds
  BY <1>1 DEF CacheInv, CacheTypes, OneDownload, Holding
<1>3. p \in CacheDirs /\ Final(actual) \in CacheDirs /\ p # Final(actual) /\ actual \in Nat
  BY <1>2, DirsApart, ProvisioningAssumption DEF CacheDirs, Builds
<1>4. r \in ProvisionRow /\ r.phase = "clone"
  BY <1>3 DEF ProvisionRow, NoProv, Phases
<1> HIDE DEF r
<1>5. prov' \in [Ids -> ProvisionRow] /\ prov'[i].phase = "clone" /\ \A j \in Ids : j # i => prov'[j] = prov[j]
  BY <1>0, <1>1, <1>4
<1>6. \A j \in Ids : prov'[j].phase \notin Holding
  BY <1>1, <1>5 DEF CacheInv, OneDownload, Holding
<1>7. /\ dirs' \in [CacheDirs -> [build : Nat, whole : BOOLEAN]]
      /\ dirs'[Final(actual)] = IF fresh THEN dirs[p] ELSE dirs[Final(actual)]
      /\ \A d \in CacheDirs : d # p /\ d # Final(actual) => dirs'[d] = dirs[d]
  <2>1. NoDir \in [build : Nat, whole : BOOLEAN]
    BY DEF NoDir
  <2>2. dirs' = [d \in CacheDirs |-> IF d = Final(actual) THEN (IF fresh THEN dirs[p] ELSE dirs[Final(actual)])
                                     ELSE IF d = p THEN NoDir ELSE dirs[d]]
    BY <1>0, <1>1, <1>3
  <2> HIDE DEF fresh, actual, p
  <2> QED BY <1>0, <1>3, <2>1, <2>2
<1>8. ASSUME NEW g \in helpers' PROVE g \in HelperRow /\ \E h \in helpers : g.of = h.of /\ (h.dir # p => g = h)
  <2>1. PICK h \in helpers : g = Moved(h)
    BY <1>1
  <2>2. PICK d \in CacheDirs \cup {Deleted} : d = IF fresh THEN Final(actual) ELSE Deleted
    BY <1>3
  <2>3. g = h \/ (h.dir = p /\ g = [h EXCEPT !.dir = d])
    BY <2>1, <2>2
  <2>4. h \in HelperRow
    BY <1>0
  <2>5. [h EXCEPT !.dir = d] \in HelperRow /\ [h EXCEPT !.dir = d].of = h.of
    BY <2>2, <2>4 DEF HelperRow
  <2> QED BY <2>3, <2>4, <2>5
<1>9. CacheTypes'
  BY <1>1, <1>5, <1>6, <1>7, <1>8 DEF CacheInv, CacheTypes, Holding, ProvisionRow
<1>10. \A h \in helpers : h.of = "nobody"
  <2> TAKE h \in helpers
  <2>1. h.of \in Ids => prov[h.of].phase # "fetch"
    BY <1>1 DEF CacheInv, OneDownload, Holding
  <2> QED BY <1>0, <2>1 DEF CacheInv, OneDownload, HelperRow
<1>11. OneDownload'
  <2>1. \A g \in helpers' : g.of = "nobody"
    BY <1>8, <1>10
  <2> QED BY <1>6, <2>1 DEF OneDownload, Holding
<1>12. ASSUME ~leaked PROVE CacheSound'
  <2>1. CacheSound
    BY <1>12 DEF CacheInv
  <2>2. dirs[p].whole /\ \A h \in helpers : h.dir # p
    BY <1>1, <2>1 DEF CacheSound
  <2>3. \A g \in helpers' : g \in helpers
    BY <1>8, <2>2
  <2>4. dirs[p] = [build |-> actual, whole |-> TRUE]
    BY <1>0, <1>3, <2>2
  <2>5. ASSUME NEW c \in Builds, dirs'[Final(c)] # NoDir PROVE dirs'[Final(c)] = [build |-> c, whole |-> TRUE]
    <3>1. Final(c) \in CacheDirs /\ Final(c) # p
      BY <1>2, DirsApart DEF CacheDirs
    <3>2. CASE Final(c) # Final(actual)
      BY <1>7, <2>1, <2>5, <3>1, <3>2 DEF CacheSound
    <3>3. CASE Final(c) = Final(actual)
      <4>1. c = actual
        BY <3>3 DEF Final
      <4> QED BY <1>7, <2>1, <2>4, <2>5, <4>1 DEF CacheSound
    <3> QED BY <3>2, <3>3
  <2>6. \A g \in helpers' : g.dir = g.key
    BY <2>1, <2>3 DEF CacheSound
  <2> QED BY <1>6, <2>5, <2>6 DEF CacheSound, Holding, Builds, Final, NoDir
<1> QED BY <1>1, <1>9, <1>11, <1>12 DEF CacheInv

\* After a boot nobody holds the cache, and what survived runs for nobody.
LEMMA CacheAfterReboot ==
  ASSUME CacheInv, Reboot
  PROVE  CacheInv'
<1>0. prov \in [Ids -> ProvisionRow] /\ (\A h \in helpers : h \in HelperRow)
  BY DEF CacheInv, CacheTypes
<1>1. PICK left \in SUBSET helpers : helpers' = {[h EXCEPT !.of = "nobody"] : h \in left}
  BY Zenon DEF Reboot, sweepThrowaways
<1> DEFINE cut == {i \in Ids : instances[i].state = "provisioning"}
<1>2. /\ prov' = [i \in Ids |-> IF i \in cut \cap reached THEN [NoProv EXCEPT !.phase = "dirs"] ELSE NoProv]
      /\ dirs' = dirs /\ steam' = steam /\ leaked' = leaked
  BY DEF Reboot
<1>3. /\ [NoProv EXCEPT !.phase = "dirs"] \in ProvisionRow /\ [NoProv EXCEPT !.phase = "dirs"].phase = "dirs"
      /\ NoProv \in ProvisionRow /\ NoProv.phase = "none"
  BY DEF NoProv, ProvisionRow, Phases
<1>4. prov' \in [Ids -> ProvisionRow] /\ \A j \in Ids : prov'[j].phase \in {"dirs", "none"}
  <2> HIDE DEF cut
  <2> QED BY <1>2, <1>3
<1>5. \A h \in helpers : LET g == [h EXCEPT !.of = "nobody"] IN
        g \in HelperRow /\ g.of = "nobody" /\ g.dir = h.dir /\ g.key = h.key
  BY <1>0 DEF HelperRow
<1>6. \A g \in helpers' : g \in HelperRow /\ g.of = "nobody" /\ \E h \in helpers : g.dir = h.dir /\ g.key = h.key
  BY <1>1, <1>5
<1>7. CacheTypes'
  BY <1>2, <1>4, <1>6 DEF CacheInv, CacheTypes, Holding
<1>8. OneDownload'
  BY <1>4, <1>6 DEF OneDownload, Holding
<1>9. (~leaked => CacheSound)'
  BY <1>2, <1>4, <1>6 DEF CacheInv, CacheSound, Builds, Final, NoDir
<1> QED BY <1>7, <1>8, <1>9 DEF CacheInv

InstanceStates == {"none", "gone", "created", "provisioning", "error", "stopped", "running"}
InstanceRow == [state : InstanceStates, name : ServerNames \cup {""}, port : Ports \cup {0},
                branch : Branches \cup {""}, build : Nat, cont : BOOLEAN]
Box == [port : Ports \cup {0}, up : BOOLEAN, ours : BOOLEAN]
CreateCall == [at : {"allocate", "insert", "plan", "submit"}, id : Ids, name : ServerNames,
               branch : Branches, port : Ports \cup {0}, try : Nat]
AdoptCall == [at : {"adopt"}, id : Ids, name : ServerNames,
              facts : [build : Nat, port : Ports \cup {0}, state : {"running", "stopped"}]]

\* A row that is to be installed has a branch, a job belongs to a row that is
\* being installed, and the build a job will record is the one in place.
JobsTrue ==
  /\ \A i \in Ids : instances[i].state \in {"created", "provisioning", "error"} => instances[i].branch \in Branches
  /\ \A i \in Ids : prov[i].phase # "none" => instances[i].state = "provisioning"
  /\ \A i \in Ids : prov[i].phase \in {"container", "finish"} => prov[i].build = installed[i]
  /\ \A i \in Ids : instances[i].state \in {"stopped", "running"} => instances[i].cont

\* The identifier of a create that has no row yet is nobody else's, and what an
\* adoption has read is still so while the container is there.
CallsTrue ==
  /\ \A c \in Callers : calls[c].at \in {"allocate", "insert"} =>
       /\ instances[calls[c].id] = NoInstance /\ ~HasBox(calls[c].id)
       /\ \A d \in Callers : calls[d].at # "none" /\ calls[d].id = calls[c].id => d = c
  /\ \A c \in Callers : calls[c].at = "adopt" =>
       /\ instances[calls[c].id].state \in {"none", "gone", "stopped", "running"}
       /\ HasBox(calls[c].id) => calls[c].facts.build = installed[calls[c].id]

RowTypes ==
  /\ instances \in [Ids -> InstanceRow] /\ calls \in [Callers -> {NoCall} \cup CreateCall \cup AdoptCall]
  /\ installed \in [Ids -> Nat] /\ docker \in [Ids -> Box]

RowsInv == RowTypes /\ JobsTrue /\ CallsTrue /\ BuildIdTrue

\* Every step of a provision keeps the cache.
LEMMA CacheStep ==
  ASSUME CacheInv, RowsInv, [ProvisioningNext]_provisioningVars
  PROVE  CacheInv'
<1>0. /\ prov \in [Ids -> ProvisionRow] /\ \A i \in Ids : prov[i] \in ProvisionRow
      /\ \A i \in Ids : prov[i].phase # "none" => instances[i].branch \in Branches
  BY DEF CacheInv, CacheTypes, RowsInv, JobsTrue
<1>1. CASE UNCHANGED <<prov, helpers, dirs, steam, leaked>>
  BY <1>1 DEF CacheInv, CacheTypes, OneDownload, CacheSound
<1>2. ASSUME NEW i \in Ids, NEW from, ClaimProvision(i, from), UNCHANGED <<helpers, dirs, steam, leaked>>
      PROVE  CacheInv'
  <2> DEFINE r == [NoProv EXCEPT !.phase = "dirs"]
  <2>1. r \in ProvisionRow /\ r.phase = "dirs" /\ NoProv.phase = "none"
    BY DEF ProvisionRow, NoProv, Phases
  <2>2. prov' = [prov EXCEPT ![i] = r] /\ prov[i] = NoProv
    BY <1>2 DEF ClaimProvision
  <2> HIDE DEF r
  <2> QED BY <1>2, <2>1, <2>2, JobBesideTheCache DEF Holding
<1>3. ASSUME NEW c \in Callers, SubmitProvision(c) PROVE CacheInv'
  <2>1. CASE instances[calls[c].id].state = "created"
    <3>1. ClaimProvision(calls[c].id, "created") /\ UNCHANGED <<helpers, dirs, steam, leaked>> /\ calls[c].at = "submit"
      BY <1>3, <2>1 DEF SubmitProvision
    <3>2. calls[c].id \in Ids
      BY <3>1 DEF RowsInv, RowTypes, CreateCall, AdoptCall, NoCall
    <3> QED BY <1>2, <3>1, <3>2
  <2>2. CASE instances[calls[c].id].state # "created"
    BY <1>1, <1>3, <2>2 DEF SubmitProvision
  <2> QED BY <2>1, <2>2
<1>4. ASSUME NEW i \in Ids, retryInstall(i) PROVE CacheInv'
  BY <1>2, <1>4 DEF retryInstall
<1>5. ASSUME NEW c \in Callers, AskCreate(c) \/ AllocatePort(c) \/ CreateInstance(c) \/ PlanOperation(c)
                                \/ adopt(c) \/ SubmitAdoption(c)
      PROVE  CacheInv'
  BY <1>1, <1>5 DEF AskCreate, AllocatePort, CreateInstance, PlanOperation, adopt, SubmitAdoption
<1>6. ASSUME NEW i \in Ids, DeleteInstance(i) \/ ByHand(i) PROVE CacheInv'
  BY <1>1, <1>6 DEF DeleteInstance, ByHand
<1>7. ASSUME NEW i \in Ids, NEW r \in ProvisionRow, r.phase \in {"none", "query", "lock", "container", "finish"},
             r.phase = "lock" => r.part \in Parts, prov[i].phase # "fetch",
             prov' = [prov EXCEPT ![i] = r], UNCHANGED <<helpers, dirs, steam, leaked>>
      PROVE  CacheInv'
  BY <1>7, JobBesideTheCache DEF Holding
<1>8. ASSUME NEW i \in Ids, provisionDirs(i) PROVE CacheInv'
  <2> DEFINE r == [prov[i] EXCEPT !.phase = "query"]
  <2>1. r \in ProvisionRow /\ r.phase = "query"
    BY <1>0 DEF ProvisionRow, Phases
  <2>2. prov' = [prov EXCEPT ![i] = r] /\ prov[i].phase = "dirs" /\ UNCHANGED <<helpers, dirs, steam, leaked>>
    BY <1>8 DEF provisionDirs
  <2> HIDE DEF r
  <2> QED BY <1>7, <2>1, <2>2
<1>9. ASSUME NEW i \in Ids, provisionBuildCache(i) PROVE CacheInv'
  <2> DEFINE b == instances[i].branch
  <2> DEFINE build == IF b \in Locked THEN 0 ELSE QueryBuilds[b]
  <2> DEFINE r == [NoProv EXCEPT !.phase = "lock", !.part = PartFor(b), !.build = build]
  <2>1. prov[i].phase = "query" /\ prov' = [prov EXCEPT ![i] = r] /\ UNCHANGED <<helpers, dirs, steam, leaked>>
    BY <1>9 DEF provisionBuildCache
  <2>2. b \in Branches /\ (b \notin Locked => QueryBuilds[b] = steam[b] /\ steam[b] \in Builds)
    BY <1>0, <2>1 DEF QueryBuilds, SteamBranches, CacheInv, CacheTypes
  <2>3. PartFor(b) \in Parts
    BY <2>2 DEF PartFor, Parts
  <2>4. build \in Nat
    BY <2>2, ProvisioningAssumption DEF Builds
  <2> HIDE DEF build, b
  <2>5. r \in ProvisionRow /\ r.phase = "lock" /\ r.part = PartFor(b)
    BY <2>3, <2>4 DEF ProvisionRow, NoProv, Phases
  <2> HIDE DEF r
  <2> QED BY <1>7, <2>1, <2>3, <2>5
<1>10. ASSUME NEW i \in Ids, Ensure(i) \/ clearSurvivingDownload(i) PROVE CacheInv'
  BY <1>10, DownloadBegins
<1>11. ASSUME NEW i \in Ids, StartHelper(i) PROVE CacheInv'
  BY <1>0, <1>11, HelperStarts DEF StartHelper
<1>12. ASSUME NEW i \in Ids, HelperDone(i) PROVE CacheInv'
  <2>1. PICK h \in helpers : h.of = i /\ dirs' = HelperLeaves(h) /\ helpers' = helpers \ {h}
    BY <1>12, Zenon DEF HelperDone
  <2>2. prov' = [prov EXCEPT ![h.of].phase = "publish"] /\ UNCHANGED <<steam, leaked>>
    BY <1>12, <2>1 DEF HelperDone
  <2> QED BY <2>1, <2>2, HelperEnds
<1>13. CASE StrayEnds
  <2>1. PICK h \in helpers : h.of = "nobody" /\ dirs' = HelperLeaves(h) /\ helpers' = helpers \ {h}
    BY <1>13, Zenon DEF StrayEnds
  <2>2. prov' = prov /\ UNCHANGED <<steam, leaked>>
    BY <1>13 DEF StrayEnds
  <2> QED BY <2>1, <2>2, HelperEnds
<1>14. ASSUME NEW i \in Ids, runSteamCMD(i) PROVE CacheInv'
  <2> DEFINE n == prov[i].try + 1
  <2> DEFINE r == [prov[i] EXCEPT !.phase = "start", !.try = n]
  <2>1. prov[i].try \in Nat /\ prov[i].phase = "fetch" /\ prov[i].try > 0
    BY <1>0, <1>14 DEF runSteamCMD, ProvisionRow, CacheInv, OneDownload
  <2>2. r \in ProvisionRow /\ r.phase = "start" /\ r.part = prov[i].part /\ r.try = n
    <3>1. n \in Nat
      BY <2>1
    <3> HIDE DEF n
    <3> QED BY <1>0, <3>1 DEF ProvisionRow, Phases, Holding
  <2>3. prov' = [prov EXCEPT ![i] = r] /\ UNCHANGED <<dirs, steam, leaked>>
    BY <1>0, <1>14 DEF runSteamCMD
  <2>4. PICK left \in SUBSET {h \in helpers : h.of = i} :
          helpers' = {h \in helpers : h.of # i} \cup {[h EXCEPT !.of = "nobody"] : h \in left}
    BY <1>14, Zenon DEF runSteamCMD
  <2> HIDE DEF r
  <2>5. r.try > 1
    BY <2>1, <2>2
  <2> QED BY <2>1, <2>2, <2>3, <2>4, <2>5, AttemptGivenUp
<1>15. ASSUME NEW i \in Ids, provisionFailed(i) PROVE CacheInv'
  <2>1. PICK left \in SUBSET {h \in helpers : h.of = i} :
          helpers' = {h \in helpers : h.of # i} \cup {[h EXCEPT !.of = "nobody"] : h \in left}
    BY <1>15, Zenon DEF provisionFailed, ParkDownload
  <2>2. prov' = [prov EXCEPT ![i] = NoProv] /\ UNCHANGED <<dirs, steam, leaked>>
    BY <1>15 DEF provisionFailed, ParkDownload
  <2>3. NoProv \in ProvisionRow /\ NoProv.phase = "none"
    BY DEF NoProv, ProvisionRow, Phases
  <2> QED BY <2>1, <2>2, <2>3, AttemptGivenUp
<1>16. ASSUME NEW i \in Ids, publishBuild(i) PROVE CacheInv'
  BY <1>16, BuildPublished
<1>17. ASSUME NEW i \in Ids, provisionClone(i) PROVE CacheInv'
  <2> DEFINE b == InstalledBuildID(i)'
  <2> DEFINE r == [prov[i] EXCEPT !.phase = "container", !.build = b]
  <2>1. prov[i].phase = "clone" /\ UNCHANGED <<helpers, dirs, steam, leaked>>
        /\ prov' = [prov EXCEPT ![i].phase = "container", ![i].build = b]
    BY <1>17, Zenon DEF provisionClone
  <2>2. b \in Nat
    <3>1. prov[i].build \in Nat /\ installed \in [Ids -> Nat]
      BY <1>0 DEF ProvisionRow, RowsInv, RowTypes
    <3> QED BY <1>17, <3>1 DEF provisionClone, InstalledBuildID, CloneWithProgress
  <2> HIDE DEF b
  <2>3. r \in ProvisionRow /\ r.phase = "container"
    BY <1>0, <2>2 DEF ProvisionRow, Phases
  <2>4. prov' = [prov EXCEPT ![i] = r]
    BY <1>0, <2>1
  <2> HIDE DEF r
  <2> QED BY <1>7, <2>1, <2>3, <2>4
<1>18. ASSUME NEW i \in Ids, provisionCreateContainer(i) PROVE CacheInv'
  <2> DEFINE r == [prov[i] EXCEPT !.phase = "finish"]
  <2>1. r \in ProvisionRow /\ r.phase = "finish"
    BY <1>0 DEF ProvisionRow, Phases
  <2>2. prov' = [prov EXCEPT ![i] = r] /\ prov[i].phase = "container" /\ UNCHANGED <<helpers, dirs, steam, leaked>>
    BY <1>18 DEF provisionCreateContainer
  <2> HIDE DEF r
  <2> QED BY <1>7, <2>1, <2>2
<1>19. ASSUME NEW i \in Ids, FinishProvisioning(i) PROVE CacheInv'
  <2>1. NoProv \in ProvisionRow /\ NoProv.phase = "none"
    BY DEF NoProv, ProvisionRow, Phases
  <2>2. prov' = [prov EXCEPT ![i] = NoProv] /\ prov[i].phase = "finish" /\ UNCHANGED <<helpers, dirs, steam, leaked>>
    BY <1>19 DEF FinishProvisioning
  <2> QED BY <1>7, <2>1, <2>2
<1>20. CASE SteamPublishes
  <2>1. PICK b \in Branches : steam[b] < MaxBuild /\ steam' = [steam EXCEPT ![b] = @ + 1]
    BY <1>20 DEF SteamPublishes
  <2>2. steam[b] + 1 \in Builds /\ steam \in [Branches -> Builds]
    BY <2>1, ProvisioningAssumption DEF CacheInv, CacheTypes, Builds
  <2>3. steam' \in [Branches -> Builds] /\ UNCHANGED <<prov, helpers, dirs, leaked>>
    BY <1>20, <2>1, <2>2 DEF SteamPublishes
  <2> QED BY <2>3 DEF CacheInv, CacheTypes, OneDownload, CacheSound
<1>21. CASE Reboot
  BY <1>21, CacheAfterReboot
<1>22. CASE UNCHANGED provisioningVars
  BY <1>1, <1>22 DEF provisioningVars
<1> QED BY <1>3, <1>4, <1>5, <1>6, <1>8, <1>9, <1>10, <1>11, <1>12, <1>13, <1>14, <1>15, <1>16, <1>17, <1>18,
           <1>19, <1>20, <1>21, <1>22, Zenon DEF ProvisioningNext

\* A row under way is none a create or an adoption holds: it may move as its
\* own step says.
LEMMA RowUnderWay ==
  ASSUME RowsInv, RowTypes', NEW i \in Ids, instances[i].state \in {"created", "provisioning", "error"},
         \A j \in Ids : j # i => /\ instances'[j] = instances[j] /\ prov'[j] = prov[j]
                                 /\ installed'[j] = installed[j] /\ docker'[j] = docker[j],
         \A c \in Callers : calls'[c] = calls[c] \/ calls'[c] = NoCall,
         instances'[i].state \in {"created", "provisioning", "error"} => instances'[i].branch \in Branches,
         prov'[i].phase # "none" => instances'[i].state = "provisioning",
         prov'[i].phase \in {"container", "finish"} => prov'[i].build = installed'[i],
         instances'[i].state \in {"stopped", "running"} => instances'[i].cont /\ instances'[i].build = installed'[i]
  PROVE  RowsInv'
<1>1. JobsTrue'
  <2>1. \A j \in Ids : instances'[j].state \in {"created", "provisioning", "error"} => instances'[j].branch \in Branches
    BY DEF RowsInv, JobsTrue
  <2>2. \A j \in Ids : prov'[j].phase # "none" => instances'[j].state = "provisioning"
    BY DEF RowsInv, JobsTrue
  <2>3. \A j \in Ids : prov'[j].phase \in {"container", "finish"} => prov'[j].build = installed'[j]
    BY DEF RowsInv, JobsTrue
  <2>4. \A j \in Ids : instances'[j].state \in {"stopped", "running"} => instances'[j].cont
    BY DEF RowsInv, JobsTrue
  <2> QED BY <2>1, <2>2, <2>3, <2>4 DEF JobsTrue
<1>2. BuildIdTrue'
  BY DEF RowsInv, BuildIdTrue, HasBox, NoBox
<1>3. NoCall.at = "none" /\ NoInstance.state = "none"
  BY DEF NoCall, NoInstance
<1>4. \A c \in Callers : calls[c].at # "none" => calls[c].id \in Ids
  BY DEF RowsInv, RowTypes, CreateCall, AdoptCall, NoCall
<1>5. CallsTrue'
  <2>1. ASSUME NEW c \in Callers, calls'[c].at \in {"allocate", "insert"}
        PROVE  /\ instances'[calls'[c].id] = NoInstance /\ docker'[calls'[c].id] = NoBox
               /\ \A d \in Callers : calls'[d].at # "none" /\ calls'[d].id = calls'[c].id => d = c
    <3>1. calls'[c] = calls[c]
      BY <1>3, <2>1
    <3>2. /\ instances[calls[c].id] = NoInstance /\ ~HasBox(calls[c].id) /\ calls[c].id \in Ids
          /\ \A d \in Callers : calls[d].at # "none" /\ calls[d].id = calls[c].id => d = c
      BY <1>4, <2>1, <3>1 DEF RowsInv, CallsTrue
    <3>3. calls[c].id # i
      BY <1>3, <3>2
    <3>4. \A d \in Callers : calls'[d].at # "none" => calls'[d] = calls[d]
      BY <1>3
    <3> QED BY <3>1, <3>2, <3>3, <3>4 DEF HasBox
  <2>2. ASSUME NEW c \in Callers, calls'[c].at = "adopt"
        PROVE  /\ instances'[calls'[c].id].state \in {"none", "gone", "stopped", "running"}
               /\ docker'[calls'[c].id] # NoBox => calls'[c].facts.build = installed'[calls'[c].id]
    <3>1. calls'[c] = calls[c]
      BY <1>3, <2>2
    <3>2. /\ instances[calls[c].id].state \in {"none", "gone", "stopped", "running"} /\ calls[c].id \in Ids
          /\ HasBox(calls[c].id) => calls[c].facts.build = installed[calls[c].id]
      BY <1>4, <2>2, <3>1 DEF RowsInv, CallsTrue
    <3>3. calls[c].id # i
      BY <3>2
    <3> QED BY <3>1, <3>2, <3>3 DEF HasBox
  <2> QED BY <2>1, <2>2 DEF CallsTrue, HasBox
<1> QED BY <1>1, <1>2, <1>5 DEF RowsInv

\* A step of a request that touches no row.
LEMMA CallMoves ==
  ASSUME RowsInv, NEW c \in Callers, NEW q \in {NoCall} \cup CreateCall \cup AdoptCall,
         calls' = [calls EXCEPT ![c] = q], UNCHANGED <<instances, prov, installed, docker>>,
         q.at \in {"allocate", "insert"} =>
           /\ instances[q.id] = NoInstance /\ ~HasBox(q.id)
           /\ \A d \in Callers : d # c /\ calls[d].at # "none" => calls[d].id # q.id,
         q.at # "none" => \A d \in Callers : d # c /\ calls[d].at \in {"allocate", "insert"} => calls[d].id # q.id,
         q.at = "adopt" =>
           /\ instances[q.id].state \in {"none", "gone", "stopped", "running"}
           /\ HasBox(q.id) => q.facts.build = installed[q.id]
  PROVE  RowsInv'
<1>1. calls' \in [Callers -> {NoCall} \cup CreateCall \cup AdoptCall]
      /\ calls'[c] = q /\ \A d \in Callers : d # c => calls'[d] = calls[d]
  BY DEF RowsInv, RowTypes
<1>2. RowTypes' /\ JobsTrue' /\ BuildIdTrue'
  BY <1>1 DEF RowsInv, RowTypes, JobsTrue, BuildIdTrue, HasBox
<1>3. CallsTrue'
  <2>1. ASSUME NEW e \in Callers, calls'[e].at \in {"allocate", "insert"}
        PROVE  /\ instances'[calls'[e].id] = NoInstance /\ docker'[calls'[e].id] = NoBox
               /\ \A d \in Callers : calls'[d].at # "none" /\ calls'[d].id = calls'[e].id => d = e
    <3>1. CASE e = c
      BY <1>1, <2>1, <3>1 DEF HasBox
    <3>2. CASE e # c
      BY <1>1, <2>1, <3>2 DEF RowsInv, CallsTrue, HasBox
    <3> QED BY <3>1, <3>2
  <2>2. ASSUME NEW e \in Callers, calls'[e].at = "adopt"
        PROVE  /\ instances'[calls'[e].id].state \in {"none", "gone", "stopped", "running"}
               /\ docker'[calls'[e].id] # NoBox => calls'[e].facts.build = installed'[calls'[e].id]
    BY <1>1, <2>2 DEF RowsInv, CallsTrue, HasBox
  <2> QED BY <2>1, <2>2 DEF CallsTrue, HasBox
<1> QED BY <1>2, <1>3 DEF RowsInv

\* The step of a job that touches neither rows nor trees.
LEMMA JobMoves ==
  ASSUME RowsInv, UNCHANGED <<instances, calls, installed, docker>>,
         \A j \in Ids : /\ prov'[j].phase # "none" => prov[j].phase # "none"
                        /\ prov'[j].phase \in {"container", "finish"} => prov'[j].build = installed[j]
  PROVE  RowsInv'
BY DEF RowsInv, RowTypes, JobsTrue, CallsTrue, BuildIdTrue, HasBox

\* The requests: a create takes an identifier nobody has, and an adoption
\* writes what it read.
LEMMA RequestsKeepRows ==
  ASSUME CacheInv, RowsInv, NEW c \in Callers,
         AskCreate(c) \/ AllocatePort(c) \/ CreateInstance(c) \/ PlanOperation(c) \/ adopt(c) \/ SubmitAdoption(c)
  PROVE  RowsInv'
<1>0. /\ calls \in [Callers -> {NoCall} \cup CreateCall \cup AdoptCall] /\ instances \in [Ids -> InstanceRow]
      /\ calls[c] \in {NoCall} \cup CreateCall \cup AdoptCall /\ NoCall.at = "none"
      /\ docker \in [Ids -> Box] /\ installed \in [Ids -> Nat] /\ NoInstance.state = "none"
  BY DEF RowsInv, RowTypes, NoCall, NoInstance
<1>1. /\ calls[c].at \in {"allocate", "insert", "plan", "submit"} => calls[c] \in CreateCall
      /\ calls[c].at = "adopt" => calls[c] \in AdoptCall
  BY <1>0 DEF CreateCall, AdoptCall, NoCall
<1>2. ASSUME calls' = [calls EXCEPT ![c] = NoCall], UNCHANGED <<instances, prov, installed, docker>> PROVE RowsInv'
  BY <1>0, <1>2, CallMoves
<1>3. ASSUME NEW q \in CreateCall, calls' = [calls EXCEPT ![c] = q], UNCHANGED <<instances, prov, installed, docker>>,
             calls[c].at \in {"allocate", "insert", "plan", "submit"}, q.id = calls[c].id,
             q.at \in {"allocate", "insert"} => calls[c].at \in {"allocate", "insert"}
      PROVE  RowsInv'
  <2>1. q.at \in {"allocate", "insert"} =>
           /\ instances[q.id] = NoInstance /\ ~HasBox(q.id)
           /\ \A d \in Callers : d # c /\ calls[d].at # "none" => calls[d].id # q.id
    BY <1>3 DEF RowsInv, CallsTrue
  <2>2. \A d \in Callers : d # c /\ calls[d].at \in {"allocate", "insert"} => calls[d].id # q.id
    BY <1>3 DEF RowsInv, CallsTrue
  <2>3. q.at # "adopt"
    BY DEF CreateCall
  <2> QED BY <1>3, <2>1, <2>2, <2>3, CallMoves
<1>4. CASE AskCreate(c)
  <2>1. PICK n \in ServerNames, b \in Branches :
          calls' = [calls EXCEPT ![c] = [at |-> "allocate", id |-> CHOOSE i \in FreshIds : TRUE,
                                         name |-> n, branch |-> b, port |-> 0, try |-> 1]]
    BY <1>4, Zenon DEF AskCreate
  <2>2. PICK i : i = CHOOSE x \in FreshIds : TRUE
    OBVIOUS
  <2>3. i \in FreshIds
    BY <1>4, <2>2 DEF AskCreate
  <2>4. i \in Ids /\ instances[i] = NoInstance /\ ~HasBox(i) /\ \A d \in Callers : calls[d].at # "none" => calls[d].id # i
    BY <2>3 DEF FreshIds, Asked
  <2> DEFINE q == [at |-> "allocate", id |-> i, name |-> n, branch |-> b, port |-> 0, try |-> 1]
  <2>5. q \in CreateCall /\ q.at = "allocate" /\ q.id = i
    BY <2>4 DEF CreateCall
  <2>6. calls' = [calls EXCEPT ![c] = q] /\ UNCHANGED <<instances, prov, installed, docker>>
    BY <1>4, <2>1, <2>2 DEF AskCreate
  <2> HIDE DEF q
  <2> QED BY <2>4, <2>5, <2>6, CallMoves
<1>5. CASE AllocatePort(c)
  <2>1. calls[c].at = "allocate" /\ UNCHANGED <<instances, prov, installed, docker>>
    BY <1>5 DEF AllocatePort
  <2>2. ASSUME NEW p \in Ports, calls' = [calls EXCEPT ![c].at = "insert", ![c].port = p] PROVE RowsInv'
    <3> DEFINE q == [calls[c] EXCEPT !.at = "insert", !.port = p]
    <3>1. q \in CreateCall /\ q.at = "insert" /\ q.id = calls[c].id
      BY <1>1, <2>1 DEF CreateCall
    <3>2. calls' = [calls EXCEPT ![c] = q]
      BY <1>0, <2>2
    <3> HIDE DEF q
    <3> QED BY <1>3, <2>1, <3>1, <3>2
  <2> QED BY <1>2, <1>5, <2>1, <2>2, Zenon DEF AllocatePort
<1>6. CASE PlanOperation(c)
  <2>1. calls[c].at = "plan" /\ UNCHANGED <<instances, prov, installed, docker>>
        /\ calls' = [calls EXCEPT ![c].at = "submit"]
    BY <1>6 DEF PlanOperation
  <2> DEFINE q == [calls[c] EXCEPT !.at = "submit"]
  <2>2. q \in CreateCall /\ q.at = "submit" /\ q.id = calls[c].id
    BY <1>1, <2>1 DEF CreateCall
  <2>3. calls' = [calls EXCEPT ![c] = q]
    BY <1>0, <2>1
  <2> HIDE DEF q
  <2> QED BY <1>3, <2>1, <2>2, <2>3
<1>7. CASE adopt(c)
  <2>1. PICK i \in Ids, n \in ServerNames :
          /\ Orphan(i) /\ calls' = [calls EXCEPT ![c] = [at |-> "adopt", id |-> i, name |-> n, facts |-> adoptionFacts(i)]]
    BY <1>7, Zenon DEF adopt
  <2>2. /\ adoptionFacts(i) \in [build : Nat, port : Ports \cup {0}, state : {"running", "stopped"}]
        /\ adoptionFacts(i).build = installed[i]
    BY <1>0 DEF adoptionFacts, InstalledBuildID, Box
  <2> DEFINE q == [at |-> "adopt", id |-> i, name |-> n, facts |-> adoptionFacts(i)]
  <2>3. q \in AdoptCall /\ q.at = "adopt" /\ q.id = i /\ q.facts.build = installed[i]
    BY <2>2 DEF AdoptCall
  <2>4. calls' = [calls EXCEPT ![c] = q] /\ UNCHANGED <<instances, prov, installed, docker>>
    BY <1>7, <2>1 DEF adopt
  <2>5. HasBox(i) /\ instances[i].state \in {"none", "gone"}
    BY <2>1 DEF Orphan, HasRow
  <2>6. \A d \in Callers : calls[d].at \in {"allocate", "insert"} => calls[d].id # i
    BY <2>5 DEF RowsInv, CallsTrue
  <2> HIDE DEF q
  <2> QED BY <2>3, <2>4, <2>5, <2>6, CallMoves
<1>8. ASSUME NEW i \in Ids, NEW x \in InstanceRow, instances' = [instances EXCEPT ![i] = x],
             UNCHANGED <<prov, installed, docker>>, instances[i].state \in {"none", "gone"},
             NEW q \in {NoCall} \cup CreateCall, calls' = [calls EXCEPT ![c] = q], q.at \in {"none", "plan"},
             calls[c].id = i, calls[c].at # "none", q.at = "plan" => q.id = i,
             \/ x.state = "created" /\ x.branch \in Branches /\ calls[c].at = "insert"
             \/ x.state \in {"stopped", "running"} /\ x.cont /\ (HasBox(i) => x.build = installed[i])
      PROVE  RowsInv'
  <2>1. /\ instances' \in [Ids -> InstanceRow] /\ instances'[i] = x /\ \A j \in Ids : j # i => instances'[j] = instances[j]
        /\ calls' \in [Callers -> {NoCall} \cup CreateCall \cup AdoptCall]
        /\ calls'[c] = q /\ \A d \in Callers : d # c => calls'[d] = calls[d]
    BY <1>0, <1>8
  <2>2. RowTypes'
    BY <1>8, <2>1 DEF RowsInv, RowTypes
  <2>3. prov[i].phase = "none"
    BY <1>8 DEF RowsInv, JobsTrue
  <2>4. JobsTrue'
    BY <1>8, <2>1, <2>3 DEF RowsInv, JobsTrue
  <2>5. BuildIdTrue'
    BY <1>8, <2>1 DEF RowsInv, BuildIdTrue, HasBox
  <2>6. \A d \in Callers : d # c /\ calls[d].at \in {"allocate", "insert"} => calls[d].id # i
    BY <1>8 DEF RowsInv, CallsTrue
  <2>7. \A d \in Callers : calls[d].at # "none" => calls[d].id \in Ids
    BY DEF RowsInv, RowTypes, CreateCall, AdoptCall, NoCall
  <2>8. ASSUME NEW e \in Callers, calls'[e].at \in {"allocate", "insert"}
        PROVE  /\ instances'[calls'[e].id] = NoInstance /\ docker'[calls'[e].id] = NoBox
               /\ \A d \in Callers : calls'[d].at # "none" /\ calls'[d].id = calls'[e].id => d = e
    <3>1. e # c /\ calls'[e] = calls[e]
      BY <1>8, <2>1, <2>8
    <3>2. /\ instances[calls[e].id] = NoInstance /\ ~HasBox(calls[e].id)
          /\ \A d \in Callers : calls[d].at # "none" /\ calls[d].id = calls[e].id => d = e
      BY <2>8, <3>1 DEF RowsInv, CallsTrue
    <3>3. calls[e].id # i /\ calls[e].id \in Ids
      BY <2>6, <2>7, <2>8, <3>1
    <3>4. \A d \in Callers : calls'[d].at # "none" /\ calls'[d].id = calls'[e].id => d = e
      BY <1>8, <2>1, <3>1, <3>2, <3>3
    <3> QED BY <1>8, <2>1, <3>1, <3>2, <3>3, <3>4 DEF HasBox
  <2>9. ASSUME NEW e \in Callers, calls'[e].at = "adopt"
        PROVE  /\ instances'[calls'[e].id].state \in {"none", "gone", "stopped", "running"}
               /\ docker'[calls'[e].id] # NoBox => calls'[e].facts.build = installed'[calls'[e].id]
    <3>1. e # c /\ calls'[e] = calls[e]
      BY <1>8, <2>1, <2>9
    <3>2. /\ instances[calls[e].id].state \in {"none", "gone", "stopped", "running"}
          /\ HasBox(calls[e].id) => calls[e].facts.build = installed[calls[e].id]
      BY <2>9, <3>1 DEF RowsInv, CallsTrue
    <3>3. calls[c].at = "insert" => calls[e].id # i
      BY <1>8, <2>9, <3>1 DEF RowsInv, CallsTrue
    <3> QED BY <1>8, <2>1, <2>7, <2>9, <3>1, <3>2, <3>3 DEF HasBox
  <2>10. CallsTrue'
    BY <2>8, <2>9 DEF CallsTrue, HasBox
  <2> QED BY <2>2, <2>4, <2>5, <2>10 DEF RowsInv
<1>9. CASE CreateInstance(c)
  <2> DEFINE q == calls[c]
  <2>1. q.at = "insert" /\ UNCHANGED <<prov, installed, docker>> /\ q \in CreateCall /\ q.id \in Ids
    BY <1>1, <1>9 DEF CreateInstance, CreateCall
  <2>2. CASE calls' = [calls EXCEPT ![c] = NoCall] /\ UNCHANGED instances
    BY <1>2, <2>1, <2>2
  <2>3. CASE calls' = [calls EXCEPT ![c] = [q EXCEPT !.at = "allocate", !.try = @ + 1]] /\ UNCHANGED instances
    <3> DEFINE n == q.try + 1
    <3> DEFINE r == [q EXCEPT !.at = "allocate", !.try = n]
    <3>1. n \in Nat
      BY <2>1 DEF CreateCall
    <3>2. calls' = [calls EXCEPT ![c] = r]
      BY <2>1, <2>3 DEF CreateCall
    <3> HIDE DEF n
    <3>3. r \in CreateCall /\ r.at = "allocate" /\ r.id = calls[c].id
      BY <2>1, <3>1 DEF CreateCall
    <3> HIDE DEF r
    <3> QED BY <1>3, <2>1, <2>3, <3>2, <3>3
  <2>4. CASE instances' = [instances EXCEPT ![q.id] = NewInstance(q)] /\ calls' = [calls EXCEPT ![c].at = "plan"]
    <3>1. NewInstance(q) \in InstanceRow /\ NewInstance(q).state = "created" /\ NewInstance(q).branch \in Branches
      BY <2>1 DEF NewInstance, NoInstance, InstanceRow, InstanceStates, CreateCall
    <3> DEFINE r == [q EXCEPT !.at = "plan"]
    <3>2. r \in CreateCall /\ r.at = "plan" /\ r.id = q.id
      BY <2>1 DEF CreateCall
    <3>3. calls' = [calls EXCEPT ![c] = r]
      BY <1>0, <2>4
    <3>4. instances[q.id].state = "none"
      BY <1>0, <2>1 DEF RowsInv, CallsTrue
    <3> HIDE DEF r
    <3> QED BY <1>8, <2>1, <2>4, <3>1, <3>2, <3>3, <3>4
  <2> QED BY <1>9, <2>2, <2>3, <2>4 DEF CreateInstance
<1>10. CASE SubmitAdoption(c)
  <2> DEFINE q == calls[c]
  <2>1. q.at = "adopt" /\ UNCHANGED <<prov, installed, docker>> /\ q \in AdoptCall /\ q.id \in Ids
        /\ calls' = [calls EXCEPT ![c] = NoCall]
        /\ instances' = [instances EXCEPT ![q.id] = TxAdoptInstance(q)]
    BY <1>1, <1>10 DEF SubmitAdoption, AdoptCall
  <2>2. CASE TxAdoptInstance(q) = instances[q.id]
    <3>1. instances' = instances
      BY <1>0, <2>1, <2>2
    <3> QED BY <1>2, <2>1, <3>1
  <2>3. CASE TxAdoptInstance(q) # instances[q.id]
    <3> DEFINE x == [NoInstance EXCEPT !.state = q.facts.state, !.name = q.name, !.port = q.facts.port,
                                       !.build = q.facts.build, !.cont = TRUE]
    <3>1. TxAdoptInstance(q) = x /\ ~HasRow(q.id)
      BY <2>3 DEF TxAdoptInstance
    <3>2. x \in InstanceRow /\ x.state \in {"stopped", "running"} /\ x.cont /\ x.build = q.facts.build
      BY <2>1 DEF NoInstance, InstanceRow, InstanceStates, AdoptCall
    <3>3. instances[q.id].state \in {"none", "gone"}
      BY <3>1 DEF HasRow
    <3>4. HasBox(q.id) => q.facts.build = installed[q.id]
      BY <2>1 DEF RowsInv, CallsTrue
    <3> HIDE DEF x
    <3>5. instances' = [instances EXCEPT ![q.id] = x]
      BY <2>1, <3>1
    <3>6. NoCall \in {NoCall} \cup CreateCall /\ NoCall.at \in {"none", "plan"} /\ NoCall.at # "plan"
      BY <1>0
    <3>7. calls[c].at # "none" /\ calls[c].id \in Ids /\ (HasBox(calls[c].id) => x.build = installed[calls[c].id])
      BY <2>1, <3>2, <3>4
    <3> QED BY <1>8, <2>1, <3>2, <3>3, <3>5, <3>6, <3>7
  <2> QED BY <2>2, <2>3
<1> QED BY <1>4, <1>5, <1>6, <1>7, <1>9, <1>10

\* The claim of a provision job, by a create or a retry.
LEMMA ClaimKeepsRows ==
  ASSUME CacheInv, RowsInv, NEW i \in Ids, NEW from \in {"created", "error"}, ClaimProvision(i, from),
         UNCHANGED <<installed, docker>>, calls' = calls \/ \E c \in Callers : calls' = [calls EXCEPT ![c] = NoCall]
  PROVE  RowsInv'
<1>0. /\ prov \in [Ids -> ProvisionRow] /\ instances \in [Ids -> InstanceRow] /\ instances[i] \in InstanceRow
      /\ calls \in [Callers -> {NoCall} \cup CreateCall \cup AdoptCall]
  BY DEF CacheInv, CacheTypes, RowsInv, RowTypes
<1>1. /\ instances[i].state = from /\ instances' = [instances EXCEPT ![i].state = "provisioning"]
      /\ prov' = [prov EXCEPT ![i] = [NoProv EXCEPT !.phase = "dirs"]]
  BY DEF ClaimProvision
<1>2. /\ instances' \in [Ids -> InstanceRow] /\ instances'[i].state = "provisioning"
      /\ instances'[i].branch = instances[i].branch /\ \A j \in Ids : j # i => instances'[j] = instances[j]
  BY <1>0, <1>1 DEF InstanceRow, InstanceStates
<1>3. prov'[i].phase = "dirs" /\ \A j \in Ids : j # i => prov'[j] = prov[j]
  BY <1>0, <1>1 DEF NoProv
<1>4. calls' \in [Callers -> {NoCall} \cup CreateCall \cup AdoptCall]
      /\ \A c \in Callers : calls'[c] = calls[c] \/ calls'[c] = NoCall
  BY <1>0
<1>5. RowTypes'
  BY <1>2, <1>4 DEF RowsInv, RowTypes
<1>6. instances[i].branch \in Branches
  BY <1>1 DEF RowsInv, JobsTrue
<1> QED BY <1>1, <1>2, <1>3, <1>4, <1>5, <1>6, RowUnderWay

\* The steps of a provision job that write its row, its tree or its container.
LEMMA JobKeepsRows ==
  ASSUME CacheInv, RowsInv, NEW i \in Ids,
         provisionFailed(i) \/ provisionClone(i) \/ provisionCreateContainer(i) \/ FinishProvisioning(i)
  PROVE  RowsInv'
<1>0. /\ prov \in [Ids -> ProvisionRow] /\ prov[i] \in ProvisionRow
      /\ instances \in [Ids -> InstanceRow] /\ instances[i] \in InstanceRow
      /\ docker \in [Ids -> Box] /\ installed \in [Ids -> Nat]
  BY DEF CacheInv, CacheTypes, RowsInv, RowTypes
<1>1. prov[i].phase # "none"
  BY DEF provisionFailed, provisionClone, provisionCreateContainer, FinishProvisioning
<1>2. instances[i].state = "provisioning" /\ instances[i].branch \in Branches
  BY <1>1 DEF RowsInv, JobsTrue
<1>3. NoProv.phase = "none"
  BY DEF NoProv
<1>4. CASE provisionFailed(i)
  <2>1. /\ instances' = [instances EXCEPT ![i].state = "error"] /\ prov' = [prov EXCEPT ![i] = NoProv]
        /\ UNCHANGED <<calls, installed, docker>>
    BY <1>4 DEF provisionFailed, ParkDownload
  <2>2. /\ instances' \in [Ids -> InstanceRow] /\ instances'[i].state = "error"
        /\ instances'[i].branch = instances[i].branch /\ \A j \in Ids : j # i => instances'[j] = instances[j]
    BY <1>0, <2>1 DEF InstanceRow, InstanceStates
  <2>3. prov'[i].phase = "none" /\ \A j \in Ids : j # i => prov'[j] = prov[j]
    BY <1>0, <1>3, <2>1
  <2>4. RowTypes'
    BY <2>1, <2>2 DEF RowsInv, RowTypes
  <2> QED BY <1>2, <2>1, <2>2, <2>3, <2>4, RowUnderWay
<1>5. CASE provisionClone(i)
  <2> DEFINE b == CloneWithProgress(i)
  <2>1. /\ installed' = [installed EXCEPT ![i] = b] /\ UNCHANGED <<instances, calls, docker>>
        /\ prov' = [prov EXCEPT ![i].phase = "container", ![i].build = installed'[i]]
    BY <1>5 DEF provisionClone, InstalledBuildID
  <2>2. b \in Nat
    BY <1>0 DEF CloneWithProgress, ProvisionRow
  <2> HIDE DEF b
  <2>3. installed' \in [Ids -> Nat] /\ \A j \in Ids : j # i => installed'[j] = installed[j]
    BY <1>0, <2>1, <2>2
  <2>4. /\ prov'[i].phase = "container" /\ prov'[i].build = installed'[i]
        /\ \A j \in Ids : j # i => prov'[j] = prov[j]
    BY <1>0, <2>1 DEF ProvisionRow
  <2>5. RowTypes'
    BY <2>1, <2>3 DEF RowsInv, RowTypes
  <2> QED BY <1>2, <2>1, <2>3, <2>4, <2>5, RowUnderWay
<1>6. CASE provisionCreateContainer(i)
  <2> DEFINE b == ensureInstanceContainer(i)
  <2>1. /\ docker' = [docker EXCEPT ![i] = b] /\ UNCHANGED <<instances, calls, installed>>
        /\ prov' = [prov EXCEPT ![i].phase = "finish"] /\ prov[i].phase = "container"
    BY <1>6 DEF provisionCreateContainer
  <2>2. b \in Box
    BY <1>0 DEF ensureInstanceContainer, Box, InstanceRow
  <2> HIDE DEF b
  <2>3. docker' \in [Ids -> Box] /\ \A j \in Ids : j # i => docker'[j] = docker[j]
    BY <1>0, <2>1, <2>2
  <2>4. /\ prov'[i].phase = "finish" /\ prov'[i].build = prov[i].build
        /\ \A j \in Ids : j # i => prov'[j] = prov[j]
    BY <1>0, <2>1 DEF ProvisionRow
  <2>5. prov[i].build = installed[i]
    BY <2>1 DEF RowsInv, JobsTrue
  <2>6. RowTypes'
    BY <2>1, <2>3 DEF RowsInv, RowTypes
  <2> QED BY <1>2, <2>1, <2>3, <2>4, <2>5, <2>6, RowUnderWay
<1>7. CASE FinishProvisioning(i)
  <2>1. /\ instances' = [instances EXCEPT ![i].state = "stopped", ![i].cont = TRUE, ![i].build = prov[i].build]
        /\ prov' = [prov EXCEPT ![i] = NoProv] /\ prov[i].phase = "finish" /\ UNCHANGED <<calls, installed, docker>>
    BY <1>7 DEF FinishProvisioning
  <2>2. prov[i].build = installed[i] /\ prov[i].build \in Nat
    BY <1>0, <2>1 DEF RowsInv, JobsTrue, ProvisionRow
  <2>3. /\ instances' \in [Ids -> InstanceRow] /\ instances'[i].state = "stopped" /\ instances'[i].cont
        /\ instances'[i].build = prov[i].build /\ \A j \in Ids : j # i => instances'[j] = instances[j]
    <3> DEFINE x == [instances[i] EXCEPT !.state = "stopped", !.cont = TRUE, !.build = prov[i].build]
    <3>1. x \in InstanceRow /\ x.state = "stopped" /\ x.cont /\ x.build = prov[i].build
      BY <1>0, <2>2 DEF InstanceRow, InstanceStates
    <3>2. instances' = [instances EXCEPT ![i] = x]
      BY <1>0, <2>1
    <3> HIDE DEF x
    <3> QED BY <1>0, <3>1, <3>2
  <2>4. prov'[i].phase = "none" /\ \A j \in Ids : j # i => prov'[j] = prov[j]
    BY <1>0, <1>3, <2>1
  <2>5. RowTypes'
    BY <2>1, <2>3 DEF RowsInv, RowTypes
  <2> QED BY <1>2, <2>1, <2>2, <2>3, <2>4, <2>5, RowUnderWay
<1> QED BY <1>4, <1>5, <1>6, <1>7

\* The steps of a provision job that only move the job and the cache.
LEMMA DownloadKeepsRows ==
  ASSUME CacheInv, RowsInv, NEW i \in Ids,
         \/ provisionDirs(i) \/ provisionBuildCache(i) \/ Ensure(i) \/ clearSurvivingDownload(i)
         \/ StartHelper(i) \/ HelperDone(i) \/ runSteamCMD(i) \/ publishBuild(i)
  PROVE  RowsInv'
<1>0. prov \in [Ids -> ProvisionRow] /\ prov[i] \in ProvisionRow
  BY DEF CacheInv, CacheTypes
<1>1. UNCHANGED <<instances, calls, installed, docker>> /\ prov[i].phase # "none"
  BY DEF provisionDirs, provisionBuildCache, Ensure, clearSurvivingDownload, StartHelper, HelperDone, runSteamCMD,
         publishBuild
<1>2. prov'[i].phase \notin {"container", "finish"} /\ \A j \in Ids : j # i => prov'[j] = prov[j]
  <2>1. CASE provisionDirs(i) \/ clearSurvivingDownload(i) \/ StartHelper(i) \/ HelperDone(i) \/ runSteamCMD(i)
    BY <1>0, <2>1 DEF provisionDirs, clearSurvivingDownload, StartHelper, HelperDone, runSteamCMD, ProvisionRow
  <2>2. CASE provisionBuildCache(i)
    BY <1>0, <2>2 DEF provisionBuildCache, NoProv
  <2>3. CASE Ensure(i)
    BY <1>0, <2>3 DEF Ensure, NoProv, ProvisionRow
  <2>4. CASE publishBuild(i)
    BY <1>0, <2>4 DEF publishBuild, NoProv
  <2> QED BY <2>1, <2>2, <2>3, <2>4
<1>3. \A j \in Ids : prov[j].phase \in {"container", "finish"} => prov[j].build = installed[j]
  BY DEF RowsInv, JobsTrue
<1> QED BY <1>1, <1>2, <1>3, JobMoves

\* A delete takes the container its row names, so no adoption finds its tree.
LEMMA DeleteKeepsRows ==
  ASSUME CacheInv, RowsInv, NEW i \in Ids, DeleteInstance(i)
  PROVE  RowsInv'
<1>0. /\ prov \in [Ids -> ProvisionRow] /\ instances \in [Ids -> InstanceRow] /\ instances[i] \in InstanceRow
      /\ docker \in [Ids -> Box] /\ installed \in [Ids -> Nat]
  BY DEF CacheInv, CacheTypes, RowsInv, RowTypes
<1>1. /\ instances[i].state \in {"stopped", "error"} /\ prov[i] = NoProv
      /\ docker' = [docker EXCEPT ![i] = IF instances[i].cont THEN NoBox ELSE @]
      /\ installed' = [installed EXCEPT ![i] = 0]
      /\ instances' = [instances EXCEPT ![i] = [NoInstance EXCEPT !.state = "gone"]]
      /\ UNCHANGED <<prov, calls>>
  BY DEF DeleteInstance
<1>2. /\ [NoInstance EXCEPT !.state = "gone"] \in InstanceRow /\ [NoInstance EXCEPT !.state = "gone"].state = "gone"
      /\ NoInstance.state = "none" /\ NoProv.phase = "none" /\ NoBox \in Box
  BY DEF NoInstance, InstanceRow, InstanceStates, NoProv, NoBox, Box
<1>3. /\ instances' \in [Ids -> InstanceRow] /\ instances'[i].state = "gone"
      /\ \A j \in Ids : j # i => instances'[j] = instances[j]
  BY <1>0, <1>1, <1>2
<1>4. /\ docker' \in [Ids -> Box] /\ (instances[i].cont => docker'[i] = NoBox)
      /\ \A j \in Ids : j # i => docker'[j] = docker[j]
  BY <1>0, <1>1, <1>2
<1>5. installed' \in [Ids -> Nat] /\ \A j \in Ids : j # i => installed'[j] = installed[j]
  BY <1>0, <1>1
<1>6. RowTypes'
  BY <1>1, <1>3, <1>4, <1>5 DEF RowsInv, RowTypes
<1>7. CASE instances[i].state = "error"
  BY <1>1, <1>2, <1>3, <1>4, <1>5, <1>6, <1>7, RowUnderWay
<1>8. CASE instances[i].state = "stopped"
  <2>1. docker'[i] = NoBox
    BY <1>4, <1>8 DEF RowsInv, JobsTrue
  <2>2. JobsTrue'
    BY <1>1, <1>2, <1>3, <1>5 DEF RowsInv, JobsTrue
  <2>3. BuildIdTrue'
    BY <1>3, <1>4, <1>5 DEF RowsInv, BuildIdTrue, HasBox
  <2>4. \A c \in Callers : calls[c].at # "none" => calls[c].id \in Ids
    BY DEF RowsInv, RowTypes, CreateCall, AdoptCall, NoCall
  <2>5. ASSUME NEW c \in Callers, calls[c].at \in {"allocate", "insert"}
        PROVE  /\ instances'[calls[c].id] = NoInstance /\ docker'[calls[c].id] = NoBox
               /\ \A d \in Callers : calls[d].at # "none" /\ calls[d].id = calls[c].id => d = c
    <3>1. instances[calls[c].id] = NoInstance /\ ~HasBox(calls[c].id) /\ calls[c].id \in Ids
      BY <2>4, <2>5 DEF RowsInv, CallsTrue
    <3>2. calls[c].id # i
      BY <1>2, <1>8, <3>1
    <3>3. \A d \in Callers : calls[d].at # "none" /\ calls[d].id = calls[c].id => d = c
      BY <2>5 DEF RowsInv, CallsTrue
    <3> QED BY <1>3, <1>4, <3>1, <3>2, <3>3 DEF HasBox
  <2>6. ASSUME NEW c \in Callers, calls[c].at = "adopt"
        PROVE  /\ instances'[calls[c].id].state \in {"none", "gone", "stopped", "running"}
               /\ docker'[calls[c].id] # NoBox => calls[c].facts.build = installed'[calls[c].id]
    <3>1. /\ instances[calls[c].id].state \in {"none", "gone", "stopped", "running"} /\ calls[c].id \in Ids
          /\ HasBox(calls[c].id) => calls[c].facts.build = installed[calls[c].id]
      BY <2>4, <2>6 DEF RowsInv, CallsTrue
    <3> QED BY <1>3, <1>4, <1>5, <2>1, <3>1 DEF HasBox
  <2>7. CallsTrue'
    BY <1>1, <2>5, <2>6 DEF CallsTrue, HasBox
  <2> QED BY <1>6, <2>2, <2>3, <2>7 DEF RowsInv
<1> QED BY <1>1, <1>7, <1>8

\* A container started or stopped by hand was there before.
LEMMA HandKeepsRows ==
  ASSUME RowsInv, NEW i \in Ids, ByHand(i)
  PROVE  RowsInv'
<1>0. docker \in [Ids -> Box] /\ docker[i] \in Box
  BY DEF RowsInv, RowTypes
<1>1. HasBox(i) /\ docker' = [docker EXCEPT ![i].up = ~@] /\ UNCHANGED <<instances, installed, prov, calls>>
  BY DEF ByHand
<1>2. docker' \in [Ids -> Box] /\ \A j \in Ids : j # i => docker'[j] = docker[j]
  <2>1. [docker[i] EXCEPT !.up = ~@] \in Box
    BY <1>0 DEF Box
  <2> QED BY <1>0, <1>1, <2>1
<1>3. \A j \in Ids : docker'[j] # NoBox => docker[j] # NoBox
  BY <1>1, <1>2 DEF HasBox
<1>4. \A c \in Callers : calls[c].at # "none" => calls[c].id \in Ids
  BY DEF RowsInv, RowTypes, CreateCall, AdoptCall, NoCall
<1>5. RowTypes' /\ JobsTrue' /\ BuildIdTrue'
  BY <1>1, <1>2, <1>3 DEF RowsInv, RowTypes, JobsTrue, BuildIdTrue, HasBox
<1>6. CallsTrue'
  BY <1>1, <1>3, <1>4 DEF RowsInv, CallsTrue, HasBox
<1> QED BY <1>5, <1>6 DEF RowsInv

\* After a boot no request is left, and a job runs for a row under way only.
LEMMA RebootKeepsRows ==
  ASSUME CacheInv, RowsInv, Reboot
  PROVE  RowsInv'
<1> DEFINE cut == {i \in Ids : instances[i].state = "provisioning"}
<1>0. instances \in [Ids -> InstanceRow] /\ NoCall.at = "none" /\ NoProv.phase = "none"
  BY DEF RowsInv, RowTypes, NoCall, NoProv
<1>1. /\ calls' = [c \in Callers |-> NoCall] /\ UNCHANGED <<docker, installed>>
      /\ instances' = [i \in Ids |-> IF i \in cut \ reached THEN [instances[i] EXCEPT !.state = "error"] ELSE instances[i]]
      /\ prov' = [i \in Ids |-> IF i \in cut \cap reached THEN [NoProv EXCEPT !.phase = "dirs"] ELSE NoProv]
  BY DEF Reboot
<1>2. \A i \in Ids : LET x == [instances[i] EXCEPT !.state = "error"] IN
        /\ x \in InstanceRow /\ x.state = "error" /\ x.branch = instances[i].branch
  BY <1>0 DEF InstanceRow, InstanceStates
<1>3. ASSUME NEW i \in Ids
      PROVE  /\ instances'[i] \in InstanceRow
             /\ \/ instances'[i] = instances[i]
                \/ /\ instances[i].state = "provisioning" /\ instances'[i].state = "error"
                   /\ instances'[i].branch = instances[i].branch
             /\ prov'[i].phase \in {"none", "dirs"}
             /\ prov'[i].phase # "none" => instances'[i].state = "provisioning"
  <2>1. CASE i \in cut \ reached
    <3>1. instances'[i] = [instances[i] EXCEPT !.state = "error"] /\ prov'[i] = NoProv
      BY <1>1, <2>1
    <3> QED BY <1>0, <1>2, <2>1, <3>1
  <2>2. CASE i \in cut \cap reached
    <3>1. instances'[i] = instances[i] /\ prov'[i] = [NoProv EXCEPT !.phase = "dirs"]
      BY <1>1, <2>2
    <3>2. [NoProv EXCEPT !.phase = "dirs"].phase = "dirs"
      BY DEF NoProv
    <3> QED BY <1>0, <2>2, <3>1, <3>2
  <2>3. CASE i \notin cut
    <3>1. instances'[i] = instances[i] /\ prov'[i] = NoProv
      BY <1>1, <2>3
    <3> QED BY <1>0, <3>1
  <2> QED BY <2>1, <2>2, <2>3
<1>4. instances' \in [Ids -> InstanceRow] /\ calls' \in [Callers -> {NoCall} \cup CreateCall \cup AdoptCall]
  <2>1. instances' = [i \in Ids |-> instances'[i]]
    BY <1>1
  <2> QED BY <1>1, <1>3, <2>1
<1>5. RowTypes'
  BY <1>1, <1>4 DEF RowsInv, RowTypes
<1>6. JobsTrue'
  BY <1>1, <1>3 DEF RowsInv, JobsTrue
<1>7. CallsTrue'
  BY <1>0, <1>1 DEF CallsTrue
<1>8. BuildIdTrue'
  BY <1>1, <1>3 DEF RowsInv, BuildIdTrue, HasBox
<1> QED BY <1>5, <1>6, <1>7, <1>8 DEF RowsInv

\* Every step keeps what the rows say.
LEMMA RowsStep ==
  ASSUME CacheInv, RowsInv, [ProvisioningNext]_provisioningVars
  PROVE  RowsInv'
<1>1. CASE UNCHANGED <<instances, prov, calls, installed, docker>>
  BY <1>1 DEF RowsInv, RowTypes, JobsTrue, CallsTrue, BuildIdTrue, HasBox
<1>2. CASE StrayEnds \/ SteamPublishes \/ UNCHANGED provisioningVars
  BY <1>1, <1>2 DEF StrayEnds, SteamPublishes, provisioningVars
<1>3. ASSUME NEW i \in Ids, retryInstall(i) PROVE RowsInv'
  BY <1>3, ClaimKeepsRows DEF retryInstall
<1>4. ASSUME NEW c \in Callers, SubmitProvision(c) PROVE RowsInv'
  <2>1. calls[c].at = "submit" /\ calls' = [calls EXCEPT ![c] = NoCall] /\ UNCHANGED <<installed, docker>>
    BY <1>4 DEF SubmitProvision
  <2>2. CASE instances[calls[c].id].state = "created"
    <3>1. ClaimProvision(calls[c].id, "created")
      BY <1>4, <2>2 DEF SubmitProvision
    <3>2. calls[c].id \in Ids
      BY <2>1 DEF RowsInv, RowTypes, CreateCall, AdoptCall, NoCall
    <3> QED BY <2>1, <3>1, <3>2, ClaimKeepsRows
  <2>3. CASE instances[calls[c].id].state # "created"
    <3>1. UNCHANGED <<instances, prov>>
      BY <1>4, <2>3 DEF SubmitProvision
    <3>2. NoCall \in {NoCall} \cup CreateCall \cup AdoptCall /\ NoCall.at = "none"
      BY DEF NoCall
    <3> QED BY <2>1, <3>1, <3>2, CallMoves
  <2> QED BY <2>2, <2>3
<1> QED BY <1>2, <1>3, <1>4, RequestsKeepRows, JobKeepsRows, DownloadKeepsRows, DeleteKeepsRows, HandKeepsRows,
           RebootKeepsRows, Zenon DEF ProvisioningNext

\* What the cache publishes is whole, of the build its name says, and written by
\* nobody, unless an attempt began beside a helper Docker refused to remove; and
\* the build a row names is the one its server runs, through retries, adoptions,
\* deletes and deaths of the panel (instance: publishBuild, provisionClone).
THEOREM BuildsAreTrue == ProvisioningSpec => []BuildsTrue
<1>1. ProvisioningInit => CacheInv /\ RowsInv
  <2> SUFFICES ASSUME ProvisioningInit PROVE CacheInv /\ RowsInv
    OBVIOUS
  <2>1. NoProv \in ProvisionRow /\ NoProv.phase = "none" /\ NoDir \in [build : Nat, whole : BOOLEAN]
        /\ NoInstance \in InstanceRow /\ NoInstance.state = "none" /\ NoCall.at = "none" /\ NoBox \in Box
    BY DEF NoProv, ProvisionRow, Phases, NoDir, NoInstance, InstanceRow, InstanceStates, NoCall, NoBox, Box
  <2>2. 1 \in Builds
    BY ProvisioningAssumption DEF Builds
  <2>3. CacheTypes
    BY <2>1, <2>2 DEF ProvisioningInit, CacheTypes, CacheDirs, Holding
  <2>4. OneDownload
    BY <2>1 DEF ProvisioningInit, OneDownload, Holding
  <2>5. CacheSound
    BY <2>1 DEF ProvisioningInit, CacheSound
  <2>6. instances = [i \in Ids |-> NoInstance] /\ prov = [i \in Ids |-> NoProv] /\ calls = [c \in Callers |-> NoCall]
    BY DEF ProvisioningInit
  <2>7. installed \in [Ids -> Nat] /\ docker \in [Ids -> Box]
    <3>1. PICK orphans \in {{}, {CHOOSE i \in Ids : TRUE}}, p \in Ports, ours \in BOOLEAN :
            /\ docker = [i \in Ids |-> IF i \in orphans THEN [port |-> p, up |-> FALSE, ours |-> ours] ELSE NoBox]
            /\ installed = [i \in Ids |-> IF i \in orphans THEN 1 ELSE 0]
      BY Zenon DEF ProvisioningInit
    <3>2. [port |-> p, up |-> FALSE, ours |-> ours] \in Box
      BY DEF Box
    <3> QED BY <2>1, <3>1, <3>2
  <2>8. RowTypes /\ JobsTrue /\ CallsTrue /\ BuildIdTrue
    BY <2>1, <2>6, <2>7 DEF RowTypes, JobsTrue, CallsTrue, BuildIdTrue
  <2> QED BY <2>3, <2>4, <2>5, <2>8 DEF CacheInv, RowsInv
<1>2. CacheInv /\ RowsInv /\ [ProvisioningNext]_provisioningVars => (CacheInv /\ RowsInv)'
  BY CacheStep, RowsStep
<1>3. CacheInv /\ RowsInv => BuildsTrue
  <2> SUFFICES ASSUME CacheInv, RowsInv, ~leaked PROVE PublishedBuildSound
    BY DEF BuildsTrue, PublishedBuildSound, RowsInv
  <2>1. \A h \in helpers : h.dir \in Parts
    BY DEF CacheInv, CacheTypes, CacheSound, HelperRow
  <2>2. \A h \in helpers, b \in Builds : h.dir # Final(b)
    BY <2>1, DirsApart
  <2> QED BY <2>2 DEF CacheInv, CacheSound, PublishedBuildSound
<1> QED BY <1>1, <1>2, <1>3, PTL DEF ProvisioningSpec

-----------------------------------------------------------------------------
(* Mod configuration files (ConfigFiles). *)

\* Documents, requests and promises.
ConfigShape ==
  /\ {file, pendingCopy, plugin} \subseteq Documents \cup {Missing}
  /\ DOMAIN wanted = Keys
  /\ saves \in [Authors -> Requests \cup {Missing}]
  /\ \A a \in InFlight : saves[a].at \in {"mark", "write"} => saves[a].next \in Documents

\* The stages of each job, and the row of the instance while it runs.
HolderStages ==
  holder # Missing =>
    /\ holder \in Holders
    /\ holder.job = "start" => phase = "starting" /\ holder.at \in {"claimed", "settled", "done"}
    /\ holder.job = "stop" => phase = "stopping" /\ holder.at \in {"claimed", "down", "done"}
    /\ holder.job = "backup" => phase = "stopping" /\ holder.at \in {"claimed", "done"}
    /\ holder.job \in {"apply", "uninstall"} => phase = "stopped" /\ holder.at \in {"claimed", "drop", "done"}

\* The game is only up while the row says so, or between the two ends of a start or a stop.
UpPhases ==
  plugin # Missing =>
    \/ holder = Missing /\ phase = "running"
    \/ Held("start", "done") \/ Held("stop", "claimed") \/ Held("backup", "claimed")

\* A document holds what was promised of the settings it has.
Agrees(doc) == doc # Missing => \A k \in DOMAIN doc : wanted[k] \in {Missing, doc[k]}

\* Everything promised is in the pending copy or, where there is none, safe in the file and
\* with the plugin that may write it.
PromiseSafe ==
  IF pendingCopy = Missing THEN Agrees(file) /\ Agrees(plugin)
  ELSE \A k \in Keys : wanted[k] # Missing => k \in DOMAIN pendingCopy /\ wanted[k] = pendingCopy[k]

\* A save that nothing overlapped is alone; where it looked at a stopped server the game is down.
Alone(a) ==
  /\ InFlight = {a}
  /\ holder # Missing => saves[a].at = "lock" /\ holder.job \in {"apply", "uninstall"}
  /\ ~saves[a].running /\ saves[a].at \in {"lock", "read", "mark"} => phase = "stopped" /\ plugin = Missing
UnracedAlone == \A a \in InFlight : ~saves[a].raced => Alone(a)

\* Such a save between its two writes: a server that ran has the pending copy, one that was
\* stopped still is.
Writing(a) == saves[a].at = "write" /\ ~saves[a].raced
WriteStage ==
  \A a \in InFlight : Writing(a) =>
    pendingCopy = saves[a].next \/ (pendingCopy = Missing /\ plugin = Missing)
Promised == PromiseSafe \/ \E a \in InFlight : Writing(a)

\* A job that starts or stops the game overlaps no save that is promised anything.
HeldQuiet == holder # Missing /\ holder.job \in {"start", "stop", "backup"} /\ InFlight # {} => wanted = NoPromise

\* Requests that arrived under a job that replaces or removes the file wait for its lock.
WaitForLock ==
  holder # Missing /\ holder.job \in {"apply", "uninstall"} /\ ~holder.raced =>
    \A a \in InFlight : saves[a].at = "lock" /\ ~saves[a].running

\* Where something is promised beside overlapped requests, these found the server stopped.
RacedQuiet ==
  wanted # NoPromise => \A a \in InFlight : saves[a].raced =>
    /\ pendingCopy = Missing /\ plugin = Missing /\ phase = "stopped" /\ ~saves[a].running

\* A deletion that still has copies to remove promises nothing.
DeletedUnpromised == \A a \in InFlight : saves[a].at = "copies" => wanted = NoPromise

\* What a start has settled.
StartSettled ==
  Held("start", "settled") =>
    \A k \in Keys : wanted[k] # Missing =>
       /\ file # Missing /\ k \in DOMAIN file /\ wanted[k] = file[k]
       /\ pendingCopy = Missing

ConfigInv ==
  /\ ConfigShape /\ HolderStages /\ UpPhases /\ UnracedAlone /\ WriteStage /\ Promised /\ HeldQuiet /\ WaitForLock
  /\ RacedQuiet /\ DeletedUnpromised /\ StartSettled

\* A document holds settings and is not the mark of a missing one.
LEMMA DocumentIs ==
  /\ Missing \notin Documents /\ Missing \notin Requests /\ Missing \notin Holders
  /\ \A d \in Documents : DOMAIN d \subseteq Keys /\ \A k \in DOMAIN d : d[k] \in Values
  /\ \A S \in SUBSET Keys : [S -> Values] \subseteq Documents
  BY ConfigFilesAssumption DEF Documents

\* The fields of a request.
LEMMA RequestIs ==
  ASSUME NEW r \in Requests
  PROVE  /\ DOMAIN r = {"at", "ask", "running", "raced", "next"}
         /\ r.at \in {"lock", "read", "mark", "write", "remove", "copies"} /\ r.ask \in Asks
         /\ r.running \in BOOLEAN /\ r.raced \in BOOLEAN /\ r.next \in Documents \cup {Missing}
         /\ r # Missing
  BY ConfigFilesAssumption DEF Requests

\* What is under way is a request.
LEMMA FlyingIs ==
  ASSUME ConfigInv PROVE /\ InFlight \subseteq Authors /\ \A a \in InFlight : saves[a] \in Requests
                         /\ \A a \in Authors : a \notin InFlight => saves[a] = Missing
                         /\ DOMAIN saves = Authors
  BY DEF ConfigInv, ConfigShape, InFlight

\* Requests that are overlapped stay where they are.
LEMMA RacedIs ==
  ASSUME ConfigInv
  PROVE  /\ DOMAIN Raced = Authors
         /\ \A a \in Authors : a \notin InFlight => Raced[a] = Missing
         /\ \A a \in InFlight : /\ Raced[a] \in Requests /\ Raced[a] # Missing /\ Raced[a].raced = TRUE
                                /\ Raced[a].at = saves[a].at /\ Raced[a].running = saves[a].running
                                /\ Raced[a].next = saves[a].next
<1>1. DOMAIN Raced = Authors
  BY DEF Raced
<1>2. \A a \in Authors : a \notin InFlight => Raced[a] = Missing
  BY DEF Raced, InFlight
<1>3. ASSUME NEW a \in InFlight
      PROVE  /\ Raced[a] \in Requests /\ Raced[a] # Missing /\ Raced[a].raced = TRUE
             /\ Raced[a].at = saves[a].at /\ Raced[a].running = saves[a].running
             /\ Raced[a].next = saves[a].next
  <2> DEFINE r == saves[a]
             q == [r EXCEPT !.raced = TRUE]
  <2>1. r \in Requests /\ r # Missing /\ a \in Authors
    BY FlyingIs DEF InFlight
  <2>2. Raced[a] = q
    BY <2>1 DEF Raced
  <2> HIDE DEF r
  <2>3. /\ DOMAIN r = {"at", "ask", "running", "raced", "next"}
    BY <2>1, RequestIs
  <2>4. q \in Requests
    BY <2>1 DEF Requests
  <2>5. q.at = r.at /\ q.running = r.running /\ q.next = r.next
    BY <2>3
  <2>6. q.raced = TRUE
    BY <2>3, Zenon
  <2>7. q # Missing
    BY <2>4, RequestIs
  <2> QED
    BY <2>2, <2>4, <2>5, <2>6, <2>7 DEF r
<1> QED
  BY <1>1, <1>2, <1>3

\* Where nothing is promised, nothing can be lost.
LEMMA NothingPromised ==
  ASSUME ConfigShape', wanted' = NoPromise
  PROVE  Promised' /\ HeldQuiet' /\ RacedQuiet' /\ DeletedUnpromised' /\ StartSettled'
<1>1. \A k \in Keys : wanted'[k] = Missing
  BY DEF NoPromise
<1>2. NoPromise' = NoPromise
  BY DEF NoPromise
<1>3. PromiseSafe'
  BY <1>1, DocumentIs DEF PromiseSafe, Agrees, ConfigShape
<1> QED
  BY <1>1, <1>2, <1>3 DEF Promised, HeldQuiet, RacedQuiet, DeletedUnpromised, StartSettled

\* A promise that is kept for some settings only promises no more.
LEMMA KeptIs ==
  ASSUME NEW doc
  PROVE  /\ DOMAIN Kept(wanted, doc) = Keys
         /\ \A k \in Keys : Kept(wanted, doc)[k] # Missing => k \in DOMAIN doc /\ Kept(wanted, doc)[k] = wanted[k]
         /\ wanted = NoPromise => Kept(wanted, doc) = NoPromise
  BY DEF Kept, NoPromise

\* A document promises the settings it has.
LEMMA PromiseOfIs ==
  ASSUME NEW doc
  PROVE  /\ DOMAIN PromiseOf(doc) = Keys
         /\ \A k \in Keys : PromiseOf(doc)[k] # Missing => k \in DOMAIN doc /\ PromiseOf(doc)[k] = doc[k]
  BY DEF PromiseOf

\* A job claims the lock.
LEMMA BeginJobKeeps ==
  ASSUME ConfigInv, NEW job \in {"start", "stop", "backup", "apply", "uninstall"}, BeginJob(job)
  PROVE  ConfigInv'
<1>0. /\ ConfigShape /\ HolderStages /\ UpPhases /\ UnracedAlone /\ WriteStage /\ Promised /\ HeldQuiet
      /\ WaitForLock /\ RacedQuiet /\ DeletedUnpromised /\ StartSettled
  BY DEF ConfigInv
<1> DEFINE r == InFlight # {}
           h == [job |-> job, at |-> "claimed", raced |-> r]
<1>1. /\ holder = Missing /\ holder' = h /\ saves' = Raced
      /\ wanted' = IF InFlight = {} THEN wanted ELSE NoPromise
      /\ UNCHANGED <<file, pendingCopy, plugin>>
      /\ job = "start" => phase = "stopped" /\ phase' = "starting"
      /\ job \in {"stop", "backup"} => phase = "running" /\ phase' = "stopping"
      /\ job \in {"apply", "uninstall"} => phase = "stopped" /\ phase' = "stopped"
  BY DEF BeginJob, ClaimFrom, Overlaps
<1>2. h \in Holders /\ h.job = job /\ h.at = "claimed"
  BY DEF Holders
<1>3. r => h.raced = TRUE
  BY Zenon
<1> HIDE DEF h, r
<1>4. holder' # Missing
  BY <1>1, <1>2, DocumentIs
<1>5. /\ InFlight' = InFlight
      /\ \A a \in InFlight : /\ saves'[a] \in Requests /\ saves'[a].raced = TRUE
                             /\ saves'[a].at = saves[a].at /\ saves'[a].next = saves[a].next
  <2>1. \A a \in Authors : saves'[a] # Missing <=> a \in InFlight
    BY <1>1, RacedIs
  <2>2. InFlight' = InFlight
    BY <2>1 DEF InFlight
  <2> QED
    BY <1>1, <2>2, RacedIs
<1>6. ConfigShape'
  <2>1. saves' \in [Authors -> Requests \cup {Missing}]
    <3>1. \A a \in Authors : Raced[a] \in Requests \cup {Missing}
      BY RacedIs
    <3>2. Raced = [a \in Authors |-> Raced[a]]
      BY DEF Raced
    <3> QED
      BY <1>1, <3>1, <3>2
  <2>2. DOMAIN wanted' = Keys
    BY <1>0, <1>1 DEF ConfigShape, NoPromise
  <2>3. \A a \in InFlight' : saves'[a].at \in {"mark", "write"} => saves'[a].next \in Documents
    BY <1>0, <1>5 DEF ConfigShape
  <2> QED
    BY <1>0, <1>1, <2>1, <2>2, <2>3 DEF ConfigShape
<1>7. HolderStages'
  BY <1>1, <1>2 DEF HolderStages
<1>8. UpPhases'
  BY <1>0, <1>1, <1>2, <1>4 DEF UpPhases, Held
<1>9. UnracedAlone' /\ WriteStage'
  BY <1>5 DEF UnracedAlone, WriteStage, Writing
<1>10. CASE InFlight = {}
  <2>1. wanted' = wanted
    BY <1>1, <1>10
  <2>2. Promised'
    BY <1>0, <1>1, <1>10, <2>1 DEF Promised, PromiseSafe, Agrees
  <2>3. HeldQuiet' /\ RacedQuiet' /\ DeletedUnpromised' /\ WaitForLock'
    BY <1>5, <1>10 DEF HeldQuiet, RacedQuiet, DeletedUnpromised, WaitForLock
  <2>4. StartSettled'
    BY <1>1, <1>2 DEF StartSettled, Held
  <2> QED
    BY <1>6, <1>7, <1>8, <1>9, <2>2, <2>3, <2>4 DEF ConfigInv
<1>11. CASE InFlight # {}
  <2>1. wanted' = NoPromise
    BY <1>1, <1>11
  <2>2. WaitForLock'
    BY <1>1, <1>3, <1>11 DEF WaitForLock, r
  <2> QED
    BY <1>6, <1>7, <1>8, <1>9, <2>1, <2>2, NothingPromised DEF ConfigInv
<1> QED
  BY <1>10, <1>11

\* A request arrives.
LEMMA MustLoadKeeps ==
  ASSUME ConfigInv, NEW a \in Authors, NEW ask \in Asks, mustLoadInstance(a, ask)
  PROVE  ConfigInv'
<1>0. /\ ConfigShape /\ HolderStages /\ UpPhases /\ UnracedAlone /\ WriteStage /\ Promised /\ HeldQuiet
      /\ WaitForLock /\ RacedQuiet /\ DeletedUnpromised /\ StartSettled
  BY DEF ConfigInv
<1> DEFINE up == phase = "running"
           r == InFlight # {}
           q == [at |-> "lock", ask |-> ask, running |-> up, raced |-> r, next |-> Missing]
<1>1. /\ saves[a] = Missing /\ phase \in {"stopped", "running"} /\ saves' = [Raced EXCEPT ![a] = q]
      /\ wanted' = IF InFlight = {} THEN wanted ELSE NoPromise
      /\ UNCHANGED <<file, pendingCopy, plugin, phase, holder>>
  BY DEF mustLoadInstance
<1>2. q \in Requests /\ q.at = "lock" /\ q.next = Missing
  BY DEF Requests
<1>3. q.raced = r /\ q.running = up
  BY Zenon
<1>a. r \in BOOLEAN /\ up \in BOOLEAN
  BY Zenon
<1> HIDE DEF q
<1>4. q # Missing
  BY <1>2, DocumentIs
<1>5. a \notin InFlight
  BY <1>1 DEF InFlight
<1>6. saves'[a] = q /\ DOMAIN saves' = Authors /\ \A b \in Authors : b # a => saves'[b] = Raced[b]
  BY <1>1, RacedIs
<1>7. /\ InFlight' = InFlight \cup {a}
      /\ \A b \in InFlight : /\ saves'[b] \in Requests /\ saves'[b].raced = TRUE /\ b # a
                             /\ saves'[b].at = saves[b].at /\ saves'[b].next = saves[b].next
                             /\ saves'[b].running = saves[b].running
  <2>1. \A b \in Authors : saves'[b] # Missing <=> b \in InFlight \cup {a}
    BY <1>4, <1>6, RacedIs
  <2>2. InFlight' = InFlight \cup {a}
    BY <2>1, FlyingIs DEF InFlight
  <2> QED
    BY <1>5, <1>6, <2>2, RacedIs, FlyingIs
<1>8. ConfigShape'
  <2>1. saves' \in [Authors -> Requests \cup {Missing}]
    <3>1. \A b \in Authors : Raced[b] \in Requests \cup {Missing}
      BY RacedIs
    <3>2. Raced = [b \in Authors |-> Raced[b]]
      BY DEF Raced
    <3> QED
      BY <1>1, <1>2, <3>1, <3>2
  <2>2. DOMAIN wanted' = Keys
    BY <1>0, <1>1 DEF ConfigShape, NoPromise
  <2>3. \A b \in InFlight' : saves'[b].at \in {"mark", "write"} => saves'[b].next \in Documents
    BY <1>0, <1>2, <1>6, <1>7 DEF ConfigShape
  <2> QED
    BY <1>0, <1>1, <2>1, <2>2, <2>3 DEF ConfigShape
<1>9. HolderStages' /\ UpPhases'
  BY <1>0, <1>1 DEF HolderStages, UpPhases, Held
<1>b. holder # Missing => holder.job \in {"apply", "uninstall"} /\ phase = "stopped"
  BY <1>0, <1>1 DEF HolderStages, Holders
<1>10. phase = "stopped" => plugin = Missing
  BY <1>0, <1>b DEF UpPhases, Held, HolderStages
<1>c. ~q.running => phase = "stopped"
  BY <1>1, <1>3
<1>11. WriteStage'
  BY <1>2, <1>6, <1>7 DEF WriteStage, Writing
<1>12. WaitForLock'
  <2>1. phase = "stopped" => ~q.running
    BY <1>3
  <2> QED
    BY <1>0, <1>1, <1>2, <1>b, <1>6, <1>7, <2>1 DEF WaitForLock
<1>13. CASE InFlight = {}
  <2>1. wanted' = wanted /\ InFlight' = {a}
    BY <1>1, <1>7, <1>13
  <2>2. Promised'
    BY <1>0, <1>1, <1>13, <2>1 DEF Promised, PromiseSafe, Agrees
  <2>3. q.raced = FALSE
    BY <1>3, <1>13
  <2>4. UnracedAlone'
    BY <1>1, <1>2, <1>b, <1>c, <1>6, <1>10, <2>1 DEF UnracedAlone, Alone
  <2>5. HeldQuiet' /\ RacedQuiet' /\ DeletedUnpromised'
    BY <1>1, <1>2, <1>b, <1>6, <2>1, <2>3 DEF HeldQuiet, RacedQuiet, DeletedUnpromised
  <2>6. StartSettled'
    BY <1>1, <1>b DEF StartSettled, Held
  <2> QED
    BY <1>8, <1>9, <1>11, <1>12, <2>2, <2>4, <2>5, <2>6 DEF ConfigInv
<1>14. CASE InFlight # {}
  <2>1. wanted' = NoPromise
    BY <1>1, <1>14
  <2>2. q.raced = TRUE
    BY <1>3, <1>14
  <2>3. UnracedAlone'
    BY <1>6, <1>7, <2>2 DEF UnracedAlone
  <2> QED
    BY <1>8, <1>9, <1>11, <1>12, <2>1, <2>3, NothingPromised DEF ConfigInv
<1> QED
  BY <1>13, <1>14

\* One request moves on.
LEMMA StageIs ==
  ASSUME ConfigInv, NEW a \in InFlight, NEW r \in Requests, saves' = [saves EXCEPT ![a] = r]
  PROVE  /\ InFlight' = InFlight /\ saves'[a] = r /\ \A b \in InFlight : b # a => saves'[b] = saves[b]
         /\ saves' \in [Authors -> Requests \cup {Missing}]
<1>1. saves'[a] = r /\ a \in Authors /\ r # Missing
  BY FlyingIs, RequestIs
<1>2. \A b \in Authors : saves'[b] # Missing <=> saves[b] # Missing
  BY <1>1, FlyingIs DEF InFlight
<1>3. InFlight' = InFlight
  BY <1>2 DEF InFlight
<1>4. saves' \in [Authors -> Requests \cup {Missing}]
  BY <1>1 DEF ConfigInv, ConfigShape
<1> QED
  BY <1>1, <1>3, <1>4, FlyingIs

\* One request ends.
LEMMA RefuseIs ==
  ASSUME ConfigInv, NEW a \in InFlight, Refuse(a)
  PROVE  /\ InFlight' = InFlight \ {a} /\ \A b \in InFlight' : saves'[b] = saves[b] /\ b \in InFlight
         /\ saves' \in [Authors -> Requests \cup {Missing}]
<1>1. saves' = [saves EXCEPT ![a] = Missing] /\ a \in Authors /\ saves'[a] = Missing
  BY FlyingIs DEF Refuse
<1>2. \A b \in Authors : b # a => saves'[b] = saves[b]
  BY <1>1, FlyingIs
<1>3. InFlight' = InFlight \ {a}
  BY <1>1, <1>2 DEF InFlight
<1>4. saves' \in [Authors -> Requests \cup {Missing}]
  BY <1>1 DEF ConfigInv, ConfigShape
<1> QED
  BY <1>1, <1>2, <1>3, <1>4, FlyingIs

\* A request that has written nothing goes on.
LEMMA GoesOnKeeps ==
  ASSUME ConfigInv, NEW a \in InFlight, NEW r \in Requests, saves' = [saves EXCEPT ![a] = r],
         UNCHANGED <<file, pendingCopy, plugin, phase, holder, wanted>>,
         r.raced = saves[a].raced, r.running = saves[a].running, saves[a].at \in {"lock", "read"},
         r.at \in {"read", "mark", "remove"}, r.at = "mark" => r.next \in Documents,
         saves[a].at = "lock" => holder = Missing
  PROVE  ConfigInv'
<1>0. /\ ConfigShape /\ HolderStages /\ UpPhases /\ UnracedAlone /\ WriteStage /\ Promised /\ HeldQuiet
      /\ WaitForLock /\ RacedQuiet /\ DeletedUnpromised /\ StartSettled
  BY DEF ConfigInv
<1>1. /\ InFlight' = InFlight /\ saves'[a] = r /\ \A b \in InFlight : b # a => saves'[b] = saves[b]
      /\ saves' \in [Authors -> Requests \cup {Missing}]
  BY StageIs
<1>2. ConfigShape'
  BY <1>0, <1>1 DEF ConfigShape
<1>3. HolderStages' /\ UpPhases' /\ StartSettled'
  BY <1>0 DEF HolderStages, UpPhases, StartSettled, Held
<1>4. UnracedAlone'
  BY <1>0, <1>1 DEF UnracedAlone, Alone
<1>5. WriteStage'
  BY <1>0, <1>1 DEF WriteStage, Writing
<1>6. Promised'
  <2>1. \A b \in InFlight : Writing(b) => Writing(b)'
    BY <1>1 DEF Writing
  <2> QED
    BY <1>0, <1>1, <2>1 DEF Promised, PromiseSafe, Agrees
<1>7. HeldQuiet' /\ WaitForLock'
  BY <1>0, <1>1 DEF HeldQuiet, WaitForLock, NoPromise
<1>8. RacedQuiet' /\ DeletedUnpromised'
  BY <1>0, <1>1 DEF RacedQuiet, DeletedUnpromised, NoPromise
<1> QED
  BY <1>2, <1>3, <1>4, <1>5, <1>6, <1>7, <1>8 DEF ConfigInv

\* A request that has written nothing ends.
LEMMA GivesUpKeeps ==
  ASSUME ConfigInv, NEW a \in InFlight, Refuse(a), saves[a].at # "write",
         UNCHANGED <<file, pendingCopy, plugin, phase, holder, wanted>>
  PROVE  ConfigInv'
<1>0. /\ ConfigShape /\ HolderStages /\ UpPhases /\ UnracedAlone /\ WriteStage /\ Promised /\ HeldQuiet
      /\ WaitForLock /\ RacedQuiet /\ DeletedUnpromised /\ StartSettled
  BY DEF ConfigInv
<1>1. /\ InFlight' = InFlight \ {a} /\ \A b \in InFlight' : saves'[b] = saves[b] /\ b \in InFlight
      /\ saves' \in [Authors -> Requests \cup {Missing}]
  BY RefuseIs
<1>2. ConfigShape'
  BY <1>0, <1>1 DEF ConfigShape
<1>3. HolderStages' /\ UpPhases' /\ StartSettled'
  BY <1>0 DEF HolderStages, UpPhases, StartSettled, Held
<1>4. UnracedAlone'
  BY <1>0, <1>1 DEF UnracedAlone, Alone
<1>5. WriteStage'
  BY <1>0, <1>1 DEF WriteStage, Writing
<1>6. Promised'
  <2>1. \A b \in InFlight : Writing(b) => b \in InFlight' /\ Writing(b)'
    BY <1>1 DEF Writing
  <2> QED
    BY <1>0, <1>1, <2>1 DEF Promised, PromiseSafe, Agrees
<1>7. HeldQuiet' /\ WaitForLock'
  BY <1>0, <1>1 DEF HeldQuiet, WaitForLock, NoPromise
<1>8. RacedQuiet' /\ DeletedUnpromised'
  BY <1>0, <1>1 DEF RacedQuiet, DeletedUnpromised, NoPromise
<1> QED
  BY <1>2, <1>3, <1>4, <1>5, <1>6, <1>7, <1>8 DEF ConfigInv

\* The lock is looked at, once.
LEMMA EditableKeeps ==
  ASSUME ConfigInv, NEW a \in Authors, configEditable(a) \/ NotFound(a) PROVE ConfigInv'
<1>1. /\ a \in InFlight /\ saves[a].at \in {"lock", "read"}
      /\ UNCHANGED <<file, pendingCopy, plugin, phase, holder, wanted>>
  BY DEF configEditable, NotFound, Waits, InFlight
<1>2. CASE Refuse(a)
  BY <1>1, <1>2, GivesUpKeeps
<1>3. CASE ~Refuse(a)
  <2>1. holder = Missing /\ saves[a].at = "lock" /\ saves' = [saves EXCEPT ![a].at = "read"]
    BY <1>3 DEF configEditable, NotFound, Waits
  <2> DEFINE r == [saves[a] EXCEPT !.at = "read"]
  <2>2. saves[a] \in Requests /\ DOMAIN saves[a] = {"at", "ask", "running", "raced", "next"} /\ DOMAIN saves = Authors
    BY <1>1, FlyingIs, RequestIs
  <2>3. r \in Requests
    BY <2>2 DEF Requests
  <2>4. r.raced = saves[a].raced /\ r.running = saves[a].running /\ r.at = "read"
    BY <2>2
  <2>5. saves' = [saves EXCEPT ![a] = r]
    BY <2>1, <2>2
  <2> HIDE DEF r
  <2> QED
    BY <1>1, <2>1, <2>3, <2>4, <2>5, GoesOnKeeps
<1> QED
  BY <1>2, <1>3

\* The file is read and the new document made.
LEMMA ReadConfigKeeps ==
  ASSUME ConfigInv, NEW a \in Authors, NEW doc \in Documents \cup {Missing}, readConfigFile(a, doc)
  PROVE  ConfigInv'
<1> DEFINE s == IF saves[a].ask = "delete" THEN "remove" ELSE "mark"
           r == [saves[a] EXCEPT !.at = s, !.next = doc]
<1>1. /\ a \in InFlight /\ saves[a].at = "read" /\ saves' = [saves EXCEPT ![a].at = s, ![a].next = doc]
      /\ UNCHANGED <<file, pendingCopy, plugin, phase, holder, wanted>>
  BY DEF readConfigFile, Waits, InFlight
<1>2. s \in {"mark", "remove"}
  OBVIOUS
<1>3. s = "mark" => doc \in Documents
  <2>1. CASE saves[a].ask = "patch"
    <3>1. PICK k \in DOMAIN file, v \in Values : doc = Apply(file, k, v)
      BY <2>1 DEF readConfigFile
    <3>2. file \in Documents
      BY DEF ConfigInv, ConfigShape, readConfigFile
    <3>3. PICK S \in SUBSET Keys : file \in [S -> Values]
      BY <3>2 DEF Documents
    <3>4. doc \in [S -> Values]
      BY <3>1, <3>3 DEF Apply
    <3> QED
      BY <3>4, DocumentIs
  <2>2. CASE saves[a].ask = "raw"
    BY <2>2 DEF readConfigFile
  <2> QED
    BY <2>1, <2>2 DEF readConfigFile
<1> HIDE DEF s
<1>4. saves[a] \in Requests /\ DOMAIN saves[a] = {"at", "ask", "running", "raced", "next"} /\ DOMAIN saves = Authors
  BY <1>1, FlyingIs, RequestIs
<1>5. r \in Requests
  BY <1>2, <1>4 DEF Requests
<1>6. r.raced = saves[a].raced /\ r.running = saves[a].running /\ r.at = s /\ r.next = doc
  BY <1>4
<1>7. saves' = [saves EXCEPT ![a] = r]
  BY <1>1, <1>4
<1> HIDE DEF r
<1> QED
  BY <1>1, <1>2, <1>3, <1>5, <1>6, <1>7, GoesOnKeeps

\* A request of a running server leaves its pending copy; one of a stopped server drops it.
LEMMA MarkPendingKeeps ==
  ASSUME ConfigInv, NEW a \in Authors, markPending(a) PROVE ConfigInv'
<1>0. /\ ConfigShape /\ HolderStages /\ UpPhases /\ UnracedAlone /\ WriteStage /\ Promised /\ HeldQuiet
      /\ WaitForLock /\ RacedQuiet /\ DeletedUnpromised /\ StartSettled
  BY DEF ConfigInv
<1> DEFINE r == [saves[a] EXCEPT !.at = "write", !.running = FALSE]
<1>1. /\ a \in InFlight /\ saves[a].at = "mark"
      /\ pendingCopy' = IF saves[a].running THEN saves[a].next ELSE Missing
      /\ saves' = [saves EXCEPT ![a].at = "write", ![a].running = FALSE]
      /\ UNCHANGED <<file, plugin, phase, holder, wanted>>
  BY DEF markPending, Waits, InFlight
<1>2. saves[a] \in Requests /\ DOMAIN saves[a] = {"at", "ask", "running", "raced", "next"} /\ DOMAIN saves = Authors
  BY <1>1, FlyingIs, RequestIs
<1>3. r \in Requests
  BY <1>2 DEF Requests
<1>4. r.raced = saves[a].raced /\ r.next = saves[a].next /\ r.at = "write"
  BY <1>2
<1>5. r.running = FALSE
  BY <1>2, Zenon
<1>6. saves' = [saves EXCEPT ![a] = r]
  BY <1>1, <1>2
<1> HIDE DEF r
<1>7. /\ InFlight' = InFlight /\ saves'[a] = r /\ \A b \in InFlight : b # a => saves'[b] = saves[b]
      /\ saves' \in [Authors -> Requests \cup {Missing}]
  BY <1>1, <1>3, <1>6, StageIs
<1>8. saves[a].next \in Documents
  BY <1>0, <1>1 DEF ConfigShape
<1>9. ConfigShape'
  BY <1>0, <1>1, <1>4, <1>7, <1>8 DEF ConfigShape
<1>10. HolderStages' /\ UpPhases'
  BY <1>0, <1>1 DEF HolderStages, UpPhases, Held
<1>11. UnracedAlone'
  BY <1>0, <1>1, <1>4, <1>7 DEF UnracedAlone, Alone
<1>12. WriteStage'
  <2> SUFFICES ASSUME NEW b \in InFlight, Writing(b)'
               PROVE  pendingCopy' = saves'[b].next \/ (pendingCopy' = Missing /\ plugin' = Missing)
    BY <1>7 DEF WriteStage
  <2>1. ~saves[b].raced
    BY <1>4, <1>7 DEF Writing
  <2>2. b = a /\ Alone(a)
    BY <1>0, <1>1, <2>1 DEF UnracedAlone, Alone
  <2> QED
    BY <1>1, <1>4, <1>7, <2>2 DEF Alone
<1>13. HeldQuiet' /\ WaitForLock'
  BY <1>0, <1>1, <1>7 DEF HeldQuiet, WaitForLock, NoPromise
<1>14. DeletedUnpromised'
  BY <1>0, <1>1, <1>4, <1>7 DEF DeletedUnpromised, NoPromise
<1>15. CASE wanted = NoPromise
  BY <1>1, <1>15, <1>9, <1>10, <1>11, <1>12, <1>13, NothingPromised DEF ConfigInv
<1>16. CASE wanted # NoPromise
  <2>1. ~Held("start", "settled")
    BY <1>0, <1>1, <1>16 DEF HeldQuiet, Held
  <2>2. StartSettled'
    BY <1>1, <2>1 DEF StartSettled, Held
  <2>3. Promised' /\ RacedQuiet'
    <3>1. CASE saves[a].raced
      <4>1. pendingCopy = Missing /\ plugin = Missing /\ phase = "stopped" /\ ~saves[a].running
        BY <1>0, <1>1, <1>16, <3>1 DEF RacedQuiet
      <4>2. \A b \in InFlight : saves[b].raced
        BY <1>0, <1>1, <3>1 DEF UnracedAlone, Alone
      <4>3. PromiseSafe
        BY <1>0, <4>2 DEF Promised, Writing
      <4>4. PromiseSafe'
        BY <1>1, <4>1, <4>3 DEF PromiseSafe, Agrees
      <4>5. RacedQuiet'
        BY <1>0, <1>1, <1>5, <1>7, <4>1 DEF RacedQuiet, NoPromise
      <4> QED
        BY <4>4, <4>5 DEF Promised
    <3>2. CASE ~saves[a].raced
      <4>1. InFlight = {a}
        BY <1>0, <1>1, <3>2 DEF UnracedAlone, Alone
      <4>2. Promised'
        BY <1>1, <1>4, <1>7, <3>2 DEF Promised, Writing
      <4>3. RacedQuiet'
        BY <1>4, <1>7, <3>2, <4>1 DEF RacedQuiet
      <4> QED
        BY <4>2, <4>3
    <3> QED
      BY <3>1, <3>2
  <2> QED
    BY <1>9, <1>10, <1>11, <1>12, <1>13, <1>14, <2>2, <2>3 DEF ConfigInv
<1> QED
  BY <1>15, <1>16

\* The new document is published, and promised if nothing overlapped the request.
LEMMA SaveConfigKeeps ==
  ASSUME ConfigInv, NEW a \in Authors, saveConfig(a) PROVE ConfigInv'
<1>0. /\ ConfigShape /\ HolderStages /\ UpPhases /\ UnracedAlone /\ WriteStage /\ Promised /\ HeldQuiet
      /\ WaitForLock /\ RacedQuiet /\ DeletedUnpromised /\ StartSettled
  BY DEF ConfigInv
<1>1. /\ a \in InFlight /\ saves[a].at = "write" /\ file' = saves[a].next /\ Refuse(a)
      /\ wanted' = IF saves[a].raced THEN NoPromise ELSE PromiseOf(saves[a].next)
      /\ UNCHANGED <<pendingCopy, plugin, phase, holder>>
  BY DEF saveConfig, Waits, InFlight
<1>2. /\ InFlight' = InFlight \ {a} /\ \A b \in InFlight' : saves'[b] = saves[b] /\ b \in InFlight
      /\ saves' \in [Authors -> Requests \cup {Missing}]
  BY <1>1, RefuseIs
<1>3. file' \in Documents
  BY <1>0, <1>1 DEF ConfigShape
<1>4. ConfigShape'
  <2>1. DOMAIN wanted' = Keys
    BY <1>1, PromiseOfIs DEF NoPromise
  <2> QED
    BY <1>0, <1>1, <1>2, <1>3, <2>1 DEF ConfigShape
<1>5. HolderStages' /\ UpPhases'
  BY <1>0, <1>1 DEF HolderStages, UpPhases, Held
<1>6. UnracedAlone' /\ WriteStage'
  <2>1. \A b \in InFlight' : saves'[b].raced
    BY <1>0, <1>1, <1>2 DEF UnracedAlone, Alone
  <2> QED
    BY <2>1 DEF UnracedAlone, WriteStage, Writing
<1>7. WaitForLock'
  BY <1>0, <1>1, <1>2 DEF WaitForLock
<1>8. CASE saves[a].raced
  BY <1>1, <1>4, <1>5, <1>6, <1>7, <1>8, NothingPromised DEF ConfigInv
<1>9. CASE ~saves[a].raced
  <2>1. Alone(a)
    BY <1>0, <1>1, <1>9 DEF UnracedAlone
  <2>2. InFlight' = {} /\ holder = Missing
    BY <1>1, <1>2, <2>1 DEF Alone
  <2>3. pendingCopy = saves[a].next \/ (pendingCopy = Missing /\ plugin = Missing)
    BY <1>0, <1>1, <1>9 DEF WriteStage, Writing
  <2>4. wanted' = PromiseOf(file')
    BY <1>1, <1>9
  <2>5. \A k \in Keys : wanted'[k] # Missing => k \in DOMAIN file' /\ wanted'[k] = file'[k]
    BY <2>4, PromiseOfIs
  <2>6. PromiseSafe'
    BY <1>1, <1>3, <2>3, <2>5, DocumentIs DEF PromiseSafe, Agrees
  <2>7. HeldQuiet' /\ RacedQuiet' /\ DeletedUnpromised' /\ StartSettled'
    BY <1>1, <2>2 DEF HeldQuiet, RacedQuiet, DeletedUnpromised, StartSettled, Held
  <2> QED
    BY <1>4, <1>5, <1>6, <1>7, <2>6, <2>7 DEF ConfigInv, Promised
<1> QED
  BY <1>8, <1>9

\* The file is deleted and nothing is promised of it any more.
LEMMA DeleteConfigKeeps ==
  ASSUME ConfigInv, NEW a \in Authors, deleteConfig(a) PROVE ConfigInv'
<1>0. /\ ConfigShape /\ HolderStages /\ UpPhases /\ UnracedAlone /\ WriteStage /\ WaitForLock
  BY DEF ConfigInv
<1> DEFINE r == [saves[a] EXCEPT !.at = "copies"]
<1>1. /\ a \in InFlight /\ saves[a].at = "remove" /\ file' = Missing /\ wanted' = NoPromise
      /\ saves' = [saves EXCEPT ![a].at = "copies"]
      /\ UNCHANGED <<pendingCopy, plugin, phase, holder>>
  BY DEF deleteConfig, Waits, InFlight
<1>2. saves[a] \in Requests /\ DOMAIN saves[a] = {"at", "ask", "running", "raced", "next"} /\ DOMAIN saves = Authors
  BY <1>1, FlyingIs, RequestIs
<1>3. r \in Requests
  BY <1>2 DEF Requests
<1>4. r.raced = saves[a].raced /\ r.running = saves[a].running /\ r.at = "copies"
  BY <1>2
<1>5. saves' = [saves EXCEPT ![a] = r]
  BY <1>1, <1>2
<1> HIDE DEF r
<1>6. /\ InFlight' = InFlight /\ saves'[a] = r /\ \A b \in InFlight : b # a => saves'[b] = saves[b]
      /\ saves' \in [Authors -> Requests \cup {Missing}]
  BY <1>1, <1>3, <1>5, StageIs
<1>7. ConfigShape'
  BY <1>0, <1>1, <1>4, <1>6 DEF ConfigShape, NoPromise
<1>8. HolderStages' /\ UpPhases'
  BY <1>0, <1>1 DEF HolderStages, UpPhases, Held
<1>9. UnracedAlone'
  BY <1>0, <1>1, <1>4, <1>6 DEF UnracedAlone, Alone
<1>10. WriteStage' /\ WaitForLock'
  BY <1>0, <1>1, <1>4, <1>6 DEF WriteStage, Writing, WaitForLock
<1> QED
  BY <1>1, <1>7, <1>8, <1>9, <1>10, NothingPromised DEF ConfigInv

\* The copies of a deleted file go.
LEMMA RemoveCopiesKeeps ==
  ASSUME ConfigInv, NEW a \in Authors, removeConfigCopies(a) PROVE ConfigInv'
<1>0. /\ ConfigShape /\ HolderStages /\ UpPhases /\ UnracedAlone /\ WriteStage /\ WaitForLock /\ DeletedUnpromised
  BY DEF ConfigInv
<1>1. /\ a \in InFlight /\ saves[a].at = "copies" /\ pendingCopy' = Missing /\ Refuse(a)
      /\ UNCHANGED <<file, plugin, phase, holder, wanted>>
  BY DEF removeConfigCopies, Waits, InFlight
<1>2. /\ InFlight' = InFlight \ {a} /\ \A b \in InFlight' : saves'[b] = saves[b] /\ b \in InFlight
      /\ saves' \in [Authors -> Requests \cup {Missing}]
  BY <1>1, RefuseIs
<1>3. wanted' = NoPromise
  BY <1>0, <1>1 DEF DeletedUnpromised
<1>4. ConfigShape'
  BY <1>0, <1>1, <1>2 DEF ConfigShape
<1>5. HolderStages' /\ UpPhases'
  BY <1>0, <1>1 DEF HolderStages, UpPhases, Held
<1>6. UnracedAlone' /\ WriteStage'
  <2>1. \A b \in InFlight' : saves'[b].raced
    BY <1>0, <1>1, <1>2 DEF UnracedAlone, Alone
  <2> QED
    BY <2>1 DEF UnracedAlone, WriteStage, Writing
<1>7. WaitForLock'
  BY <1>0, <1>1, <1>2 DEF WaitForLock
<1> QED
  BY <1>3, <1>4, <1>5, <1>6, <1>7, NothingPromised DEF ConfigInv

\* A job goes on under the lock.
LEMMA HolderIs ==
  ASSUME ConfigInv, holder # Missing, NEW s \in {"claimed", "settled", "down", "drop", "done"},
         holder' = [holder EXCEPT !.at = s]
  PROVE  /\ holder' # Missing /\ holder' \in Holders /\ holder'.at = s
         /\ holder'.job = holder.job /\ holder'.raced = holder.raced
<1>1. holder \in Holders
  BY DEF ConfigInv, HolderStages
<1>2. holder' \in Holders
  BY <1>1 DEF Holders
<1>3. holder'.at = s /\ holder'.job = holder.job /\ holder'.raced = holder.raced
  BY <1>1 DEF Holders
<1> QED
  BY <1>2, <1>3, DocumentIs

\* Where a job starts or stops the game, everything promised is safe and no request is promised more.
LEMMA HeldSafe ==
  ASSUME ConfigInv, holder # Missing, holder.job \in {"start", "stop", "backup"}
  PROVE  /\ PromiseSafe /\ (wanted # NoPromise => InFlight = {})
         /\ \A a \in InFlight : saves[a].raced
  BY DEF ConfigInv, UnracedAlone, Alone, Promised, Writing, HeldQuiet

\* Settling makes the file hold what was promised.
LEMMA SettledIs ==
  ASSUME ConfigInv, PromiseSafe, SettlePending
  PROVE  /\ file' \in Documents \cup {Missing} /\ pendingCopy' = Missing /\ DOMAIN wanted' = Keys
         /\ \A k \in Keys : wanted'[k] # Missing => file' # Missing /\ k \in DOMAIN file' /\ wanted'[k] = file'[k]
         /\ wanted' # NoPromise => wanted # NoPromise
<1>0. file \in Documents \cup {Missing} /\ pendingCopy \in Documents \cup {Missing}
  BY DEF ConfigInv, ConfigShape
<1>1. file' = Settled /\ pendingCopy' = Missing
  BY DEF SettlePending
<1>2. wanted' = IF Settled = Missing THEN NoPromise ELSE Kept(wanted, Settled)
  BY DEF SettlePending
<1>3. \/ pendingCopy = Missing /\ Settled = file
      \/ pendingCopy # Missing /\ file = Missing /\ Settled = pendingCopy
      \/ pendingCopy # Missing /\ file # Missing /\ Settled = Overlay(file, pendingCopy)
  BY DEF Settled
<1>4. pendingCopy \in Documents /\ file \in Documents =>
        /\ Overlay(file, pendingCopy) \in Documents /\ DOMAIN Overlay(file, pendingCopy) = DOMAIN file
        /\ \A k \in DOMAIN file : k \in DOMAIN pendingCopy => Overlay(file, pendingCopy)[k] = pendingCopy[k]
  <2> SUFFICES ASSUME pendingCopy \in Documents, file \in Documents
               PROVE  /\ Overlay(file, pendingCopy) \in Documents
                      /\ DOMAIN Overlay(file, pendingCopy) = DOMAIN file
                      /\ \A k \in DOMAIN file : k \in DOMAIN pendingCopy =>
                           Overlay(file, pendingCopy)[k] = pendingCopy[k]
    OBVIOUS
  <2>1. Overlay(file, pendingCopy) \in [DOMAIN file -> Values] /\ DOMAIN file \in SUBSET Keys
    BY DocumentIs DEF Overlay
  <2>2. Overlay(file, pendingCopy) \in Documents
    BY <2>1, DocumentIs
  <2> QED
    BY <2>2 DEF Overlay
<1>5. Settled \in Documents \cup {Missing}
  BY <1>0, <1>3, <1>4
<1>6. DOMAIN wanted' = Keys /\ (wanted' # NoPromise => wanted # NoPromise)
  BY <1>2, KeptIs DEF NoPromise
<1>7. ASSUME NEW k \in Keys, wanted'[k] # Missing
      PROVE  Settled # Missing /\ k \in DOMAIN Settled /\ wanted'[k] = Settled[k]
  <2>1. Settled # Missing
    BY <1>2, <1>7 DEF NoPromise
  <2>2. k \in DOMAIN Settled /\ wanted'[k] = wanted[k]
    BY <1>2, <1>7, <2>1, KeptIs
  <2>3. CASE pendingCopy = Missing
    BY <1>3, <1>7, <2>1, <2>2, <2>3 DEF PromiseSafe, Agrees
  <2>4. CASE pendingCopy # Missing
    <3>1. k \in DOMAIN pendingCopy /\ wanted[k] = pendingCopy[k]
      BY <1>7, <2>2, <2>4 DEF PromiseSafe
    <3> QED
      BY <1>0, <1>3, <1>4, <2>1, <2>2, <2>4, <3>1
  <2> QED
    BY <2>3, <2>4
<1> QED
  BY <1>1, <1>5, <1>6, <1>7

\* A start or a stop settles the pending copy.
LEMMA SettleKeeps ==
  ASSUME ConfigInv, SettleAtStart \/ SettleAtStop PROVE ConfigInv'
<1>0. /\ ConfigShape /\ HolderStages /\ UpPhases
  BY DEF ConfigInv
<1>1. /\ holder # Missing /\ SettlePending /\ UNCHANGED <<plugin, phase, saves>>
      /\ \/ holder.job = "start" /\ holder.at = "claimed" /\ holder' = [holder EXCEPT !.at = "settled"]
         \/ holder.job = "stop" /\ holder.at = "down" /\ holder' = [holder EXCEPT !.at = "done"]
  BY DEF SettleAtStart, SettleAtStop, Held
<1>2. /\ holder' # Missing /\ holder' \in Holders
      /\ holder'.job = holder.job /\ holder'.raced = holder.raced
      /\ holder.job = "start" => holder'.at = "settled"
      /\ holder.job = "stop" => holder'.at = "done"
  BY <1>1, HolderIs
<1>3. /\ PromiseSafe /\ (wanted # NoPromise => InFlight = {}) /\ \A a \in InFlight : saves[a].raced
  BY <1>1, HeldSafe
<1>4. /\ file' \in Documents \cup {Missing} /\ pendingCopy' = Missing /\ DOMAIN wanted' = Keys
      /\ \A k \in Keys : wanted'[k] # Missing => file' # Missing /\ k \in DOMAIN file' /\ wanted'[k] = file'[k]
      /\ wanted' # NoPromise => wanted # NoPromise
  BY <1>1, <1>3, SettledIs
<1>5. InFlight' = InFlight /\ plugin = Missing
  BY <1>0, <1>1 DEF InFlight, UpPhases, Held
<1>6. ConfigShape'
  BY <1>0, <1>1, <1>4, <1>5 DEF ConfigShape
<1>7. HolderStages' /\ UpPhases'
  BY <1>0, <1>1, <1>2, <1>5 DEF HolderStages, UpPhases
<1>8. UnracedAlone' /\ WriteStage' /\ WaitForLock'
  BY <1>1, <1>2, <1>3, <1>5 DEF UnracedAlone, WriteStage, Writing, WaitForLock
<1>9. Promised'
  BY <1>1, <1>4, <1>5, DocumentIs DEF Promised, PromiseSafe, Agrees
<1>a. NoPromise' = NoPromise
  BY DEF NoPromise
<1>10. HeldQuiet' /\ RacedQuiet' /\ DeletedUnpromised'
  BY <1>3, <1>4, <1>5, <1>a DEF HeldQuiet, RacedQuiet, DeletedUnpromised
<1>11. StartSettled'
  BY <1>4 DEF StartSettled
<1> QED
  BY <1>6, <1>7, <1>8, <1>9, <1>10, <1>11 DEF ConfigInv

\* The game starts with what was settled.
LEMMA StartGameKeeps ==
  ASSUME ConfigInv, NEW known \in SUBSET Keys, StartGame(known) PROVE ConfigInv'
<1>0. /\ ConfigShape /\ HolderStages /\ UpPhases /\ StartSettled
  BY DEF ConfigInv
<1>1. /\ holder # Missing /\ holder.job = "start" /\ holder.at = "settled"
      /\ holder' = [holder EXCEPT !.at = "done"] /\ plugin' = Load(known)
      /\ wanted' = Kept(wanted, Load(known)) /\ UNCHANGED <<file, pendingCopy, phase, saves>>
  BY DEF StartGame, Held
<1>2. /\ holder' # Missing /\ holder' \in Holders /\ holder'.at = "done" /\ holder'.job = "start"
  BY <1>1, HolderIs
<1>3. /\ PromiseSafe /\ (wanted # NoPromise => InFlight = {}) /\ \A a \in InFlight : saves[a].raced
  BY <1>1, HeldSafe
<1>4. /\ Load(known) \in [known -> Values] /\ DOMAIN Load(known) = known
      /\ \A k \in known : file # Missing /\ k \in DOMAIN file => Load(known)[k] = file[k]
  <2>1. file # Missing => \A k \in DOMAIN file : file[k] \in Values
    BY <1>0, DocumentIs DEF ConfigShape
  <2> QED
    BY <2>1, ConfigFilesAssumption DEF Load
<1>5. plugin' \in Documents
  BY <1>1, <1>4, DocumentIs
<1>6. /\ DOMAIN wanted' = Keys /\ (wanted' # NoPromise => wanted # NoPromise)
      /\ \A k \in Keys : wanted'[k] # Missing => wanted'[k] = wanted[k]
  BY <1>1, KeptIs
<1>7. \A k \in Keys : wanted'[k] # Missing =>
        /\ file # Missing /\ k \in DOMAIN file /\ wanted'[k] = file[k] /\ pendingCopy = Missing
  BY <1>0, <1>1, <1>6 DEF StartSettled, Held
<1>8. InFlight' = InFlight
  BY <1>1 DEF InFlight
<1>9. ConfigShape'
  BY <1>0, <1>1, <1>5, <1>6, <1>8 DEF ConfigShape
<1>10. HolderStages' /\ UpPhases' /\ StartSettled'
  BY <1>0, <1>1, <1>2 DEF HolderStages, UpPhases, StartSettled, Held
<1>11. UnracedAlone' /\ WriteStage' /\ WaitForLock'
  BY <1>1, <1>2, <1>3, <1>8 DEF UnracedAlone, WriteStage, Writing, WaitForLock
<1>12. Promised'
  <2>1. CASE pendingCopy = Missing
    <3>1. Agrees(file)'
      BY <1>0, <1>1, <1>7, DocumentIs DEF Agrees, ConfigShape
    <3>2. Agrees(plugin)'
      BY <1>1, <1>4, <1>7 DEF Agrees
    <3> QED
      BY <1>1, <2>1, <3>1, <3>2 DEF Promised, PromiseSafe
  <2>2. CASE pendingCopy # Missing
    BY <1>1, <1>7, <2>2 DEF Promised, PromiseSafe
  <2> QED
    BY <2>1, <2>2
<1>a. NoPromise' = NoPromise
  BY DEF NoPromise
<1>13. HeldQuiet' /\ RacedQuiet' /\ DeletedUnpromised'
  BY <1>3, <1>6, <1>8, <1>a DEF HeldQuiet, RacedQuiet, DeletedUnpromised
<1> QED
  BY <1>9, <1>10, <1>11, <1>12, <1>13 DEF ConfigInv

\* The plugin writes what it loaded, or goes down: what was promised stays safe.
LEMMA GameWrites ==
  ASSUME ConfigInv, PromiseSafe, plugin' \in {plugin, Missing}, file' \in {file, plugin}, plugin # Missing,
         UNCHANGED <<pendingCopy, wanted>>
  PROVE  PromiseSafe'
  BY DEF PromiseSafe, Agrees

\* A stop or a backup takes the game down.
LEMMA StopContainerKeeps ==
  ASSUME ConfigInv, NEW flush \in BOOLEAN, stopContainer(flush) PROVE ConfigInv'
<1>0. /\ ConfigShape /\ HolderStages /\ UpPhases
  BY DEF ConfigInv
<1> DEFINE s == IF holder.job = "stop" THEN "down" ELSE "done"
<1>1. /\ holder # Missing /\ holder.job \in {"stop", "backup"} /\ holder.at = "claimed"
      /\ holder' = [holder EXCEPT !.at = s] /\ UNCHANGED <<pendingCopy, phase, saves, wanted>>
  BY DEF stopContainer, Held
<1>2. plugin' = Missing /\ (file' = file \/ (plugin # Missing /\ file' = plugin))
  BY DEF stopContainer, GoesDown
<1>3. s \in {"down", "done"} /\ (holder.job = "backup" => s = "done")
  OBVIOUS
<1> HIDE DEF s
<1>4. /\ holder' # Missing /\ holder' \in Holders /\ holder'.at = s /\ holder'.job = holder.job
  BY <1>1, <1>3, HolderIs
<1>5. /\ PromiseSafe /\ (wanted # NoPromise => InFlight = {}) /\ \A a \in InFlight : saves[a].raced
  BY <1>1, HeldSafe
<1>6. InFlight' = InFlight
  BY <1>1 DEF InFlight
<1>7. ConfigShape'
  BY <1>0, <1>1, <1>2, <1>6 DEF ConfigShape
<1>8. HolderStages' /\ UpPhases' /\ StartSettled'
  BY <1>0, <1>1, <1>2, <1>3, <1>4 DEF HolderStages, UpPhases, StartSettled, Held
<1>9. UnracedAlone' /\ WriteStage' /\ WaitForLock'
  BY <1>1, <1>4, <1>5, <1>6 DEF UnracedAlone, WriteStage, Writing, WaitForLock
<1>10. Promised'
  BY <1>1, <1>2, <1>5, GameWrites DEF Promised, PromiseSafe, Agrees
<1>11. HeldQuiet' /\ RacedQuiet' /\ DeletedUnpromised'
  BY <1>1, <1>5, <1>6 DEF HeldQuiet, RacedQuiet, DeletedUnpromised, NoPromise
<1> QED
  BY <1>7, <1>8, <1>9, <1>10, <1>11 DEF ConfigInv

\* The plugin writes the file, or the game exits by itself.
LEMMA GameKeeps ==
  ASSUME ConfigInv, PluginSaves \/ \E flush \in BOOLEAN : GameExits(flush) PROVE ConfigInv'
<1>0. /\ ConfigShape /\ HolderStages /\ UpPhases /\ UnracedAlone /\ WriteStage /\ Promised /\ HeldQuiet
      /\ WaitForLock /\ RacedQuiet /\ DeletedUnpromised /\ StartSettled
  BY DEF ConfigInv
<1>1. /\ plugin # Missing /\ plugin' \in {plugin, Missing} /\ file' \in {file, plugin}
      /\ UNCHANGED <<pendingCopy, phase, holder, saves, wanted>>
  BY DEF PluginSaves, GameExits, GoesDown
<1>2. InFlight' = InFlight
  BY <1>1 DEF InFlight
<1>3. ConfigShape'
  BY <1>0, <1>1, <1>2 DEF ConfigShape
<1>4. HolderStages' /\ UpPhases' /\ StartSettled'
  BY <1>0, <1>1 DEF HolderStages, UpPhases, StartSettled, Held
<1>5. UnracedAlone' /\ WriteStage' /\ WaitForLock'
  BY <1>0, <1>1, <1>2 DEF UnracedAlone, Alone, WriteStage, Writing, WaitForLock
<1>6. Promised'
  <2>1. \A a \in InFlight : Writing(a) => Writing(a)'
    BY <1>1 DEF Writing
  <2> QED
    BY <1>0, <1>1, <1>2, <2>1, GameWrites DEF Promised
<1>7. HeldQuiet' /\ RacedQuiet' /\ DeletedUnpromised'
  BY <1>0, <1>1, <1>2 DEF HeldQuiet, RacedQuiet, DeletedUnpromised, NoPromise
<1> QED
  BY <1>3, <1>4, <1>5, <1>6, <1>7 DEF ConfigInv

\* A job ends, or the observer sees that the game is down.
LEMMA JobOrExitKeeps ==
  ASSUME ConfigInv, FinishJob \/ ObserveExit PROVE ConfigInv'
<1>0. /\ ConfigShape /\ HolderStages /\ UpPhases /\ UnracedAlone /\ WriteStage /\ Promised /\ HeldQuiet
      /\ WaitForLock /\ RacedQuiet /\ DeletedUnpromised /\ StartSettled
  BY DEF ConfigInv
<1>1. /\ holder' = Missing /\ UNCHANGED <<file, pendingCopy, plugin, saves, wanted>>
      /\ \/ /\ holder # Missing /\ holder.at = "done"
            /\ phase' = IF holder.job = "start" THEN "running" ELSE "stopped"
         \/ holder = Missing /\ plugin = Missing /\ phase = "running" /\ phase' = "stopped"
  BY DEF FinishJob, ObserveExit
<1>2. InFlight' = InFlight
  BY <1>1 DEF InFlight
<1>a. holder # Missing => holder.job \in {"start", "stop", "backup", "apply", "uninstall"}
  BY <1>0 DEF HolderStages, Holders
<1>3. ConfigShape' /\ HolderStages' /\ StartSettled' /\ HeldQuiet' /\ WaitForLock'
  BY <1>0, <1>1, <1>2 DEF ConfigShape, HolderStages, StartSettled, Held, HeldQuiet, WaitForLock
<1>4. UpPhases'
  BY <1>0, <1>1 DEF UpPhases, Held
<1>5. UnracedAlone'
  BY <1>0, <1>1, <1>2 DEF UnracedAlone, Alone
<1>6. WriteStage' /\ Promised' /\ DeletedUnpromised'
  BY <1>0, <1>1, <1>2 DEF WriteStage, Writing, Promised, PromiseSafe, Agrees, DeletedUnpromised, NoPromise
<1>7. RacedQuiet'
  BY <1>0, <1>1, <1>a, <1>2 DEF RacedQuiet, HeldQuiet, NoPromise
<1> QED
  BY <1>3, <1>4, <1>5, <1>6, <1>7 DEF ConfigInv

\* The file of an imported definition is written.
LEMMA ApplyManifestKeeps ==
  ASSUME ConfigInv, NEW doc \in Documents, NEW merge \in BOOLEAN, ApplyManifestConfigs(doc, merge)
  PROVE  ConfigInv'
<1>0. /\ ConfigShape /\ HolderStages /\ UpPhases /\ UnracedAlone /\ WriteStage /\ WaitForLock
  BY DEF ConfigInv
<1>1. /\ holder # Missing /\ holder.job = "apply" /\ holder.at = "claimed"
      /\ holder' = [holder EXCEPT !.at = "drop"] /\ wanted' = NoPromise
      /\ file' = (IF merge THEN Merge(file, doc) ELSE doc)
      /\ UNCHANGED <<pendingCopy, plugin, phase, saves>>
  BY DEF ApplyManifestConfigs, Held
<1>2. /\ holder' # Missing /\ holder' \in Holders /\ holder'.at = "drop" /\ holder'.job = "apply"
      /\ holder'.raced = holder.raced
  BY <1>1, HolderIs
<1>3. file' \in Documents
  <2>1. CASE merge /\ file # Missing
    <3>1. file \in Documents
      BY <1>0, <2>1 DEF ConfigShape
    <3>2. /\ DOMAIN doc \subseteq Keys /\ DOMAIN file \subseteq Keys
          /\ (\A k \in DOMAIN doc : doc[k] \in Values) /\ (\A k \in DOMAIN file : file[k] \in Values)
      BY <3>1, DocumentIs
    <3>3. Merge(file, doc) \in [DOMAIN doc \cup DOMAIN file -> Values] /\ DOMAIN doc \cup DOMAIN file \in SUBSET Keys
      BY <2>1, <3>2 DEF Merge
    <3> QED
      BY <1>1, <2>1, <3>3, DocumentIs
  <2>2. CASE ~(merge /\ file # Missing)
    BY <1>1, <2>2 DEF Merge
  <2> QED
    BY <2>1, <2>2
<1>4. InFlight' = InFlight
  BY <1>1 DEF InFlight
<1>5. ConfigShape'
  BY <1>0, <1>1, <1>3, <1>4 DEF ConfigShape, NoPromise
<1>6. HolderStages' /\ UpPhases'
  BY <1>0, <1>1, <1>2 DEF HolderStages, UpPhases, Held
<1>7. UnracedAlone' /\ WriteStage' /\ WaitForLock'
  BY <1>0, <1>1, <1>2, <1>4 DEF UnracedAlone, Alone, WriteStage, Writing, WaitForLock
<1> QED
  BY <1>1, <1>5, <1>6, <1>7, NothingPromised DEF ConfigInv

\* The pending copy of an older edit is dropped, and what was imported is promised.
LEMMA DropPendingKeeps ==
  ASSUME ConfigInv, DropPending PROVE ConfigInv'
<1>0. /\ ConfigShape /\ HolderStages /\ UpPhases /\ UnracedAlone /\ WaitForLock
  BY DEF ConfigInv
<1>1. /\ holder # Missing /\ holder.job = "apply" /\ holder.at = "drop"
      /\ holder' = [holder EXCEPT !.at = "done"] /\ pendingCopy' = Missing
      /\ wanted' = IF holder.raced THEN NoPromise ELSE PromiseOf(file)
      /\ UNCHANGED <<file, plugin, phase, saves>>
  BY DEF DropPending, Held
<1>2. /\ holder' # Missing /\ holder' \in Holders /\ holder'.at = "done" /\ holder'.job = "apply"
      /\ holder'.raced = holder.raced
  BY <1>1, HolderIs
<1>3. InFlight' = InFlight
  BY <1>1 DEF InFlight
<1>4. ConfigShape'
  <2>1. DOMAIN wanted' = Keys
    BY <1>1, PromiseOfIs DEF NoPromise
  <2> QED
    BY <1>0, <1>1, <1>3, <2>1 DEF ConfigShape
<1>5. HolderStages' /\ UpPhases'
  BY <1>0, <1>1, <1>2 DEF HolderStages, UpPhases, Held
<1>6. UnracedAlone' /\ WriteStage' /\ WaitForLock'
  BY <1>0, <1>1, <1>2, <1>3 DEF UnracedAlone, Alone, WriteStage, Writing, WaitForLock
<1>7. CASE holder.raced
  BY <1>1, <1>4, <1>5, <1>6, <1>7, NothingPromised DEF ConfigInv
<1>8. CASE ~holder.raced
  <2>1. \A a \in InFlight : saves[a].at = "lock" /\ ~saves[a].running
    BY <1>0, <1>1, <1>8 DEF WaitForLock
  <2>2. plugin = Missing /\ phase = "stopped"
    BY <1>0, <1>1 DEF UpPhases, Held, HolderStages
  <2>3. \A k \in Keys : wanted'[k] # Missing => k \in DOMAIN file /\ wanted'[k] = file[k]
    BY <1>1, <1>8, PromiseOfIs
  <2>4. Promised'
    BY <1>0, <1>1, <2>2, <2>3, DocumentIs DEF Promised, PromiseSafe, Agrees, ConfigShape
  <2>5. HeldQuiet' /\ StartSettled'
    BY <1>2 DEF HeldQuiet, StartSettled, Held
  <2>6. RacedQuiet' /\ DeletedUnpromised'
    BY <1>1, <1>3, <2>1, <2>2 DEF RacedQuiet, DeletedUnpromised
  <2> QED
    BY <1>4, <1>5, <1>6, <2>4, <2>5, <2>6 DEF ConfigInv
<1> QED
  BY <1>7, <1>8

\* An uninstall takes the file and its copies.
LEMMA ConfigPathsKeeps ==
  ASSUME ConfigInv, configPaths PROVE ConfigInv'
<1>0. /\ ConfigShape /\ HolderStages /\ UpPhases /\ UnracedAlone /\ WaitForLock
  BY DEF ConfigInv
<1>1. /\ holder # Missing /\ holder.job = "uninstall" /\ holder.at = "claimed"
      /\ holder' = [holder EXCEPT !.at = "done"] /\ pendingCopy' = Missing /\ file' = Missing
      /\ wanted' = NoPromise /\ UNCHANGED <<plugin, phase, saves>>
  BY DEF configPaths, Held
<1>2. /\ holder' # Missing /\ holder' \in Holders /\ holder'.at = "done" /\ holder'.job = "uninstall"
      /\ holder'.raced = holder.raced
  BY <1>1, HolderIs
<1>3. InFlight' = InFlight
  BY <1>1 DEF InFlight
<1>4. ConfigShape'
  BY <1>0, <1>1, <1>3 DEF ConfigShape, NoPromise
<1>5. HolderStages' /\ UpPhases'
  BY <1>0, <1>1, <1>2 DEF HolderStages, UpPhases, Held
<1>6. UnracedAlone' /\ WriteStage' /\ WaitForLock'
  BY <1>0, <1>1, <1>2, <1>3 DEF UnracedAlone, Alone, WriteStage, Writing, WaitForLock
<1> QED
  BY <1>1, <1>4, <1>5, <1>6, NothingPromised DEF ConfigInv

\* The panel dies: no request and no job is left.
LEMMA PanelDiesKeeps ==
  ASSUME ConfigInv, PanelDies PROVE ConfigInv'
<1>0. ConfigShape /\ Promised
  BY DEF ConfigInv
<1>1. /\ saves' = [a \in Authors |-> Missing] /\ holder' = Missing
      /\ phase' = IF plugin = Missing THEN "stopped" ELSE "running"
      /\ wanted' = IF InFlight = {} THEN wanted ELSE NoPromise
      /\ UNCHANGED <<file, pendingCopy, plugin>>
  BY DEF PanelDies
<1>2. InFlight' = {}
  BY <1>1 DEF InFlight
<1>3. ConfigShape'
  BY <1>0, <1>1, <1>2 DEF ConfigShape, NoPromise
<1>4. HolderStages' /\ UpPhases' /\ StartSettled' /\ WaitForLock' /\ HeldQuiet'
  BY <1>1 DEF HolderStages, UpPhases, StartSettled, Held, WaitForLock, HeldQuiet
<1>5. UnracedAlone' /\ WriteStage' /\ RacedQuiet' /\ DeletedUnpromised'
  BY <1>2 DEF UnracedAlone, WriteStage, RacedQuiet, DeletedUnpromised
<1>6. Promised'
  <2>1. CASE InFlight = {}
    BY <1>0, <1>1, <2>1 DEF Promised, PromiseSafe, Agrees
  <2>2. CASE InFlight # {}
    BY <1>1, <1>3, <2>2, NothingPromised
  <2> QED
    BY <2>1, <2>2
<1> QED
  BY <1>3, <1>4, <1>5, <1>6 DEF ConfigInv

\* A step that leaves the file and its users alone.
LEMMA ConfigStutters ==
  ASSUME ConfigInv, UNCHANGED configVars PROVE ConfigInv'
<1>0. /\ ConfigShape /\ HolderStages /\ UpPhases /\ UnracedAlone /\ WriteStage /\ Promised /\ HeldQuiet
      /\ WaitForLock /\ RacedQuiet /\ DeletedUnpromised /\ StartSettled
  BY DEF ConfigInv
<1>1. UNCHANGED <<file, pendingCopy, plugin, phase, holder, saves, wanted>>
  BY DEF configVars
<1>2. InFlight' = InFlight
  BY <1>1 DEF InFlight
<1>3. ConfigShape' /\ HolderStages' /\ UpPhases' /\ UnracedAlone' /\ WriteStage'
  BY <1>0, <1>1, <1>2 DEF ConfigShape, HolderStages, UpPhases, Held, UnracedAlone, Alone, WriteStage, Writing
<1>4. Promised' /\ HeldQuiet' /\ WaitForLock' /\ RacedQuiet'
  BY <1>0, <1>1, <1>2 DEF Promised, PromiseSafe, Agrees, Writing, HeldQuiet, WaitForLock, RacedQuiet, NoPromise
<1>5. DeletedUnpromised' /\ StartSettled'
  BY <1>0, <1>1, <1>2 DEF DeletedUnpromised, StartSettled, Held, NoPromise
<1> QED
  BY <1>3, <1>4, <1>5 DEF ConfigInv

\* Every step keeps the invariant of the configuration file.
LEMMA ConfigStep ==
  ASSUME ConfigInv, [ConfigNext]_configVars PROVE ConfigInv'
<1>1. CASE UNCHANGED configVars
  BY <1>1, ConfigStutters
<1>2. CASE \E a \in Authors : \E ask \in Asks : mustLoadInstance(a, ask)
  BY <1>2, MustLoadKeeps
<1>3. CASE \E a \in Authors : \/ configEditable(a) \/ NotFound(a)
                              \/ \E doc \in Documents \cup {Missing} : readConfigFile(a, doc)
  BY <1>3, EditableKeeps, ReadConfigKeeps
<1>4. CASE \E a \in Authors : markPending(a) \/ saveConfig(a) \/ deleteConfig(a) \/ removeConfigCopies(a)
  BY <1>4, MarkPendingKeeps, SaveConfigKeeps, DeleteConfigKeeps, RemoveCopiesKeeps
<1>5. CASE \E job \in {"start", "stop", "backup", "apply", "uninstall"} : BeginJob(job)
  BY <1>5, BeginJobKeeps
<1>6. CASE SettleAtStart \/ SettleAtStop \/ FinishJob \/ ObserveExit
  BY <1>6, SettleKeeps, JobOrExitKeeps
<1>7. CASE \E known \in SUBSET Keys : StartGame(known)
  BY <1>7, StartGameKeeps
<1>8. CASE \E flush \in BOOLEAN : stopContainer(flush)
  BY <1>8, StopContainerKeeps
<1>9. CASE PluginSaves \/ \E flush \in BOOLEAN : GameExits(flush)
  BY <1>9, GameKeeps
<1>10. CASE \E doc \in Documents, merge \in BOOLEAN : ApplyManifestConfigs(doc, merge)
  BY <1>10, ApplyManifestKeeps
<1>11. CASE DropPending \/ configPaths \/ PanelDies
  BY <1>11, DropPendingKeeps, ConfigPathsKeeps, PanelDiesKeeps
<1> QED
  BY <1>1, <1>2, <1>3, <1>4, <1>5, <1>6, <1>7, <1>8, <1>9, <1>10, <1>11, Zenon DEF ConfigNext

\* The invariant holds at the start: nothing is promised yet.
LEMMA ConfigStarts ==
  ASSUME ConfigInit PROVE ConfigInv
<1>1. /\ pendingCopy = Missing /\ plugin = Missing /\ holder = Missing /\ wanted = NoPromise
      /\ saves = [a \in Authors |-> Missing]
  BY DEF ConfigInit
<1>2. InFlight = {}
  BY <1>1 DEF InFlight
<1>3. file \in Documents \cup {Missing}
  <2>1. [k \in Keys |-> Default] \in [Keys -> Values]
    BY ConfigFilesAssumption
  <2> QED
    BY <2>1, DocumentIs DEF ConfigInit
<1>4. ConfigShape
  BY <1>1, <1>2, <1>3 DEF ConfigShape, NoPromise
<1>5. HolderStages /\ UpPhases /\ StartSettled /\ WaitForLock /\ HeldQuiet
  BY <1>1 DEF HolderStages, UpPhases, StartSettled, Held, WaitForLock, HeldQuiet
<1>6. UnracedAlone /\ WriteStage /\ RacedQuiet /\ DeletedUnpromised
  BY <1>2 DEF UnracedAlone, WriteStage, RacedQuiet, DeletedUnpromised
<1>7. Promised
  BY <1>1, <1>3, DocumentIs DEF Promised, PromiseSafe, Agrees, NoPromise
<1> QED
  BY <1>4, <1>5, <1>6, <1>7 DEF ConfigInv

\* The game is only started by the job that has settled the file.
LEMMA StartLoads ==
  ASSUME ConfigInv, [ConfigNext]_configVars, plugin = Missing, plugin' # Missing, file # Missing
  PROVE  \A k \in DOMAIN file : wanted[k] \in {Missing, file[k]}
<1>0. StartSettled /\ DOMAIN file \subseteq Keys
  BY DocumentIs DEF ConfigInv, ConfigShape
<1>1. Held("start", "settled")
  <2>1. CASE UNCHANGED plugin
    BY <2>1
  <2>2. CASE \E a \in Authors : \/ \E ask \in Asks : mustLoadInstance(a, ask)
                                \/ configEditable(a) \/ NotFound(a) \/ markPending(a)
                                \/ \E doc \in Documents \cup {Missing} : readConfigFile(a, doc)
                                \/ saveConfig(a) \/ deleteConfig(a) \/ removeConfigCopies(a)
    BY <2>1, <2>2 DEF mustLoadInstance, configEditable, NotFound, markPending, readConfigFile, saveConfig,
       deleteConfig, removeConfigCopies
  <2>3. CASE \E job \in {"start", "stop", "backup", "apply", "uninstall"} : BeginJob(job)
    BY <2>1, <2>3 DEF BeginJob
  <2>4. CASE SettleAtStart \/ SettleAtStop \/ FinishJob
    BY <2>1, <2>4 DEF SettleAtStart, SettleAtStop, FinishJob
  <2>5. CASE \E known \in SUBSET Keys : StartGame(known)
    BY <2>5 DEF StartGame
  <2>6. CASE \E flush \in BOOLEAN : stopContainer(flush) \/ GameExits(flush)
    BY <2>1, <2>6 DEF stopContainer, GameExits
  <2>7. CASE \E doc \in Documents, merge \in BOOLEAN : ApplyManifestConfigs(doc, merge)
    BY <2>1, <2>7 DEF ApplyManifestConfigs
  <2>8. CASE \/ DropPending \/ configPaths \/ PluginSaves \/ ObserveExit \/ PanelDies \/ UNCHANGED configVars
    BY <2>1, <2>8 DEF DropPending, configPaths, PluginSaves, ObserveExit, PanelDies, configVars
  <2> QED
    BY <2>2, <2>3, <2>4, <2>5, <2>6, <2>7, <2>8, Zenon DEF ConfigNext
<1> QED
  BY <1>0, <1>1 DEF StartSettled

(***************************************************************************)
(* The values the panel said it saved are in the file when the game next   *)
(* loads it, whatever the plugin wrote meanwhile, however the game went    *)
(* down and wherever the panel died (mods/config/pending.go,               *)
(* api/configs.go; docs/usage.md:834).                                     *)
(***************************************************************************)
THEOREM SavedIsLoaded == ConfigSpec => SavedReachesStart
<1>1. ConfigInit => ConfigInv
  BY ConfigStarts
<1>2. ConfigInv /\ [ConfigNext]_configVars => ConfigInv'
  BY ConfigStep
<1>3. ConfigInv /\ [ConfigNext]_configVars =>
        [(plugin = Missing /\ plugin' # Missing /\ file # Missing) =>
           \A k \in DOMAIN file : wanted[k] \in {Missing, file[k]}]_configVars
  BY StartLoads
<1> QED
  BY <1>1, <1>2, <1>3, PTL DEF ConfigSpec, SavedReachesStart
=============================================================================
