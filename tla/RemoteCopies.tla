---------------------------- MODULE RemoteCopies ----------------------------
(***************************************************************************)
(* Off-host copies of backups (internal/backup/remotecopy and its store). *)
(* A copy is a row for one archive and one destination; a worker turns due *)
(* rows into jobs, one at a time under the lock global:remote_backup, that *)
(* upload the archive and its manifest or delete them again.  Retention    *)
(* marks copies for cleanup from a list it read before.  One instance.     *)
(***************************************************************************)
EXTENDS Naturals, FiniteSets

CONSTANTS
  Places,       \* destinations, current and retired
  Archives,     \* 1..n, in the order they are taken
  Makes,        \* <<class, flagged>> an archive may have
  Limits,       \* keep counts an operator may choose; 0 keeps everything
  MaxRemoteEdits,   \* retries, cancels, deadlines and changes of settings (bound)
  MaxRemoteKills    \* kills of the panel (bound)

ASSUME RemoteAssumption ==
  /\ Makes \subseteq {"cold", "hot", "snapshot"} \X BOOLEAN
  /\ Archives \subseteq Nat /\ IsFiniteSet(Archives) /\ Limits \subseteq Nat
  /\ MaxRemoteEdits \in Nat /\ MaxRemoteKills \in Nat

VARIABLES
  places,    \* remote_backup_destinations: none, enabled, disabled, retired
  archives,  \* backups: existence, class and flag of each
  policy,    \* remote_backup_enabled and the keep counts
  inst,      \* the instance: up or deleting
  copies,    \* remote_copies
  cloud,     \* objects at the destinations
  rjob,      \* the job that holds global:remote_backup
  tick,      \* what the worker's loop does next
  daily,     \* its daily retention is due
  owed,      \* MarkRetention of AfterFinish: none, owed
  passes,    \* MarkRetention runs under way: what each has still to write
  crossed,   \* (history) a copy was retried while its own cleanup ran
  raised,    \* (history) a keep count was raised or set to keep everything
  redits, rkills

remoteVars == <<places, archives, policy, inst, copies, cloud, rjob, tick, daily, owed, passes,
                crossed, raised, redits, rkills>>

Classes == {"cold", "hot", "snapshot"}
Copy == Places \X Archives
NoCopy == [status |-> "none", cancel |-> FALSE, late |-> FALSE, object |-> FALSE,
           manifest |-> FALSE, cleanup |-> FALSE, due |-> TRUE]
NoRemoteJob == [kind |-> "none"]
NoPass == [mark |-> {}, unmark |-> {}]
Passers == {"worker", "finish"}

RemoteInit ==
  /\ \E p \in Places : places = [x \in Places |-> IF x = p THEN "enabled" ELSE "none"]
  /\ archives = [a \in Archives |-> [exists |-> FALSE, class |-> "cold", flagged |-> FALSE]]
  /\ \E n \in Limits : policy = [auto |-> TRUE, keep |-> [c \in Classes |-> n]]
  /\ inst = "up"
  /\ copies = [c \in Copy |-> NoCopy] /\ cloud = {}
  /\ rjob = NoRemoteJob /\ tick = "reconcile" /\ daily = TRUE /\ owed = FALSE
  /\ passes = [w \in Passers |-> NoPass]
  /\ crossed = FALSE /\ raised = FALSE /\ redits = 0 /\ rkills = 0

----------------------------------------------------------------------------
(* The store.                                                              *)

RemoteDestination == {p \in Places : places[p] \in {"enabled", "disabled"}}
Usable(p) == places[p] = "enabled"
RemoteEdit == redits < MaxRemoteEdits /\ redits' = redits + 1

(* enqueueRemoteCopy: in the transaction that needs it; a row that exists  *)
(* is left as it is.                                                       *)
enqueueRemoteCopy(a) ==
  [c \in Copy |-> IF c[2] = a /\ Usable(c[1]) /\ inst # "deleting" /\ copies[c].status = "none"
                  THEN [NoCopy EXCEPT !.status = "pending"] ELSE copies[c]]

DueRemoteCopies ==
  {c \in Copy : copies[c].status \in {"pending", "retry_wait"} /\ ~copies[c].late
                /\ Usable(c[1]) /\ inst # "deleting"}

DueRemoteCleanup ==
  {c \in Copy : copies[c].cleanup /\ copies[c].due /\ Usable(c[1]) /\ inst # "deleting"}

(* TxCheckRemoteProtection: what a pending or running upload still needs.  *)
RemoteProtected(a) ==
  \E c \in Copy : /\ c[2] = a
                  /\ \/ copies[c].status = "uploading"
                     \/ copies[c].status \in {"pending", "retry_wait"} /\ ~copies[c].late

TxClaimRemoteCopy(c) ==
  copies[c].status \in {"pending", "retry_wait"} /\ ~copies[c].cancel /\ ~copies[c].late
  /\ Usable(c[1]) /\ archives[c[2]].exists /\ inst # "deleting"

TxCheckRemoteCleanup(c) ==
  copies[c].status \in {"succeeded", "failed", "cancelled"} /\ copies[c].cleanup
  /\ Usable(c[1]) /\ inst # "deleting"

LiveJob(c) == rjob.kind = "upload" /\ rjob.copy = c

(* ReconcileRemoteCopies: uploads whose job is gone, then waiting ones that*)
(* can no longer be made.                                                  *)
ReconcileRemoteCopies ==
  LET settled == [c \in Copy |->
        IF copies[c].status = "uploading" /\ ~LiveJob(c)
        THEN [copies[c] EXCEPT !.status = IF copies[c].cancel THEN "cancelled"
                                          ELSE IF copies[c].late THEN "failed" ELSE "retry_wait"]
        ELSE copies[c]]
  IN [c \in Copy |->
        IF settled[c].status \in {"pending", "retry_wait"}
           /\ (settled[c].late \/ inst = "deleting" \/ ~archives[c[2]].exists)
        THEN [settled[c] EXCEPT !.status = "failed"] ELSE settled[c]]

SaveRemoteObjects(c, object, manifest) ==
  copies' = [copies EXCEPT ![c].object = object, ![c].manifest = manifest]

TxFinishRemoteCopy(c, status) == copies' = [copies EXCEPT ![c].status = status]

(* finishRemoteCleanup: a removed copy is pruned, a failed or cancelled    *)
(* one only forgets its objects.                                           *)
finishRemoteCleanup(c, ok) ==
  LET row == copies[c]
      kept == (row.status = "succeeded")
      done == [row EXCEPT !.status = IF kept THEN "pruned" ELSE row.status,
                          !.object = row.object /\ kept, !.manifest = row.manifest /\ kept,
                          !.cleanup = FALSE, !.due = FALSE]
      again == [row EXCEPT !.cleanup = TRUE, !.due = FALSE]
  IN copies' = [copies EXCEPT ![c] = IF ok THEN done ELSE again]

MarkAbandonedRemoteUploads(p) ==
  [c \in Copy |-> IF c[1] = p /\ copies[c].status \in {"failed", "cancelled"} /\ copies[c].object
                  THEN [copies[c] EXCEPT !.cleanup = TRUE] ELSE copies[c]]

----------------------------------------------------------------------------
(* Retention (retention.go).  Archives are listed newest first.            *)

RemoteRetentionCopies(p) == {c \in Copy : c[1] = p /\ copies[c].status = "succeeded"}
classOf(c) == archives[c[2]].class
keepLimit(class) == policy.keep[class]
Newer(c, S) == {x \in S : classOf(x) = classOf(c) /\ x[2] > c[2]}

\* A wrong version: the newest copy is kept although its archive is flagged.
lastGoodFlagged(c, S) == classOf(c) # "snapshot" /\ Newer(c, S) = {}

(* The newest unflagged copy of a class, snapshots aside, is kept past the *)
(* limit.                                                                  *)
lastGood(c, S) ==
  /\ classOf(c) # "snapshot" /\ ~archives[c[2]].flagged
  /\ \A x \in Newer(c, S) : archives[x[2]].flagged

markInstanceRetention(p) ==
  LET list == RemoteRetentionCopies(p)
      past == {c \in list : /\ keepLimit(classOf(c)) > 0
                            /\ Cardinality(Newer(c, list)) >= keepLimit(classOf(c))
                            /\ ~lastGood(c, list)}
  IN [mark |-> past, unmark |-> {c \in list \ past : copies[c].cleanup}]

(* MarkRetention reads, and then writes row by row.                        *)
MarkRetention(w) ==
  /\ passes[w] = NoPass
  /\ \/ \E p \in RemoteDestination :
          /\ Usable(p) /\ inst # "deleting"
          /\ copies' = MarkAbandonedRemoteUploads(p)
          /\ passes' = [passes EXCEPT ![w] = markInstanceRetention(p)]
     \/ /\ \A p \in RemoteDestination : ~Usable(p) \/ inst = "deleting"
        /\ UNCHANGED <<copies, passes>>

MarkRemoteCleanup(w, c) ==
  /\ c \in passes[w].mark
  /\ copies' = [copies EXCEPT ![c].cleanup = @ \/ copies[c].status = "succeeded"]
  /\ passes' = [passes EXCEPT ![w].mark = @ \ {c}]
  /\ UNCHANGED <<places, archives, policy, inst, cloud, rjob, tick, daily, owed, crossed, raised,
                 redits, rkills>>

UnmarkRemoteCleanup(w, c) ==
  /\ c \in passes[w].unmark
  /\ copies' = [copies EXCEPT ![c].cleanup = @ /\ copies[c].status # "succeeded"]
  /\ passes' = [passes EXCEPT ![w].unmark = @ \ {c}]
  /\ UNCHANGED <<places, archives, policy, inst, cloud, rjob, tick, daily, owed, crossed, raised,
                 redits, rkills>>

(* PrunedOnArrival.                                                        *)
PrunedOnArrival(a, p) ==
  LET new == <<p, a>>
      kept == {c \in RemoteRetentionCopies(p) : c # new /\ ~copies[c].cleanup}
      newer == Newer(new, kept)
  IN /\ keepLimit(classOf(new)) > 0
     /\ \/ classOf(new) = "snapshot" \/ archives[a].flagged
        \/ \E c \in newer : ~archives[c[2]].flagged
     /\ Cardinality(newer) >= keepLimit(classOf(new))

----------------------------------------------------------------------------
(* The worker's loop (worker.go: Run).                                     *)

WorkerReconcile ==
  /\ tick = "reconcile" /\ passes["worker"] = NoPass
  /\ copies' = ReconcileRemoteCopies
  /\ tick' = IF daily THEN "retain" ELSE "dispatch"
  /\ UNCHANGED <<places, archives, policy, inst, cloud, rjob, daily, owed, passes, crossed, raised,
                 redits, rkills>>

WorkerRetention ==
  /\ tick = "retain"
  /\ MarkRetention("worker")
  /\ tick' = "dispatch" /\ daily' = FALSE
  /\ UNCHANGED <<places, archives, policy, inst, cloud, rjob, owed, crossed, raised, redits,
                 rkills>>

(* DispatchRemote: a due cleanup before any upload; a job already holding  *)
(* the lock, or a claim that no longer holds, leaves it to the next tick.  *)
submitCleanup(c) ==
  /\ tick = "dispatch" /\ passes["worker"] = NoPass /\ c \in DueRemoteCleanup
  /\ \/ /\ rjob.kind = "none" /\ TxCheckRemoteCleanup(c)
        /\ rjob' = [kind |-> "cleanup", copy |-> c, at |-> "delete",
                    row |-> [status |-> copies[c].status, object |-> copies[c].object,
                             manifest |-> copies[c].manifest]]
     \/ ~(rjob.kind = "none" /\ TxCheckRemoteCleanup(c)) /\ UNCHANGED rjob
  /\ tick' = "reconcile"
  /\ UNCHANGED <<places, archives, policy, inst, copies, cloud, daily, owed, passes, crossed,
                 raised, redits, rkills>>

DispatchRemote(c) ==
  /\ tick = "dispatch" /\ passes["worker"] = NoPass
  /\ DueRemoteCleanup = {} /\ c \in DueRemoteCopies
  /\ \/ /\ rjob.kind = "none" /\ TxClaimRemoteCopy(c)
        /\ rjob' = [kind |-> "upload", copy |-> c, at |-> "put"]
        /\ copies' = [copies EXCEPT ![c].status = "uploading"]
     \/ ~(rjob.kind = "none" /\ TxClaimRemoteCopy(c)) /\ UNCHANGED <<rjob, copies>>
  /\ tick' = "reconcile"
  /\ UNCHANGED <<places, archives, policy, inst, cloud, daily, owed, passes, crossed, raised,
                 redits, rkills>>

NothingDue ==
  /\ tick = "dispatch" /\ passes["worker"] = NoPass
  /\ DueRemoteCleanup = {} /\ DueRemoteCopies = {}
  /\ tick' = "reconcile"
  /\ UNCHANGED <<places, archives, policy, inst, copies, cloud, rjob, daily, owed, passes, crossed,
                 raised, redits, rkills>>

----------------------------------------------------------------------------
(* An upload (copyArchive), in the order of its writes: the archive, its   *)
(* reference, the manifest, both references.                               *)

At(kind, s) == rjob.kind = kind /\ rjob.at = s

PutArchive ==
  /\ At("upload", "put") /\ Usable(rjob.copy[1]) /\ archives[rjob.copy[2]].exists
  /\ cloud' = cloud \cup {<<rjob.copy, "archive">>}
  /\ rjob' = [rjob EXCEPT !.at = "record"]
  /\ UNCHANGED <<places, archives, policy, inst, copies, tick, daily, owed, passes, crossed,
                 raised, redits, rkills>>

recordObjects ==
  /\ \/ At("upload", "record") /\ SaveRemoteObjects(rjob.copy, TRUE, FALSE)
        /\ rjob' = [rjob EXCEPT !.at = "manifest"]
     \/ At("upload", "publish") /\ SaveRemoteObjects(rjob.copy, TRUE, TRUE)
        /\ rjob' = [rjob EXCEPT !.at = "done"]
  /\ UNCHANGED <<places, archives, policy, inst, cloud, tick, daily, owed, passes, crossed, raised,
                 redits, rkills>>

putManifest ==
  /\ At("upload", "manifest")
  /\ cloud' = cloud \cup {<<rjob.copy, "manifest">>}
  /\ rjob' = [rjob EXCEPT !.at = "publish"]
  /\ UNCHANGED <<places, archives, policy, inst, copies, tick, daily, owed, passes, crossed,
                 raised, redits, rkills>>

CopySucceeds ==
  /\ At("upload", "done")
  /\ TxFinishRemoteCopy(rjob.copy, "succeeded")
  /\ rjob' = NoRemoteJob /\ owed' = TRUE
  /\ UNCHANGED <<places, archives, policy, inst, cloud, tick, daily, passes, crossed, raised,
                 redits, rkills>>

(* What the watcher ends an attempt for: a cancel of the copy, or of its   *)
(* job, which may come at any time.                                        *)
CancelRequested(c) == IF copies[c].cancel THEN {TRUE} ELSE BOOLEAN

(* copyOutcome of an error at any step, the watcher's cancel included: an  *)
(* error that may pass and a shutdown are tried again.                     *)
CopyFails ==
  /\ rjob.kind = "upload" /\ rjob.at # "done"
  /\ \E cancelled \in CancelRequested(rjob.copy), passing \in BOOLEAN :
       TxFinishRemoteCopy(rjob.copy, IF cancelled THEN "cancelled"
                                     ELSE IF passing /\ ~copies[rjob.copy].late THEN "retry_wait"
                                     ELSE "failed")
  /\ rjob' = NoRemoteJob
  /\ UNCHANGED <<places, archives, policy, inst, cloud, tick, daily, owed, passes, crossed, raised,
                 redits, rkills>>

(* AfterFinish of a success, after the locks are gone.                     *)
AfterCopyFinish ==
  /\ owed /\ MarkRetention("finish")
  /\ owed' = FALSE
  /\ UNCHANGED <<places, archives, policy, inst, cloud, rjob, tick, daily, crossed, raised, redits,
                 rkills>>

(* A cleanup (DeleteRemoteObjects) works from the row it was submitted     *)
(* with: the manifest goes first, an abandoned upload may have none.       *)
Abandoned(row) == row.status # "succeeded" /\ ~row.manifest

DeleteRemoteObjects ==
  /\ rjob.kind = "cleanup" /\ Usable(rjob.copy[1]) /\ rjob.row.object
  /\ \/ At("cleanup", "delete") /\ Abandoned(rjob.row)
        /\ cloud' = cloud \ {<<rjob.copy, "archive">>} /\ rjob' = [rjob EXCEPT !.at = "deleted"]
     \/ At("cleanup", "delete") /\ ~Abandoned(rjob.row) /\ rjob.row.manifest
        /\ cloud' = cloud \ {<<rjob.copy, "manifest">>} /\ rjob' = [rjob EXCEPT !.at = "archive"]
     \/ At("cleanup", "archive")
        /\ cloud' = cloud \ {<<rjob.copy, "archive">>} /\ rjob' = [rjob EXCEPT !.at = "deleted"]
  /\ UNCHANGED <<places, archives, policy, inst, copies, tick, daily, owed, passes, crossed,
                 raised, redits, rkills>>

RunCleanup(ok) ==
  /\ rjob.kind = "cleanup" /\ (ok <=> rjob.at = "deleted")
  /\ finishRemoteCleanup(rjob.copy, ok)
  /\ rjob' = NoRemoteJob
  /\ UNCHANGED <<places, archives, policy, inst, cloud, tick, daily, owed, passes, crossed, raised,
                 redits, rkills>>

(* The probe holds the same lock and touches only its own object.          *)
TestDestination ==
  /\ rjob.kind = "none" /\ RemoteDestination # {} /\ RemoteEdit
  /\ rjob' = [kind |-> "test"]
  /\ UNCHANGED <<places, archives, policy, inst, copies, cloud, tick, daily, owed, passes, crossed,
                 raised, rkills>>

Probe ==
  /\ rjob.kind = "test" /\ rjob' = NoRemoteJob
  /\ UNCHANGED <<places, archives, policy, inst, copies, cloud, tick, daily, owed, passes, crossed,
                 raised, redits, rkills>>

----------------------------------------------------------------------------
(* The panel's other work on archives, and the handlers.                   *)

(* createBackup: the archive's row and its upload are one transaction.     *)
createBackup(a, class, flagged) ==
  /\ inst = "up" /\ ~archives[a].exists
  /\ \A b \in Archives : b >= a => \A p \in Places : copies[<<p, b>>].status = "none"
  /\ archives' = [archives EXCEPT ![a] = [exists |-> TRUE, class |-> class, flagged |-> flagged]]
  /\ copies' = IF policy.auto THEN enqueueRemoteCopy(a) ELSE copies
  /\ UNCHANGED <<places, policy, inst, cloud, rjob, tick, daily, owed, passes, crossed, raised,
                 redits, rkills>>

TxDeleteBackup(a) ==
  /\ archives[a].exists /\ ~RemoteProtected(a)
  /\ archives' = [archives EXCEPT ![a].exists = FALSE]
  /\ UNCHANGED <<places, policy, inst, copies, cloud, rjob, tick, daily, owed, passes, crossed,
                 raised, redits, rkills>>

(* The delete job takes the lock remote_instance with the instance's own.  *)
SubmitInstanceDelete ==
  /\ inst = "up" /\ rjob.kind \in {"none", "test"} /\ \A a \in Archives : ~RemoteProtected(a)
  /\ RemoteEdit
  /\ inst' = "deleting"
  /\ UNCHANGED <<places, archives, policy, copies, cloud, rjob, tick, daily, owed, passes, crossed,
                 raised, rkills>>

QueueRemoteCopy(a) ==
  /\ copies' = enqueueRemoteCopy(a)
  /\ \E c \in Copy : c[2] = a /\ Usable(c[1]) /\ copies'[c].status # "none"

Upload(a) ==
  /\ RemoteEdit /\ archives[a].exists
  /\ \A p \in RemoteDestination : ~PrunedOnArrival(a, p)
  /\ QueueRemoteCopy(a)
  /\ UNCHANGED <<places, archives, policy, inst, cloud, rjob, tick, daily, owed, passes, crossed,
                 raised, rkills>>

(* changeRemoteCopy: a running upload is only asked to stop; a retry starts*)
(* the copy anew and takes its cleanup back.                               *)
changeRemoteCopy(c, retry) ==
  \/ /\ retry /\ copies[c].status \in {"failed", "cancelled"}
     /\ archives[c[2]].exists /\ inst # "deleting" /\ Usable(c[1])
     /\ copies' = [copies EXCEPT ![c].status = "pending", ![c].cancel = FALSE, ![c].late = FALSE,
                                 ![c].cleanup = FALSE]
  \/ /\ ~retry /\ copies[c].status \in {"pending", "retry_wait", "uploading"}
     /\ copies' = [copies EXCEPT ![c].cancel = TRUE,
                                 ![c].status = IF @ = "uploading" THEN @ ELSE "cancelled"]

CancelRemoteCopy(c) ==
  /\ RemoteEdit /\ changeRemoteCopy(c, FALSE)
  /\ UNCHANGED <<places, archives, policy, inst, cloud, rjob, tick, daily, owed, passes, crossed,
                 raised, rkills>>

RetryRemoteCopy(c) ==
  /\ RemoteEdit /\ archives[c[2]].exists /\ changeRemoteCopy(c, TRUE)
  /\ crossed' = (crossed \/ (rjob.kind = "cleanup" /\ rjob.copy = c))
  /\ UNCHANGED <<places, archives, policy, inst, cloud, rjob, tick, daily, owed, passes, raised,
                 rkills>>

(* SaveRemoteDestination: refused while a transfer runs; another place     *)
(* retires the present one and cancels what waits for it.                  *)
SaveRemoteDestination(p, on) ==
  /\ rjob.kind = "none"
  /\ places' = [x \in Places |-> IF x = p THEN (IF on THEN "enabled" ELSE "disabled")
                                 ELSE IF places[x] = "none" THEN "none" ELSE "retired"]
  /\ copies' = [c \in Copy |-> IF c[1] # p /\ copies[c].status \in {"pending", "retry_wait"}
                               THEN [copies[c] EXCEPT !.status = "cancelled"] ELSE copies[c]]

(* putDestination: the same address keeps its row, another one is a new    *)
(* row; a retired one never comes back.                                    *)
PutDestination(p, on) ==
  /\ RemoteEdit /\ places[p] # "retired" /\ places[p] # (IF on THEN "enabled" ELSE "disabled")
  /\ SaveRemoteDestination(p, on)
  /\ UNCHANGED <<archives, policy, inst, cloud, rjob, tick, daily, owed, passes, crossed, raised,
                 rkills>>

UpdateRemotePolicy(auto, n) ==
  /\ RemoteEdit
  /\ policy' = [auto |-> auto, keep |-> [c \in Classes |-> n]]
  /\ policy' # policy
  /\ raised' = (raised \/ \E c \in Classes :
                  LET old == policy.keep[c] IN old # 0 /\ (n = 0 \/ n > old))
  /\ UNCHANGED <<places, archives, inst, copies, cloud, rjob, tick, daily, owed, passes, crossed,
                 rkills>>

----------------------------------------------------------------------------
(* Time and the panel's death.                                             *)

DeadlinePasses(c) ==
  /\ copies[c].status \in {"pending", "retry_wait", "uploading"} /\ ~copies[c].late
  /\ RemoteEdit
  /\ copies' = [copies EXCEPT ![c].late = TRUE]
  /\ UNCHANGED <<places, archives, policy, inst, cloud, rjob, tick, daily, owed, passes, crossed,
                 raised, rkills>>

CleanupComesDue(c) ==
  /\ copies[c].cleanup /\ ~copies[c].due
  /\ copies' = [copies EXCEPT ![c].due = TRUE]
  /\ UNCHANGED <<places, archives, policy, inst, cloud, rjob, tick, daily, owed, passes, crossed,
                 raised, redits, rkills>>

DayPasses ==
  /\ ~daily /\ RemoteEdit /\ daily' = TRUE
  /\ UNCHANGED <<places, archives, policy, inst, copies, cloud, rjob, tick, owed, passes, crossed,
                 raised, rkills>>

(* The sweep at the next start releases the locks of the dead jobs.        *)
RemoteKill ==
  /\ rkills < MaxRemoteKills /\ rkills' = rkills + 1
  /\ rjob' = NoRemoteJob /\ tick' = "reconcile" /\ daily' = TRUE /\ owed' = FALSE
  /\ passes' = [w \in Passers |-> NoPass]
  /\ UNCHANGED <<places, archives, policy, inst, copies, cloud, crossed, raised, redits>>

RemoteHandlers ==
  \/ \E a \in Archives :
       \/ \E m \in Makes : createBackup(a, m[1], m[2])
       \/ TxDeleteBackup(a) \/ Upload(a)
  \/ \E c \in Copy : CancelRemoteCopy(c) \/ RetryRemoteCopy(c) \/ DeadlinePasses(c) \/ CleanupComesDue(c)
  \/ \E p \in Places, on \in BOOLEAN : PutDestination(p, on)
  \/ \E auto \in BOOLEAN, n \in Limits : UpdateRemotePolicy(auto, n)
  \/ SubmitInstanceDelete \/ TestDestination

RemoteWork ==
  \/ WorkerReconcile \/ WorkerRetention \/ NothingDue
  \/ \E c \in Copy : submitCleanup(c) \/ DispatchRemote(c)
  \/ \E w \in Passers, c \in Copy : MarkRemoteCleanup(w, c) \/ UnmarkRemoteCleanup(w, c)
  \/ PutArchive \/ recordObjects \/ putManifest \/ CopySucceeds \/ CopyFails \/ AfterCopyFinish
  \/ DeleteRemoteObjects \/ \E ok \in BOOLEAN : RunCleanup(ok)
  \/ Probe

RemoteNext == RemoteHandlers \/ RemoteWork \/ DayPasses \/ RemoteKill

RemoteSpec == RemoteInit /\ [][RemoteNext]_remoteVars

----------------------------------------------------------------------------
(* While an upload runs the archive it reads is there: nothing deletes a   *)
(* backup that a live transfer still needs, whatever deadline, cancel or   *)
(* restart came between (store: TxCheckRemoteProtection).                  *)
SourceStays == rjob.kind = "upload" => archives[rjob.copy[2]].exists

(* A copy that the panel lists as kept can be restored: archive and        *)
(* manifest are at the destination.  Two histories are set aside, a count  *)
(* raised after a cleanup began and a retry that crossed its own copy's    *)
(* cleanup (retention.go: markInstanceRetention, RunCleanup).              *)
KeptCopyRestorable ==
  \A c \in Copy :
    copies[c].status = "succeeded" /\ ~copies[c].cleanup /\ ~raised /\ ~crossed
    => {<<c, "archive">>, <<c, "manifest">>} \subseteq cloud

(* A world that broke cannot push out the last copy worth restoring: of    *)
(* the copies of one class that succeeded, the newest unflagged one is     *)
(* never pruned (retention.go: markInstanceRetention).                     *)
LastGoodKept ==
  \A c \in Copy :
    copies[c].status = "pruned" /\ classOf(c) # "snapshot" /\ ~archives[c[2]].flagged /\ ~crossed
    => \E x \in Copy : /\ x[1] = c[1] /\ x[2] > c[2] /\ classOf(x) = classOf(c)
                       /\ ~archives[x[2]].flagged /\ copies[x].status \in {"succeeded", "pruned"}

(* Remote retention and uploads keep what they promise together: the       *)
(* source of a running upload, the files of a kept copy, and the last good *)
(* copy of each class at each destination (remotecopy/retention.go).       *)
CopiesKept == SourceStays /\ KeptCopyRestorable /\ LastGoodKept
=============================================================================
