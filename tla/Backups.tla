------------------------------- MODULE Backups -------------------------------
(***************************************************************************)
(* The archive catalogue of one server: the backup job and the snapshots   *)
(* other jobs take, the world check that flags an archive, retention by a  *)
(* backup and by the prune job, the operator's deletions and               *)
(* acknowledgements, and the saved setups that link an archive.            *)
(*                                                                         *)
(* A backup, a snapshot and a setup's save hold the server's lock. The     *)
(* prune job holds the artifact lock, which a setup's save holds as well,  *)
(* and not the server's; the handlers hold nothing. So two selections of   *)
(* what to prune can be outstanding at once, and the catalogue changes     *)
(* under both. Archives are numbered in the order of their creation.       *)
(***************************************************************************)
EXTENDS Integers, Sequences, FiniteSets, FiniteSetsExt

CONSTANTS
  WorldStates,   \* what the world directory may hold: see WorldFiles
  MinDB,         \* the floor of a .db file
  CheckedVersions, \* the world versions whose files were measured
  Policies,      \* retention settings, [cold |-> n, hot |-> n], zero keeping all
  Links,         \* saved setups that may link an archive
  MaxArchives,   \* bound on the archives made
  MaxHand,       \* bound on what operators do
  MaxPanelDeaths,
  Unset          \* no row, no job, no link

\* A world in one of the game's two layouts: the pair <world>.db and <world>.fwl, or a
\* directory of numbered generations, of which the newest counts. Absent halves are -1 long.
Generation == {"db2", "fwl2", "chunks", "ok"}
WorldFiles ==
  [directory : BOOLEAN, data : Int, header : Int, old : Int, bytes : Nat,
   seen : SUBSET Generation, version : [Generation -> Nat], inflates : BOOLEAN,
   index : Seq(Nat), total : Nat, chunks : Seq(Nat)]

\* A row of the catalogue; .live is history.
Rows == [class : {"cold", "hot", "snapshot"}, flagged : BOOLEAN, bytes : Nat, live : BOOLEAN]

ASSUME BackupsAssumption ==
  /\ WorldStates # {} /\ WorldStates \subseteq WorldFiles
  /\ Policies \subseteq [cold : Nat, hot : Nat] /\ Policies # {}
  /\ MaxArchives \in Nat
  /\ Unset \notin Rows

Numbers == 1 .. MaxArchives

VARIABLES
  serving,    \* the game container is running
  catalog,    \* the row of each archive, or Unset
  disk,       \* the archives whose file is published
  links,      \* the archive each saved setup links, or Unset
  pending,    \* archives a remote upload still needs
  keep,       \* the instance's retention settings
  op,         \* the job holding the server's lock, or Unset
  pruner,     \* the prune job, or Unset
  unlinking,  \* archives a handler deleted from the catalogue and not yet from disk
  meddled,    \* someone changed the catalogue under an outstanding selection (history)
  made, hand, panelDeaths

backupVars == <<serving, catalog, disk, links, pending, keep, op, pruner, unlinking,
                meddled, made, hand, panelDeaths>>

BackupsInit ==
  /\ serving = FALSE
  /\ catalog = [b \in Numbers |-> Unset]
  /\ disk = {}
  /\ links = [s \in Links |-> Unset]
  /\ pending = {}
  /\ keep \in Policies
  /\ op = Unset /\ pruner = Unset
  /\ unlinking = {}
  /\ meddled = FALSE
  /\ made = 0 /\ hand = 0 /\ panelDeaths = 0

Catalogued == {b \in Numbers : catalog[b] # Unset}

-----------------------------------------------------------------------------
(* The world check *)

\* Half the baseline, with no rounding: a world of exactly half is not flagged.
Shrunk(bytes, baseline) == baseline > 0 /\ 2 * bytes < baseline

\* Both halves are there and no shorter than any world's, or not empty in a directory.
Complete(w) == w.data >= 0 /\ w.header >= 0
verifyPair(w) ==
  /\ Complete(w)
  /\ w.data >= (IF w.directory THEN 1 ELSE MinDB) /\ w.header >= 1

\* The version that the ok file of the newest generation states, where it was measured.
Checked(w) == "ok" \in w.seen => w.version["ok"] \in CheckedVersions

versionMismatch(w) == \E f \in Generation : w.version[f] # w.version["ok"]

\* Each chunk of the index is a file that is not empty and agrees with its entry, and the
\* entries add up to the index's total.
chunkProblems(w) ==
  \/ \E i \in DOMAIN w.index : \/ i \notin DOMAIN w.chunks
                               \/ w.chunks[i] = 0 \/ w.chunks[i] # w.index[i]
  \/ w.total # MapThenSumSet(LAMBDA i : w.index[i], DOMAIN w.index)

\* A version that was not measured is not checked, and a save that misses a file is reported
\* as that alone.
attention(w) ==
  IF ~w.directory THEN (IF Shrunk(w.data, w.old) THEN {"db_shorter_than_old"} ELSE {})
  ELSE IF ~Checked(w) THEN {}
  ELSE IF Generation \ w.seen # {} THEN {"save_incomplete"}
  ELSE {a \in {"version_mismatch", "chunk_missing", "db2_damaged"} :
          \/ a = "version_mismatch" /\ versionMismatch(w)
          \/ a = "chunk_missing" /\ chunkProblems(w)
          \/ a = "db2_damaged" /\ ~w.inflates}

\* The size the next backup is compared with: the newest measured archive that is no snapshot,
\* carries no flag and is newer than every snapshot.
WorldBaseline ==
  LET snapshots == {b \in Catalogued : catalog[b].class = "snapshot"}
      measured == {b \in Catalogued : /\ catalog[b].class # "snapshot"
                                      /\ ~catalog[b].flagged
                                      /\ \A s \in snapshots : s < b}
  IN IF measured = {} THEN 0 ELSE catalog[Max(measured)].bytes

-----------------------------------------------------------------------------
(* Retention *)

\* A wrong version: an archive is kept by its rank alone.
PruneByRank(entries, policy) ==
  LET free == {b \in DOMAIN entries : ~entries[b].pinned}
      limit(b) == IF entries[b].class = "hot" THEN policy.hot ELSE policy.cold
      newer(b) == {x \in free : x > b /\ entries[x].class = entries[b].class}
  IN {b \in free : limit(b) > 0 /\ Cardinality(newer(b)) >= limit(b)}

\* Each class is counted apart; a pinned archive is not counted. The newest unflagged cold and
\* the newest unflagged hot archive are kept past the count.
Prune(entries, policy) ==
  LET free == {b \in DOMAIN entries : ~entries[b].pinned}
      limit(b) == IF entries[b].class = "hot" THEN policy.hot ELSE policy.cold
      newer(b) == {x \in free : x > b /\ entries[x].class = entries[b].class}
      lastGood(b) == /\ entries[b].class # "snapshot" /\ ~entries[b].flagged
                     /\ \A x \in newer(b) : entries[x].flagged
  IN {b \in free : limit(b) > 0 /\ Cardinality(newer(b)) >= limit(b) /\ ~lastGood(b)}

BackupPinned(b) == \E s \in Links : links[s] = b

RemoteBackupProtected(b) == b \in pending

pruneEntry(row, b) ==
  [class |-> row.class, flagged |-> row.flagged,
   pinned |-> BackupPinned(b) \/ RemoteBackupProtected(b)]

\* What falls outside the policy among the catalogued archives and a fresh one.
Select(fresh, policy) ==
  Prune([b \in Catalogued \union DOMAIN fresh |->
           pruneEntry(IF b \in DOMAIN fresh THEN fresh[b] ELSE catalog[b], b)], policy)

NoFresh == [b \in {} |-> Unset]

\* The rows of doomed archives go, except those an upload has come to need.
TxDeleted(rows, doomed) ==
  [b \in Numbers |-> IF b \in doomed /\ ~RemoteBackupProtected(b) THEN Unset ELSE rows[b]]

\* The files go of the archives whose rows did.
Cleanup(doomed) == disk' = disk \ {b \in doomed : catalog[b] = Unset}

-----------------------------------------------------------------------------
(* The backup job *)

At(stage) == op # Unset /\ op.at = stage

\* Submitting takes the server's lock. A quiesced backup stops a running server; a hot one
\* copies the live world.
createBackup(mode) ==
  /\ op = Unset /\ made < MaxArchives
  /\ made' = made + 1
  /\ serving' = (serving /\ mode = "hot")
  /\ op' = [kind |-> "backup", at |-> "claim", id |-> made + 1, mode |-> mode,
            wasRunning |-> serving]
  /\ UNCHANGED <<catalog, disk, links, pending, keep, pruner, unlinking, meddled, hand,
                 panelDeaths>>

\* A hot copy of a server that ran claims nothing. Otherwise Docker is asked, once, whether the
\* server runs: a running one fails a quiesced backup and costs a hot one its claim.
consistencyClaim ==
  LET promised == ~(op.mode = "hot" /\ op.wasRunning)
  IN /\ At("claim")
     /\ op' = IF promised /\ serving /\ op.mode = "quiesced" THEN Unset
              ELSE [kind |-> "backup", at |-> "copying", id |-> op.id, live |-> serving,
                    class |-> IF promised /\ ~serving THEN "cold" ELSE "hot"]
     /\ UNCHANGED <<serving, catalog, disk, links, pending, keep, pruner, unlinking,
                    meddled, made, hand, panelDeaths>>

\* A snapshot before a restore, an import, an update or a world tool: the server is looked at
\* before the copy and after it.
Snapshot ==
  /\ op = Unset /\ made < MaxArchives /\ ~serving
  /\ made' = made + 1
  /\ op' = [kind |-> "snapshot", at |-> "copying", id |-> made + 1, class |-> "snapshot",
            live |-> FALSE]
  /\ UNCHANGED <<serving, catalog, disk, links, pending, keep, pruner, unlinking,
                 meddled, hand, panelDeaths>>

\* The worlds directory is copied, whatever the game, an import or a torn save left in it, and
\* the part file is renamed into place.
Archive(w) ==
  /\ At("copying")
  /\ disk' = disk \union {op.id}
  /\ op' = [kind |-> op.kind, at |-> IF op.kind = "snapshot" THEN "after" ELSE "verify",
            id |-> op.id, class |-> op.class, live |-> op.live, world |-> w]
  /\ UNCHANGED <<serving, catalog, links, pending, keep, pruner, unlinking,
                 meddled, made, hand, panelDeaths>>

\* The job was cancelled before the copy, or the copy failed: the part file goes.
ArchiveFails ==
  /\ At("copying")
  /\ op' = Unset
  /\ UNCHANGED <<serving, catalog, disk, links, pending, keep, pruner, unlinking,
                 meddled, made, hand, panelDeaths>>

\* The job once its archive is published: what it will catalogue and prune.
Measured == [kind |-> op.kind, at |-> op.at, id |-> op.id, class |-> op.class, live |-> op.live,
             bytes |-> op.world.bytes, flagged |-> FALSE, doomed |-> {}]

\* The second look a snapshot takes; an archive the server was started during is removed.
archiveStoppedWorlds ==
  /\ At("after")
  /\ IF serving
     THEN disk' = disk \ {op.id} /\ op' = Unset
     ELSE disk' = disk /\ op' = [Measured EXCEPT !.at = "finish"]
  /\ UNCHANGED <<serving, catalog, links, pending, keep, pruner, unlinking, meddled,
                 made, hand, panelDeaths>>

\* An archive without a plausible world pair is removed; one whose world needs a look is kept
\* and flagged, by what its files say or by its size against the baseline.
archiveAndVerify ==
  /\ At("verify")
  /\ IF ~verifyPair(op.world)
     THEN disk' = disk \ {op.id} /\ op' = Unset
     ELSE /\ disk' = disk
          /\ op' = [Measured EXCEPT
                      !.at = "select",
                      !.flagged = attention(op.world) # {} \/ Shrunk(op.world.bytes, WorldBaseline)]
  /\ UNCHANGED <<serving, catalog, links, pending, keep, pruner, unlinking, meddled,
                 made, hand, panelDeaths>>

\* .live is history: the server ran during the copy of an archive that claims it did not.
FreshRow == [class |-> op.class, flagged |-> op.flagged, bytes |-> op.bytes,
             live |-> op.live /\ op.class # "hot"]

\* The selection reads the catalogue outside any transaction, the new archive counted first.
SelectForBackup ==
  /\ At("select")
  /\ op' = [op EXCEPT !.at = "finish", !.doomed = Select([b \in {op.id} |-> FreshRow], keep)]
  /\ meddled' = (meddled /\ pruner # Unset)
  /\ UNCHANGED <<serving, catalog, disk, links, pending, keep, pruner, unlinking,
                 made, hand, panelDeaths>>

\* The new row, the pruned rows and the job's end in one transaction; a remote copy may be
\* enqueued with the row.
finishBackup(uploads) ==
  /\ At("finish")
  /\ catalog' = TxDeleted([catalog EXCEPT ![op.id] = FreshRow], op.doomed)
  /\ pending' = pending \union (IF uploads THEN {op.id} ELSE {})
  /\ op' = [op EXCEPT !.at = "after finish"]
  /\ UNCHANGED <<serving, disk, links, keep, pruner, unlinking, meddled, made,
                 hand, panelDeaths>>

CleanupAfterBackup ==
  /\ At("after finish")
  /\ Cleanup(op.doomed)
  /\ op' = Unset
  /\ UNCHANGED <<serving, catalog, links, pending, keep, pruner, unlinking, meddled,
                 made, hand, panelDeaths>>

-----------------------------------------------------------------------------
(* The prune job *)

LinkRunning == op # Unset /\ op.kind = "link"

\* The job reads the instances, then selects for each; both locks are taken at its submission.
PruneRun ==
  /\ pruner = Unset /\ ~LinkRunning
  /\ Catalogued # {}
  /\ pruner' = [at |-> "finish", doomed |-> Select(NoFresh, keep)]
  /\ meddled' = (meddled /\ op # Unset)
  /\ UNCHANGED <<serving, catalog, disk, links, pending, keep, op, unlinking, made,
                 hand, panelDeaths>>

pruneBackupRow ==
  /\ pruner # Unset /\ pruner.at = "finish"
  /\ catalog' = TxDeleted(catalog, pruner.doomed)
  /\ pruner' = [pruner EXCEPT !.at = "cleanup"]
  /\ UNCHANGED <<serving, disk, links, pending, keep, op, unlinking, meddled, made,
                 hand, panelDeaths>>

CleanupAfterPrune ==
  /\ pruner # Unset /\ pruner.at = "cleanup"
  /\ Cleanup(pruner.doomed)
  /\ pruner' = Unset
  /\ UNCHANGED <<serving, catalog, links, pending, keep, op, unlinking, meddled,
                 made, hand, panelDeaths>>

-----------------------------------------------------------------------------
(* Saved setups link archives *)

\* The handler wants a consistent archive whose file is there. The save job takes the server's
\* lock and the artifact lock.
validateSetupBackup(s, b) ==
  /\ op = Unset /\ pruner = Unset
  /\ links[s] = Unset
  /\ catalog[b] # Unset /\ catalog[b].class # "hot" /\ b \in disk
  /\ op' = [kind |-> "link", at |-> "saving", setup |-> s, id |-> b]
  /\ UNCHANGED <<serving, catalog, disk, links, pending, keep, pruner, unlinking,
                 meddled, made, hand, panelDeaths>>

\* A wrong version: the archive is taken to be what the handler saw.
LinkUnchecked ==
  /\ At("saving")
  /\ links' = [links EXCEPT ![op.setup] = op.id]
  /\ op' = Unset
  /\ UNCHANGED <<serving, catalog, disk, pending, keep, pruner, unlinking, meddled,
                 made, hand, panelDeaths>>

\* The saving transaction looks again: an archive deleted meanwhile fails the save, whose
\* transaction, and with it the job's end, is refused.
checkSetupBackup ==
  /\ At("saving")
  /\ catalog[op.id] # Unset
  /\ links' = [links EXCEPT ![op.setup] = op.id]
  /\ op' = Unset
  /\ UNCHANGED <<serving, catalog, disk, pending, keep, pruner, unlinking, meddled,
                 made, hand, panelDeaths>>

-----------------------------------------------------------------------------
(* Operators, uploads, the game, and the panel's deaths *)

ByHand == hand < MaxHand /\ hand' = hand + 1

Meddles == meddled' = (meddled \/ op # Unset \/ pruner # Unset)

\* The row goes in a transaction that refuses a linked or protected archive, the file after.
DeleteBackupUnpinned(b) ==
  /\ catalog[b] # Unset
  /\ ~BackupPinned(b) /\ ~RemoteBackupProtected(b)
  /\ catalog' = [catalog EXCEPT ![b] = Unset]
  /\ unlinking' = unlinking \union {b}
  /\ Meddles /\ ByHand
  /\ UNCHANGED <<serving, disk, links, pending, keep, op, pruner, made, panelDeaths>>

deleteBackup(b) ==
  /\ b \in unlinking
  /\ disk' = disk \ {b}
  /\ unlinking' = unlinking \ {b}
  /\ UNCHANGED <<serving, catalog, links, pending, keep, op, pruner, meddled, made,
                 hand, panelDeaths>>

AcknowledgeWorld(b) ==
  /\ catalog[b] # Unset /\ catalog[b].flagged
  /\ catalog' = [catalog EXCEPT ![b].flagged = FALSE]
  /\ Meddles /\ ByHand
  /\ UNCHANGED <<serving, disk, links, pending, keep, op, pruner, unlinking, made,
                 panelDeaths>>

PatchKeep(policy) ==
  /\ policy # keep
  /\ keep' = policy
  /\ Meddles /\ ByHand
  /\ UNCHANGED <<serving, catalog, disk, links, pending, op, pruner, unlinking, made,
                 panelDeaths>>

ReleaseLink(s) ==
  /\ op = Unset /\ pruner = Unset
  /\ links[s] # Unset
  /\ links' = [links EXCEPT ![s] = Unset]
  /\ UNCHANGED <<serving, catalog, disk, pending, keep, op, pruner, unlinking,
                 meddled, made, hand, panelDeaths>>

UploadEnds(b) ==
  /\ b \in pending
  /\ pending' = pending \ {b}
  /\ UNCHANGED <<serving, catalog, disk, links, keep, op, pruner, unlinking,
                 meddled, made, hand, panelDeaths>>

\* The container starts and stops: by the panel while no job holds the lock, by the operator's
\* own hand at any time.
ToggleServer ==
  /\ serving' = ~serving
  /\ IF op = Unset THEN hand' = hand ELSE ByHand
  /\ op' = IF At("copying") THEN [op EXCEPT !.live = @ \/ serving'] ELSE op
  /\ UNCHANGED <<catalog, disk, links, pending, keep, pruner, unlinking,
                 meddled, made, panelDeaths>>

\* The jobs are gone, and the part file of an interrupted copy with them. Published files
\* without a row, and files whose rows went, stay behind.
DieAndRecover ==
  /\ panelDeaths < MaxPanelDeaths
  /\ panelDeaths' = panelDeaths + 1
  /\ op' = Unset /\ pruner' = Unset /\ unlinking' = {} /\ meddled' = FALSE
  /\ UNCHANGED <<serving, catalog, disk, links, pending, keep, made, hand>>

-----------------------------------------------------------------------------
BackupsNext ==
  \/ \E m \in {"quiesced", "hot"} : createBackup(m)
  \/ consistencyClaim \/ Snapshot
  \/ \E w \in WorldStates : Archive(w)
  \/ ArchiveFails \/ archiveStoppedWorlds \/ archiveAndVerify \/ SelectForBackup
  \/ \E uploads \in BOOLEAN : finishBackup(uploads)
  \/ CleanupAfterBackup
  \/ PruneRun \/ pruneBackupRow \/ CleanupAfterPrune
  \/ checkSetupBackup
  \/ \E s \in Links : ReleaseLink(s) \/ \E b \in Numbers : validateSetupBackup(s, b)
  \/ \E b \in Numbers : \/ DeleteBackupUnpinned(b) \/ deleteBackup(b)
                        \/ AcknowledgeWorld(b) \/ UploadEnds(b)
  \/ \E policy \in Policies : PatchKeep(policy)
  \/ ToggleServer \/ DieAndRecover

BackupsSpec == BackupsInit /\ [][BackupsNext]_backupVars

-----------------------------------------------------------------------------
(***************************************************************************)
(* A catalogued archive is a published file, and an archive a saved setup  *)
(* links is catalogued: through retention by two jobs at once, uploads     *)
(* that come to need an archive after it was selected, deletions that race *)
(* the save of the setup that links it, and the panel's deaths. A restore  *)
(* trusts the row without looking at the file (store/backups.go:14).       *)
(***************************************************************************)
CatalogTrue ==
  /\ Catalogued \subseteq disk
  /\ \A s \in Links : links[s] # Unset => links[s] \in Catalogued

Sound(rows, class) == \E b \in Numbers :
  rows[b] # Unset /\ rows[b].class = class /\ ~rows[b].flagged

(***************************************************************************)
(* Retention never takes the last unflagged archive of the cold or the hot *)
(* class, though a backup and the prune job select from different          *)
(* catalogues and each deletes what it selected: a broken world archived   *)
(* again and again cannot push out the last backup worth restoring         *)
(* (docs/operations.md:81). An operator who deletes, acknowledges or       *)
(* changes the counts between a selection and its transaction can still    *)
(* lose it, for the transaction does not select again.                     *)
(***************************************************************************)
LastSoundKept ==
  [][\A class \in {"cold", "hot"} :
       (Sound(catalog, class) /\ ~Sound(catalog', class)) => (meddled \/ hand' # hand)]_backupVars

(***************************************************************************)
(* An archive catalogued as consistent was copied while the server was     *)
(* down for the whole of the copy (control/snapshot.go:70). The snapshots  *)
(* hold it; a backup looks at the server before the copy only.             *)
(***************************************************************************)
ConsistentMeansDown ==
  \A b \in Catalogued : catalog[b].class # "hot" => ~catalog[b].live
=============================================================================
