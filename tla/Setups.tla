------------------------------- MODULE Setups -------------------------------
(***************************************************************************)
(* Saved setups: a named snapshot of one server's launch settings, managed *)
(* mod files and configuration, the job that saves it, the job that        *)
(* restores it, and what a panel that died in the middle of either does at *)
(* its next start.                                                         *)
(*                                                                         *)
(* The jobs hold the server's lock and the artifact lock, so one runs at a *)
(* time. The settings handler, the configuration editor and the operator's *)
(* own hands hold neither: they move the same rows and files while the job *)
(* works. Every package is one file here, and a blob is the content it     *)
(* retains; the two archive forms a blob may have replay to that content.  *)
(***************************************************************************)
EXTENDS Naturals, FiniteSets, Functions

CONSTANTS
  SetupIds,       \* setups that may be saved
  Layouts,        \* the managed files a mod job may leave: functions path -> content
  Managed,        \* paths a mod may own
  ConfigFile,     \* the one flat .cfg file
  Settings,       \* launch settings
  Texts,          \* contents of the configuration file
  MaxEdits,       \* bound on what is changed beside the jobs
  MaxDeaths,      \* bound on the panel's deaths
  MaxFailures,    \* bound on failing file or database operations
  Nothing         \* no file, no setup, no job

Paths == Managed \union {ConfigFile}
Strange == "hand-made"
Contents == UNION {Range(l) : l \in Layouts} \union Texts \union {Strange}

ASSUME SetupsAssumption ==
  /\ Layouts # {} /\ Settings # {} /\ Texts # {}
  /\ ConfigFile \notin Managed
  /\ \A l \in Layouts : DOMAIN l \subseteq Managed
  /\ Nothing \notin Contents

VARIABLES
  launch,     \* the launch settings in the instance's row
  password,   \* the server password, never part of a setup
  modRows,    \* instance_mods: each owned path and the content its row records
  files,      \* the server tree
  health,     \* the instance's state, "stopped" or "error"
  box,        \* the container is running
  setups,     \* saved_setups: the snapshot of each id, or Nothing
  blobs,      \* the retained package contents
  setupJob,        \* the setup job, or Nothing
  daemon,      \* "up", "down", or "closed": the sweep has closed the dead job's row
  last,       \* how the last restore ended, and what it started from (history)
  edited,     \* what others changed since that restore began (history)
  edits, deaths, failures

setupVars == <<launch, password, modRows, files, health, box, setups, blobs,
               setupJob, daemon, last, edited, edits, deaths, failures>>

\* No restore has ended since the last job of another kind.
NoRestore == [result |-> "none"]

SetupsInit ==
  /\ launch \in Settings
  /\ password = Nothing
  /\ modRows \in Layouts
  /\ files = [p \in Paths |-> IF p \in DOMAIN modRows THEN modRows[p] ELSE Nothing]
  /\ health = "stopped" /\ box = FALSE
  /\ setups = [s \in SetupIds |-> Nothing]
  /\ blobs = {}
  /\ setupJob = Nothing /\ daemon = "up"
  /\ last = NoRestore /\ edited = {}
  /\ edits = 0 /\ deaths = 0 /\ failures = 0

-----------------------------------------------------------------------------
(* What a setup captures *)

\* The configuration directory: an absent file is not listed.
readSetupConfigs == files[ConfigFile]

\* The managed files as they are on disk, whatever their rows record.
hashSetupFiles == [p \in DOMAIN modRows |-> files[p]]

\* The state a setup keeps, read from the rows and the configuration directory.
Capture == [launch |-> launch, mods |-> modRows, config |-> readSetupConfigs]

\* The fingerprint a preview hands out and every later step compares.
Current == [snap |-> Capture, disk |-> hashSetupFiles]

stoppedInstance == health = "stopped" /\ ~box

\* A saved name that contains the password of today may not come back.
ValidateSettings(saved) == saved # password

SetupPaths(mods, config) ==
  DOMAIN mods \union (IF config = Nothing THEN {} ELSE {ConfigFile})

currentPaths == SetupPaths(modRows, readSetupConfigs)

\* No file the panel does not manage may stand where the setup would write.
PreflightSetupTargets(snap) ==
  \A p \in SetupPaths(snap.mods, snap.config) \ currentPaths : files[p] = Nothing

\* A retained package is there and hashes to its digest.
Verify(digest) == digest \in blobs

\* Every package of the setup has its reference, and the reference its blob.
ValidateSetupRefs(snap) == \A p \in DOMAIN snap.mods : Verify(snap.mods[p])

\* Every path either side owns: what the journal names and a rollback restores.
unionSetupPaths(snap) == currentPaths \union SetupPaths(snap.mods, snap.config)

\* The rows a restored setup leaves.
setupStateRows(snap) == [mods |-> snap.mods, launch |-> snap.launch]

\* The staged tree a setup would leave at its own paths: its packages replayed from their
\* blobs, and the configuration it keeps.
stage(snap) ==
  [p \in SetupPaths(snap.mods, snap.config) |->
     IF p = ConfigFile THEN snap.config ELSE snap.mods[p]]

-----------------------------------------------------------------------------
(* The handlers *)

Free == daemon = "up" /\ setupJob = Nothing

\* setupPreview's list of problems is empty.
PreviewReady(snap) ==
  /\ stoppedInstance
  /\ ValidateSettings(snap.launch)
  /\ PreflightSetupTargets(snap)
  /\ ValidateSetupRefs(snap)

\* Submitting claims the stopped state and both locks, after making the staging directory.
saveSetup(s) ==
  /\ Free /\ stoppedInstance
  /\ setups[s] = Nothing
  /\ setupJob' = [kind |-> "save", at |-> "begin", setup |-> s]
  /\ last' = NoRestore /\ edited' = {}
  /\ UNCHANGED <<launch, password, modRows, files, health, box, setups, blobs,
                 daemon, edits, deaths, failures>>

\* The request carries the fingerprint of the preview its operator saw and is refused unless
\* that is the fingerprint of this moment, which becomes the job's.
restoreSetup(s) ==
  /\ Free /\ stoppedInstance
  /\ setups[s] # Nothing
  /\ PreviewReady(setups[s])
  /\ setupJob' = [kind |-> "restore", at |-> "begin", setup |-> s, snap |-> setups[s],
                  etag |-> Current, journal |-> FALSE, paths |-> {}, remove |-> {},
                  write |-> {}, aside |-> [p \in {} |-> Nothing]]
  /\ last' = [result |-> "running", before |-> files, rows |-> modRows, snap |-> setups[s]]
  /\ edited' = {}
  /\ UNCHANGED <<launch, password, modRows, files, health, box, setups, blobs,
                 daemon, edits, deaths, failures>>

deleteSetup(s) ==
  /\ Free
  /\ setups[s] # Nothing
  /\ setupJob' = [kind |-> "delete", at |-> "done", setup |-> s]
  /\ last' = NoRestore /\ edited' = {}
  /\ UNCHANGED <<launch, password, modRows, files, health, box, setups, blobs,
                 daemon, edits, deaths, failures>>

-----------------------------------------------------------------------------
(* The save job *)

On(kind, at) == daemon = "up" /\ setupJob # Nothing /\ setupJob.kind = kind /\ setupJob.at = at

\* The runner returns a failure: its row closes, the locks and the staging go.
Fails ==
  /\ setupJob' = Nothing
  /\ UNCHANGED <<launch, password, modRows, files, health, box, setups, blobs,
                 daemon, last, edited, edits, deaths, failures>>

CaptureState ==
  /\ On("save", "begin")
  /\ \/ ~stoppedInstance /\ Fails
     \/ /\ stoppedInstance
        /\ setupJob' = [kind |-> "save", at |-> "captured", setup |-> setupJob.setup,
                        etag |-> Current, snap |-> Capture]
        /\ UNCHANGED <<launch, password, modRows, files, health, box, setups, blobs, daemon, last,
                       edited, edits, deaths, failures>>

\* What a package's archive replays to: the cached download where it reproduces the files on
\* disk, an archive of those files where it does not.
makeSetupFilesArchive(p) == files[p]

\* A blob appears whole, by a rename, under the digest of its content.
Put(contents) == blobs' = blobs \union contents

\* Each package is hashed as it lies on disk, archived and put into the blob store. A file
\* that is missing by now fails the save.
retainSetupModArtifact ==
  /\ On("save", "captured")
  /\ \/ (\E p \in DOMAIN setupJob.snap.mods : files[p] = Nothing) /\ Fails
     \/ /\ \A p \in DOMAIN setupJob.snap.mods : files[p] # Nothing
        /\ LET kept == [p \in DOMAIN setupJob.snap.mods |-> makeSetupFilesArchive(p)]
           IN /\ Put(Range(kept))
              /\ setupJob' = [setupJob EXCEPT !.at = "retained", !.snap.mods = kept]
        /\ UNCHANGED <<launch, password, modRows, files, health, box, setups,
                       daemon, last, edited, edits, deaths, failures>>

\* The stopped check and the fingerprint once more, then the row with the job's end.
TxSaveSetup ==
  /\ On("save", "retained")
  /\ \/ (~stoppedInstance \/ Current # setupJob.etag) /\ Fails
     \/ /\ stoppedInstance /\ Current = setupJob.etag
        /\ setups' = [setups EXCEPT ![setupJob.setup] = setupJob.snap]
        /\ setupJob' = Nothing
        /\ UNCHANGED <<launch, password, modRows, files, health, box, blobs,
                       daemon, last, edited, edits, deaths, failures>>

\* The row goes; its packages stay until no setup names them and the panel starts again.
TxDeleteSetup ==
  /\ On("delete", "done")
  /\ setups' = [setups EXCEPT ![setupJob.setup] = Nothing]
  /\ setupJob' = Nothing
  /\ UNCHANGED <<launch, password, modRows, files, health, box, blobs,
                 daemon, last, edited, edits, deaths, failures>>

-----------------------------------------------------------------------------
(* The restore job *)

Ended(result) == last' = [last EXCEPT !.result = result]

FailRestore ==
  /\ Ended("failed")
  /\ setupJob' = Nothing
  /\ UNCHANGED <<launch, password, modRows, files, health, box, setups, blobs,
                 daemon, edited, edits, deaths, failures>>

\* The first half: nothing has moved since the preview, the settings still fit, the packages
\* verify and are staged, and nothing unmanaged stands in the way.
prepareSetupRestore ==
  /\ On("restore", "begin")
  /\ \/ ~(PreviewReady(setupJob.snap) /\ Current = setupJob.etag) /\ FailRestore
     \/ /\ PreviewReady(setupJob.snap) /\ Current = setupJob.etag
        /\ setupJob' = [setupJob EXCEPT !.at = "staged", !.paths = unionSetupPaths(setupJob.snap),
                          !.remove = currentPaths, !.write = DOMAIN stage(setupJob.snap)]
        /\ UNCHANGED <<launch, password, modRows, files, health, box, setups, blobs, daemon, last,
                       edited, edits, deaths, failures>>

\* The second half: stopped and unchanged still, the world archived if mods change, then every
\* path either side owns is copied aside. Archiving the world or copying may fail.
backUpAside ==
  /\ On("restore", "staged")
  /\ \/ ~(stoppedInstance /\ Current = setupJob.etag) /\ FailRestore
     \/ /\ stoppedInstance /\ Current = setupJob.etag
        /\ failures < MaxFailures
        /\ failures' = failures + 1
        /\ Ended("failed")
        /\ setupJob' = Nothing
        /\ UNCHANGED <<launch, password, modRows, files, health, box, setups, blobs, daemon,
                       edited, edits, deaths>>
     \/ /\ stoppedInstance /\ Current = setupJob.etag
        /\ setupJob' = [setupJob EXCEPT !.at = "copied", !.aside = [p \in setupJob.paths |-> files[p]]]
        /\ UNCHANGED <<launch, password, modRows, files, health, box, setups, blobs, daemon, last,
                       edited, edits, deaths, failures>>

\* A wrong version: the first file goes before the journal is on disk.
RemoveUnjournalled ==
  /\ On("restore", "copied")
  /\ \/ box /\ FailRestore
     \/ /\ ~box
        /\ setupJob' = [setupJob EXCEPT !.at = "removing"]
        /\ UNCHANGED <<launch, password, modRows, files, health, box, setups, blobs, daemon, last,
                       edited, edits, deaths, failures>>

\* The journal is written and flushed after the copies are; then the checkpoint, and the
\* container is looked at once more before the first file goes.
WriteSetupJournal ==
  /\ On("restore", "copied")
  /\ setupJob' = [setupJob EXCEPT !.at = IF box THEN "undo" ELSE "removing", !.journal = TRUE]
  /\ UNCHANGED <<launch, password, modRows, files, health, box, setups, blobs, daemon, last,
                 edited, edits, deaths, failures>>

\* The files of the current state go, one at a time.
RemovePaths ==
  /\ On("restore", "removing")
  /\ \/ /\ setupJob.remove = {}
        /\ setupJob' = [setupJob EXCEPT !.at = "writing"]
        /\ UNCHANGED <<files, failures>>
     \/ \E p \in setupJob.remove :
          /\ files' = [files EXCEPT ![p] = Nothing]
          /\ setupJob' = [setupJob EXCEPT !.remove = @ \ {p}]
          /\ UNCHANGED failures
     \/ /\ setupJob.remove # {} /\ failures < MaxFailures
        /\ failures' = failures + 1
        /\ setupJob' = [setupJob EXCEPT !.at = "undo"]
        /\ UNCHANGED files
  /\ UNCHANGED <<launch, password, modRows, health, box, setups, blobs,
                 daemon, last, edited, edits, deaths>>

\* The staged files are published, one at a time, each by a rename.
applySetupRoot ==
  /\ On("restore", "writing")
  /\ \/ /\ setupJob.write = {}
        /\ setupJob' = [setupJob EXCEPT !.at = "applied"]
        /\ UNCHANGED <<files, failures>>
     \/ \E p \in setupJob.write :
          /\ files' = [files EXCEPT ![p] = stage(setupJob.snap)[p]]
          /\ setupJob' = [setupJob EXCEPT !.write = @ \ {p}]
          /\ UNCHANGED failures
     \/ /\ setupJob.write # {} /\ failures < MaxFailures
        /\ failures' = failures + 1
        /\ setupJob' = [setupJob EXCEPT !.at = "undo"]
        /\ UNCHANGED files
  /\ UNCHANGED <<launch, password, modRows, health, box, setups, blobs,
                 daemon, last, edited, edits, deaths>>

\* A last look at the container, then the rows with the job's end. A transaction that fails
\* leaves the job running, its locks held, until the panel starts again.
TxApplySetupState ==
  /\ On("restore", "applied")
  /\ \/ /\ box
        /\ setupJob' = [setupJob EXCEPT !.at = "undo"]
        /\ UNCHANGED <<launch, modRows, last, failures>>
     \/ /\ ~box /\ health = "stopped"
        /\ modRows' = setupStateRows(setupJob.snap).mods
        /\ launch' = setupStateRows(setupJob.snap).launch
        /\ Ended("restored")
        /\ setupJob' = [setupJob EXCEPT !.at = "ended"]
        /\ UNCHANGED failures
     \/ /\ failures < MaxFailures
        /\ failures' = failures + 1
        /\ setupJob' = [setupJob EXCEPT !.at = "stuck"]
        /\ UNCHANGED <<launch, modRows, last>>
  /\ UNCHANGED <<password, files, health, box, setups, blobs, daemon, edited,
                 edits, deaths>>

\* Every journalled path gets its copy back, or goes if there was none.
RolledBack(j) == [p \in Paths |-> IF p \in j.paths THEN j.aside[p] ELSE files[p]]

\* A rollback that fails on some path keeps the staging directory for the operator and parks
\* the server in the error state.
rollbackSetupPaths ==
  /\ On("restore", "undo")
  /\ \/ /\ files' = RolledBack(setupJob)
        /\ Ended("failed")
        /\ UNCHANGED <<health, failures>>
     \/ /\ failures < MaxFailures
        /\ \E p \in setupJob.paths : files' = [RolledBack(setupJob) EXCEPT ![p] = files[p]]
        /\ failures' = failures + 1
        /\ Ended("parked")
        /\ health' = "error"
  /\ setupJob' = Nothing
  /\ UNCHANGED <<launch, password, modRows, box, setups, blobs, daemon, edited,
                 edits, deaths>>

\* AfterFinish: the staging directory goes, the journal with it.
cleanup ==
  /\ On("restore", "ended")
  /\ setupJob' = Nothing
  /\ UNCHANGED <<launch, password, modRows, files, health, box, setups, blobs,
                 daemon, last, edited, edits, deaths, failures>>

-----------------------------------------------------------------------------
(* The panel dies and starts again *)

\* A panel that dies after its sweep closed the row has nothing left that knows of the
\* staging directory: the sweep of that row does not come back.
PanelDies ==
  /\ daemon \in {"up", "closed"}
  /\ deaths < MaxDeaths
  /\ deaths' = deaths + 1
  /\ daemon' = "down"
  /\ setupJob' = IF daemon = "closed" \/ (setupJob # Nothing /\ setupJob.at = "ended") THEN Nothing ELSE setupJob
  /\ last' = IF daemon = "closed" /\ setupJob # Nothing /\ setupJob.kind = "restore"
             THEN [last EXCEPT !.result = "forgotten"] ELSE last
  /\ UNCHANGED <<launch, password, modRows, files, health, box, setups, blobs, edited,
                 edits, failures>>

\* Sweep closes the dead job's row, which frees its locks, before it sweeps the staging.
SweepCloses ==
  /\ daemon = "down"
  /\ daemon' = "closed"
  /\ UNCHANGED <<launch, password, modRows, files, health, box, setups, blobs,
                 setupJob, last, edited, edits, deaths, failures>>

\* An interrupted restore without a journal has touched nothing; one with a journal is
\* rolled back. A rollback that fails parks a stopped server and keeps the staging.
sweepSetupRestore ==
  /\ daemon = "closed"
  /\ setupJob # Nothing /\ setupJob.kind = "restore"
  /\ \/ /\ ~setupJob.journal
        /\ Ended("failed")
        /\ UNCHANGED <<files, health, failures>>
     \/ /\ setupJob.journal
        /\ files' = RolledBack(setupJob)
        /\ Ended("failed")
        /\ UNCHANGED <<health, failures>>
     \/ /\ setupJob.journal /\ failures < MaxFailures
        /\ \E p \in setupJob.paths : files' = [RolledBack(setupJob) EXCEPT ![p] = files[p]]
        /\ failures' = failures + 1
        /\ Ended("parked")
        /\ health' = "error"
  /\ setupJob' = Nothing
  /\ UNCHANGED <<launch, password, modRows, box, setups, blobs, daemon, edited,
                 edits, deaths>>

\* An interrupted save leaves its staging directory to remove, a delete nothing at all.
sweepSetupSave ==
  /\ daemon = "closed"
  /\ setupJob # Nothing /\ setupJob.kind # "restore"
  /\ setupJob' = Nothing
  /\ UNCHANGED <<launch, password, modRows, files, health, box, setups, blobs,
                 daemon, last, edited, edits, deaths, failures>>

ReferencedSetupArtifacts == UNION {Range(setups[s].mods) : s \in {x \in SetupIds : setups[x] # Nothing}}

\* With no job left, the packages no setup names are removed and the panel serves requests.
GC ==
  /\ daemon = "closed" /\ setupJob = Nothing
  /\ blobs' = blobs \intersect ReferencedSetupArtifacts
  /\ daemon' = "up"
  /\ UNCHANGED <<launch, password, modRows, files, health, box, setups, setupJob, last,
                 edited, edits, deaths, failures>>

-----------------------------------------------------------------------------
(* Everyone else *)

Edits(what) ==
  /\ edits < MaxEdits
  /\ edits' = edits + 1
  /\ edited' = IF last = NoRestore THEN {} ELSE edited \union {what}
  /\ UNCHANGED <<setups, blobs, setupJob, daemon, last, deaths, failures>>

\* The settings handler holds no lock.
PatchLaunch(l) ==
  /\ daemon = "up"
  /\ l # launch /\ l # password
  /\ launch' = l
  /\ Edits("launch")
  /\ UNCHANGED <<password, modRows, files, health, box>>

PatchPassword(w) ==
  /\ daemon = "up"
  /\ w # launch /\ w # password
  /\ password' = w
  /\ edits < MaxEdits
  /\ edits' = edits + 1
  /\ UNCHANGED <<launch, modRows, files, health, box, setups, blobs, setupJob,
                 daemon, last, edited, deaths, failures>>

\* Nor does the configuration editor.
PutConfig(t) ==
  /\ daemon = "up"
  /\ files[ConfigFile] # t
  /\ files' = [files EXCEPT ![ConfigFile] = t]
  /\ Edits(ConfigFile)
  /\ UNCHANGED <<launch, password, modRows, health, box>>

\* The operator puts a file of their own into the tree, or takes one out.
TouchFile(p, t) ==
  /\ files[p] # t
  /\ files' = [files EXCEPT ![p] = t]
  /\ Edits(p)
  /\ UNCHANGED <<launch, password, modRows, health, box>>

\* The container is started or stopped past the panel.
ToggleContainer ==
  /\ box' = ~box
  /\ edits < MaxEdits
  /\ edits' = edits + 1
  /\ UNCHANGED <<launch, password, modRows, files, health, setups, blobs, setupJob,
                 daemon, last, edited, deaths, failures>>

\* A mod job, under the same lock, replaces what the rows own and the files with it.
ModJob(l) ==
  /\ Free /\ stoppedInstance
  /\ l # modRows
  /\ \A p \in DOMAIN l \ DOMAIN modRows : files[p] = Nothing
  /\ modRows' = l
  /\ files' = [p \in Paths |-> IF p \in DOMAIN l THEN l[p]
                               ELSE IF p \in DOMAIN modRows THEN Nothing ELSE files[p]]
  /\ last' = NoRestore /\ edited' = {}
  /\ edits < MaxEdits
  /\ edits' = edits + 1
  /\ UNCHANGED <<launch, password, health, box, setups, blobs, setupJob, daemon,
                 deaths, failures>>

-----------------------------------------------------------------------------
SetupsNext ==
  \/ \E s \in SetupIds :
       saveSetup(s) \/ restoreSetup(s) \/ deleteSetup(s)
  \/ CaptureState \/ retainSetupModArtifact \/ TxSaveSetup \/ TxDeleteSetup
  \/ prepareSetupRestore \/ backUpAside \/ WriteSetupJournal
  \/ RemovePaths \/ applySetupRoot \/ TxApplySetupState \/ rollbackSetupPaths \/ cleanup
  \/ PanelDies \/ SweepCloses \/ sweepSetupRestore \/ sweepSetupSave \/ GC
  \/ \E l \in Settings : PatchLaunch(l) \/ PatchPassword(l)
  \/ \E t \in Texts : PutConfig(t)
  \/ \E p \in Managed, t \in {Nothing, Strange} : TouchFile(p, t)
  \/ ToggleContainer
  \/ \E l \in Layouts : ModJob(l)

SetupsSpec == SetupsInit /\ [][SetupsNext]_setupVars

-----------------------------------------------------------------------------
(***************************************************************************)
(* A restore that has ended left the whole of the setup, files and rows,   *)
(* or the whole of what was there before, on every path nobody else        *)
(* touched meanwhile. This holds through failing removals and writes, a    *)
(* container started by hand, and a panel that died at any step and rolled *)
(* back at its next start. A rollback that itself fails is parked in the   *)
(* error state, and one the panel died before running is forgotten: the    *)
(* sweep had closed the job's row first.                                   *)
(***************************************************************************)
RestoreIsWhole ==
  (daemon = "up" /\ setupJob = Nothing) =>
    CASE last.result = "restored" ->
           /\ "launch" \in edited \/ launch = last.snap.launch
           /\ modRows = last.snap.mods
           /\ \A p \in DOMAIN stage(last.snap) \ edited : files[p] = stage(last.snap)[p]
           /\ \A p \in (DOMAIN last.rows \ DOMAIN stage(last.snap)) \ edited : files[p] = Nothing
      [] last.result = "failed" ->
           /\ modRows = last.rows
           /\ \A p \in Paths \ edited : files[p] = last.before[p]
      [] OTHER -> TRUE

(***************************************************************************)
(* A saved setup can be restored from the panel's own disk: each of its    *)
(* packages is retained, whichever setups that share one were deleted and  *)
(* whatever a start of the panel has cleaned up, a save interrupted right  *)
(* after it retained its packages included.                                *)
(***************************************************************************)
SavedSetupRestorable ==
  \A s \in SetupIds : setups[s] # Nothing => ValidateSetupRefs(setups[s])

(***************************************************************************)
(* A saved setup can be restored, and a restore is whole or undone         *)
(* (control/setup_restore.go, control/setup_recovery.go).                  *)
(***************************************************************************)
SetupsHold == RestoreIsWhole /\ SavedSetupRestorable
=============================================================================
