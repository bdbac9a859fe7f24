--------------------------- MODULE ModTransaction ---------------------------
(* The mod jobs of one instance (internal/mods/manager over                *)
(* internal/mods/installer): install/update, uninstall and disable/enable, *)
(* their own rollback, and the boot sweep that settles one a killed daemon *)
(* left behind.  Three stores have to agree at rest: the instance_mods     *)
(* rows, the server tree the game loads, and the parking tree of disabled  *)
(* packages.  No transaction spans them; the order of the steps, the       *)
(* backups in the staging directory and the checkpoint on the job row are  *)
(* what the code has instead.                                              *)
(*                                                                         *)
(* A file's bytes are <<package, version>> for what an install wrote,      *)
(* User for what an operator put there, Absent for no file.  The instance  *)
(* lock admits one mod job at a time (JobEngine), so there is one job.     *)
EXTENDS Naturals, FiniteSets

CONSTANTS
    Packages,      \* full names
    Versions,      \* of every package
    Paths,         \* manifest paths, relative to the server root
    ConfigPaths,   \* those under BepInEx/config/
    Ships,         \* Ships[p][v]: the paths version v of package p places
    Starts,        \* the instance_mods tables earlier jobs may have left
    Mishaps,       \* the moments, beyond an ordinary kill, the daemon may be hit
    MaxJobs,       \* bound: mod jobs submitted
    MaxPuts        \* bound: files the operator writes by hand

AllMishaps == {"saving", "cleanup", "finish", "sweep", "stuck"}

ASSUME ModAssumption ==
    /\ ConfigPaths \subseteq Paths
    /\ Ships \in [Packages -> [Versions -> SUBSET Paths]]
    /\ Mishaps \subseteq AllMishaps
    /\ MaxJobs \in Nat /\ MaxPuts \in Nat
    /\ {"user", "none"} \cap Packages = {}
    /\ {"-", "remove", "enable", "disable"} \cap Versions = {}

VARIABLES
    rows,      \* instance_mods
    server,    \* the server tree
    park,      \* the parking tree, per package
    save,      \* staging/backup
    staged,    \* the directories under staging/pkg
    prev,      \* staging/prev: the replaced row and the stale paths
    job,       \* the job row: kind and payload
    mark,      \* its checkpoint, as far as the sweep tells them apart
    plan,      \* in memory: each package's new manifest and stale paths
    pc,        \* where the runner, or the sweep, is
    todo,      \* the paths the current pass has left
    moved,     \* in memory: the paths a toggle has moved
    stuck,     \* packages whose rollback failed
    outcome,   \* of the current or the last job
    before,    \* history: the three stores when the job was claimed
    hit,       \* history: the mishaps met so far
    jobs, puts \* counters for the bounds

vars == <<rows, server, park, save, staged, prev, job, mark, plan, pc, todo,
          moved, stuck, outcome, before, hit, jobs, puts>>

PCs == {"idle", "prepare", "save", "write", "written", "place", "rollback",
        "move", "settle", "cleanup", "finish", "down"}

Absent  == <<"none", "-">>
User    == <<"user", "-">>
Content == ((Packages \cup {"user", "none"}) \X (Versions \cup {"-"}))

Rows  == [ver : Versions \cup {"-"}, man : SUBSET Paths, parked : SUBSET Paths,
          enabled : {"yes", "no"}]
NoRow == [ver |-> "-", man |-> {}, parked |-> {}, enabled |-> "no"]
Installed(p) == rows[p].ver # "-"

NoPrev  == [row |-> NoRow, stale |-> {}]
NoPlan  == [man |-> {}, stale |-> {}]
NoFiles == [f \in Paths |-> Absent]
NoJob   == [kind |-> "none", want |-> [p \in Packages |-> "-"],
            answer |-> "ask", configs |-> {}]

(* The packages the job is about. *)
Scope == {p \in Packages : job.want[p] # "-"}

(* The tree a manifest path of package p lives in, per its row.  *)
ParkedOwner(f) == {p \in Scope : f \in rows[p].parked}

Snapshot == [rows |-> rows, server |-> server, park |-> park]

(* Rows as finished jobs leave them: every path has one owner, and only a  *)
(* disabled package has parked files.                                      *)
ASSUME StartsAssumption ==
    /\ Starts \subseteq [Packages -> Rows]
    /\ \A r \in Starts, p \in Packages :
          /\ r[p].ver = "-" => r[p] = NoRow
          /\ r[p].ver # "-" => r[p].man \subseteq Ships[p][r[p].ver]
          /\ r[p].parked = IF r[p].enabled = "no" THEN r[p].man \ ConfigPaths ELSE {}
          /\ \A q \in Packages \ {p} : r[p].man \cap r[q].man = {}

FilesOf(r, f) ==
    LET owners == {p \in Packages : f \in r[p].man \ r[p].parked} IN
    IF owners = {} THEN Absent
    ELSE LET p == CHOOSE p \in owners : TRUE IN <<p, r[p].ver>>

Init ==
    /\ rows \in Starts
    /\ server = [f \in Paths |-> FilesOf(rows, f)]
    /\ park = [p \in Packages |->
                [f \in Paths |-> IF f \in rows[p].parked THEN <<p, rows[p].ver>> ELSE Absent]]
    /\ save = NoFiles
    /\ staged = {}
    /\ prev = [p \in Packages |-> NoPrev]
    /\ job = NoJob
    /\ mark = "none"
    /\ plan = [p \in Packages |-> NoPlan]
    /\ pc = "idle"
    /\ todo = {} /\ moved = {} /\ stuck = {}
    /\ outcome = "none"
    /\ before = Snapshot
    /\ hit = {}
    /\ jobs = 0 /\ puts = 0

-----------------------------------------------------------------------------
(* Submissions.  OnClaim's stopped -> stopped hold and the instance lock   *)
(* are the guard pc = "idle".  Every job has a staging directory of its    *)
(* own; one a killed sweep left behind is not looked at again.             *)

EmptyStaging ==
    /\ save' = NoFiles
    /\ staged' = {}
    /\ prev' = [p \in Packages |-> NoPrev]

Claim(kind, want, answer, configs, first) ==
    /\ pc = "idle"
    /\ jobs < MaxJobs
    /\ jobs' = jobs + 1
    /\ job' = [kind |-> kind, want |-> want, answer |-> answer, configs |-> configs]
    /\ mark' = "none"
    /\ pc' = first
    /\ outcome' = "running"
    /\ before' = Snapshot
    /\ moved' = {} /\ stuck' = {}
    /\ EmptyStaging
    /\ UNCHANGED <<rows, server, park, plan, hit, puts>>

(* Any closure the resolver may produce: some packages to place at another *)
(* version than the installed one, and installed, enabled modpack members  *)
(* to remove.                                                              *)
Submit ==
    \E want \in [Packages -> Versions \cup {"-", "remove"}],
       answer \in {"ask", "keep", "replace"} :
        /\ \E p \in Packages : want[p] \in Versions
        /\ \A p \in Packages :
              /\ want[p] # rows[p].ver \/ want[p] = "-"
              /\ want[p] = "remove" => Installed(p) /\ rows[p].enabled = "yes"
        /\ Claim("install", want, answer, {}, "prepare")
        /\ todo' = {}

(* What an uninstall saves and removes: the manifests outside              *)
(* BepInEx/config/, and the config files the operator ticked.              *)
RemovalPaths(want, configs) ==
    configs \cup
        UNION {rows[p].man \ ConfigPaths : p \in {q \in Packages : want[q] = "remove"}}

SubmitUninstall ==
    \E want \in [Packages -> {"-", "remove"}], configs \in SUBSET ConfigPaths :
        /\ \E p \in Packages : want[p] = "remove"
        /\ \A p \in Packages : want[p] = "remove" => Installed(p)
        /\ Claim("uninstall", want, "ask", configs, "save")
        /\ todo' = RemovalPaths(want, configs)

(* Movable for a disable, ParkedPaths for an enable. *)
MovePaths(p, way) ==
    IF way = "enable" THEN rows[p].parked
    ELSE (rows[p].man \ rows[p].parked) \ ConfigPaths

SubmitToggle ==
    \E p \in Packages, way \in {"enable", "disable"} :
        /\ Installed(p)
        /\ rows[p].enabled # (IF way = "enable" THEN "yes" ELSE "no")
        /\ Claim("toggle", [NoJob.want EXCEPT ![p] = way], "ask", {}, "move")
        /\ todo' = MovePaths(p, way)

-----------------------------------------------------------------------------
(* Where a runner ends: the deferred RemoveAll of the staging directory,   *)
(* then the Finish transaction.  A toggle has no staging directory.        *)

Returns(result) ==
    /\ pc' = IF job.kind = "toggle" THEN "finish" ELSE "cleanup"
    /\ outcome' = IF outcome = "interrupted" THEN outcome ELSE result
    /\ todo' = {}

(* rollbackInstall and rollbackUninstall; the first also restores the      *)
(* paths of the packages that had not been reached.                        *)
InstallEntries   == UNION {plan[p].man \cup plan[p].stale : p \in Scope}
SavedConfigs     == {f \in job.configs : save[f] # Absent}
UninstallEntries ==
    SavedConfigs \cup UNION {rows[p].man \ ConfigPaths : p \in Scope}

EntersRollback ==
    /\ pc' = "rollback"
    /\ outcome' = "failed"
    /\ todo' = IF job.kind = "install" THEN InstallEntries ELSE UninstallEntries

-----------------------------------------------------------------------------
(* Install: prepare.  planClosure over the staged packages.                *)

Placed   == {p \in Packages : job.want[p] \in Versions}
Replaces == {p \in Scope : Installed(p)}

(* A path whose owner gives it up in this change is open to every package. *)
Open == UNION {rows[p].man : p \in Replaces}

(* Mutant: an existing config file is overwritten like any other. *)
ChangesOverConfig(p) == Ships[p][job.want[p]]

Changes(p) ==
    {f \in Ships[p][job.want[p]] : ~(f \in ConfigPaths /\ server[f] # Absent)}

(* Mutant: Diff does not look at the other packages' claims. *)
ClaimedByNobody(p) == {}

Claimed(p) == (UNION {rows[q].man : q \in Packages \ {p}}) \ Open

UnownedIn(p) ==
    {f \in Changes(p) : server[f] # Absent /\ \A q \in Packages : f \notin rows[q].man}

NewManifest(p) ==
    IF p \notin Placed THEN {}
    ELSE Changes(p) \ (IF job.answer = "keep" THEN UnownedIn(p) ELSE {})

Refused ==
    \/ \E p \in Scope : Installed(p) /\ rows[p].enabled = "no"
    \/ \E p \in Placed : Changes(p) \cap Claimed(p) # {}
    \/ \E p, q \in Placed : p # q /\ NewManifest(p) \cap NewManifest(q) # {}
    \/ job.answer = "ask" /\ \E p \in Placed : UnownedIn(p) # {}

(* Mutant: setStale does not spare the paths another package takes over. *)
StaleUnspared(p) ==
    (rows[p].man \ (IF p \in Placed THEN Ships[p][job.want[p]] ELSE {})) \ ConfigPaths

Stale(p) ==
    LET shipped == IF p \in Placed THEN Ships[p][job.want[p]] ELSE {} IN
    ((rows[p].man \ shipped) \ ConfigPaths)
        \ UNION {NewManifest(q) : q \in Placed \ {p}}

(* A download or an archive that fails, a refusal and a cancel all end     *)
(* here, with nothing outside the staging directory touched.               *)
Prepare ==
    /\ pc = "prepare"
    /\ staged' = Scope
    /\ \/ /\ ~Refused
          /\ plan' = [p \in Packages |->
                        IF p \in Scope THEN [man |-> NewManifest(p), stale |-> Stale(p)]
                        ELSE NoPlan]
          /\ todo' = UNION {NewManifest(p) \cup Stale(p) : p \in Scope}
          /\ pc' = "save"
          /\ UNCHANGED outcome
       \/ /\ Returns("failed")
          /\ UNCHANGED plan
    /\ UNCHANGED <<rows, server, park, save, prev, job, mark, moved, stuck,
                   before, hit, jobs, puts>>

-----------------------------------------------------------------------------
(* The commit half, shared by install and uninstall.                       *)

(* BackupPaths on one path, from the tree its row says. *)
Source(f) ==
    IF job.kind = "uninstall" /\ ParkedOwner(f) # {}
    THEN park[CHOOSE p \in ParkedOwner(f) : TRUE][f]
    ELSE server[f]

SaveOne ==
    /\ pc = "save"
    /\ \/ \E f \in todo :
            /\ save' = [save EXCEPT ![f] = Source(f)]
            /\ todo' = todo \ {f}
            /\ UNCHANGED <<pc, outcome>>
       \/ Returns("failed") /\ UNCHANGED save
    /\ UNCHANGED <<rows, server, park, staged, prev, job, mark, plan, moved,
                   stuck, before, hit, jobs, puts>>

(* writePrevRows, then the checkpoint (backed_up, or saved).  One that     *)
(* fails ends the job as a failed copy does, in SaveOne.                   *)
MarkSaved ==
    /\ pc = "save" /\ todo = {}
    /\ prev' = [p \in Packages |->
                  IF job.kind = "install" /\ p \in Replaces
                  THEN [row |-> rows[p], stale |-> plan[p].stale] ELSE prev[p]]
    /\ mark' = "saved"
    /\ IF job.kind = "install"
       THEN pc' = "write" /\ UNCHANGED todo
       ELSE pc' = "place" /\ todo' = RemovalPaths(job.want, job.configs)
    /\ UNCHANGED <<rows, server, park, save, staged, job, plan, moved, stuck,
                   outcome, before, hit, jobs, puts>>

(* WriteInstanceMods: every row in one transaction.  enabled is kept on    *)
(* conflict; a removed package's row keeps its version, with no files.     *)
NewRow(p) ==
    [ver |-> IF p \in Placed THEN job.want[p] ELSE rows[p].ver,
     man |-> plan[p].man, parked |-> {},
     enabled |-> IF Installed(p) THEN rows[p].enabled ELSE "yes"]

(* The transaction fails: the job ends with the rows as they were. *)
WriteManifests ==
    /\ pc = "write"
    /\ \/ /\ rows' = [p \in Packages |-> IF p \in Scope THEN NewRow(p) ELSE rows[p]]
          /\ pc' = "written"
          /\ UNCHANGED <<outcome, todo>>
       \/ Returns("failed") /\ UNCHANGED rows
    /\ UNCHANGED <<server, park, save, staged, prev, job, mark, plan, moved,
                   stuck, before, hit, jobs, puts>>

MarkWritten ==
    /\ pc = "written"
    /\ \/ /\ pc' = "place"
          /\ todo' = InstallEntries
          /\ UNCHANGED outcome
       \/ EntersRollback
    /\ UNCHANGED <<rows, server, park, save, staged, prev, job, mark, plan,
                   moved, stuck, before, hit, jobs, puts>>

(* One path of Remove(prevStale) or Apply(changes) of some package, or of  *)
(* removePackage and the ticked config files.  The packages come one after *)
(* the other; had two of them business with one path, whichever came last  *)
(* would decide, so their order is left open.                              *)
PlaceOne(f) ==
    \/ /\ job.kind = "install"
       /\ \/ \E p \in Scope :
               /\ f \in plan[p].man
               /\ server' = [server EXCEPT ![f] = <<p, job.want[p]>>]
          \/ /\ \E p \in Scope : f \in plan[p].stale
             /\ server' = [server EXCEPT ![f] = Absent]
       /\ UNCHANGED park
    \/ /\ job.kind = "uninstall" /\ ParkedOwner(f) # {}
       /\ park' = [p \in Packages |->
                     IF p \in ParkedOwner(f) THEN [park[p] EXCEPT ![f] = Absent] ELSE park[p]]
       /\ UNCHANGED server
    \/ /\ job.kind = "uninstall" /\ ParkedOwner(f) = {}
       /\ server' = [server EXCEPT ![f] = Absent]
       /\ UNCHANGED park

Place ==
    /\ pc = "place"
    /\ \/ \E f \in todo :
            /\ PlaceOne(f)
            /\ todo' = todo \ {f}
            /\ UNCHANGED <<pc, outcome>>
       \/ EntersRollback /\ UNCHANGED <<server, park>>
    /\ UNCHANGED <<rows, save, staged, prev, job, mark, plan, moved, stuck,
                   before, hit, jobs, puts>>

(* The last checkpoint (applied, or removed); the runner returns.  One     *)
(* that fails enters the rollback as a failed write does, in Place.        *)
MarkApplied ==
    /\ pc = "place" /\ todo = {}
    /\ Returns("ok")
    /\ UNCHANGED <<rows, server, park, save, staged, prev, job, mark, plan,
                   moved, stuck, before, hit, jobs, puts>>

-----------------------------------------------------------------------------
(* Rollback, by the job itself and by the boot sweep.                      *)

(* installer.Rollback on one path: a saved copy goes back, a path without  *)
(* one is the job's own to delete. *)
RollbackOne(f) ==
    IF job.kind = "uninstall" /\ ParkedOwner(f) # {}
    THEN /\ park' = [p \in Packages |->
                       IF p \in ParkedOwner(f) THEN [park[p] EXCEPT ![f] = save[f]] ELSE park[p]]
         /\ UNCHANGED server
    ELSE /\ server' = [server EXCEPT ![f] = save[f]]
         /\ UNCHANGED park

(* A path that cannot be written keeps its package's row as it is. *)
Stick(f) ==
    /\ "stuck" \in Mishaps
    /\ hit' = hit \cup {"stuck"}
    /\ stuck' = stuck \cup {p \in Scope : f \in rows[p].man \cup prev[p].stale}
    /\ UNCHANGED <<server, park>>

Rollback ==
    /\ pc = "rollback"
    /\ \E f \in todo :
        /\ \/ RollbackOne(f) /\ UNCHANGED <<stuck, hit>>
           \/ Stick(f)
        /\ todo' = todo \ {f}
    /\ UNCHANGED <<rows, save, staged, prev, job, mark, plan, pc, moved,
                   outcome, before, jobs, puts>>

(* Mutant: the sweep also undoes a package whose row was never rewritten. *)
RewrittenAll == {p \in staged : Installed(p)}

(* What the sweep undoes: the staged packages whose row is not still the   *)
(* one the job found. *)
Rewritten ==
    {p \in staged : Installed(p) /\ ~(prev[p] # NoPrev /\ rows[p] = prev[p].row)}

RolledBack == (IF outcome = "interrupted" THEN Rewritten ELSE Scope) \ stuck

(* RollbackInstanceMods: the replaced rows come back, the added ones go.   *)
(* The transaction can fail; the job or the sweep ends all the same.       *)
RollbackRows ==
    /\ pc = "rollback" /\ todo = {}
    /\ \/ /\ rows' = [p \in Packages |->
                        IF job.kind = "install" /\ p \in RolledBack
                        THEN prev[p].row ELSE rows[p]]
          /\ UNCHANGED hit
       \/ /\ job.kind = "install" /\ "stuck" \in Mishaps
          /\ hit' = hit \cup {"stuck"}
          /\ UNCHANGED rows
    /\ Returns("failed")
    /\ UNCHANGED <<server, park, save, staged, prev, job, mark, plan, moved,
                   stuck, before, jobs, puts>>

-----------------------------------------------------------------------------
(* The toggle: each file is copied to the other tree, then removed.        *)

Toggled == CHOOSE p \in Packages : job.want[p] # "-"
Way     == job.want[Toggled]

(* The copy half of parkOne or unparkOne, and its refusals: nothing at the *)
(* path to park, a different file in the way of an enable.                 *)
MoveCopy(f) ==
    LET p == Toggled IN
    IF Way = "disable"
    THEN IF server[f] = Absent
         THEN todo' = todo \ {f} /\ UNCHANGED <<server, park>>
         ELSE park' = [park EXCEPT ![p][f] = server[f]] /\ UNCHANGED <<server, todo>>
    ELSE /\ park[p][f] # Absent /\ server[f] = Absent
         /\ server' = [server EXCEPT ![f] = park[p][f]]
         /\ UNCHANGED <<park, todo>>

(* The removal half, once both trees hold the same bytes. *)
MoveDrop(f) ==
    LET p == Toggled IN
    /\ server[f] # Absent /\ server[f] = park[p][f]
    /\ IF Way = "disable"
       THEN server' = [server EXCEPT ![f] = Absent] /\ UNCHANGED park
       ELSE park' = [park EXCEPT ![p][f] = Absent] /\ UNCHANGED server
    /\ todo' = todo \ {f}

Settleable(p) == rows[p].man \ ConfigPaths

Move ==
    /\ pc = "move"
    /\ \/ \E f \in todo :
            /\ \/ MoveCopy(f) /\ UNCHANGED moved
               \/ MoveDrop(f) /\ moved' = moved \cup {f}
            /\ UNCHANGED <<pc, outcome>>
       \/ /\ pc' = "settle"
          /\ outcome' = "failed"
          /\ todo' = Settleable(Toggled)
          /\ UNCHANGED <<server, park, moved>>
    /\ UNCHANGED <<rows, save, staged, prev, job, mark, plan, stuck, before,
                   hit, jobs, puts>>

MoveDone ==
    /\ pc = "move" /\ todo = {}
    /\ Returns("ok")
    /\ UNCHANGED <<rows, server, park, save, staged, prev, job, mark, plan,
                   moved, stuck, before, hit, jobs, puts>>

(* settleOne: the file goes where the unchanged row says.  Found in both   *)
(* trees with the same bytes it loses the stray copy, with different bytes *)
(* it is left alone.                                                       *)
SettleOne(f) ==
    LET p == Toggled
        here  == IF f \in rows[p].parked THEN park[p][f] ELSE server[f]
        there == IF f \in rows[p].parked THEN server[f] ELSE park[p][f] IN
    IF there = Absent \/ (here # Absent /\ here # there)
    THEN todo' = todo \ {f} /\ UNCHANGED <<server, park>>
    ELSE IF here = Absent
    THEN /\ UNCHANGED todo
         /\ IF f \in rows[p].parked
            THEN park' = [park EXCEPT ![p][f] = there] /\ UNCHANGED server
            ELSE server' = [server EXCEPT ![f] = there] /\ UNCHANGED park
    ELSE /\ todo' = todo \ {f}
         /\ IF f \in rows[p].parked
            THEN server' = [server EXCEPT ![f] = Absent] /\ UNCHANGED park
            ELSE park' = [park EXCEPT ![p][f] = Absent] /\ UNCHANGED server

Settle ==
    /\ pc = "settle"
    /\ \E f \in todo : SettleOne(f)
    /\ UNCHANGED <<rows, save, staged, prev, job, mark, plan, pc, moved, stuck,
                   outcome, before, hit, jobs, puts>>

SettleDone ==
    /\ pc = "settle" /\ todo = {}
    /\ IF outcome = "interrupted"
       THEN pc' = "idle" /\ job' = NoJob
       ELSE pc' = "finish" /\ UNCHANGED job
    /\ UNCHANGED <<rows, server, park, save, staged, prev, mark, plan, todo,
                   moved, stuck, outcome, before, hit, jobs, puts>>

-----------------------------------------------------------------------------
(* The end of a job.                                                       *)

(* The runner's, and the sweep's, deferred os.RemoveAll(StagingDir).  The  *)
(* runner's comes before the Finish transaction.                           *)
Cleanup ==
    /\ pc = "cleanup"
    /\ EmptyStaging
    /\ plan' = [p \in Packages |-> NoPlan]
    /\ IF outcome = "interrupted"
       THEN pc' = "idle" /\ job' = NoJob
       ELSE pc' = "finish" /\ UNCHANGED job
    /\ UNCHANGED <<rows, server, park, mark, todo, moved, stuck, outcome,
                   before, hit, jobs, puts>>

(* OnFinish: finishInstall and finishUninstall delete rows, finishToggle   *)
(* flips one.  AfterFinish then drops the emptied parking directories.     *)
FinishedRow(p) ==
    IF job.want[p] = "remove" THEN NoRow
    ELSE IF job.kind = "toggle"
    THEN [ver |-> rows[p].ver, man |-> rows[p].man,
          parked |-> IF Way = "enable" THEN {} ELSE moved,
          enabled |-> IF Way = "enable" THEN "yes" ELSE "no"]
    ELSE rows[p]

EmptiesPark(p) ==
    \/ job.kind = "uninstall"
    \/ job.kind = "toggle" /\ Way = "enable"

Finish ==
    /\ pc = "finish"
    /\ IF outcome = "ok"
       THEN /\ rows' = [p \in Packages |-> IF p \in Scope THEN FinishedRow(p) ELSE rows[p]]
            /\ park' = [p \in Packages |->
                          IF p \in Scope /\ EmptiesPark(p) THEN NoFiles ELSE park[p]]
       ELSE UNCHANGED <<rows, park>>
    /\ pc' = "idle"
    /\ moved' = {}
    /\ UNCHANGED <<server, save, staged, prev, job, mark, plan, todo, stuck,
                   outcome, before, hit, jobs, puts>>

-----------------------------------------------------------------------------
(* Kill and boot.                                                          *)

(* The moments a kill is more than an ordinary one: before an uninstall's  *)
(* saved checkpoint, while the staging directory is being removed, between *)
(* that and the Finish commit (which a Finish that fails also amounts to), *)
(* and in the sweep, whose job row is already closed.                      *)
Moment ==
    IF outcome = "interrupted" THEN {"sweep"}
    ELSE IF pc = "cleanup" THEN {"cleanup"}
    ELSE IF pc = "finish" /\ job.kind # "toggle" THEN {"finish"}
    ELSE IF job.kind = "uninstall" /\ mark = "none" THEN {"saving"}
    ELSE {}

(* A kill loses what was in memory; one inside RemoveAll, which takes the  *)
(* entries in directory order, also some part of the staging directory.    *)
Kill ==
    /\ pc \notin {"idle", "down"}
    /\ Moment \subseteq Mishaps
    /\ hit' = hit \cup Moment
    /\ IF pc = "cleanup"
       THEN \E lost \in SUBSET Paths, gone \in SUBSET Packages, rest \in SUBSET Packages :
              /\ save' = [f \in Paths |-> IF f \in lost THEN Absent ELSE save[f]]
              /\ staged' = staged \ gone
              /\ prev' = [p \in Packages |-> IF p \in rest THEN NoPrev ELSE prev[p]]
       ELSE UNCHANGED <<save, staged, prev>>
    /\ job' = IF outcome = "interrupted" THEN NoJob ELSE job
    /\ pc' = "down"
    /\ plan' = [p \in Packages |-> NoPlan]
    /\ todo' = {} /\ moved' = {} /\ stuck' = {}
    /\ UNCHANGED <<rows, server, park, mark, outcome, before, jobs, puts>>

(* SweepModInstall, SweepModUninstall, SweepModToggle: the row is closed   *)
(* as interrupted, then the job's files are settled.                       *)
Boot ==
    /\ pc = "down"
    /\ outcome' = "interrupted"
    /\ \/ /\ job.kind = "install" /\ mark # "none"
          /\ pc' = "rollback"
          /\ todo' = UNION {rows[p].man \cup prev[p].stale : p \in Rewritten}
       \/ /\ job.kind = "install" /\ mark = "none"
          /\ pc' = "cleanup" /\ todo' = {}
       \/ /\ job.kind = "uninstall"
          /\ pc' = "rollback" /\ todo' = UninstallEntries
       \/ /\ job.kind = "toggle"
          /\ pc' = "settle" /\ todo' = Settleable(Toggled)
       \/ /\ job.kind = "none"
          /\ pc' = "idle" /\ todo' = {}
    /\ UNCHANGED <<rows, server, park, save, staged, prev, job, mark, plan,
                   moved, stuck, before, hit, jobs, puts>>

-----------------------------------------------------------------------------
(* The operator, between jobs: a file placed by hand where there is none,  *)
(* or a config file edited.                                                *)
Put ==
    /\ pc = "idle"
    /\ puts < MaxPuts
    /\ puts' = puts + 1
    /\ \E f \in Paths :
        /\ server[f] = Absent \/ f \in ConfigPaths
        /\ server' = [server EXCEPT ![f] = User]
    /\ outcome' = "none"
    /\ UNCHANGED <<rows, park, save, staged, prev, job, mark, plan, pc, todo,
                   moved, stuck, before, hit, jobs>>

(* Nothing left to do within the bounds. *)
Rest ==
    /\ pc = "idle" /\ jobs = MaxJobs
    /\ UNCHANGED vars

Next ==
    \/ Submit \/ SubmitUninstall \/ SubmitToggle
    \/ Prepare \/ SaveOne \/ MarkSaved \/ WriteManifests \/ MarkWritten
    \/ Place \/ MarkApplied \/ Rollback \/ RollbackRows
    \/ Move \/ MoveDone \/ Settle \/ SettleDone
    \/ Cleanup \/ Finish \/ Kill \/ Boot \/ Put \/ Rest

Spec == Init /\ [][Next]_vars

-----------------------------------------------------------------------------
(* Properties.                                                             *)

(* Every variable keeps its shape. *)
TypeOK ==
    /\ rows \in [Packages -> Rows]
    /\ server \in [Paths -> Content]
    /\ park \in [Packages -> [Paths -> Content]]
    /\ save \in [Paths -> Content]
    /\ staged \subseteq Packages
    /\ prev \in [Packages -> [row : Rows, stale : SUBSET Paths]]
    /\ job \in [kind : {"none", "install", "uninstall", "toggle"},
                want : [Packages -> Versions \cup {"-", "remove", "enable", "disable"}],
                answer : {"ask", "keep", "replace"}, configs : SUBSET ConfigPaths]
    /\ mark \in {"none", "saved"}
    /\ plan \in [Packages -> [man : SUBSET Paths, stale : SUBSET Paths]]
    /\ pc \in PCs
    /\ todo \subseteq Paths /\ moved \subseteq Paths /\ stuck \subseteq Packages
    /\ outcome \in {"none", "running", "ok", "failed", "interrupted"}
    /\ before \in [rows : [Packages -> Rows], server : [Paths -> Content],
                   park : [Packages -> [Paths -> Content]]]
    /\ hit \subseteq AllMishaps
    /\ jobs \in 0..MaxJobs /\ puts \in 0..MaxPuts

(* A mod job that fails, is refused, is cancelled or is killed leaves rows, *)
(* server tree and parking tree exactly as they were when it was claimed:   *)
(* the runner's rollback (rollback.go, uninstall.go, toggle.go) and the     *)
(* boot sweep (recovery.go) undo any prefix of the work, the sweep also     *)
(* after a rollback that was itself killed.  The mishaps of Moment and a    *)
(* rollback that cannot write are excepted.                                 *)
AllOrNothing ==
    pc = "idle" /\ outcome \in {"failed", "interrupted"} /\ hit = {}
        => Snapshot = before

(* Between jobs the rows describe the disk (ADR-009): each manifest path    *)
(* outside BepInEx/config/ holds its package's bytes at the recorded        *)
(* version, in the tree the entry names, and every file a package ever      *)
(* wrote there is in its row's manifest, so that nothing BepInEx would load *)
(* escapes an uninstall.                                                    *)
RowsDescribeFiles ==
    pc = "idle" /\ hit = {} =>
        \A p \in Packages, f \in Paths \ ConfigPaths :
            /\ (f \in rows[p].man \ rows[p].parked) <=> (server[f] = <<p, rows[p].ver>>)
            /\ (f \in rows[p].parked) <=> (park[p][f] = <<p, rows[p].ver>>)
            /\ \A v \in Versions \ {rows[p].ver} :
                  server[f] # <<p, v>> /\ park[p][f] # <<p, v>>

(* No path is in two packages' manifests, in the middle of a job too and    *)
(* after a kill wherever but inside RemoveAll: planClosure opens the paths  *)
(* of every package it updates or removes, lets only one of them take each, *)
(* and a rollback gives all of them back at once.  Otherwise one package's  *)
(* uninstall would delete the other's file (Diff's comment, diff.go).       *)
OneOwner ==
    hit \cap {"stuck", "cleanup"} = {} =>
    \A p, q \in Packages : p # q => rows[p].man \cap rows[q].man = {}

(* A file the operator wrote by hand is still there after a mod job that    *)
(* succeeded, unless it is a config file ticked for removal or a file the   *)
(* operator answered "replace" to; an update, a removal, a disable and an   *)
(* enable never touch it (B10).                                             *)
UserFilesKept ==
    pc = "idle" /\ outcome = "ok" /\ hit = {} =>
        \A f \in Paths :
            before.server[f] = User =>
                \/ server[f] = User
                \/ f \in job.configs
                \/ job.answer = "replace" /\ f \notin ConfigPaths

(* What SweepModUninstall's comments promise of an interrupted uninstall:   *)
(* it is rolled back by restoring the files it saved, wherever the kill     *)
(* fell before the saved checkpoint.                                        *)
InterruptedUninstallRestored ==
    pc = "idle" /\ outcome = "interrupted" /\ hit \subseteq {"saving"}
        => Snapshot = before

=============================================================================
