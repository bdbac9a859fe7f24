# Valmin in TLA+

Valmin runs Valheim servers on one Linux host. One daemon, `valmind`, owns a
SQLite database, a data directory and the host's Docker Engine. Nothing spans
the three: a transaction covers a change of rows, never the work. What keeps
them together is the order in which the code does things, and what it does at
the next boot about whatever it had not finished. This project models that part
of the program: the job engine and the daemon's lease, the life of an instance
and everything that changes it, worlds, archives and their copies, mods and
their configuration, accounts and what they may see, and the clocks that start
and stop servers by themselves.

All paths below are relative to the repository. Every definition that models
code is listed with its lines in `PROJECT.json` under `map`.

## 1. Inventory

### The parts that decide

| Part | State | Operations | Module |
| --- | --- | --- | --- |
| Job engine, `internal/jobs`, `internal/store/jobs.go` | `job_runs`, `job_locks`, one goroutine per job | claim, checkpoint, renew, cancel, finish, abandon, drain, sweep, prune | `JobEngine` |
| Daemon process and lease, `cmd/valmind`, `internal/store/lease.go` | the flock, `kv["daemon_lease"]` | acquire, refuse, renew, drain, release, crash | `DaemonLease` |
| Instance lifecycle, `internal/instance/state.go`, `internal/instance/control` | `instances.state`, the container, checkpoints, resume intents | submissions, Runners, finishes, acknowledge | `InstanceLifecycle` |
| Supervisor and observer, `control/supervisor.go`, `instance/observe.go` | owed stops, crash-loop evidence | boot recovery, a pass every 10 s, protective stops | `InstanceLifecycle` |
| Provisioning, builds, adoption, `instance/provision.go`, `api/provision.go`, `api/adoption.go` | `instances` rows, names and ports, the build cache, SteamCMD helpers | create, provision, retry, adopt, delete | `Provisioning` |
| Instance settings, `api/instances.go`, `store/instances.go` | the launch and policy columns, `restart_required`, the container's settings | PATCH, rebuild at start | `InstanceSettings` |
| World and server-tree swap, `internal/backup/restore.go` | `live`, `live.old`, `live.new`, the completion marker | stage, swap, carry autosaves, recover | `WorldSwap`, `AtomicReplace` |
| Backups, `internal/backup`, `control/backup.go`, `control/prune.go` | `backups` rows, archive files, world flags, links | back up, snapshot, check, prune, delete, acknowledge | `Backups` |
| Remote copies, `internal/backup/remotecopy` | `remote_copies`, destinations, objects | upload, retry, cancel, retain, clean up | `RemoteCopies` |
| Saved setups, `control/setup_*.go`, `store/setups.go` | `saved_setups`, retained packages, the restore journal | save, restore, roll back, delete, recover | `Setups` |
| Mod jobs, `internal/mods/manager`, `internal/mods/installer` | `instance_mods`, the server tree, the parking tree, staging | install/update, uninstall, disable/enable, rollback, sweep | `ModTransaction` |
| Mod configuration, `api/configs.go`, `mods/config`, `control/config_apply.go` | a `.cfg` file, its `.pending` copy | edit, import, delete, settle at stop and start | `ConfigFiles` |
| Operations, chains, mod queue, auto-stop, `control/operations.go`, `chain*.go`, `mod_queue.go`, `autostop.go` | operation rows, queued installs, owed starts, the idle clock | run a step as a child job, wait, resume, drain | `JobSequences` |
| Update trial, `control/update_trial.go`, `clone.go`, `game_update.go` | the server, its test copy, builds and mods | test, pass, apply, delete | `UpdateTrial` |
| Scheduler and power-cut clock, `internal/scheduler` | `schedules`, `planned_shutdowns` | fire, hold, skip, warn, stop | `ScheduleClock` |
| Alerts and outbox, `internal/alerts`, `internal/notify/delivery` | conditions, claims, rules, webhooks, deliveries | scan, claim, announce, dispatch, send, give up | `Outbox` |
| Accounts, `internal/auth`, `store/users.go`, `store/sessions.go`, `store/invites.go` | users, sessions, invites, the setup token | set up, log in, administer, invite, redeem | `Accounts` |
| Permissions and the hub, `internal/authz`, `internal/ws` | grants, connections, subscriptions, queues | grant, revoke, subscribe, re-check, push, replay | `WsHub`, `WsStream` |

The rest (resolver and planner, mod cache, configuration of the daemon, log
patterns, RCON client, exports and share codes, diagnostics, the Discord
gateway, the frontend, deployment) either only reads, or converts, or talks to a
program outside the repository. `PROJECT.json` lists each with its reason.

### What is hard

- *Interleavings.* The observer reads the lock table, the rows and Docker one
  after the other and then writes a row by compare-and-swap on its state alone.
  A handler reads a row, validates and writes later without a lock; two jobs
  select what to prune from different catalogues; a subscription is authorized
  and then registered; a second daemon may start.
- *Crashes.* The daemon may be killed between any two file-system calls and
  between a commit and the callback behind it, also while it is recovering. A
  SteamCMD helper outlives it.
- *Partial failure.* A Finish transaction that rolls back; a rollback of files
  that cannot write; a renewal that cannot reach the database; an upload of which
  only the archive arrived.
- *Time.* The lease is compared with a clock; recovery and drain do not renew.
  What a trial tested is applied much later.
- *Long sequences.* What one job leaves behind (a marker, a `.old` directory, a
  staging directory, a parked file, a journal) meets the next job, or the one
  after it.

`PROJECT.json` lists these hazards at the line where each bites.

### What makes each part correct

- Jobs: the locks agree with the rows, two jobs on one key never work at once, a
  terminal status is final, no dead job keeps a lock, every job ends.
- Lease: one daemon; a daemon at work is covered by its own row; a stale row
  blocks a restart no longer than the TTL.
- Lifecycle: only legal edges; an unproven world or tree is never started; the
  observer keeps off locked rows; a quiesced server comes back; nothing stays
  in a transient state.
- Builds: what the cache publishes is whole, and a row names the build that runs.
- Settings: the stored row can be started, and says when the running server
  differs from it.
- Swap: no truncated world under the name the server loads, no world lost, one
  tree at rest, all or nothing.
- Archives: a row means a file; a linked archive is catalogued; retention keeps the
  last archive worth restoring, here and at each destination.
- Setups: a restore is whole or undone; a saved setup stays restorable.
- Mods: a failed job changes nothing, rows describe the disk, one owner per
  path, the operator's files stay; a game loads the configuration last saved.
- Sequences: completed means built; chains end; an owed start comes.
- Trials: what is applied is what was tested, and nothing older.
- Clocks: every occurrence runs once, also across a clock change; a run held for
  players waits its whole deferral; a server is down when the power goes off.
- Outbox: an edge is announced once; every delivery is settled.
- Access: one owner who can administer; one account per invite; a socket shows only
  what its account may see now, and loses no line in silence.

## 2. Plan

The modules were written in the order of how much of the system depends on each:
`JobEngine` and `DaemonLease`, `WorldSwap` over the abstract `AtomicReplace`,
`InstanceLifecycle`, `ModTransaction`, `ScheduleClock`, then `Outbox`,
`RemoteCopies`, `JobSequences`, `UpdateTrial`, `Provisioning`,
`InstanceSettings`, `Setups`, `Backups`, `ConfigFiles`, `Accounts`, `WsHub`,
`WsStream`.

Left: the planner as pure operators against reference definitions (dependency
closure, removal set, version order), and the log reader's ring. Every safety
property of a passing run is also a theorem (section 5).

## 3. Modules and the code

### JobEngine

`status`, `owner`, `cancelReq`, `past` are the columns of `job_runs` that decide
anything; `lock` is `job_locks`; `leaseRow` the unexpired lease row; `proc`,
`stale`, `runner`, `worker`, `outcome`, `cancelCall` are in memory. One action is
one transaction or one step between two. Jobs are submitted (`Claim`), work,
checkpoint, lose their lease, are asked to cancel (a read and, later, a write),
return an outcome, and finish in a transaction that may roll back. A process
passes its startup gate, reads the stale rows, closes them one by one, resubmits
update checks, serves, drains and dies. A boot id never returns, since the lease
owner contains a fresh id.

### DaemonLease

The lease against a clock in ticks. `JobEngine` lets the lease expire whenever it
likes; this module says when it can. A healthy process does what is due before
the clock moves on; `MaxRecover`, `Grace` and one missed renewal bound what it may
be late by. `TimingSafe` is `MaxRecover + 2 * Period + Grace < TTL`.

### WorldSwap and AtomicReplace

`live`, `old`, `staged` are the directories, `marker` the file beside the staged
one. `pc` is the next file-system call and `mode` says for whom: the job, its
abandonment, the prelude of the next job, or the recovery at boot. Each attempt
brings a world numbered by the attempt. A tree records whether it is whole and
which rolling autosaves it holds, because a restore carries those over one by
one. `View` maps the directories to the one world recovery would make of them;
under it the swap refines `AtomicReplace`.

### InstanceLifecycle

`state` is `instances.state`; `cont` the container; `lock` the kind of the job
holding the instance; `step` its place in its Runner; `fin` the compare-and-swap
its Finish will make. A Runner is cut where it writes the row, touches the
container or returns. The observer's pass is four steps: the locks, the row,
Docker and the verdict, the write. `promised` and `unproven` are history
variables. `Faults` names the accidents a run admits.

### ModTransaction

`rows` is `instance_mods`, with the parked entries of each manifest beside it;
`server` and `park` map paths to bytes, as `<<package, version>>`, the operator's,
or none. `save`, `staged`, `prev` are the three parts of a job's staging
directory; `job` and `mark` are on the job row and survive a kill; `plan`, `todo`,
`moved`, `stuck` are in memory and do not. The closure is any the resolver could
return. Every file copied, removed or restored is a step, in any order.
`Mishaps` are the moments at which a kill or an error is known to do damage the
code does not undo (section 6); `hit` records them, and the properties say which
of them they except.

### ScheduleClock

Time is counted in ticks of the scheduler (a minute). The power-cut clock looks
every 10 s; here it also looks once a tick, which is the slower and so the harder
case, and `StopLead` has the tick added to the stop timeout as in the code. A
zone is an offset per instant, an expression the set of wall readings it matches; `NextRun`
is the code's, with its two daylight-saving rules, and `Occurrences` says the same
thing independently of it. `row` is the schedule, `tick` the scheduler's copy of
it and its place in `fire`, `patch` the copy an edit has read. A tick is five
steps: read what is due, hold or go, look again, enqueue or skip, advance. A PATCH
is two, and time may pass between them because the body is decoded after the row
is read. `cuts` is `planned_shutdowns`; its clock submits a stop on every tick in
the stop window. `inst` and `job` stand for the instance and its lock, which
`InstanceLifecycle` models. `ran`, `hit` and the row's `from` are history.
`max_deferral_seconds` is a constant: an edit of it moves a deadline and nothing
else. A time zone edit is an edit of the expression.

### Provisioning

`instances` has the columns that decide: state, name, port, branch, build, container.
`docker` is the container labelled with each identifier, `installed` the build in
its server directory. `prov` is the place of a provision job in its Runner, and
`reached` whether it wrote a checkpoint, which decides what a boot does with it.
`dirs` are the directories of the build cache and `helpers` the SteamCMD
containers that write them, also after the panel that started them died. A
request allocates a port and inserts its row in two steps, with a retry when
another took the port. Steam publishes at any time; a locked branch is not listed
by a query, so its build is known only from what was downloaded.

### InstanceSettings

One row whose columns have two values each, and the container made from it. A PATCH
is two steps: what it was allowed, read and validated, and the write of the column
groups it touched. `starter` is a start under way, which rebuilds the container when
it drifted from the row. `rival` is another server with the second name.

### Backups, RemoteCopies, Setups

`Backups` is the catalogue of one server. `op` holds the server's lock (a backup, a
snapshot, the save of a setup), `pruner` the artifact lock; each keeps what it
selected until its transaction. `worldcheck` is modelled by what it decides of the
pair of files and of a directory of generations. `live` in a row is history: the
server ran during the copy.

`RemoteCopies` has one row per archive and destination. The one job under
`global:remote_backup` uploads archive and manifest, or deletes both; retention
lists the copies and then marks and unmarks them one by one. Backends are calls
that may fail. `cloud` is what is really there.

`Setups` is a snapshot of launch settings, managed files and a configuration file,
one file per package. A restore saves aside, journals, removes, applies, commits;
the recovery of a dead one replays the journal. The world archive taken before a
restore and pending configuration copies are left out.

### ConfigFiles

One file, its pending copy and the plugin that loaded it. A save is several steps:
the row, the lock, the file read, the pending copy, the file written. The plugin
may write what it loaded back at any time and when it stops. `wanted` is what the
panel told its users. A document is a function from settings to values, so the
merge of a pending copy is the override of one function by another.

### JobSequences

One server with its lock (`task`), the lock of a chain (`chain`), an operation
row with its cursor, the queue of mod installs and the start owed for it. What a
job does is whether it succeeded and the step it left in `built`. `followUps` are
the AfterFinish callbacks still to run, `resumes` what each concurrent resume
request has read. Chains run children under the instance lock and wait for states,
players and time.

### UpdateTrial

The server and its copy with build and mods as numbers, what each last started
with, and the job under the lock of each. A test clones, updates the copy to what
is offered at that moment, starts it and marks it passed; an apply was computed
from the copy when it was asked for. `touched` and `overtaken` record that somebody
else updated the copy, or the server after the apply was asked for.

### Outbox

`facts` is what a scan would read; a scan opens and closes conditions, and each rule
claims an edge and writes its deliveries in one transaction. The dispatcher lists
pending rows and submits a send job for each; the send ends delivered, failed or
pending again. Time of day matters only through quiet hours.

### Accounts, WsHub, WsStream

`Accounts` cuts every request that decides on what it read into its admission and
its transaction; sessions, setup tokens and invites expire at any time. Hashes are
the passwords they were made from, with a flag for parameters that are too weak.

`WsHub` is the authorization function, the grants, and the connections. A handler
commits, then tells the hub, which visits the connections one at a time; each
connection's read loop authorizes, registers and, when the grant generation moved,
asks again.

`WsStream` is one connection's outbound side: the ring of the source, the replay,
the lossy and the lossless queue and the write loop, with what the client was told.

## 4. Runs

Modules that share no state are checked in one run: its MC module extends them, the
variable `part` is chosen in the initial state and never changes, a step is a step
of that part, and the parts that do not run keep one initial state. A behaviour of
such a run is a behaviour of one module; nothing is multiplied. Where the deadlock
check is kept for one part, the others may rest (`Rests`), because their bounds
leave them nothing to do. Elsewhere it is off for the same reason.

| Run | Question | Bounds |
| --- | --- | --- |
| `jobs_and_outbox` | Locks, exclusion, recovery, finality, termination; edges announced once, deliveries settled | 3 jobs on 2 keys, one claiming both, 2 boots; 1 server, webhook and rule of every kind, 2 conditions, 2 deliveries, 1 kill |
| `lease_accounts_and_sockets` | Does the lease exclude under `TimingSafe`, and for how long does it block? Is there one owner, one account per invite? Sockets after a revocation | 3 boots on 2 hosts, TTL 9, 18 ticks; 3 accounts, 1 session, 1 invite, 2 requests at once, 2 starts; 1 connection, 2 writes of a grant |
| `swap_copies_and_trial` | The swap with every call failing; remote retention; what an apply installs; lost console lines | 3 attempts, 2 autosaves, all four callers; 2 archives at 2 destinations, 1 edit, 1 kill; 2 versions, 3 acts of others, 1 kill; 6 lines, a ring and a queue of 2 |
| `swap_backups_and_setups` | Is the swap atomic when calls fail only before the first rename? Catalogue, retention, setups | 3 attempts, without import; 3 archives, 1 act of an operator, 1 kill; 2 setups, 2 layouts, 2 edits, 2 kills, 1 failure |
| `lifecycle_and_sequences` | Lock, restart, observer and progress; operations, chains, queue | 3 jobs, 3 accidents; a definition of 4 steps, 3 chains, 2 resumes at once, 3 requests, 1 kill |
| `lifecycle_and_builds` | Unproven trees with every accident; builds | 3 jobs, 3 accidents; 2 identifiers, names, ports, requests, branches and builds, 1 kill, 1 mishap |
| `mods_and_configs` | All or nothing, rows and files, owners, the operator's files; saved values at the next start | 2 packages, 2 versions, 3 paths, 2 jobs, 1 hand-placed file; 2 settings with 2 values, 2 saves, 2 runs, 1 kill |
| `schedule_and_settings` | Are occurrences run once and none passed over, holds honoured, servers down at a power cut? Crossing edits | a day of 8 ticks with both clock changes, 2 expressions, 1 edit, 1 power cut, 1 accident; 2 requests at once of 3, 4 columns, 3 sets of rights |
| `swap_import` | *Violated:* the promise of the swap for an interrupted import | 1 attempt |
| `lifecycle_drain` | *Violated:* the promised restart across a shutdown | 1 job, 1 shutdown |
| `mods_uninstall` | *Violated:* an uninstall killed while it saves | 1 job |
| `backup_consistent` | *Violated:* a consistent archive was copied from a stopped server | 3 archives |

Why the bounds are enough to be interesting. Two jobs on a key and one across two
keys give every conflict a lock can have; a second boot gives a sweep, and the
first may die anywhere. Two TTLs give a lease taken, lost, waited for and taken
again. The swap needs a third attempt to meet what the second left after the
first; damage by leftovers shows at two. Three lifecycle jobs are a job, the one
its finish submits, and an operator's in between. In `mods_and_configs` version 2
swaps the files of the two packages, so a combined update moves each file to the
other owner; the second job works on what the first one left. That run stops
searching (`UpToMishap`) after a kill inside the removal of the staging directory
and after a rollback that could not write, of which no property speaks. The day of
the schedule has two readings that are never shown and two shown twice, an
expression that matches one of each and one that matches every hour; it stops
after one accident (`OneAccident`), since each exception a property makes needs
only one. Two ticks stand for the hour of a clock change, two for the deferral,
and four for the quiet time, the least that meets `TimingFits`.

Two requests at once are the race of every handler that reads and then writes.
Three accounts are an owner and two others who race for one invite or edit each
other. Two archives of one class, one of them flagged, are what retention must
choose from, and a third shows two selections keeping different ones. Two
deliveries are both edges of a condition. Three acts of others around an update
trial are the least that lets somebody update the copy, the apply be asked for and
the server be started or stopped in between. A console source of 6 lines overflows
a ring and a queue of 2 twice.

Symmetry is used for identifiers nothing tells apart (requests, names, ports,
setups, authors), never in the two runs with liveness. Where it would cost more than
it saves, a new identifier is the first free one (accounts, servers, resume
requests), and an initial value that a later step can change, or that is like any
other, is fixed by the MC module: the expression of the schedule, the retention
settings, the launch settings, the destination configured first, the file that is
there to be edited.

Each property of a passing run has a mutant in `PROJECT.json`: a definition in
the module, before the one it stands in for, written as a plausible slip in
that code, under which the property fails.

### Fairness

`JobEngine!FairSpec`: weak fairness of a Runner's return and of its Finish; each
goroutine runs until it returns, and Runners have deadlines. Boots, cancellation
and crashes have none. `EveryJobEnds` therefore assumes that some process
eventually serves for good, and excepts jobs whose own Finish rolls back: their
row waits for a boot.

`Outbox!OutboxFairness`: the dispatcher's ticker, its submissions and an admitted
send. Scans, edits, answers and kills have none.

`InstanceLifecycle!FairSpec`: weak fairness of the Runner and its callback, of the
observer (a 10 s ticker), of a protective stop (a goroutine), and of the restart of
the panel (a service manager, `restart: unless-stopped` in the compose file).
Nothing obliges an operator, Docker or an accident.

`JobSequences!SequencesFairness`: an admitted job ends, its callbacks run, the
chain's goroutine and the supervisor's drain go on (a wait has a limit of its own),
and a power cut passes. Users and players owe nothing.

## 5. Proofs

Checked by TLAPS, for every value of the constants that meets the named
assumptions.

**JobEngineProofs.** `TypeCorrect` uses `TInv`: types, and that a returned Runner
left a terminal outcome. `LocksAgree` (`LocksMatchRows`) is inductive over `TInv`
with any number of hosts: claim, finish, sweep and prune each change a row and all
its keys together. The other four assume one host. `HInv` carries them: at most
one live process, every working goroutine belongs to it and owns its running row,
a row still to be swept is not its own, and past the read of the stale rows every
running row is its own or still to sweep. The last is what `RecoveryIsComplete`
needs, and it is not inductive without the third. `WorkIsExclusive` combines
`HInv` with `LocksAgree`; `TerminalStatusIsFinal` and `SweepIsSafe` are action
properties from `HInv`.

`CopiesAlwaysKept` (`CopiesKept` of `RemoteCopies`), for every destination, every
finite set of archives and any number of retention passes at once. A pass reads,
decides and marks in separate steps and the cleanup comes later still, so the last
good copy is not inductive. `DoomedReplaced` and `DoomedPastLimit` say of everything
retention has taken, or is about to take (marked, selected by a pass, in the hands
of a cleanup), that a good copy of its class arrived later, and as many copies as
are kept. What arrived never leaves that count, so lemma `MarkStays` gets that a
later pass does not take a mark back, which would put a copy on the list whose
objects are being removed. `Uploads` and `Cleanups` say how far the worker has come
and which row it may work on.

`TestedIsApplied` (`AppliesTested` of `UpdateTrial`), for every number of versions
and moves. What was tested is only worth something while it stays on the copy:
`TestedKept` and `BootedCopy` follow it from the start of the copy to the pass of
the test and on to the apply, and `ApplyNewer` follows the plan of an apply until
each part is installed. All three need to know which job the trial is waiting for
(`ChildMatches`, `ChildCarries`), that a job leaves its server in its own state
(`HeldState`) and that nothing else runs while the copy is made (`CloneAlone`).

**DaemonLeaseProofs.** `LeaseExcludes` and `LeaseCovers` assume `TimingSafe`. The
invariant bounds how far behind the last write of the row each phase may run
(`Slack`), so the row cannot expire under a live process, so no other can claim.
`RefusalIsBounded` needs no timing: a row never expires later than the TTL after
the last moment its owner lived, and the clock only moves on.

**WorldSwapProofs.** `SwapInvariant` strengthens "no truncated tree under `live`"
and "the marker stands only beside a whole staging" with what each phase knows of
the directories, and with the fact that a superseded tree is only cut up once
`live` stands. `NeverTruncated` and `MarkerIsSound` follow. `CurrentWorldSurvives`
assumes that no server is started on an empty directory, and adds where the
current world is. `RecoveryLeavesWhole` and `SwapIsAtomic` assume
`RecoveryFinishes`: restores, updates and clones whose file operations work from
the first rename on, with a sweep that is neither skipped nor killed. (Without it
the statements are false, and `CurrentWorldSurvives` is what is left; an import,
which goes through no recovery, is the finding of `swap_import`.) `HolderInv` says
who holds the row in each phase, and that between two jobs and until a job's
first rename there is no superseded tree and the current world stands under
`live`; `SavesInv` says where the autosaves are. `SwapIsAtomic` is a step simulation under
`View`, what recovery would make of the directories: `View` changes only at the
first rename, at the second where there was no world, and always to the latest
attempt.

`CatalogHolds` and `SoundIsKept` (`Backups`) share `BackupsInv`. A backup and the
prune job select outside the transaction that deletes, so the invariant is about the
selections they carry: none holds an archive a setup links (`LinksSpared`, for which
no setup is saved while the prune job runs) and, while nobody changes the catalogue
by hand, none holds the newest unflagged archive of a class, unless the one being
made takes its place (`NewestSpared`). Numbers are given out once (`NumbersFresh`),
so a deletion that still has its file to remove can never meet a new archive.

`SetupsAlwaysHold` (`SetupsHold` of `Setups`), for every layout of owned files and
every content. `RestoreStages` says at each stage of a restore which paths still hold
what it found, which are gone and which hold the setup, that the copies set aside are
what it found, and that they and the journal are there before the first file goes;
`Restored` and `Undone` say what is true afterwards. Files that somebody else edited
meanwhile are set aside in each of them, as in the property. `Retained` covers the
save: the packages of a setup that has no row yet are still in the cache.

**InstanceLifecycleProofs.** `RowMovesAreLegal` and `UnprovenIsNotStarted`, for
every set of accidents. The invariant says where each kind's Runner may stand,
which finish it may hand back, that a dead process has neither, and which
verdicts the observer may still hold about a row that must not be started: that
verdict was computed before the write and may be stale. `ObserverWaitsForLock`
assumes that no submission lands inside a pass (`"race" \notin Faults`); what is
then to show is that no Runner, finish, sweep or boot takes a lock while a pass is
past its read of the locks (`PassUnlocked`). `RestartIsKept` holds for the
accidents in `Orderly`: the panel dies, somebody starts the container, the server
is killed. (A drain is the finding of `lifecycle_drain`; a failed write or Docker
call parks the stop in error, where a human is asked.) A promise is never in one
place: `PromiseInv` follows it from the Runner that stopped the server to its
`after` callback, or, if the panel dies, through the checkpoint and the sweep to
the resume intent, and says of each that the next one still comes.

**ModTransactionProofs.** `ManifestsStayDisjoint` (`OneOwner`). Disjointness is
not inductive: the rows are rewritten from a plan made earlier and rewritten back
from the staging directory later. `PlanPending` says that until the rows are
written they are those the plan was made for, and that the plan is disjoint, in
itself and from every package outside it (lemma `PlanDisjoint`, from `Claimed`,
`Open` and `Refused`). `UndoPending` says that from then on the staging directory
gives every changed manifest back, or nothing; `Spent` rules out the steps
after which neither is true.

`JobsAreAllOrNothing`, `RowsTellTheFiles` and `OperatorFilesAreKept` share one
invariant, `StoresInv`. It has one predicate for the stores at rest (`AtRest`:
every manifest path holds its package's bytes in the tree its row names, and no
other path does) and one per position of each kind of job (`InstallAt`,
`UninstallAt`, `ToggleAt`): which paths already hold the new bytes, which still
hold those of `before`, what the backup holds for each path that was touched, and
what the journal lists. Four lemmas do the work. `PlanSound`: what the planner
returns from a resting store is disjoint, writes no file of the operator without
an answer and claims no file of a package outside it. `AppliedRests`: the stores
after the last file and the row write are at rest again. `InstallReverts`: undoing
in reverse the operations done so far gives back `before`, from any prefix.
`RollbackCovers`: so does undoing them after part of the undo was already done,
which is the boot sweep after a killed rollback. The mishaps that really lose this
(a rollback that cannot write; a kill inside `RemoveAll`, between the end of the
Runner and its Finish, inside the sweep, or while an uninstall still saves its
backups) set `hit`, and the statements are about the rest; the last of them is
the finding of `mods_uninstall`. `ModTypeCorrect` is needed
first: it ties the plan to the rows it was made for.

**ScheduleClockProofs.** `HoldIsHonoured` rests on `HoldOk`: only an enabled row is
held, and a hold begins when its run is due, in the row and in the tick's copy of
it; that is where an edit which moves `next_run_at` must end the hold.
`ServerIsDownAtCut` assumes `TimingFits` and counts back from each power cut
(`InTime`): when a run must have ended, a stop have begun, an idle server have been
seen by a tick. The type invariant needs that `NextRun` always finds an instant,
which comes from the well-ordering of the naturals.

`NothingIsSkipped` and `ReadingRunsOnce` are about calendars, and the calendar is a
constant, so each names what it needs of it; `MCScheduleClock` has TLC evaluate
these assumptions on the calendar of the run. `JumpsSeparate` says that a jump
forward starts from the lowest offset and parts the readings. `RepeatsFollowed`
says that between a repeated match and an occurrence behind it there is another
match, and it cannot be dropped: `NextRun` looks at the old offset for the first
match only, so a repeated reading that is still shown can hide a reading behind
it that the next jump erases (`30 2 27,31 3,10 *` in a European zone, with a tick
that comes late inside the repeated hour of October). `RepeatsApart` says that the
expression does not match again inside the repeated hour; one that does runs in
both of them. `RanOk` says that the readings that ran are those of runs before the
one stored next, or of the one the tick has just run and not yet marked.

**AccessProofs.** For every number of accounts, invites, requests, servers,
sockets and lines, with no assumption beyond those of the modules.
`AccessIsKept`: a request that passed its check may act on rows that changed since,
so nothing is assumed of it but its type; the conditions inside each UPDATE keep
the tables right by themselves. `OwnerOk` says that the owner is one live, enabled
admin, and that whoever left a trace (an account, a session, an invite) has one;
`InviteOk` that an account made by an invite used it up and is named by it. A
lemma (`StepKinds`) sorts all steps into five by what they do to an account's
standing, so each part is proved five times and not once per handler.
`PermissionsAreHonoured`: a check and the registration it leads to are two steps,
so `ConnOk` says of a subscription that was allowed, and of one that stands, that
the account may still read it, or that the change is still to be announced, still
to be visited, or noticed by the subscriber itself when it reads the generation
again; `VisitOk` says that a visit is of a connection the hub still holds. `NothingLostInSilence`: `Accounted`
says that up to the last line written the client was
shown every line or told of the gap; the queues are arbitrary sequences, so the
drops need no case of their own.

**OperationsProofs.** For every number of editors, packages, resumers, machines,
destinations, rules, identifiers and builds.
`SettingsAreSound`: a request writes what it merged from a row it read earlier, so
`RequestsOk` says that the launch group it carries was validated as a whole;
`BoxOk` says that a start which has taken the row runs with it until a write
crosses it. `CompletedIsBuilt` follows the cursor: every step before it was built
(`CursorInv`), and only the finish of a job moves it (`CursorStands`).
`EdgeIsAnnouncedOnce`: `EdgeInv` says that a row that announces an edge is backed
by its claim, that what a scan carries to its dispatch is of a condition that
exists and, for a resolution, has ended, and that neither a later scan nor the
delete of a rule or destination undoes it. That one event writes no destination
twice is lemma `RenderedRows`; it and `ConditionsEnd` need that destinations and
machines are finitely many. `BuildsAreTrue` has two invariants. `CacheInv`: one
job at a time holds the cache, a helper that is waited for is the one of that
job's download, and, unless an attempt leaked a helper, nobody else writes the
directory from the clearing to the publication (`CacheSound`); so the tree that is
renamed is whole and nobody writes through the rename. `RowsInv`: a job belongs to
a row being installed, the identifier of a create without a row is nobody else's,
and what an adoption has read is still so while the container is there
(`CallsTrue`); without it a create and an adoption of one identifier could cross.
`SavedIsLoaded` (`SavedReachesStart` of `ConfigFiles`): a saved value is in the
pending copy or, where there is none, in the file and with the plugin that may write
the file back (`PromiseSafe`). A request looks at the row and the lock once and
writes in several steps later, so `UnracedAlone` and `WriteStage` say what is still
true of a save nothing overlapped, and `HeldQuiet`, `WaitForLock` and `RacedQuiet`
that a request which was overlapped cannot undo a promise made to another.

**Only model-checked.** Liveness (`EveryJobEnds`, `DeliveriesSettle`,
`EverythingSettles`, `SequencesEnd`) is outside the prover's reach: TLC checks it on
the instances above. Every invariant and action property of a passing run is proved.
The assumptions on constants that the proofs use are named in the modules (that sets
of archives, machines and destinations are finite, that the mark of a missing row or
document is not itself a row or a document), and TLC evaluates them on every run;
those a theorem names for itself (`OneHostOnly`, `TimingSafe`, `RecoveryFinishes`,
`TimingFits`, what is asked of a calendar and of accidents) are the limits of the
system's own promise and are given with each theorem above.

## 6. Where the code and its words part

Four runs are expected to fail; `PROJECT.json` quotes the lines.

- `swap_import`: the boot sweep of a world import deletes the upload and does not
  finish or undo the swap, so a kill between the renames leaves no world.
- `lifecycle_drain`: a backup that ends while the panel drains has its start
  refused, and the next boot does not look at closed rows.
- `mods_uninstall`: the sweep of an uninstall ignores the checkpoint and takes a
  file without a saved copy for one that was gone, so a kill while files are being
  saved deletes the rest of them.
- `backup_consistent`: the backup job asks Docker before its copy and not after it,
  as the snapshots do, so a server started by hand during the copy leaves an archive
  that is called consistent.

Others met while modelling, which bound what the passing runs claim:

- `FinishJob` checks neither owner nor status (`internal/jobs/wait.go:19`). On two
  hosts a displaced daemon overwrites a terminal status; `TerminalIsFinal` is
  stated for one host.
- The default grace of 60 s is longer than the TTL of 30 s, and neither recovery
  nor drain renews, so `TimingSafe` does not hold of the defaults and two hosts can
  have a live daemon each (`internal/store/jobs.go:342`). On one host the flock
  still excludes.
- A dead job's row is closed (`control/supervisor.go:192`) before its files are
  settled (`:201`). A second kill in between leaves them as they are. For a world:
  acknowledge, start on an empty directory and a later killed restore then delete
  the real world in `.old` (`backup/restore.go:300`). `CurrentSurvives` is checked
  and proved without a start on an empty directory. For mods this is the mishap
  `sweep`.
- The observer may write a row that was locked after it read the locks
  (`control/supervisor.go:362`); a strict finish then rolls back and the lock stays
  until the next boot. `lifecycle_and_sequences` has no submission during a pass.
- An inspect error in a quiesced backup leaves `backing_up`, so the start it owes is
  refused (`control/backup.go:126`).
- An owed stop is keyed by container id and outlives the evidence for it, so a
  healthy server may be stopped (`control/supervisor.go:482`).
- A kill between a Finish commit and its AfterFinish, or after the sweep of a boot
  and before its intents, loses a promised restart.
- The staging directory of a mod job is removed before its Finish commits
  (`manager/uninstall.go:39`, `manager/install.go:209`): mishaps `cleanup` and
  `finish`. A path that cannot be restored leaves its package's new row beside
  another's restored one (`manager/rollback.go:20`): mishap `stuck`.

- A hold is stamped on whatever row is there (`internal/store/schedules.go:265`),
  and an edit decides from the row it read whether to end one
  (`internal/api/schedules.go:660`). A PATCH that meets a tick can leave a hold on a
  row that is not due, and the next occurrence then runs at once with players
  connected; it can also write an old `next_run_at` back, and the run repeats.
  `HoldHonoured` and `OncePerReading` except these orders (`staleStamp`,
  `stalePatch`).
- A kill or a failed write between Enqueue and `MarkScheduleRun` runs the occurrence
  again (accident `unmarked`).
- `docs/usage.md:1184` says that a run in the hour a clock change skips is missed and
  one in the hour it repeats runs twice. `NextRun` does neither: it runs the first at
  the old offset's instant and the second once. `parseCron`, which times a new or
  edited schedule, does what the page says. `NextRun` looks back at one run, so
  an expression that matches more than once an hour still repeats; kinds that stop
  a server may not have one (`checkInterval`).
- `ShutdownQuietLead` is fixed and `StopLead` grows with the configured stop timeout
  (`internal/scheduler/shutdown.go:63`), so `TimingFits` can be configured away.
- A retry of a remote copy that crosses the cleanup of the same copy, or a keep count
  raised after a cleanup began, can leave a row that says kept without its objects
  (`CopiesKept` excepts both).
- Retention selects outside the transaction that deletes (`control/backup.go:87`): an
  operator's deletion, acknowledgement or changed count in between can cost the last
  sound archive (`LastSoundKept` excepts it).
- A launch setting written after a start read the row loses its restart flag when that
  start finishes (`SettingsSound` excepts it).
- A SteamCMD helper that Docker refused to remove writes on beside the retry within the
  same process (`BuildsTrue` excepts it); a boot and the next download do clear it.
- The sweep closes the row of a dead setup restore before it rolls back; a second
  kill in between forgets the rollback (`SetupsHold` excepts it).
- An edit of a configuration file looks at the state and the lock once and writes later
  (`api/configs.go:724`); a save that a job overlaps may be lost, and
  `SavedReachesStart` promises nothing of it.
- What an apply installs is fixed when it is asked for; somebody who updates the
  server in between is overtaken by it (`AppliesTested` excepts it).

## 7. Not modelled

Contents of archives, worlds and configuration files are opaque except for what
decides (a world's flag, a file's settings); SQL is a transaction that happens or
fails; Docker, Steam, webhooks and remote storage are the answers their callers tell
apart; HTTP handlers appear as the submissions and writes they make. Progress and
logs are left out. Components without a module are listed with their reasons in
`PROJECT.json`: the resolver and planner (pure; their result is an input of
`ModTransaction`), the mod cache and registry client, migrations and key rotation,
the log patterns, player history, RCON, rate limits, the Discord gateway, exports and
share codes, diagnostics, the rclone wizard, deployment and the frontend.

The modules of section 3 meet at the instance lock and at `instances.state`. Each
models the others there by what it needs of them: a job that takes and releases the
lock, a state another job leaves. Composing them in one state space is out of
TLC's reach at bounds at which anything happens.
