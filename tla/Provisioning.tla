---------------------------- MODULE Provisioning ----------------------------
(***************************************************************************)
(* Where servers come from (api: provision, adoption; control: provision,  *)
(* adoption, orphans; instance: provision, ports): the create request, the *)
(* provision job, the shared cache of game builds, the adoption of a       *)
(* container without a row, and the delete of what they made.              *)
(***************************************************************************)
EXTENDS Naturals, FiniteSets

CONSTANTS
  Ids,            \* instance identifiers; each is given out once
  Callers,        \* requests that can be under way at the same time
  ServerNames,    \* names a request may ask for
  Ports,          \* base ports of the scan
  Branches,       \* Steam branches
  Locked,         \* the branches that need a password and are not listed by a query
  MaxBuild,       \* builds Steam ever publishes (bound)
  PortAttempts,   \* maxPortAllocationAttempts
  Attempts,       \* steamCMDAttempts
  MaxReboots,     \* deaths of the panel (bound)
  MaxMishaps      \* failed jobs, refused removals, hand-made starts and stops (bound)

ASSUME ProvisioningAssumption ==
  /\ "nobody" \notin Ids /\ Locked \subseteq Branches /\ MaxBuild \in Nat \ {0} /\ PortAttempts \in Nat \ {0}
  /\ Attempts \in Nat \ {0} /\ MaxReboots \in Nat /\ MaxMishaps \in Nat

VARIABLES
  instances,        \* the instances table: state, name, port, branch, build, container_id
  planned,     \* identifiers with an operations row
  docker,      \* the container labelled with each identifier
  installed,       \* the build in the server directory of each identifier, 0 for none
  prov,        \* the provision job of each identifier
  reached,     \* identifiers whose provision job wrote a checkpoint
  dirs,        \* the cache directories: what a whole or torn download left there
  helpers,     \* SteamCMD containers: the key label and the directory they write
  calls,       \* create and adopt requests
  steam,       \* the build each branch points at
  leaked,      \* (history) a retry began beside the helper of the attempt before it
  reboots, mishaps

provisioningVars == <<instances, planned, docker, installed, prov, reached, dirs, helpers, calls,
                      steam, leaked,
                      reboots, mishaps>>

Builds == 1..MaxBuild
Parts == ({"part"} \X Builds) \cup ({"branch"} \X Locked)
Final(b) == <<"build", b>>
Deleted == <<"deleted", 0>>
NoDir == [build |-> 0, whole |-> FALSE]
NoInstance == [state |-> "none", name |-> "", port |-> 0, branch |-> "", build |-> 0, cont |-> FALSE]
NoBox == [port |-> 0, up |-> FALSE, ours |-> FALSE]
NoProv == [phase |-> "none", build |-> 0, part |-> Deleted, try |-> 0]
NoCall == [at |-> "none"]

(* A container may be there without a row: made under an earlier database, *)
(* and to today's contract or not.  Which identifier it has is no matter.  *)
ProvisioningInit ==
  /\ instances = [i \in Ids |-> NoInstance] /\ planned = {} /\ reached = {}
  /\ \E orphans \in {{}, {CHOOSE i \in Ids : TRUE}}, p \in Ports, ours \in BOOLEAN :
       /\ docker = [i \in Ids |-> IF i \in orphans THEN [port |-> p, up |-> FALSE, ours |-> ours] ELSE NoBox]
       /\ installed = [i \in Ids |-> IF i \in orphans THEN 1 ELSE 0]
  /\ prov = [i \in Ids |-> NoProv]
  /\ dirs = [d \in Parts \cup {Final(b) : b \in Builds} |-> NoDir]
  /\ helpers = {} /\ calls = [c \in Callers |-> NoCall]
  /\ steam = [b \in Branches |-> 1] /\ leaked = FALSE /\ reboots = 0 /\ mishaps = 0

HasRow(i) == instances[i].state \notin {"none", "gone"}
HasBox(i) == docker[i] # NoBox
Asked(i) == \E c \in Callers : calls[c].at # "none" /\ calls[c].id = i
Mishap == mishaps < MaxMishaps /\ mishaps' = mishaps + 1

----------------------------------------------------------------------------
(* The create request.                                                     *)

(* publishedPorts: only running containers hold a port.                    *)
publishedPorts == {docker[i].port : i \in {j \in Ids : docker[j].up}}
UsedBasePorts == {instances[i].port : i \in {j \in Ids : HasRow(j)}}

(* Allocate: the scan skips reserved and published ports, and any port     *)
(* some other program of the host holds; nothing may be left.              *)
AllocatePort(c) ==
  /\ calls[c].at = "allocate"
  /\ \/ \E p \in Ports \ (UsedBasePorts \cup publishedPorts) :
          calls' = [calls EXCEPT ![c].at = "insert", ![c].port = p]
     \/ calls' = [calls EXCEPT ![c] = NoCall]
  /\ UNCHANGED <<instances, planned, docker, installed, prov, reached, dirs, helpers, steam, leaked,
                 reboots, mishaps>>

(* A fresh identifier: one that no row, container or request ever had.     *)
FreshIds == {i \in Ids : instances[i] = NoInstance /\ ~HasBox(i) /\ ~Asked(i)}

AskCreate(c) ==
  /\ calls[c] = NoCall /\ FreshIds # {}
  /\ \E n \in ServerNames, b \in Branches :
       calls' = [calls EXCEPT ![c] = [at |-> "allocate", id |-> CHOOSE i \in FreshIds : TRUE,
                                      name |-> n, branch |-> b, port |-> 0, try |-> 1]]
  /\ UNCHANGED <<instances, planned, docker, installed, prov, reached, dirs, helpers, steam, leaked,
                 reboots, mishaps>>

NewInstance(q) ==
  [NoInstance EXCEPT !.state = "created", !.name = q.name, !.port = q.port, !.branch = q.branch]

NameTaken(n) == \E i \in Ids : HasRow(i) /\ instances[i].name = n

(* CreateInstance: the unique indexes decide.  A taken port is allocated   *)
(* again, a taken name is refused.                                         *)
CreateInstance(c) ==
  /\ calls[c].at = "insert"
  /\ LET q == calls[c] IN
     \/ /\ NameTaken(q.name)
        /\ calls' = [calls EXCEPT ![c] = NoCall] /\ UNCHANGED instances
     \/ /\ ~NameTaken(q.name) /\ q.port \in UsedBasePorts
        /\ calls' = [calls EXCEPT ![c] = IF q.try < PortAttempts THEN [q EXCEPT !.at = "allocate", !.try = @ + 1]
                                                                 ELSE NoCall]
        /\ UNCHANGED instances
     \/ /\ ~NameTaken(q.name) /\ q.port \notin UsedBasePorts
        /\ instances' = [instances EXCEPT ![q.id] = NewInstance(q)]
        /\ calls' = [calls EXCEPT ![c].at = "plan"]
  /\ UNCHANGED <<planned, docker, installed, prov, reached, dirs, helpers, steam, leaked, reboots,
                 mishaps>>

PlanOperation(c) ==
  /\ calls[c].at = "plan"
  /\ planned' = planned \cup {calls[c].id}
  /\ calls' = [calls EXCEPT ![c].at = "submit"]
  /\ UNCHANGED <<instances, docker, installed, prov, reached, dirs, helpers, steam, leaked, reboots,
                 mishaps>>

(* Provisioner.Submit: the claim takes the row to provisioning.            *)
ClaimProvision(i, from) ==
  /\ instances[i].state = from /\ prov[i] = NoProv
  /\ instances' = [instances EXCEPT ![i].state = "provisioning"]
  /\ prov' = [prov EXCEPT ![i] = [NoProv EXCEPT !.phase = "dirs"]]

SubmitProvision(c) ==
  /\ calls[c].at = "submit"
  /\ IF instances[calls[c].id].state = "created"
     THEN ClaimProvision(calls[c].id, "created")
     ELSE UNCHANGED <<instances, prov>>
  /\ calls' = [calls EXCEPT ![c] = NoCall]
  /\ UNCHANGED <<planned, docker, installed, reached, dirs, helpers, steam, leaked, reboots, mishaps>>

(* The retry of a create whose operation is still open.                    *)
retryInstall(i) ==
  /\ i \in planned
  /\ ClaimProvision(i, "created") \/ ClaimProvision(i, "error")
  /\ UNCHANGED <<planned, docker, installed, reached, dirs, helpers, calls, steam, leaked, reboots,
                 mishaps>>

----------------------------------------------------------------------------
(* The provision job.                                                      *)

(* provisionFailed and the cancel: the row is parked in error.  The helper *)
(* of a cut download is removed, or survives when Docker refuses.          *)
ParkDownload(i) ==
  /\ instances' = [instances EXCEPT ![i].state = "error"]
  /\ prov' = [prov EXCEPT ![i] = NoProv] /\ reached' = reached \ {i}
  /\ \E left \in SUBSET {h \in helpers : h.of = i} :
       helpers' = {h \in helpers : h.of # i} \cup {[h EXCEPT !.of = "nobody"] : h \in left}

provisionFailed(i) ==
  /\ prov[i].phase # "none" /\ Mishap /\ ParkDownload(i)
  /\ UNCHANGED <<planned, docker, installed, dirs, calls, steam, leaked, reboots>>

provisionDirs(i) ==
  /\ prov[i].phase = "dirs"
  /\ prov' = [prov EXCEPT ![i].phase = "query"]
  /\ reached' = reached \cup {i}
  /\ UNCHANGED <<instances, planned, docker, installed, dirs, helpers, calls, steam, leaked,
                 reboots,
                 mishaps>>

(* QueryBuilds lists the open branches; a locked one goes straight to a    *)
(* directory named after it.                                               *)
SteamBranches == Branches \ Locked

QueryBuilds == [b \in SteamBranches |-> steam[b]]

PartFor(b) == IF b \in Locked THEN <<"branch", b>> ELSE <<"part", QueryBuilds[b]>>

provisionBuildCache(i) ==
  /\ prov[i].phase = "query"
  /\ LET b == instances[i].branch
     IN prov' = [prov EXCEPT ![i] = [NoProv EXCEPT !.phase = "lock", !.part = PartFor(b),
                                                   !.build = IF b \in Locked THEN 0 ELSE QueryBuilds[b]]]
  /\ UNCHANGED <<instances, planned, docker, installed, reached, dirs, helpers, calls, steam,
                 leaked,
                 reboots, mishaps>>

(* The cache lock is held from here to the publication.                    *)
CacheLocked == \E j \in Ids : prov[j].phase \in {"clear", "start", "fetch", "publish"}

(* Ensure: a published build is used as it is; its manifest must name it.  *)
Ensure(i) ==
  /\ prov[i].phase = "lock" /\ ~CacheLocked
  /\ LET cached == {b \in Builds : dirs[Final(b)] # NoDir}
     IN prov' = [prov EXCEPT ![i] = IF prov[i].build \in cached
                                    THEN [NoProv EXCEPT !.phase = "clone", !.build = prov[i].build]
                                    ELSE [prov[i] EXCEPT !.phase = "clear"]]
  /\ UNCHANGED <<instances, planned, docker, installed, reached, dirs, helpers, calls, steam,
                 leaked,
                 reboots, mishaps>>

RemoveThrowaways(key) == {h \in helpers : h.key # key}

\* A wrong version: a retry starts its helper beside one that survived.
StartUncleared(i) ==
  /\ prov[i].phase = "clear"
  /\ prov' = [prov EXCEPT ![i].phase = "start", ![i].try = 1]
  /\ UNCHANGED <<instances, planned, docker, installed, reached, dirs, helpers, calls, steam,
                 leaked,
                 reboots, mishaps>>

(* clearSurvivingDownload: every helper whose key is this directory goes,  *)
(* or the job fails (provisionFailed).                                     *)
clearSurvivingDownload(i) ==
  /\ prov[i].phase = "clear"
  /\ helpers' = RemoveThrowaways(prov[i].part)
  /\ prov' = [prov EXCEPT ![i].phase = "start", ![i].try = 1]
  /\ UNCHANGED <<instances, planned, docker, installed, reached, dirs, calls, steam, leaked,
                 reboots,
                 mishaps>>

(* RunThrowaway: the helper downloads what the branch points at now.       *)
StartHelper(i) ==
  /\ prov[i].phase = "start"
  /\ LET b == steam[instances[i].branch] IN
     /\ helpers' = helpers \cup {[key |-> prov[i].part, dir |-> prov[i].part, build |-> b, of |-> i]}
     /\ dirs' = [dirs EXCEPT ![prov[i].part] = [build |-> b, whole |-> FALSE]]
  /\ leaked' = (leaked \/ (prov[i].try > 1 /\ \E h \in helpers : h.dir = prov[i].part))
  /\ prov' = [prov EXCEPT ![i].phase = "fetch"]
  /\ UNCHANGED <<instances, planned, docker, installed, reached, calls, steam, reboots, mishaps>>

(* A helper that ends leaves a whole tree unless another one writes it.    *)
HelperLeaves(h) ==
  IF h.dir \in DOMAIN dirs
  THEN [dirs EXCEPT ![h.dir] = [build |-> h.build, whole |-> \A g \in helpers \ {h} : g.dir # h.dir]]
  ELSE dirs

HelperDone(i) ==
  /\ prov[i].phase = "fetch"
  /\ \E h \in helpers : h.of = i /\ dirs' = HelperLeaves(h) /\ helpers' = helpers \ {h}
  /\ prov' = [prov EXCEPT ![i].phase = "publish"]
  /\ UNCHANGED <<instances, planned, docker, installed, reached, calls, steam, leaked, reboots,
                 mishaps>>

(* runSteamCMD: a failed attempt removes its helper, and only warns when   *)
(* Docker refuses; then it tries again.  Giving up is provisionFailed.     *)
runSteamCMD(i) ==
  /\ prov[i].phase = "fetch" /\ prov[i].try < Attempts /\ Mishap
  /\ \E left \in SUBSET {h \in helpers : h.of = i} :
       helpers' = {h \in helpers : h.of # i} \cup {[h EXCEPT !.of = "nobody"] : h \in left}
  /\ prov' = [prov EXCEPT ![i].phase = "start", ![i].try = @ + 1]
  /\ UNCHANGED <<instances, planned, docker, installed, reached, dirs, calls, steam, leaked,
                 reboots>>

(* A helper nobody waits for runs to its end.                              *)
StrayEnds ==
  /\ \E h \in helpers : h.of = "nobody" /\ dirs' = HelperLeaves(h) /\ helpers' = helpers \ {h}
  /\ UNCHANGED <<instances, planned, docker, installed, prov, reached, calls, steam, leaked,
                 reboots,
                 mishaps>>

(* publishBuild: under the build that was downloaded.  A bind mount        *)
(* follows the renamed directory.                                          *)
publishBuild(i) ==
  /\ prov[i].phase = "publish"
  /\ LET part == prov[i].part
         actual == dirs[part].build
         fresh == dirs[Final(actual)] = NoDir
     IN /\ dirs' = [dirs EXCEPT ![part] = NoDir, ![Final(actual)] = IF fresh THEN dirs[part] ELSE @]
        /\ helpers' = {IF h.dir = part THEN [h EXCEPT !.dir = IF fresh THEN Final(actual) ELSE Deleted] ELSE h :
                         h \in helpers}
        /\ prov' = [prov EXCEPT ![i] = [NoProv EXCEPT !.phase = "clone", !.build = actual]]
  /\ UNCHANGED <<instances, planned, docker, installed, reached, calls, steam, leaked, reboots,
                 mishaps>>

(* CloneWithProgress keeps an installed tree, and the build recorded is    *)
(* the one installed.                                                      *)
InstalledBuildID(i) == installed[i]

CloneWithProgress(i) == IF installed[i] # 0 THEN installed[i] ELSE prov[i].build

provisionClone(i) ==
  /\ prov[i].phase = "clone"
  /\ installed' = [installed EXCEPT ![i] = CloneWithProgress(i)]
  /\ prov' = [prov EXCEPT ![i].phase = "container", ![i].build = InstalledBuildID(i)']
  /\ UNCHANGED <<instances, planned, docker, reached, dirs, helpers, calls, steam, leaked, reboots,
                 mishaps>>

(* The container of an interrupted run is reused.                          *)
ensureInstanceContainer(i) ==
  IF HasBox(i) THEN docker[i] ELSE [port |-> instances[i].port, up |-> FALSE, ours |-> TRUE]

provisionCreateContainer(i) ==
  /\ prov[i].phase = "container"
  /\ docker' = [docker EXCEPT ![i] = ensureInstanceContainer(i)]
  /\ prov' = [prov EXCEPT ![i].phase = "finish"]
  /\ UNCHANGED <<instances, planned, installed, reached, dirs, helpers, calls, steam, leaked,
                 reboots,
                 mishaps>>

FinishProvisioning(i) ==
  /\ prov[i].phase = "finish"
  /\ instances' = [instances EXCEPT ![i].state = "stopped", ![i].cont = TRUE, ![i].build = prov[i].build]
  /\ prov' = [prov EXCEPT ![i] = NoProv]
  /\ planned' = planned \ {i} /\ reached' = reached \ {i}
  /\ UNCHANGED <<docker, installed, dirs, helpers, calls, steam, leaked, reboots, mishaps>>

----------------------------------------------------------------------------
(* Adoption, delete, Docker, Steam and the panel's death.                  *)

(* ListOrphans: a managed container no row claims.                         *)
Orphan(i) == HasBox(i) /\ ~HasRow(i)

ValidateAdoptionLaunch(i) == docker[i].ours

adoptionFacts(i) ==
  [build |-> InstalledBuildID(i), port |-> docker[i].port, state |-> IF docker[i].up THEN "running" ELSE "stopped"]

adopt(c) ==
  /\ calls[c] = NoCall
  /\ \E i \in Ids, n \in ServerNames :
       /\ Orphan(i) /\ installed[i] # 0 /\ ValidateAdoptionLaunch(i)
       /\ calls' = [calls EXCEPT ![c] = [at |-> "adopt", id |-> i, name |-> n, facts |-> adoptionFacts(i)]]
  /\ UNCHANGED <<instances, planned, docker, installed, prov, reached, dirs, helpers, steam, leaked,
                 reboots, mishaps>>

(* TxAdoptInstance: the unique indexes refuse what was claimed meanwhile.  *)
TxAdoptInstance(q) ==
  IF HasRow(q.id) \/ NameTaken(q.name) \/ q.facts.port \in UsedBasePorts
  THEN instances[q.id]
  ELSE [NoInstance EXCEPT !.state = q.facts.state, !.name = q.name, !.port = q.facts.port, !.build = q.facts.build,
                     !.cont = TRUE]

SubmitAdoption(c) ==
  /\ calls[c].at = "adopt"
  /\ instances' = [instances EXCEPT ![calls[c].id] = TxAdoptInstance(calls[c])]
  /\ calls' = [calls EXCEPT ![c] = NoCall]
  /\ UNCHANGED <<planned, docker, installed, prov, reached, dirs, helpers, steam, leaked, reboots,
                 mishaps>>

(* The delete job removes the container its row names, and the files.      *)
DeleteInstance(i) ==
  /\ instances[i].state \in {"stopped", "error"} /\ prov[i] = NoProv
  /\ docker' = [docker EXCEPT ![i] = IF instances[i].cont THEN NoBox ELSE @]
  /\ installed' = [installed EXCEPT ![i] = 0]
  /\ instances' = [instances EXCEPT ![i] = [NoInstance EXCEPT !.state = "gone"]]
  /\ planned' = planned \ {i}
  /\ UNCHANGED <<prov, reached, dirs, helpers, calls, steam, leaked, reboots, mishaps>>

(* Somebody starts or stops a container by hand.                           *)
ByHand(i) ==
  /\ HasBox(i) /\ Mishap
  /\ docker' = [docker EXCEPT ![i].up = ~@]
  /\ UNCHANGED <<instances, planned, installed, prov, reached, dirs, helpers, calls, steam, leaked,
                 reboots>>

SteamPublishes ==
  /\ \E b \in Branches : steam[b] < MaxBuild /\ steam' = [steam EXCEPT ![b] = @ + 1]
  /\ UNCHANGED <<instances, planned, docker, installed, prov, reached, dirs, helpers, calls, leaked,
                 reboots, mishaps>>

(* The sweep at boot removes helpers until Docker refuses one.             *)
sweepThrowaways ==
  \E left \in SUBSET helpers : helpers' = {[h EXCEPT !.of = "nobody"] : h \in left}

(* The panel dies and boots; a provisioning row is run again when its job  *)
(* left a checkpoint (resumeProvision), else it is parked in error.        *)
Reboot ==
  /\ reboots < MaxReboots /\ reboots' = reboots + 1
  /\ calls' = [c \in Callers |-> NoCall]
  /\ sweepThrowaways
  /\ LET cut == {i \in Ids : instances[i].state = "provisioning"} IN
     /\ instances' = [i \in Ids |-> IF i \in cut \ reached THEN [instances[i] EXCEPT !.state = "error"] ELSE instances[i]]
     /\ prov' = [i \in Ids |-> IF i \in cut \cap reached THEN [NoProv EXCEPT !.phase = "dirs"] ELSE NoProv]
     /\ reached' = reached \ cut
  /\ UNCHANGED <<planned, docker, installed, dirs, steam, leaked, mishaps>>

ProvisioningNext ==
  \/ \E c \in Callers : \/ AskCreate(c) \/ AllocatePort(c) \/ CreateInstance(c) \/ PlanOperation(c)
                        \/ SubmitProvision(c) \/ adopt(c) \/ SubmitAdoption(c)
  \/ \E i \in Ids : \/ retryInstall(i) \/ provisionFailed(i) \/ provisionDirs(i) \/ provisionBuildCache(i) \/ Ensure(i)
                    \/ clearSurvivingDownload(i) \/ StartHelper(i) \/ HelperDone(i) \/ runSteamCMD(i)
                    \/ publishBuild(i) \/ provisionClone(i) \/ provisionCreateContainer(i)
                    \/ FinishProvisioning(i) \/ DeleteInstance(i) \/ ByHand(i)
  \/ StrayEnds \/ SteamPublishes \/ Reboot

ProvisioningSpec == ProvisioningInit /\ [][ProvisioningNext]_provisioningVars

----------------------------------------------------------------------------
(* A build in the cache is whole and nobody writes it, whatever downloads  *)
(* were cut by a failure or by the death of the panel before it: a helper  *)
(* that outlived its panel would write on through the rename.  Excepted is *)
(* the retry that began beside a helper Docker refused to remove.          *)
PublishedBuildSound ==
  ~leaked => \A b \in Builds :
               /\ dirs[Final(b)] # NoDir => dirs[Final(b)] = [build |-> b, whole |-> TRUE]
               /\ \A h \in helpers : h.dir # Final(b)

(* The build a row names is the one its server runs, though a resumed      *)
(* provision may find a tree of an earlier build, and Steam may publish    *)
(* between the query, the download and the clone.                          *)
BuildIdTrue ==
  \A i \in Ids : instances[i].state \in {"stopped", "running"} /\ HasBox(i) => instances[i].build = installed[i]

(* What the cache publishes and what a row says of its server are true     *)
(* (instance/provision.go: publishBuild, provisionClone).                  *)
BuildsTrue == PublishedBuildSound /\ BuildIdTrue
=============================================================================
