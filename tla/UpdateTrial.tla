----------------------------- MODULE UpdateTrial -----------------------------
(***************************************************************************)
(* Trying an update on a copy of a server and applying it afterwards       *)
(* (control: update_trial, clone, game_update).  The trial is a job under  *)
(* the chain lock of the server; clone, game update, mod update, start,    *)
(* stop and delete are jobs under the instance locks.  Builds and mods are *)
(* version numbers.                                                        *)
(***************************************************************************)
EXTENDS Naturals

CONSTANTS
  MaxVersion,   \* builds and mod versions that are ever published (bound)
  MaxMoves,     \* jobs that users and schedules submit, and cancels (bound)
  MaxFalls      \* deaths of the panel (bound)

ASSUME TrialAssumption == MaxVersion \in Nat \ {0} /\ MaxMoves \in Nat /\ MaxFalls \in Nat

VARIABLES
  servers,   \* the server and its test copy: state, build, mods, and what each last started with
  passed,    \* test_passed_at of the copy
  work,      \* the job under each instance lock
  trial,     \* the update_test or update_apply job
  offer,     \* what Steam and the registry offer now
  cache,     \* builds in the cache
  tested,    \* (history) what the copy ran when its test passed
  touched,   \* (history) somebody else updated the copy since it was made
  overtaken,     \* (history) somebody else updated the server since the apply was asked for
  moves, falls

trialVars == <<servers, passed, work, trial, offer, cache, tested, touched, overtaken, moves,
               falls>>

Hosts == {"main", "copy"}
NoWork == [kind |-> "none", phase |-> "", pin |-> 0, mods |-> 0, mine |-> FALSE]
NoTrial == [kind |-> "none", step |-> "", child |-> "none", build |-> 0, mods |-> 0, was |-> ""]
NoServer == [state |-> "gone", build |-> 0, mods |-> 0, ran |-> <<0, 0>>]

TrialInit ==
  /\ \E s \in {"stopped", "running"} :
       servers = [x \in Hosts |-> IF x = "main" THEN [state |-> s, build |-> 1, mods |-> 1, ran |-> <<1, 1>>]
                                                ELSE NoServer]
  /\ passed = FALSE /\ work = [x \in Hosts |-> NoWork] /\ trial = NoTrial
  /\ offer = [build |-> 1, mods |-> 1] /\ cache = {1}
  /\ tested = <<0, 0>> /\ touched = FALSE /\ overtaken = FALSE /\ moves = 0 /\ falls = 0

----------------------------------------------------------------------------
(* Jobs under an instance lock.                                            *)
Idle(x) == work[x] = NoWork

Admits(x, kind) ==
  /\ Idle(x)
  /\ servers[x].state \in CASE kind \in {"start", "game_update", "mod_update"} -> {"stopped"}
                            [] kind = "stop" -> {"running"}
                            [] kind = "delete" -> {"stopped", "error"}

Holding(kind) ==
  CASE kind = "start" -> "starting" [] kind = "stop" -> "stopping" [] kind = "delete" -> "deleting"
    [] kind = "game_update" -> "updating" [] OTHER -> "stopped"

Begins(x, kind, pin, mods, mine) ==
  /\ work' = [work EXCEPT ![x] = [kind |-> kind, phase |-> IF kind = "game_update" THEN "archive" ELSE "run",
                                  pin |-> pin, mods |-> mods, mine |-> mine]]
  /\ servers' = [servers EXCEPT ![x].state = Holding(kind)]

(* The trial hears of its child when the child's row is terminal.          *)
Heard(x, ok) ==
  trial' = IF work[x].mine THEN [trial EXCEPT !.child = IF ok THEN "succeeded" ELSE "failed"] ELSE trial

WorkEnds(x, ok, rec) ==
  /\ work' = [work EXCEPT ![x] = NoWork]
  /\ servers' = [servers EXCEPT ![x] = rec]
  /\ Heard(x, ok)

(* The game update: archive, fetch, clone and replay, each after a look at *)
(* the cancel; then the swap.                                              *)
NextPhase(p) == CASE p = "archive" -> "fetch" [] p = "clone" -> "replay" [] p = "replay" -> "swap"

StagePhase(x) ==
  /\ work[x].kind = "game_update" /\ work[x].phase \in {"archive", "clone", "replay"}
  /\ work' = [work EXCEPT ![x].phase = NextPhase(@)]
  /\ UNCHANGED <<servers, passed, trial, offer, cache, tested, touched, overtaken, moves, falls>>

(* fetchPinned: a pinned build must be cached or still be the one offered. *)
FetchBuild(x) ==
  /\ work[x].kind = "game_update" /\ work[x].phase = "fetch"
  /\ LET id == IF work[x].pin \in cache \ {0} THEN work[x].pin ELSE offer.build
     IN IF work[x].pin \in {0, id}
        THEN /\ work' = [work EXCEPT ![x].phase = "clone", ![x].pin = id]
             /\ cache' = cache \cup {id}
             /\ UNCHANGED <<servers, trial>>
        ELSE WorkEnds(x, FALSE, [servers[x] EXCEPT !.state = "error"]) /\ UNCHANGED cache
  /\ UNCHANGED <<passed, offer, tested, touched, overtaken, moves, falls>>

(* SwapUpdate and finishGameUpdate.                                        *)
SwapUpdate(x) ==
  /\ work[x].kind = "game_update" /\ work[x].phase = "swap"
  /\ WorkEnds(x, TRUE, [servers[x] EXCEPT !.state = "stopped", !.build = work[x].pin])
  /\ UNCHANGED <<passed, offer, cache, tested, touched, overtaken, moves, falls>>

(* A cancel before the swap puts the server back (abandon); a failure      *)
(* parks it in error (fail).                                               *)
UpdateEnds(x) ==
  /\ work[x].kind = "game_update"
  /\ \/ /\ moves < MaxMoves /\ moves' = moves + 1 /\ work[x].phase # "swap"
        /\ WorkEnds(x, FALSE, [servers[x] EXCEPT !.state = "stopped"])
     \/ WorkEnds(x, FALSE, [servers[x] EXCEPT !.state = "error"]) /\ UNCHANGED moves
  /\ UNCHANGED <<passed, offer, cache, tested, touched, overtaken, falls>>

(* Start, stop, mod update and delete.                                     *)
Result(x, ok) ==
  LET s == servers[x] IN
  CASE work[x].kind = "start" -> IF ok THEN [s EXCEPT !.state = "running", !.ran = <<s.build,
                                                                                     s.mods>>]
                                       ELSE [s EXCEPT !.state = "error"]
    [] work[x].kind = "stop" -> [s EXCEPT !.state = IF ok THEN "stopped" ELSE "error"]
    [] work[x].kind = "mod_update" -> IF ok THEN [s EXCEPT !.mods = work[x].mods] ELSE s
    [] work[x].kind = "delete" -> IF ok THEN NoServer ELSE s

JobEnds(x, ok) ==
  /\ work[x].kind \in {"start", "stop", "mod_update", "delete"}
  /\ WorkEnds(x, ok, Result(x, ok))
  /\ passed' = (passed /\ ~(x = "copy" /\ work[x].kind = "delete" /\ ok))
  /\ UNCHANGED <<offer, cache, tested, touched, overtaken, moves, falls>>

(* What other users and schedules submit on either server.                 *)
OtherJob(x, kind) ==
  /\ moves < MaxMoves /\ moves' = moves + 1
  /\ Admits(x, kind) /\ (kind = "delete" => x = "copy")
  /\ Begins(x, kind, 0, offer.mods, FALSE)
  /\ touched' = (touched \/ (x = "copy" /\ kind \in {"game_update", "mod_update"}))
  /\ overtaken' = (overtaken \/ (x = "main" /\ kind \in {"game_update", "mod_update"}))
  /\ UNCHANGED <<passed, trial, offer, cache, tested, falls>>

Release ==
  /\ \E k \in {"build", "mods"} : offer[k] < MaxVersion /\ offer' = [offer EXCEPT ![k] = @ + 1]
  /\ UNCHANGED <<servers, passed, work, trial, cache, tested, touched, overtaken, moves, falls>>

(* The cache directory is the operator's to clear.                         *)
ClearCache ==
  /\ moves < MaxMoves /\ moves' = moves + 1 /\ cache' = {}
  /\ UNCHANGED <<servers, passed, work, trial, offer, tested, touched, overtaken, falls>>

----------------------------------------------------------------------------
(* Copying a server.  The job holds the locks of both; the row of the copy *)
(* is created in the claim.                                                *)
ClonePhase(p) == CASE p = "dirs" -> "files" [] p = "files" -> "world" [] p = "world" -> "container"

CloneRunning == work["copy"].kind = "clone"

Cloned(rec, ok) ==
  /\ work' = [x \in Hosts |-> NoWork]
  /\ servers' = [servers EXCEPT !["copy"] = rec]
  /\ Heard("copy", ok)

CloneServerFiles ==
  /\ CloneRunning /\ work["copy"].phase = "files"
  /\ servers' = [servers EXCEPT !["copy"].build = servers["main"].build, !["copy"].mods = servers["main"].mods]
  /\ work' = [work EXCEPT !["copy"].phase = ClonePhase(@)]
  /\ UNCHANGED <<passed, trial, offer, cache, tested, touched, overtaken, moves, falls>>

CloneStep ==
  /\ CloneRunning /\ work["copy"].phase \in {"dirs", "world"}
  /\ work' = [work EXCEPT !["copy"].phase = ClonePhase(@)]
  /\ UNCHANGED <<servers, passed, trial, offer, cache, tested, touched, overtaken, moves, falls>>

FinishClone ==
  /\ CloneRunning /\ work["copy"].phase = "container"
  /\ Cloned([servers["copy"] EXCEPT !.state = "stopped"], TRUE) /\ touched' = FALSE
  /\ UNCHANGED <<passed, offer, cache, tested, overtaken, moves, falls>>

(* cloneFailed, and a cancel seen at a checkpoint: both park the copy.     *)
CloneFails ==
  /\ CloneRunning /\ Cloned([servers["copy"] EXCEPT !.state = "error"], FALSE)
  /\ UNCHANGED <<passed, offer, cache, tested, touched, overtaken, moves, falls>>

(* A copy somebody asks for, of a stopped server, keeps its lock a while.  *)
OtherClone ==
  /\ moves < MaxMoves /\ moves' = moves + 1
  /\ Idle("main") /\ servers["main"].state = "stopped"
  /\ work' = [work EXCEPT !["main"] = [NoWork EXCEPT !.kind = "cloned"]]
  /\ UNCHANGED <<servers, passed, trial, offer, cache, tested, touched, overtaken, falls>>

OtherCloneEnds ==
  /\ work["main"].kind = "cloned" /\ ~CloneRunning
  /\ work' = [work EXCEPT !["main"] = NoWork]
  /\ UNCHANGED <<servers, passed, trial, offer, cache, tested, touched, overtaken, moves, falls>>

----------------------------------------------------------------------------
(* The test: copy, game, mods, start, pass.                                *)
TrialAt(kind, step) == trial.kind = kind /\ trial.step = step /\ trial.child = "none"
TrialGoes(step) == trial' = [trial EXCEPT !.step = step]
Rested == {"stopped", "running"}

(* UpdateTester.Submit: one copy at a time, and the chain lock.            *)
SubmitTest(parts) ==
  /\ moves < MaxMoves /\ moves' = moves + 1
  /\ servers["copy"] = NoServer /\ trial = NoTrial
  /\ trial' = [NoTrial EXCEPT !.kind = parts, !.step = "clone"]
  /\ UNCHANGED <<servers, passed, work, offer, cache, tested, touched, overtaken, falls>>

StartUpdateTest ==
  servers["main"].state \in Rested /\ \E parts \in {"game", "mods", "both"} : SubmitTest(parts)

IsTest == trial.kind \in {"game", "mods", "both"}

(* A child is submitted and waited for; one that is refused ends the job.  *)
Child(x, kind, pin, mods) ==
  IF Admits(x, kind)
  THEN Begins(x, kind, pin, mods, TRUE) /\ trial' = [trial EXCEPT !.child = "waiting"]
  ELSE trial' = NoTrial /\ UNCHANGED <<work, servers>>

(* Cloner.Submit takes both locks and creates the row of the copy.         *)
CloneClaims ==
  /\ work' = [main |-> [NoWork EXCEPT !.kind = "cloned"],
              copy |-> [kind |-> "clone", phase |-> "dirs", pin |-> 0, mods |-> 0, mine |-> TRUE]]
  /\ servers' = [servers EXCEPT !["copy"].state = "provisioning"]
  /\ trial' = [trial EXCEPT !.child = "waiting"]

(* cloneForTest: the source may run.                                       *)
TestClone ==
  /\ IsTest /\ TrialAt(trial.kind, "clone")
  /\ IF servers["main"].state \in Rested /\ Idle("main")
     THEN CloneClaims
     ELSE trial' = NoTrial /\ UNCHANGED <<work, servers>>
  /\ UNCHANGED <<passed, offer, cache, tested, touched, overtaken, moves, falls>>

(* runTest: the update of the game is not pinned, the mods move to what    *)
(* the registry offers, and neither happens when it was not asked for or   *)
(* nothing is pending.                                                     *)
TestGame ==
  /\ IsTest /\ TrialAt(trial.kind, "game")
  /\ IF trial.kind = "mods" THEN TrialGoes("mods") /\ UNCHANGED <<work, servers>>
     ELSE Child("copy", "game_update", 0, 0)
  /\ UNCHANGED <<passed, offer, cache, tested, touched, overtaken, moves, falls>>

TestMods ==
  /\ IsTest /\ TrialAt(trial.kind, "mods")
  /\ IF trial.kind = "game" \/ offer.mods = servers["copy"].mods
     THEN TrialGoes("start") /\ UNCHANGED <<work, servers>>
     ELSE Child("copy", "mod_update", 0, offer.mods)
  /\ UNCHANGED <<passed, offer, cache, tested, touched, overtaken, moves, falls>>

TestStart ==
  /\ IsTest /\ TrialAt(trial.kind, "start")
  /\ IF servers["copy"].state = "running" THEN TrialGoes("pass") /\ UNCHANGED <<work, servers>>
     ELSE Child("copy", "start", 0, 0)
  /\ UNCHANGED <<passed, offer, cache, tested, touched, overtaken, moves, falls>>

(* The OnFinish of runTest marks the copy in the transaction that ends the *)
(* job, whatever has become of its state.                                  *)
TestPass ==
  /\ IsTest /\ TrialAt(trial.kind, "pass")
  /\ trial' = NoTrial /\ passed' = (servers["copy"].state # "gone")
  /\ tested' = servers["copy"].ran
  /\ UNCHANGED <<servers, work, offer, cache, touched, overtaken, moves, falls>>

(* A child that ended well moves the job on; one that failed ends it.      *)
StepAfter(s) ==
  CASE s = "clone" -> "game" [] s = "game" -> "mods" [] s = "mods" -> "start"
    [] s = "start" -> IF IsTest THEN "pass" ELSE "delstop"
    [] s = "stop" -> "game" [] s = "delstop" -> "delete" [] s = "delete" -> "done"

TrialHears ==
  /\ trial.child \in {"succeeded", "failed"}
  /\ trial' = IF trial.child = "failed" \/ StepAfter(trial.step) = "done" THEN NoTrial
              ELSE [trial EXCEPT !.step = StepAfter(@), !.child = "none"]
  /\ UNCHANGED <<servers, passed, work, offer, cache, tested, touched, overtaken, moves, falls>>

(* A cancel ends the wait, not the child.  An apply refuses it once it has *)
(* recorded that it started.                                               *)
TrialCancel ==
  /\ moves < MaxMoves /\ moves' = moves + 1
  /\ IsTest \/ trial.step = "begin"
  /\ trial' = NoTrial
  /\ work' = [x \in Hosts |-> [work[x] EXCEPT !.mine = FALSE]]
  /\ UNCHANGED <<servers, passed, offer, cache, tested, touched, overtaken, falls>>

----------------------------------------------------------------------------
(* The apply.                                                              *)
\* A wrong version: readiness alone lets a trial be applied.
UnblockedWhenReady(c) == c.state \in Rested
ApplyBlocker(c) == c.state \in Rested /\ passed

GameNewer(c) == c.build > servers["main"].build
ModsNewer(c) == c.mods > servers["main"].mods

(* What is to be installed is worked out when the apply is asked for.      *)
SubmitApply ==
  LET c == servers["copy"] IN
  /\ moves < MaxMoves /\ moves' = moves + 1
  /\ trial = NoTrial /\ ApplyBlocker(c)
  /\ trial' = [NoTrial EXCEPT !.kind = "apply", !.step = "begin",
                              !.build = IF GameNewer(c) THEN c.build ELSE 0,
                              !.mods = IF ModsNewer(c) THEN c.mods ELSE 0]
  /\ overtaken' = (work["main"].kind \in {"game_update", "mod_update"})
  /\ UNCHANGED <<servers, passed, work, offer, cache, tested, touched, falls>>

ApplyUpdateTest == servers["main"].state \in Rested /\ SubmitApply

(* beginApply: the state is read again and cancellation closed.            *)
BeginApply ==
  /\ TrialAt("apply", "begin")
  /\ LET stops == servers["main"].state = "running" /\ (trial.build # 0 \/ trial.mods # 0)
     IN trial' = [trial EXCEPT !.was = IF stops THEN "running" ELSE "", !.step = IF stops THEN "stop" ELSE "game"]
  /\ UNCHANGED <<servers, passed, work, offer, cache, tested, touched, overtaken, moves, falls>>

(* applySteps: stop, the pinned game build, the mods, start.               *)
ApplyStep ==
  /\ trial.kind = "apply" /\ trial.child = "none"
  /\ CASE trial.step = "stop" ->
            IF servers["main"].state = "stopped" THEN TrialGoes("game") /\ UNCHANGED <<work,
                                                                                       servers>>
            ELSE Child("main", "stop", 0, 0)
       [] trial.step = "game" ->
            IF trial.build = 0 THEN TrialGoes("mods") /\ UNCHANGED <<work, servers>>
            ELSE Child("main", "game_update", trial.build, 0)
       [] trial.step = "mods" ->
            IF trial.mods = 0 THEN TrialGoes("start") /\ UNCHANGED <<work, servers>>
            ELSE Child("main", "mod_update", 0, trial.mods)
       [] trial.step = "start" ->
            IF trial.was = "" \/ servers["main"].state = "running"
            THEN TrialGoes("delstop") /\ UNCHANGED <<work, servers>>
            ELSE Child("main", "start", 0, 0)
       [] OTHER -> FALSE
  /\ UNCHANGED <<passed, offer, cache, tested, touched, overtaken, moves, falls>>

(* deleteCopy: a copy that cannot be stopped or deleted is left.           *)
DeleteCopy ==
  /\ trial.kind = "apply" /\ trial.child = "none"
  /\ CASE trial.step = "delstop" ->
            IF servers["copy"].state = "running" THEN Child("copy", "stop", 0, 0)
            ELSE TrialGoes("delete") /\ UNCHANGED <<work, servers>>
       [] trial.step = "delete" -> Child("copy", "delete", 0, 0)
       [] OTHER -> FALSE
  /\ UNCHANGED <<passed, offer, cache, tested, touched, overtaken, moves, falls>>

----------------------------------------------------------------------------
(* The panel dies: no job is resumed.  A copy that was being made is in    *)
(* error, an update is in error with the old tree or, if it was swapping,  *)
(* either (sweepUpdateSwap); a start or stop is settled by what Docker     *)
(* says, and a server that was being deleted is deleted again.             *)
Survivors(x) ==
  LET s == servers[x] w == work[x] IN
  CASE w.kind \in {"none", "cloned", "delete"} -> {s}
    [] w.kind = "clone" -> {[s EXCEPT !.state = "error"]}
    [] w.kind = "game_update" ->
         {[s EXCEPT !.state = "error", !.build = b] : b \in {s.build} \cup IF w.phase = "swap" THEN {w.pin} ELSE {}}
    [] w.kind = "mod_update" -> {s, [s EXCEPT !.mods = w.mods]}
    [] OTHER -> {[s EXCEPT !.state = "stopped"], [s EXCEPT !.state = "error"],
                 [s EXCEPT !.state = "running", !.ran = IF w.kind = "start" THEN <<s.build,
                                                                                   s.mods>> ELSE @]}

PanelFalls ==
  /\ falls < MaxFalls /\ falls' = falls + 1
  /\ \E m \in Survivors("main"), c \in Survivors("copy") : servers' = [main |-> m, copy |-> c]
  /\ work' = [x \in Hosts |-> IF servers[x].state # "deleting" THEN NoWork
                               ELSE [NoWork EXCEPT !.kind = "delete", !.phase = "run"]]
  /\ trial' = NoTrial
  /\ UNCHANGED <<passed, offer, cache, tested, touched, overtaken, moves>>

TrialNext ==
  \/ \E x \in Hosts :
       \/ StagePhase(x) \/ FetchBuild(x) \/ SwapUpdate(x) \/ UpdateEnds(x)
       \/ \E ok \in BOOLEAN : JobEnds(x, ok)
       \/ \E kind \in {"start", "stop", "game_update", "mod_update", "delete"} : OtherJob(x, kind)
  \/ Release \/ ClearCache
  \/ CloneServerFiles \/ CloneStep \/ FinishClone \/ CloneFails \/ OtherClone \/ OtherCloneEnds
  \/ StartUpdateTest
  \/ TestClone \/ TestGame \/ TestMods \/ TestStart \/ TestPass \/ TrialHears \/ TrialCancel
  \/ ApplyUpdateTest \/ BeginApply \/ ApplyStep \/ DeleteCopy
  \/ PanelFalls

TrialSpec == TrialInit /\ [][TrialNext]_trialVars

----------------------------------------------------------------------------
(* An apply installs what the test booted, and never something older: when *)
(* a job of the apply changes the game build or the mods of the server,    *)
(* the new value is the one the copy ran when its test passed and is above *)
(* the old one -- unless somebody else updated the copy, or the server     *)
(* after the apply was asked for (update_trial.go:352, :429).              *)
AppliesTested ==
  [][(work["main"].mine /\ ~touched /\ ~overtaken) =>
       \A i \in 1..2 :
         LET now == IF i = 1 THEN servers["main"].build ELSE servers["main"].mods
             new == IF i = 1 THEN servers'["main"].build ELSE servers'["main"].mods
         IN new = now \/ (new = tested[i] /\ new > now)]_trialVars
=============================================================================
