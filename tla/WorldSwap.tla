------------------------------ MODULE WorldSwap ------------------------------
(***************************************************************************)
(* The directory swap that publishes a world or a server tree              *)
(* (internal/backup/restore.go), under its four callers: restore, game     *)
(* update, clone and world import.  A tree `live` is replaced by a tree    *)
(* staged beside it: live -> live.old, live.new -> live, with the marker   *)
(* live.new.complete saying that the staged tree is whole.                 *)
(*                                                                         *)
(* Every file-system call is a step.  The panel may be killed between any  *)
(* two, also while it recovers from having been killed.                    *)
(***************************************************************************)
EXTENDS Naturals, FiniteSets

CONSTANTS
  Kinds,            \* the callers: subset of AllKinds
  Saves,            \* names of the rolling autosaves a world directory holds
  MaxAttempts,      \* bound on the jobs that try to replace the tree
  MayFail,          \* phases whose file-system or Docker call may return an error
  MaySkip,          \* the restore sweep may find the server running, or not know
  CrashInRecovery,  \* the panel may be killed during the boot-time recovery too
  StartsEmpty,      \* an operator may acknowledge and start a server with no world
  None

AllKinds == {"restore", "update", "clone", "import"}

Worlds == 0..(MaxAttempts + 1)

\* The world a server generates when it finds none.
Fresh == MaxAttempts + 1

Trees == [world : Worlds, whole : BOOLEAN, saves : SUBSET Saves]

ASSUME SwapAssumption ==
  /\ Kinds \subseteq AllKinds
  /\ None \notin Worlds
  /\ MaxAttempts \in Nat
  /\ None \notin Trees
  /\ {MaySkip, CrashInRecovery, StartsEmpty} \subseteq BOOLEAN

VARIABLES
  kind,     \* which caller works on this tree
  had,      \* the instance had a world to begin with
  live, old, staged,  \* the three directories: None or what they hold
  marker,   \* live.new.complete exists
  pc,       \* the next file-system call of whoever works on the tree
  mode,     \* who that is: "job", "abandon", "prelude" or "recovery"
  row,      \* the job_runs row of the latest attempt
  attempt,  \* number of that attempt; its world has this id
  current   \* the world last published under `live`, None before the first

trees == <<live, old, staged, marker>>
vars  == <<kind, had, live, old, staged, marker, pc, mode, row, attempt, current>>

Phases == {"unclaim", "drop", "stage", "staging", "mark", "assert", "aside", "publish",
           "unmark", "carry", "dropOld", "putBack", "decide"}

TypeOK ==
  /\ kind \in AllKinds
  /\ had \in BOOLEAN
  /\ live \in Trees \cup {None}
  /\ old \in Trees \cup {None}
  /\ staged \in Trees \cup {None}
  /\ marker \in BOOLEAN
  /\ pc \in Phases \cup {"idle", "down"}
  /\ mode \in {"job", "abandon", "prelude", "recovery"}
  /\ row \in {"none", "running", "closed"}
  /\ attempt \in 0..MaxAttempts
  /\ current \in Worlds \cup {None}

Init ==
  /\ kind \in Kinds
  /\ had \in BOOLEAN
  /\ live = IF had THEN [world |-> 0, whole |-> TRUE, saves |-> Saves] ELSE None
  /\ old = None
  /\ staged = None
  /\ marker = FALSE
  /\ pc = "idle"
  /\ mode = "job"
  /\ row = "none"
  /\ attempt = 0
  /\ current = IF had THEN 0 ELSE None

-----------------------------------------------------------------------------
(* Who works on the tree, and how that ends. *)

\* Restore and import throw their own staging away when they fail before the
\* swap (discardStaged); an update and a clone leave it for the next attempt.
Discards == kind \in {"restore", "import"}

\* restore passes IsAutoSave to SwapKeeping and RecoverSwapKeeping.
Keeps == kind = "restore"

\* Mutant of Resolves: the sweep of a dead restore was forgotten.
ResolvesButRestore == kind \in {"update", "clone"}

\* sweepStaging resolves the swap of a dead restore, update or clone job.  For a
\* dead import it removes the upload only.
Resolves == kind \in {"restore", "update", "clone"}

\* The job's row is closed by FinishJob; a recovery has none.  A clone's prelude
\* goes on with its own staging.
Ends ==
  /\ pc' = IF mode = "prelude" THEN "unclaim" ELSE "idle"
  /\ mode' = "job"
  /\ row' = IF mode \in {"job", "abandon"} THEN "closed" ELSE row

\* A tree that is being written or removed file by file.
Partial(w) == [world |-> w, whole |-> FALSE, saves |-> {}]

Goto(phase) == pc' = phase /\ UNCHANGED <<mode, row>>

\* A restore, game update, clone or import job is claimed.  restoreCloneWorld
\* begins with RecoverSwap, the others with DiscardStaged.
Begin ==
  /\ pc = "idle"
  /\ attempt < MaxAttempts
  /\ attempt' = attempt + 1
  /\ row' = "running"
  /\ pc' = IF kind = "clone" THEN "decide" ELSE "unclaim"
  /\ mode' = IF kind = "clone" THEN "prelude" ELSE "job"
  /\ UNCHANGED <<kind, had, trees, current>>

\* DiscardStaged: the claim goes first ...
Unclaim ==
  /\ pc = "unclaim"
  /\ marker' = FALSE
  /\ Goto("drop")
  /\ UNCHANGED <<kind, had, live, old, staged, attempt, current>>

\* ... then the tree, file by file.
DropPart ==
  /\ pc = "drop"
  /\ staged # None
  /\ staged.whole
  /\ staged' = Partial(staged.world)
  /\ Goto("drop")
  /\ UNCHANGED <<kind, had, live, old, marker, attempt, current>>

\* DiscardStaged returns.  discardUnfinishedStaging then puts a displaced tree back.
DropAll ==
  /\ pc = "drop"
  /\ staged' = None
  /\ \/ mode = "job" /\ Goto("stage")
     \/ mode = "abandon" /\ Ends
     \/ /\ mode \in {"recovery", "prelude"}
        /\ IF live = None /\ old # None THEN Goto("putBack") ELSE Ends
  /\ UNCHANGED <<kind, had, live, old, marker, attempt, current>>

\* Extract, StageUpdate's clone and replay, or the import's file writes: the tree
\* is partial until the last file.  The archive may hold saves of the same names.
Stage ==
  /\ pc = "stage"
  /\ staged' = Partial(attempt)
  /\ Goto("staging")
  /\ UNCHANGED <<kind, had, live, old, marker, attempt, current>>

StageDone ==
  /\ pc = "staging"
  /\ \E s \in SUBSET Saves : staged' = [world |-> attempt, whole |-> TRUE, saves |-> s]
  /\ Goto("mark")
  /\ UNCHANGED <<kind, had, live, old, marker, attempt, current>>

\* MarkStaged.
MarkStaged ==
  /\ pc = "mark"
  /\ marker' = TRUE
  /\ Goto(IF Discards THEN "assert" ELSE "aside")
  /\ UNCHANGED <<kind, had, live, old, staged, attempt, current>>

\* AssertStopped finds the container down.
AssertStopped ==
  /\ pc = "assert"
  /\ Goto("aside")
  /\ UNCHANGED <<kind, had, trees, attempt, current>>

\* Mutant of Aside: the tree in place is removed instead of set aside.
AsideRemoves ==
  /\ pc = "aside"
  /\ live' = None
  /\ Goto("publish")
  /\ UNCHANGED <<kind, had, old, staged, marker, attempt, current>>

\* SwapKeeping: a missing live is not an error; a leftover .old is, since a
\* directory cannot be renamed onto one with files in it.
Aside ==
  /\ pc = "aside"
  /\ live # None => old = None
  /\ IF live # None THEN old' = live /\ live' = None ELSE UNCHANGED <<old, live>>
  /\ Goto("publish")
  /\ UNCHANGED <<kind, had, staged, marker, attempt, current>>

AsideBlocked ==
  /\ pc = "aside"
  /\ live # None
  /\ old # None
  /\ Ends
  /\ UNCHANGED <<kind, had, trees, attempt, current>>

\* The second rename, of the job or of publishStaged.
Publish ==
  /\ pc = "publish"
  /\ staged # None
  /\ live' = staged
  /\ staged' = None
  /\ current' = staged.world
  /\ Goto("unmark")
  /\ UNCHANGED <<kind, had, old, marker, attempt>>

Unmark ==
  /\ pc = "unmark"
  /\ marker' = FALSE
  /\ Goto("carry")
  /\ UNCHANGED <<kind, had, live, old, staged, attempt, current>>

WithSaves(t, names) == [world |-> t.world, whole |-> t.whole, saves |-> names]

\* carryOver moves the autosaves the published tree does not have, one rename each.
CarryOne ==
  /\ pc = "carry"
  /\ Keeps
  /\ old # None
  /\ live # None
  /\ \E s \in old.saves \ live.saves :
       /\ live' = WithSaves(live, live.saves \cup {s})
       /\ old' = WithSaves(old, old.saves \ {s})
  /\ Goto("carry")
  /\ UNCHANGED <<kind, had, staged, marker, attempt, current>>

CarryDone ==
  /\ pc = "carry"
  /\ (Keeps /\ old # None /\ live # None) => old.saves \subseteq live.saves
  /\ Goto("dropOld")
  /\ UNCHANGED <<kind, had, trees, attempt, current>>

\* RemoveAll of the superseded tree, file by file.
DropOldPart ==
  /\ pc = "dropOld"
  /\ old # None
  /\ old.whole
  /\ old' = Partial(old.world)
  /\ Goto("dropOld")
  /\ UNCHANGED <<kind, had, live, staged, marker, attempt, current>>

DropOldAll ==
  /\ pc = "dropOld"
  /\ old' = None
  /\ Ends
  /\ UNCHANGED <<kind, had, live, staged, marker, attempt, current>>

\* Mutant of Decide: the directories alone decide, without the marker.
DecideByTrees ==
  /\ pc = "decide"
  /\ \/ live # None /\ old # None /\ Goto("carry")
     \/ live # None /\ old = None /\ Goto("unclaim")
     \/ live = None /\ staged # None /\ Goto("publish")
     \/ live = None /\ staged = None /\ old # None /\ Goto("putBack")
     \/ live = None /\ staged = None /\ old = None /\ Goto("unclaim")
  /\ UNCHANGED <<kind, had, trees, attempt, current>>

\* Mutant of Decide: an unfinished swap is always put back.
DecideDiscards ==
  /\ pc = "decide"
  /\ \/ live # None /\ old # None /\ Goto("carry")
     \/ live # None /\ old = None /\ Goto("unclaim")
     \/ live = None /\ Goto("unclaim")
  /\ UNCHANGED <<kind, had, trees, attempt, current>>

\* RecoverSwapKeeping looks at which of the directories exist.
Decide ==
  /\ pc = "decide"
  /\ \/ live # None /\ old # None /\ Goto("carry")
     \/ live # None /\ old = None /\ Goto("unclaim")
     \/ live = None /\ staged # None /\ marker /\ Goto("publish")
     \/ live = None /\ staged # None /\ ~marker /\ Goto("unclaim")
     \/ live = None /\ staged = None /\ old # None /\ Goto("putBack")
     \/ live = None /\ staged = None /\ old = None /\ Goto("unclaim")
  /\ UNCHANGED <<kind, had, trees, attempt, current>>

PutBack ==
  /\ pc = "putBack"
  /\ live' = old
  /\ old' = None
  /\ Ends
  /\ UNCHANGED <<kind, had, staged, marker, attempt, current>>

-----------------------------------------------------------------------------
(* Errors, crashes, boots and the server. *)

\* A call fails.  Before the swap restore and import discard their staging; any
\* other failure just ends the job, or is logged by the recovery.
Fail ==
  /\ pc \in MayFail
  /\ IF Discards /\ mode = "job" /\ pc \in {"stage", "staging", "mark", "assert"}
     THEN pc' = "unclaim" /\ mode' = "abandon" /\ UNCHANGED row
     ELSE /\ pc' = "idle"
          /\ mode' = "job"
          /\ row' = IF mode = "recovery" THEN row ELSE "closed"
  /\ UNCHANGED <<kind, had, trees, attempt, current>>

Crash ==
  /\ pc # "down"
  /\ mode = "recovery" => CrashInRecovery
  /\ pc' = "down"
  /\ mode' = "job"
  /\ UNCHANGED <<kind, had, trees, row, attempt, current>>

\* Boot with nothing to sweep.
BootClean ==
  /\ pc = "down"
  /\ row # "running"
  /\ pc' = "idle"
  /\ UNCHANGED <<kind, had, trees, mode, row, attempt, current>>

\* Supervisor.Sweep closes the dead row first and then resolves its leftovers,
\* which is why a panel killed in between never comes back to them.
BootSweep ==
  /\ pc = "down"
  /\ row = "running"
  /\ row' = "closed"
  /\ IF Resolves THEN pc' = "decide" /\ mode' = "recovery"
                 ELSE pc' = "idle" /\ mode' = "job"
  /\ UNCHANGED <<kind, had, trees, attempt, current>>

\* sweepRestoreSwap leaves the swap alone when the server runs or Docker is mute.
SweepSkips ==
  /\ MaySkip
  /\ pc = "decide"
  /\ mode = "recovery"
  /\ kind = "restore"
  /\ Ends
  /\ UNCHANGED <<kind, had, trees, attempt, current>>

\* The operator acknowledges the error and starts the server: it finds no world
\* under `live` and makes one.
StartEmpty ==
  /\ StartsEmpty
  /\ pc = "idle"
  /\ live = None
  /\ live' = [world |-> Fresh, whole |-> TRUE, saves |-> {}]
  /\ current' = IF current = None THEN Fresh ELSE current
  /\ UNCHANGED <<kind, had, old, staged, marker, pc, mode, row, attempt>>

-----------------------------------------------------------------------------
Next ==
  \/ Begin \/ Unclaim \/ DropPart \/ DropAll
  \/ Stage \/ StageDone \/ MarkStaged \/ AssertStopped
  \/ Aside \/ AsideBlocked \/ Publish \/ Unmark
  \/ CarryOne \/ CarryDone \/ DropOldPart \/ DropOldAll
  \/ Decide \/ PutBack
  \/ Fail \/ Crash \/ BootClean \/ BootSweep \/ SweepSkips \/ StartEmpty

Spec == Init /\ [][Next]_vars

-----------------------------------------------------------------------------
(* Properties. *)

\* "At no point is there a partly written world under the name the server
\* loads" (SwapKeeping), whatever fails and whenever the panel is killed.
NoTruncatedWorld == live # None => live.whole

\* The completion marker never stands beside a staging that is not whole: not
\* while one is being written or removed, not when a marker outlived its tree.
MarkerSound == (marker /\ staged # None) => staged.whole

\* The world last published exists in full, under live or set aside as .old.
CurrentSurvives ==
  current # None => \E t \in {live, old} : t # None /\ t.whole /\ t.world = current

\* The rolling autosaves, which no archive carries, are in live or still in .old.
AutosavesSurvive ==
  (kind = "restore" /\ had) =>
    \A s \in Saves : \E t \in {live, old} : t # None /\ s \in t.saves

\* RecoverSwap: "Every case leaves exactly one world under live".  Seen from
\* outside: whenever nobody works on the tree after a sweep, live is there and
\* no superseded tree is left beside it (or none, where there never was one).
OneWorldAtRest ==
  (pc = "idle" /\ row = "closed") =>
    /\ current # None => live # None
    /\ old = None

\* No leftover of an earlier attempt makes the first rename of a later one fail.
NeverBlocked == pc = "aside" => (live = None \/ old = None)

\* A swap that ended, well or badly, leaves one world with its autosaves and is
\* no burden for the next (RecoverSwap, swapDirs, carryAutosaves).
RecoveredWhole == OneWorldAtRest /\ NeverBlocked /\ AutosavesSurvive

\* What recovery would make of the directories.  A swap takes effect at its
\* first rename, when the marker begins to decide for the staged tree; with no
\* world to set aside, at the second.
View ==
  CASE live # None -> live.world
    [] live = None /\ old = None -> 0
    [] live = None /\ old # None /\ staged # None /\ marker -> staged.world
    [] live = None /\ old # None /\ ~(staged # None /\ marker) -> old.world

Atomic == INSTANCE AtomicReplace WITH world <- View, latest <- attempt

\* The three directories and the marker implement an atomic replacement: every
\* crash and recovery leaves the old world or the new one, and never goes back.
AtomicSwap == Atomic!Spec

=============================================================================
