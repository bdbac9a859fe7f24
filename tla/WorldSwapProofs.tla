--------------------------- MODULE WorldSwapProofs ---------------------------
(***************************************************************************)
(* What is kept of a server: its world through a swap, for every caller,   *)
(* every set of failing calls, every number of attempts and crashes at     *)
(* every step, recovery included (WorldSwap); its archives through         *)
(* retention, deletions and uploads (Backups); its saved setups through    *)
(* saves, restores and their recovery (Setups).                            *)
(***************************************************************************)
EXTENDS WorldSwap, Backups, Setups, FiniteSetTheorems, WellFoundedInduction, TLAPS

\* What each phase knows about the trees it works on.
PhaseInv ==
  /\ pc \in {"drop", "stage", "staging"} => ~marker
  /\ pc \in {"staging", "mark", "assert", "aside", "publish"} => staged # None
  /\ pc \in {"mark", "assert", "aside", "publish"} => staged.whole
  /\ pc = "publish" => live = None
  /\ pc \in {"unmark", "carry", "dropOld"} => live # None
  /\ pc = "putBack" => live = None /\ old # None

\* A superseded tree is only ever cut up once live stands.
OldWhole == (live = None /\ old # None) => old.whole

\* The inductive invariant.
SwapInv == TypeOK /\ NoTruncatedWorld /\ MarkerSound /\ OldWhole /\ PhaseInv

\* The tree an instance with a world begins with.
World0 == [world |-> 0, whole |-> TRUE, saves |-> Saves]

\* World 0 is a tree, with all the autosaves.
LEMMA World0Tree ==
  /\ World0 \in Trees /\ World0 # None /\ 0 # None
  /\ World0.world = 0 /\ World0.whole /\ World0.saves = Saves
<1>1. 0 \in Worlds
  BY SwapAssumption DEF Worlds
<1>2. World0 \in Trees
  BY <1>1 DEF Trees, World0
<1> QED
  BY <1>1, <1>2, SwapAssumption DEF World0

\* What Init makes of it.
LEMMA InitialTree ==
  Init => /\ had => live = World0 /\ current = 0
          /\ ~had => live = None /\ current = None
  BY DEF Init, World0

\* Every file-system call, error, crash, boot and server start keeps SwapInv.
THEOREM SwapInvariant == Spec => []SwapInv
<1>1. Init => SwapInv
  <2> SUFFICES ASSUME Init PROVE SwapInv
    OBVIOUS
  <2>1. live \in Trees \cup {None} /\ (live # None => live.whole)
    BY World0Tree, InitialTree DEF Init
  <2>2. current \in Worlds \cup {None} /\ 0 \in 0..MaxAttempts
    BY SwapAssumption, InitialTree DEF Init, Worlds
  <2> QED
    BY <2>1, <2>2, SwapAssumption DEF Init, AllKinds, SwapInv, TypeOK, NoTruncatedWorld,
       MarkerSound, OldWhole, PhaseInv
<1>2. SwapInv /\ [Next]_vars => SwapInv'
  <2> SUFFICES ASSUME SwapInv, [Next]_vars PROVE SwapInv'
    OBVIOUS
  <2> USE SwapAssumption DEF SwapInv, TypeOK, Phases, trees, Goto, Ends, Partial, WithSaves
  <2> USE DEF NoTruncatedWorld, MarkerSound, OldWhole, PhaseInv
  <2>1. CASE Begin
    BY <2>1 DEF Begin
  <2>2. CASE Unclaim
    BY <2>2, ZenonT(30) DEF Unclaim
  <2>3. CASE DropPart
    BY <2>3 DEF DropPart, Trees, Worlds
  <2>4. CASE DropAll
    BY <2>4 DEF DropAll
  <2>5. CASE Stage
    <3>1. Partial(attempt) \in Trees
      BY DEF Trees, Worlds
    <3>2. staged' \in Trees /\ staged' # None
      BY <2>5, <3>1 DEF Stage
    <3> QED
      BY <2>5, <3>2 DEF Stage
  <2>6. CASE StageDone
    <3>1. PICK s \in SUBSET Saves : staged' = [world |-> attempt, whole |-> TRUE, saves |-> s]
      BY <2>6 DEF StageDone
    <3>2. attempt \in Worlds
      BY DEF Worlds
    <3>3. [world |-> attempt, whole |-> TRUE, saves |-> s] \in Trees
      BY <3>2 DEF Trees
    <3>4. staged' \in Trees /\ staged'.whole /\ staged' # None
      BY <3>1, <3>3
    <3> QED
      BY <2>6, <3>4 DEF StageDone
  <2>7. CASE MarkStaged
    BY <2>7 DEF MarkStaged
  <2>8. CASE AssertStopped
    BY <2>8 DEF AssertStopped
  <2>9. CASE Aside
    BY <2>9 DEF Aside
  <2>10. CASE AsideBlocked
    BY <2>10 DEF AsideBlocked
  <2>11. CASE Publish
    BY <2>11 DEF Publish, Trees
  <2>12. CASE Unmark
    BY <2>12 DEF Unmark
  <2>13. CASE CarryOne
    BY <2>13 DEF CarryOne, Trees
  <2>14. CASE CarryDone
    BY <2>14 DEF CarryDone
  <2>15. CASE DropOldPart
    BY <2>15 DEF DropOldPart, Trees
  <2>16. CASE DropOldAll
    BY <2>16 DEF DropOldAll
  <2>17. CASE Decide
    BY <2>17 DEF Decide
  <2>18. CASE PutBack
    BY <2>18 DEF PutBack
  <2>19. CASE Fail
    BY <2>19 DEF Fail
  <2>20. CASE Crash
    BY <2>20 DEF Crash
  <2>21. CASE BootClean
    BY <2>21 DEF BootClean
  <2>22. CASE BootSweep
    BY <2>22 DEF BootSweep
  <2>23. CASE SweepSkips
    BY <2>23 DEF SweepSkips
  <2>24. CASE StartEmpty
    BY <2>24 DEF StartEmpty, Trees, Worlds, Fresh
  <2>25. CASE UNCHANGED vars
    BY <2>25 DEF vars
  <2> QED
    BY <2>1, <2>2, <2>3, <2>4, <2>5, <2>6, <2>7, <2>8, <2>9, <2>10, <2>11, <2>12, <2>13,
       <2>14, <2>15, <2>16, <2>17, <2>18, <2>19, <2>20, <2>21, <2>22, <2>23, <2>24, <2>25
       DEF Next
<1> QED
  BY <1>1, <1>2, PTL DEF Spec

\* No crash, error or recovery puts a partly written tree under the name the
\* server loads.
THEOREM NeverTruncated == Spec => []NoTruncatedWorld
<1>1. SwapInv => NoTruncatedWorld
  BY DEF SwapInv
<1> QED
  BY <1>1, SwapInvariant, PTL

\* The completion marker is never beside a staging that is not whole.
THEOREM MarkerIsSound == Spec => []MarkerSound
<1>1. SwapInv => MarkerSound
  BY DEF SwapInv
<1> QED
  BY <1>1, SwapInvariant, PTL

\* Where the world last published is: under live, or aside while live is missing.
Whereabouts ==
  /\ live # None => live.world = current
  /\ (live = None /\ current # None) => old # None /\ old.world = current
  /\ current = None => live = None /\ old = None

\* As long as no server is started on an empty directory, every step keeps the
\* current world where Whereabouts says.
LEMMA WhereaboutsKnown ==
  ASSUME ~StartsEmpty
  PROVE  Spec => []Whereabouts
<1>1. Init => Whereabouts
  BY World0Tree, InitialTree DEF Init, Whereabouts
<1>2. SwapInv /\ Whereabouts /\ [Next]_vars => Whereabouts'
  <2> SUFFICES ASSUME SwapInv, Whereabouts, [Next]_vars PROVE Whereabouts'
    OBVIOUS
  <2> USE SwapAssumption DEF Whereabouts, trees, Goto, Ends
  <2>1. staged # None => staged \in Trees /\ staged.world \in Worlds /\ staged.world # None
    BY DEF SwapInv, TypeOK, Trees
  <2>2. CASE Aside
    BY <2>2 DEF Aside
  <2>3. CASE Publish
    BY <2>1, <2>3 DEF Publish
  <2>4. CASE CarryOne
    <3>1. live # None /\ old # None
      BY <2>4 DEF CarryOne
    <3>2. current # None
      BY <3>1
    <3>3. live' # None /\ live'.world = live.world
      BY <2>4, <3>1 DEF CarryOne, WithSaves, SwapInv, TypeOK, Trees
    <3> QED
      BY <2>4, <3>1, <3>2, <3>3 DEF CarryOne
  <2>5. CASE DropOldPart
    BY <2>5 DEF DropOldPart, Partial, SwapInv, PhaseInv
  <2>6. CASE DropOldAll
    BY <2>6 DEF DropOldAll, SwapInv, PhaseInv
  <2>7. CASE PutBack
    BY <2>7 DEF PutBack, SwapInv, PhaseInv
  <2>8. CASE StartEmpty
    BY <2>8 DEF StartEmpty
  <2>9. CASE UNCHANGED <<live, old, current>>
    BY <2>9
  <2>10. CASE Begin \/ Unclaim \/ DropPart \/ DropAll \/ Stage \/ StageDone \/ MarkStaged
             \/ AssertStopped \/ AsideBlocked \/ Unmark \/ CarryDone \/ Decide
    BY <2>9, <2>10 DEF Begin, Unclaim, DropPart, DropAll, Stage, StageDone, MarkStaged,
       AssertStopped, AsideBlocked, Unmark, CarryDone, Decide
  <2>11. CASE Fail \/ Crash \/ BootClean \/ BootSweep \/ SweepSkips \/ UNCHANGED vars
    BY <2>9, <2>11 DEF Fail, Crash, BootClean, BootSweep, SweepSkips, vars
  <2> QED
    BY <2>2, <2>3, <2>4, <2>5, <2>6, <2>7, <2>8, <2>10, <2>11 DEF Next
<1> QED
  BY <1>1, <1>2, SwapInvariant, PTL DEF Spec

\* As long as no server is started on an empty directory, the world last
\* published survives every crash and every failing call, in full.
THEOREM CurrentWorldSurvives ==
  ASSUME ~StartsEmpty
  PROVE  Spec => []CurrentSurvives
<1>1. SwapInv /\ Whereabouts => CurrentSurvives
  BY DEF SwapInv, Whereabouts, CurrentSurvives, NoTruncatedWorld, OldWhole
<1> QED
  BY <1>1, SwapInvariant, WhereaboutsKnown, PTL

-----------------------------------------------------------------------------
(* Recovery leaves one whole world, and the swap is atomic, where recovery *)
(* gets to finish: a restore, update or clone, whose file-system calls     *)
(* work from the first rename on, with a sweep that is neither skipped nor *)
(* killed and no server started on an empty directory meanwhile.           *)

BeforeRename == {"stage", "staging", "mark", "assert"}

RecoveryFinishes ==
  /\ Kinds \subseteq {"restore", "update", "clone"}
  /\ MayFail \subseteq BeforeRename
  /\ ~MaySkip /\ ~CrashInRecovery /\ ~StartsEmpty

AtRest == old = None /\ (current # None => live # None)

\* Phases that come before the job's first rename.
Early == {"unclaim", "drop", "stage", "staging", "mark", "assert", "aside"}

\* Who holds the row, and which of them finds the tree at rest.
HolderInv ==
  /\ kind \in Kinds
  /\ pc \in {"idle", "down"} => mode = "job"
  /\ mode = "abandon" => pc \in {"unclaim", "drop"}
  /\ pc \in {"stage", "staging", "mark", "assert", "aside"} => mode = "job"
  /\ pc = "decide" => mode \in {"recovery", "prelude"}
  /\ mode = "recovery" => row = "closed"
  /\ (mode # "recovery" /\ pc \notin {"idle", "down"}) => row = "running"
  /\ pc = "idle" => row # "running"
  /\ (pc = "idle" \/ (pc = "down" /\ row # "running")) => AtRest
  /\ (mode \in {"job", "abandon"} /\ pc \in Early) => AtRest
  /\ (mode \in {"recovery", "prelude"} /\ pc \in {"unclaim", "drop"})
        => (live = None \/ old = None)

\* Between two jobs, and until a job's first rename, there is no superseded
\* tree and the current world stands under live.
LEMMA HoldersKnown ==
  ASSUME RecoveryFinishes
  PROVE  Spec => []HolderInv
<1>1. Init => HolderInv
  BY World0Tree, InitialTree DEF Init, HolderInv, AtRest, Early
<1>2. SwapInv /\ Whereabouts /\ HolderInv /\ [Next]_vars => HolderInv'
  <2> SUFFICES ASSUME SwapInv, Whereabouts, HolderInv, [Next]_vars PROVE HolderInv'
    OBVIOUS
  <2> USE RecoveryFinishes, SwapAssumption DEF RecoveryFinishes, BeforeRename, HolderInv, AtRest,
          Early, trees, Goto, Ends
  <2>0. mode \in {"job", "abandon", "prelude", "recovery"} /\ row \in {"none", "running", "closed"}
    BY DEF SwapInv, TypeOK
  <2>1. CASE Begin
    BY <2>0, <2>1 DEF Begin
  <2>2. CASE Unclaim
    BY <2>0, <2>2 DEF Unclaim
  <2>3. CASE DropPart
    BY <2>0, <2>3 DEF DropPart
  <2>4. CASE DropAll
    BY <2>0, <2>4 DEF DropAll, Whereabouts
  <2>5. CASE Stage
    BY <2>0, <2>5 DEF Stage
  <2>6. CASE StageDone
    BY <2>0, <2>6 DEF StageDone
  <2>7. CASE MarkStaged
    BY <2>0, <2>7 DEF MarkStaged
  <2>8. CASE AssertStopped
    BY <2>0, <2>8 DEF AssertStopped
  <2>9. CASE Aside
    BY <2>0, <2>9 DEF Aside
  <2>10. CASE AsideBlocked
    BY <2>0, <2>10 DEF AsideBlocked
  <2>11. CASE Publish
    BY <2>0, <2>11 DEF Publish
  <2>12. CASE Unmark
    BY <2>0, <2>12 DEF Unmark
  <2>13. CASE CarryOne
    BY <2>0, <2>13 DEF CarryOne
  <2>14. CASE CarryDone
    BY <2>0, <2>14 DEF CarryDone
  <2>15. CASE DropOldPart
    BY <2>0, <2>15 DEF DropOldPart
  <2>16. CASE DropOldAll
    BY <2>0, <2>16 DEF DropOldAll, SwapInv, PhaseInv
  <2>17. CASE Decide
    BY <2>0, <2>17 DEF Decide
  <2>18. CASE PutBack
    BY <2>0, <2>18 DEF PutBack, SwapInv, PhaseInv
  <2>19. CASE Fail
    BY <2>0, <2>19 DEF Fail, Discards
  <2>20. CASE Crash
    BY <2>0, <2>20 DEF Crash
  <2>21. CASE BootClean
    BY <2>0, <2>21 DEF BootClean
  <2>22. CASE BootSweep
    BY <2>0, <2>22 DEF BootSweep, Resolves
  <2>23. CASE SweepSkips
    BY <2>23 DEF SweepSkips
  <2>24. CASE StartEmpty
    BY <2>24 DEF StartEmpty
  <2>25. CASE UNCHANGED vars
    BY <2>25 DEF vars
  <2> QED
    BY <2>1, <2>2, <2>3, <2>4, <2>5, <2>6, <2>7, <2>8, <2>9, <2>10, <2>11, <2>12, <2>13,
       <2>14, <2>15, <2>16, <2>17, <2>18, <2>19, <2>20, <2>21, <2>22, <2>23, <2>24, <2>25
       DEF Next
<1>3. ~StartsEmpty
  BY DEF RecoveryFinishes
<1> QED
  BY <1>1, <1>2, <1>3, SwapInvariant, WhereaboutsKnown, PTL DEF Spec

\* The autosaves, and that all have been carried before .old is removed.
SavesInv ==
  /\ AutosavesSurvive
  /\ (kind = "restore" /\ had /\ pc = "dropOld") => live # None /\ Saves \subseteq live.saves

\* Every autosave the instance had is under live or still in .old.
LEMMA SavesKept ==
  ASSUME RecoveryFinishes
  PROVE  Spec => []SavesInv
<1>1. Init => SavesInv
  BY World0Tree, InitialTree DEF Init, SavesInv, AutosavesSurvive
<1>2. SwapInv /\ HolderInv /\ SavesInv /\ [Next]_vars => SavesInv'
  <2> SUFFICES ASSUME SwapInv, HolderInv, SavesInv, [Next]_vars PROVE SavesInv'
    OBVIOUS
  <2> USE SwapAssumption DEF SavesInv, AutosavesSurvive, trees, Goto, Ends
  <2>1. CASE Aside
    BY <2>1 DEF Aside
  <2>2. CASE Publish
    BY <2>2 DEF Publish, SwapInv, PhaseInv
  <2>3. CASE CarryOne
    <3>1. live \in Trees /\ old \in Trees /\ live # None /\ old # None
      BY <2>3 DEF CarryOne, SwapInv, TypeOK
    <3>2. PICK s \in old.saves \ live.saves :
             /\ live' = WithSaves(live, live.saves \cup {s})
             /\ old' = WithSaves(old, old.saves \ {s})
      BY <2>3 DEF CarryOne
    <3>3. live' \in Trees /\ old' \in Trees
      BY <3>1, <3>2 DEF Trees, WithSaves
    <3>4. live'.saves = live.saves \cup {s} /\ old'.saves = old.saves \ {s}
      BY <3>2 DEF WithSaves
    <3> QED
      BY <2>3, <3>1, <3>3, <3>4 DEF CarryOne
  <2>4. CASE CarryDone
    BY <2>4 DEF CarryDone, Keeps, SwapInv, PhaseInv
  <2>5. CASE DropOldPart
    BY <2>5 DEF DropOldPart
  <2>6. CASE DropOldAll
    BY <2>6 DEF DropOldAll
  <2>7. CASE PutBack
    BY <2>7 DEF PutBack, SwapInv, PhaseInv
  <2>8. CASE StartEmpty
    BY <2>8, RecoveryFinishes DEF StartEmpty, RecoveryFinishes
  <2>9. ASSUME UNCHANGED <<kind, had, live, old>>, pc' = "dropOld" => pc = "dropOld"
        PROVE  SavesInv'
    BY <2>9
  <2>10. CASE Begin \/ Unclaim \/ DropPart \/ DropAll \/ Stage \/ StageDone \/ MarkStaged
             \/ AssertStopped \/ AsideBlocked \/ Unmark \/ Decide
    BY <2>9, <2>10 DEF Begin, Unclaim, DropPart, DropAll, Stage, StageDone, MarkStaged,
       AssertStopped, AsideBlocked, Unmark, Decide
  <2>11. CASE Fail \/ Crash \/ BootClean \/ BootSweep \/ SweepSkips \/ UNCHANGED vars
    BY <2>9, <2>11 DEF Fail, Crash, BootClean, BootSweep, SweepSkips, vars
  <2> QED
    BY <2>1, <2>2, <2>3, <2>4, <2>5, <2>6, <2>7, <2>8, <2>10, <2>11 DEF Next
<1> QED
  BY <1>1, <1>2, SwapInvariant, HoldersKnown, PTL DEF Spec

\* Wherever recovery finishes, a swap that ended, well or badly, leaves exactly
\* one world under live, with every autosave, and nothing that blocks the next.
THEOREM RecoveryLeavesWhole ==
  ASSUME RecoveryFinishes
  PROVE  Spec => []RecoveredWhole
<1>1. HolderInv /\ SavesInv => RecoveredWhole
  BY DEF HolderInv, AtRest, Early, SavesInv, RecoveredWhole, OneWorldAtRest, NeverBlocked
<1> QED
  BY <1>1, HoldersKnown, SavesKept, PTL

\* Which attempt each tree is of: a staged tree the marker vouches for is of
\* the latest one, and until that one's first rename all others are older.
AttemptInv ==
  /\ row # "none" => attempt > 0
  /\ live # None => live.world <= attempt
  /\ old # None => old.world <= attempt
  /\ pc \in {"staging", "mark", "assert", "aside", "publish"} => staged.world = attempt
  /\ pc \in {"assert", "aside", "publish"} => marker
  /\ pc = "assert" => Discards
  /\ (marker /\ staged # None) =>
        /\ staged.world = attempt /\ attempt > 0
        /\ pc \in {"unclaim", "assert", "aside", "publish", "decide", "down"}
        /\ pc = "down" => row = "running"
        /\ mode # "prelude" /\ (live = None \/ old = None)
        /\ (mode = "recovery" /\ pc = "unclaim") => live # None
  /\ pc = "putBack" => staged = None
  /\ mode = "prelude" => /\ live # None => live.world < attempt
                         /\ old # None => old.world < attempt
  /\ (mode \in {"job", "abandon"} /\ pc \in Early /\ live # None) => live.world < attempt

\* Every step keeps the trees' attempts in order.
LEMMA AttemptsOrdered ==
  ASSUME RecoveryFinishes
  PROVE  Spec => []AttemptInv
<1>1. Init => AttemptInv
  BY World0Tree, InitialTree DEF Init, AttemptInv, Early
<1>2. SwapInv /\ HolderInv /\ AttemptInv /\ [Next]_vars => AttemptInv'
  <2> SUFFICES ASSUME SwapInv, HolderInv, AttemptInv, [Next]_vars PROVE AttemptInv'
    OBVIOUS
  <2> USE SwapAssumption DEF AttemptInv, Discards, Early, trees, Goto, Ends
  <2>0. /\ mode \in {"job", "abandon", "prelude", "recovery"}
        /\ row \in {"none", "running", "closed"}
        /\ attempt \in Nat
        /\ live # None => live.world \in Nat
        /\ old # None => old.world \in Nat
        /\ staged # None => staged.world \in Nat
    BY DEF SwapInv, TypeOK, Trees, Worlds
  <2>1. CASE Begin
    BY <2>0, <2>1 DEF Begin, HolderInv, AtRest
  <2>2. CASE Unclaim
    BY <2>0, <2>2 DEF Unclaim, HolderInv
  <2>3. CASE DropPart
    BY <2>0, <2>3 DEF DropPart, HolderInv, SwapInv, PhaseInv
  <2>4. CASE DropAll
    BY <2>0, <2>4 DEF DropAll, HolderInv, SwapInv, PhaseInv
  <2>5. CASE Stage
    BY <2>0, <2>5 DEF Stage, HolderInv, SwapInv, PhaseInv, Partial
  <2>6. CASE StageDone
    BY <2>0, <2>6 DEF StageDone, HolderInv, SwapInv, PhaseInv
  <2>7. CASE MarkStaged
    BY <2>0, <2>7 DEF MarkStaged, HolderInv, AtRest
  <2>8. CASE AssertStopped
    BY <2>0, <2>8 DEF AssertStopped, HolderInv
  <2>9. CASE Aside
    BY <2>0, <2>9 DEF Aside, HolderInv, AtRest
  <2>10. CASE AsideBlocked
    BY <2>0, <2>10 DEF AsideBlocked, HolderInv, AtRest
  <2>11. CASE Publish
    BY <2>0, <2>11 DEF Publish, HolderInv
  <2>12. CASE Unmark
    BY <2>0, <2>12 DEF Unmark, HolderInv
  <2>13. CASE CarryOne
    <3>1. /\ live'.world = live.world /\ old'.world = old.world
          /\ live # None /\ old # None /\ pc = "carry"
          /\ UNCHANGED <<kind, staged, marker, pc, mode, row, attempt>>
      BY <2>13 DEF CarryOne, WithSaves
    <3> QED
      BY <2>0, <3>1
  <2>14. CASE CarryDone
    BY <2>0, <2>14 DEF CarryDone, HolderInv
  <2>15. CASE DropOldPart
    BY <2>0, <2>15 DEF DropOldPart, HolderInv, Partial
  <2>16. CASE DropOldAll
    BY <2>0, <2>16 DEF DropOldAll, HolderInv
  <2>17. CASE Decide
    BY <2>0, <2>17 DEF Decide, HolderInv
  <2>18. CASE PutBack
    BY <2>0, <2>18 DEF PutBack, HolderInv
  <2>19. CASE Fail
    BY <2>0, <2>19, RecoveryFinishes DEF Fail, HolderInv, RecoveryFinishes, BeforeRename
  <2>20. CASE Crash
    BY <2>0, <2>20, RecoveryFinishes DEF Crash, HolderInv, RecoveryFinishes
  <2>21. CASE BootClean
    BY <2>0, <2>21 DEF BootClean, HolderInv
  <2>22. CASE BootSweep
    BY <2>0, <2>22, RecoveryFinishes DEF BootSweep, Resolves, HolderInv, RecoveryFinishes
  <2>23. CASE SweepSkips
    BY <2>23, RecoveryFinishes DEF SweepSkips, RecoveryFinishes
  <2>24. CASE StartEmpty
    BY <2>24, RecoveryFinishes DEF StartEmpty, RecoveryFinishes
  <2>25. CASE UNCHANGED vars
    BY <2>25 DEF vars
  <2> QED
    BY <2>1, <2>2, <2>3, <2>4, <2>5, <2>6, <2>7, <2>8, <2>9, <2>10, <2>11, <2>12, <2>13,
       <2>14, <2>15, <2>16, <2>17, <2>18, <2>19, <2>20, <2>21, <2>22, <2>23, <2>24, <2>25
       DEF Next
<1> QED
  BY <1>1, <1>2, SwapInvariant, HoldersKnown, PTL DEF Spec

\* Wherever recovery finishes, the directories and the marker implement an
\* atomic replacement: a crash leaves the old world or the new one, the step
\* from one to the other is the first rename (the second where there was no
\* world), and no later step goes back.
THEOREM SwapIsAtomic ==
  ASSUME RecoveryFinishes
  PROVE  Spec => AtomicSwap
<1>1. Init => Atomic!Init
  BY World0Tree, InitialTree DEF Init, Atomic!Init, View
<1>2. SwapInv /\ HolderInv /\ AttemptInv /\ [Next]_vars => [Atomic!Next]_<<View, attempt>>
  <2> SUFFICES ASSUME SwapInv, HolderInv, AttemptInv, [Next]_vars
               PROVE  [Atomic!Next]_<<View, attempt>>
    OBVIOUS
  <2> USE DEF trees, Goto
  <2>0. /\ attempt \in Nat
        /\ live # None => live.world \in Nat
        /\ mode \in {"job", "abandon", "prelude", "recovery"}
    BY DEF SwapInv, TypeOK, Trees, Worlds
  <2>1. ASSUME UNCHANGED <<live, old, staged, marker>> PROVE View' = View
    BY <2>1 DEF View
  <2>2. ASSUME UNCHANGED <<live, old>>, live # None \/ old = None PROVE View' = View
    BY <2>2 DEF View
  <2>3. CASE Begin
    BY <2>1, <2>3 DEF Begin, Atomic!Next, Atomic!Begin
  <2>4. CASE Unclaim
    <3>1. CASE live # None \/ old = None
      BY <2>2, <2>4, <3>1 DEF Unclaim
    <3>2. CASE live = None /\ old # None
      <4>1. mode \in {"recovery", "prelude"}
        BY <2>0, <2>4, <3>2 DEF Unclaim, HolderInv, AtRest, Early
      <4>2. ~(marker /\ staged # None)
        BY <2>4, <3>2, <4>1 DEF Unclaim, AttemptInv
      <4> QED
        BY <2>4, <3>2, <4>2 DEF Unclaim, View
    <3> QED
      BY <3>1, <3>2
  <2>5. CASE DropPart \/ DropAll
    BY <2>5 DEF DropPart, DropAll, SwapInv, PhaseInv, View
  <2>6. CASE Stage \/ StageDone \/ MarkStaged
    <3>1. UNCHANGED <<live, old, attempt>> /\ (live # None \/ old = None)
      BY <2>6 DEF Stage, StageDone, MarkStaged, HolderInv, AtRest, Early
    <3> QED
      BY <2>2, <3>1
  <2>7. CASE Aside
    <3>1. old = None /\ staged # None /\ marker /\ staged.world = attempt /\ attempt' = attempt
      BY <2>7 DEF Aside, HolderInv, AtRest, Early, AttemptInv, SwapInv, PhaseInv
    <3>2. CASE live = None
      BY <2>1, <2>7, <3>1, <3>2 DEF Aside
    <3>3. CASE live # None
      <4>1. live' = None /\ old' = live /\ staged' = staged /\ marker' = marker
        BY <2>7, <3>3 DEF Aside
      <4>2. View = live.world /\ View' = attempt
        BY <3>1, <3>3, <4>1 DEF View
      <4>3. live.world < attempt
        BY <2>7, <3>3 DEF Aside, HolderInv, AttemptInv, Early
      <4> QED
        BY <3>1, <4>2, <4>3 DEF Atomic!Next, Atomic!Replace
    <3> QED
      BY <3>2, <3>3
  <2>8. CASE Publish
    <3>1. /\ staged # None /\ marker /\ staged.world = attempt /\ attempt > 0 /\ live = None
          /\ live' = staged /\ attempt' = attempt
      BY <2>8 DEF Publish, AttemptInv, SwapInv, PhaseInv
    <3>2. View' = attempt
      BY <3>1 DEF View
    <3>3. View \in {0, attempt}
      BY <3>1 DEF View
    <3> QED
      BY <2>0, <3>1, <3>2, <3>3 DEF Atomic!Next, Atomic!Replace
  <2>9. CASE Unmark \/ DropOldPart \/ DropOldAll
    BY <2>9 DEF Unmark, DropOldPart, DropOldAll, SwapInv, PhaseInv, View
  <2>10. CASE CarryOne
    <3>1. live \in Trees /\ live # None
      BY <2>10 DEF CarryOne, SwapInv, TypeOK
    <3>2. live' \in Trees /\ live'.world = live.world
      BY <2>10, <3>1 DEF CarryOne, WithSaves, SwapInv, TypeOK, Trees
    <3> QED
      BY <2>10, <3>1, <3>2, SwapAssumption DEF CarryOne, View
  <2>11. CASE PutBack
    <3>1. live = None /\ old # None /\ staged = None
      BY <2>11 DEF PutBack, SwapInv, PhaseInv, AttemptInv
    <3> QED
      BY <2>11, <3>1 DEF PutBack, View
  <2>12. CASE AssertStopped \/ AsideBlocked \/ CarryDone \/ Decide
    BY <2>1, <2>12 DEF AssertStopped, AsideBlocked, CarryDone, Decide
  <2>13. CASE Fail \/ Crash \/ BootClean \/ BootSweep \/ SweepSkips \/ UNCHANGED vars
    BY <2>1, <2>13 DEF Fail, Crash, BootClean, BootSweep, SweepSkips, vars
  <2>14. CASE StartEmpty
    BY <2>14, RecoveryFinishes DEF StartEmpty, RecoveryFinishes
  <2> QED
    BY <2>3, <2>4, <2>5, <2>6, <2>7, <2>8, <2>9, <2>10, <2>11, <2>12, <2>13, <2>14 DEF Next
<1> QED
  BY <1>1, <1>2, SwapInvariant, HoldersKnown, AttemptsOrdered, PTL
     DEF Spec, AtomicSwap, Atomic!Spec

-----------------------------------------------------------------------------
(* The archive catalogue (Backups). *)

\* The job under the server's lock, by what it knows at each of its stages.
ClaimOps == [kind : {"backup"}, at : {"claim"}, id : Numbers, mode : {"quiesced", "hot"},
             wasRunning : BOOLEAN]
CopyingOps == [kind : {"backup", "snapshot"}, at : {"copying"}, id : Numbers,
               class : {"cold", "hot", "snapshot"}, live : BOOLEAN]
CopiedOps == [kind : {"backup", "snapshot"}, at : {"after", "verify"}, id : Numbers,
              class : {"cold", "hot", "snapshot"}, live : BOOLEAN, world : WorldStates]
MeasuredOps == [kind : {"backup", "snapshot"}, at : {"select", "finish", "after finish"},
                id : Numbers, class : {"cold", "hot", "snapshot"}, live : BOOLEAN,
                bytes : Nat, flagged : BOOLEAN, doomed : SUBSET Numbers]
LinkOps == [kind : {"link"}, at : {"saving"}, setup : Links, id : Numbers]
CatalogOps == ClaimOps \cup CopyingOps \cup CopiedOps \cup MeasuredOps \cup LinkOps
Pruners == [at : {"finish", "cleanup"}, doomed : SUBSET Numbers]

BackupsTypeOK ==
  /\ serving \in BOOLEAN
  /\ catalog \in [Numbers -> Rows \cup {Unset}]
  /\ disk \subseteq Numbers /\ pending \subseteq Numbers /\ unlinking \subseteq Numbers
  /\ links \in [Links -> Numbers \cup {Unset}]
  /\ keep \in Policies
  /\ op \in CatalogOps \cup {Unset}
  /\ pruner \in Pruners \cup {Unset}
  /\ meddled \in BOOLEAN
  /\ made \in 0..MaxArchives /\ hand \in Nat

\* The archive being made, until its row is written.
Making == op # Unset /\ op.kind # "link" /\ op.at # "after finish"

\* Numbers are given out once: what is catalogued, selected or being unlinked was numbered
\* before the archive being made, which is none of them.
NumbersFresh ==
  /\ \A b \in Numbers : catalog[b] # Unset \/ b \in unlinking => b <= made
  /\ pruner # Unset => \A b \in pruner.doomed : b <= made
  /\ Making => /\ op.id = made /\ catalog[op.id] = Unset
               /\ op.id \notin unlinking
               /\ pruner # Unset => op.id \notin pruner.doomed

\* A published archive waits for its row.
Published == Making /\ op.at \in {"after", "verify", "select", "finish"} => op.id \in disk

\* A deletion under way has lost its row already.
Unlinked == \A b \in unlinking : catalog[b] = Unset

\* A setup is saved while no prune job runs, and no selection holds a linked archive.
LinksSpared ==
  /\ LinkRunning => pruner = Unset
  /\ \A s \in Links : links[s] # Unset =>
       /\ pruner # Unset /\ pruner.at = "finish" => links[s] \notin pruner.doomed
       /\ Making /\ op.at = "finish" => links[s] \notin op.doomed

\* The unflagged archives of a class, and the newest of them.
SoundOf(class) ==
  {b \in Numbers : catalog[b] # Unset /\ catalog[b].class = class /\ ~catalog[b].flagged}
NewestSound(b, class) == b \in SoundOf(class) /\ \A x \in SoundOf(class) : x <= b

\* While nobody changes the catalogue by hand, no outstanding selection holds the newest
\* unflagged archive of a class, unless the archive being made is one itself; and that one is
\* in no selection.
NewestSpared ==
  /\ Making /\ op.at = "finish" => op.id \notin op.doomed
  /\ ~meddled => \A class \in {"cold", "hot"}, b \in Numbers : NewestSound(b, class) =>
       /\ pruner # Unset /\ pruner.at = "finish" => b \notin pruner.doomed
       /\ Making /\ op.at = "finish" =>
            b \notin op.doomed \/ (op.class = class /\ ~op.flagged)

BackupsInv ==
  /\ BackupsTypeOK /\ NumbersFresh /\ Published /\ Unlinked /\ LinksSpared /\ CatalogTrue
  /\ NewestSpared

-----------------------------------------------------------------------------
\* A set of archive numbers that is not empty has a greatest member.
LEMMA NewestExists ==
  ASSUME NEW S \in SUBSET Numbers, S # {}
  PROVE  \E x \in S : \A y \in S : y <= x
<1> DEFINE T == {MaxArchives - x : x \in S}
<1>1. \A x \in S : x \in Nat /\ x <= MaxArchives /\ MaxArchives - x \in Nat
  BY BackupsAssumption DEF Numbers
<1>2. T \in SUBSET Nat /\ T # {}
  BY <1>1
<1>3. \E m \in T : \A n \in T : ~(<<n, m>> \in OpToRel(<, Nat))
  <2> HIDE DEF T
  <2> QED
    BY <1>2, NatLessThanWellFounded, WFMin
<1>4. PICK m \in T : \A n \in T : ~(<<n, m>> \in OpToRel(<, Nat))
  BY <1>3
<1>5. PICK x \in S : m = MaxArchives - x
  BY <1>4
<1>6. \A y \in S : y <= x
  <2> TAKE y \in S
  <2>1. ~(MaxArchives - y < m)
    <3>1. MaxArchives - y \in T /\ MaxArchives - y \in Nat /\ m \in Nat
      BY <1>1, <1>5
    <3> QED
      BY <1>4, <3>1 DEF OpToRel
  <2> QED
    BY <1>1, <1>5, <2>1, BackupsAssumption
<1> QED
  BY <1>6

\* What a selection takes: known or fresh archives that no setup links.
LEMMA SelectTakes ==
  ASSUME NEW fresh, NEW policy, NEW b \in Select(fresh, policy)
  PROVE  b \in Catalogued \cup DOMAIN fresh /\ ~BackupPinned(b)
  BY DEF Select, Prune, pruneEntry

\* A class counts its archives with those that are newer, so the newest of all is kept.
LEMMA SelectKeepsFirst ==
  ASSUME NEW fresh, NEW policy \in [cold : Nat, hot : Nat],
         NEW b, \A x \in Catalogued \cup DOMAIN fresh : ~(x > b)
  PROVE  b \notin Select(fresh, policy)
<1> SUFFICES ASSUME b \in Select(fresh, policy) PROVE FALSE
  OBVIOUS
<1> DEFINE D == Catalogued \cup DOMAIN fresh
           e == [x \in D |-> pruneEntry(IF x \in DOMAIN fresh THEN fresh[x] ELSE catalog[x], x)]
           free == {x \in DOMAIN e : ~e[x].pinned}
           newer == {x \in free : x > b /\ e[x].class = e[b].class}
           limit == IF e[b].class = "hot" THEN policy.hot ELSE policy.cold
<1>1. limit > 0 /\ Cardinality(newer) >= limit
  BY DEF Select, Prune
<1>2. newer = {}
  OBVIOUS
<1>3. Cardinality(newer) = 0
  BY <1>2, FS_EmptySet
<1>4. limit \in Nat
  OBVIOUS
<1> QED
  <2> HIDE DEF limit, newer
  <2> QED
    BY <1>1, <1>3, <1>4

\* The newest unflagged archive of a counted class is kept past the count.
LEMMA SelectKeepsSound ==
  ASSUME NEW fresh, NEW policy, NEW b \in Catalogued \cup DOMAIN fresh,
         NEW entry, NEW class \in {"cold", "hot"},
         entry = (IF b \in DOMAIN fresh THEN fresh[b] ELSE catalog[b]),
         entry.class = class, ~entry.flagged,
         \A x \in Catalogued \cup DOMAIN fresh :
           LET r == IF x \in DOMAIN fresh THEN fresh[x] ELSE catalog[x]
           IN  x > b /\ r.class = class => r.flagged
  PROVE  b \notin Select(fresh, policy)
<1> DEFINE D == Catalogued \cup DOMAIN fresh
           e == [x \in D |-> pruneEntry(IF x \in DOMAIN fresh THEN fresh[x] ELSE catalog[x], x)]
<1>1. e[b].class = class /\ ~e[b].flagged
  BY DEF pruneEntry
<1>2. \A x \in D : x > b /\ e[x].class = e[b].class => e[x].flagged
  BY <1>1 DEF pruneEntry
<1> HIDE DEF e
<1>3. DOMAIN e = D
  BY DEF e
<1>4. b \notin Prune(e, policy)
  BY <1>1, <1>2, <1>3 DEF Prune
<1> QED
  BY <1>4 DEF Select, e

\* What the job knows at each stage.
LEMMA OpStages ==
  ASSUME BackupsTypeOK
  PROVE  /\ At("claim") => op \in ClaimOps
         /\ At("copying") => op \in CopyingOps
         /\ At("after") \/ At("verify") => op \in CopiedOps
         /\ At("select") \/ At("finish") \/ At("after finish") => op \in MeasuredOps
         /\ At("saving") <=> LinkRunning
         /\ At("saving") => op \in LinkOps
         /\ op # Unset => op.id \in Numbers /\ op.kind \in {"backup", "snapshot", "link"}
  BY DEF BackupsTypeOK, CatalogOps, ClaimOps, CopyingOps, CopiedOps, MeasuredOps, LinkOps, At,
         LinkRunning

\* A step that moves only the job, its archive and nothing in the catalogue.
LEMMA JobMoves ==
  ASSUME BackupsInv, BackupsTypeOK',
         UNCHANGED <<catalog, links, pruner, unlinking, meddled, made>>,
         Making' => Making /\ op'.id = op.id,
         Making' /\ op'.at = "finish" => op'.doomed = {},
         Making' /\ op'.at \in {"after", "verify", "select", "finish"} => op'.id \in disk',
         LinkRunning' => pruner = Unset,
         \A b \in disk : catalog[b] # Unset => b \in disk'
  PROVE  BackupsInv'
<1> USE DEF BackupsInv
<1>1. NumbersFresh'
  BY DEF NumbersFresh, Making
<1>2. Published'
  BY DEF Published
<1>3. Unlinked'
  BY DEF Unlinked
<1>4. LinksSpared'
  BY DEF LinksSpared
<1>5. CatalogTrue'
  BY DEF CatalogTrue, Catalogued
<1>6. NewestSpared'
  BY DEF NewestSpared, NewestSound, SoundOf
<1> QED
  BY <1>1, <1>2, <1>3, <1>4, <1>5, <1>6

\* A step that takes the next number.
LEMMA NumberTaken ==
  ASSUME BackupsInv, BackupsTypeOK', op = Unset,
         UNCHANGED <<catalog, disk, links, pruner, unlinking, meddled>>,
         made' = made + 1, op'.id = made + 1, op'.kind # "link", op'.at \in {"claim", "copying"}
  PROVE  BackupsInv'
<1> USE DEF BackupsInv
<1>0. made \in Nat /\ Numbers \subseteq Nat /\ made + 1 \in Numbers
  BY BackupsAssumption DEF BackupsTypeOK, Numbers
<1>1. NumbersFresh'
  <2>1. \A b \in Numbers : catalog[b] # Unset \/ b \in unlinking => b <= made /\ b # made + 1
    BY <1>0 DEF NumbersFresh
  <2>2. pruner # Unset => \A b \in pruner.doomed : b <= made /\ b # made + 1
    <3>1. pruner # Unset => pruner.doomed \subseteq Numbers
      BY DEF BackupsTypeOK, Pruners
    <3> QED
      BY <1>0, <3>1 DEF NumbersFresh
  <2>3. made + 1 \notin unlinking /\ catalog[made + 1] = Unset
    BY <1>0, <2>1
  <2>4. \A b \in Nat : b <= made => b <= made + 1
    BY <1>0
  <2>5. pruner # Unset => \A b \in pruner.doomed : b \in Nat
    BY <1>0 DEF BackupsTypeOK, Pruners
  <2> QED
    BY <1>0, <2>1, <2>2, <2>3, <2>4, <2>5 DEF NumbersFresh, Making
<1>2. Published'
  BY DEF Published
<1>3. Unlinked'
  BY DEF Unlinked
<1>4. LinksSpared'
  BY DEF LinksSpared, LinkRunning
<1>5. CatalogTrue'
  BY DEF CatalogTrue, Catalogued
<1>6. NewestSpared'
  BY DEF NewestSpared, NewestSound, SoundOf
<1> QED
  BY <1>1, <1>2, <1>3, <1>4, <1>5, <1>6

\* A backup is asked for.
LEMMA CreateBackupKeeps ==
  ASSUME BackupsInv, NEW m \in {"quiesced", "hot"}, createBackup(m)
  PROVE  BackupsInv'
<1> USE DEF createBackup
<1>0. made + 1 \in Numbers /\ made + 1 \in 0..MaxArchives /\ made \in Nat
  BY BackupsAssumption DEF BackupsInv, BackupsTypeOK, Numbers
<1>1. op' \in ClaimOps
  BY <1>0 DEF ClaimOps, BackupsInv, BackupsTypeOK
<1>2. BackupsTypeOK'
  BY <1>0, <1>1 DEF BackupsInv, BackupsTypeOK, CatalogOps
<1>3. op'.id = made + 1 /\ op'.at = "claim" /\ op'.kind = "backup"
  OBVIOUS
<1> QED
  BY <1>2, <1>3, NumberTaken

\* A snapshot before a dangerous job begins.
LEMMA SnapshotKeeps ==
  ASSUME BackupsInv, Snapshot
  PROVE  BackupsInv'
<1> USE DEF Snapshot
<1>0. made + 1 \in Numbers /\ made + 1 \in 0..MaxArchives /\ made \in Nat
  BY BackupsAssumption DEF BackupsInv, BackupsTypeOK, Numbers
<1>1. op' \in CopyingOps
  BY <1>0 DEF CopyingOps
<1>2. BackupsTypeOK'
  BY <1>0, <1>1 DEF BackupsInv, BackupsTypeOK, CatalogOps
<1>3. op'.id = made + 1 /\ op'.at = "copying" /\ op'.kind = "snapshot"
  OBVIOUS
<1> QED
  BY <1>2, <1>3, NumberTaken

\* The backup claims its row and its file name.
LEMMA ClaimKeeps ==
  ASSUME BackupsInv, consistencyClaim
  PROVE  BackupsInv'
<1> USE DEF consistencyClaim
<1>1. op \in ClaimOps
  BY OpStages DEF BackupsInv
<1>2. op' = Unset \/ (op' \in CopyingOps /\ op'.id = op.id)
  BY <1>1 DEF ClaimOps, CopyingOps, BackupsInv, BackupsTypeOK
<1>3. BackupsTypeOK'
  BY <1>2 DEF BackupsInv, BackupsTypeOK, CatalogOps
<1>4. Making
  BY <1>1 DEF Making, ClaimOps, At
<1>5. op' # Unset => op'.kind # "link" /\ op'.at = "copying"
  BY <1>2 DEF CopyingOps
<1> QED
  BY <1>2, <1>3, <1>4, <1>5, JobMoves DEF Making, LinkRunning, BackupsInv

\* The world is copied into the archive.
LEMMA ArchiveKeeps ==
  ASSUME BackupsInv, NEW w \in WorldStates, Archive(w)
  PROVE  BackupsInv'
<1> USE DEF Archive
<1>1. op \in CopyingOps
  BY OpStages DEF BackupsInv
<1>2. op' \in CopiedOps /\ op'.id = op.id
  BY <1>1 DEF CopiedOps, CopyingOps
<1>3. BackupsTypeOK'
  BY <1>1, <1>2 DEF BackupsInv, BackupsTypeOK, CatalogOps, CopyingOps
<1>4. Making
  BY <1>1 DEF Making, CopyingOps, At
<1>5. op'.kind # "link" /\ op'.at \in {"after", "verify"}
  BY <1>2 DEF CopiedOps
<1> QED
  BY <1>2, <1>3, <1>4, <1>5, JobMoves DEF Making, LinkRunning, BackupsInv

\* The copying fails: what was written is removed.
LEMMA ArchiveFailsKeeps ==
  ASSUME BackupsInv, ArchiveFails
  PROVE  BackupsInv'
<1> USE DEF ArchiveFails
<1>3. BackupsTypeOK'
  BY DEF BackupsInv, BackupsTypeOK
<1> QED
  BY <1>3, JobMoves DEF Making, LinkRunning, BackupsInv

\* The world is looked at again once the server is up or known to be stopped.
LEMMA StoppedWorldsKeeps ==
  ASSUME BackupsInv, archiveStoppedWorlds
  PROVE  BackupsInv'
<1> USE DEF archiveStoppedWorlds
<1>1. op \in CopiedOps
  BY OpStages DEF BackupsInv
<1>2. Making /\ catalog[op.id] = Unset /\ op.id \in disk
  BY <1>1 DEF Making, CopiedOps, At, BackupsInv, NumbersFresh, Published
<1>3. op.world.bytes \in Nat
  BY <1>1, BackupsAssumption DEF CopiedOps, WorldFiles
<1>4. op' # Unset => op' \in MeasuredOps /\ op'.id = op.id /\ op'.at = "finish"
                     /\ op'.doomed = {} /\ disk' = disk
  BY <1>1, <1>3 DEF CopiedOps, MeasuredOps, Measured
<1>5. BackupsTypeOK'
  BY <1>1, <1>4 DEF BackupsInv, BackupsTypeOK, CatalogOps
<1>6. op' # Unset => op'.kind # "link"
  BY <1>4 DEF MeasuredOps
<1>7. \A b \in disk : catalog[b] # Unset => b \in disk'
  BY <1>2
<1> QED
  BY <1>2, <1>4, <1>5, <1>6, <1>7, JobMoves DEF Making, LinkRunning, BackupsInv

\* The archive is measured.
LEMMA VerifyKeeps ==
  ASSUME BackupsInv, archiveAndVerify
  PROVE  BackupsInv'
<1> USE DEF archiveAndVerify
<1>1. op \in CopiedOps
  BY OpStages DEF BackupsInv
<1>2. Making /\ catalog[op.id] = Unset /\ op.id \in disk
  BY <1>1 DEF Making, CopiedOps, At, BackupsInv, NumbersFresh, Published
<1>3. op.world.bytes \in Nat
  BY <1>1, BackupsAssumption DEF CopiedOps, WorldFiles
<1> DEFINE f == attention(op.world) # {} \/ Shrunk(op.world.bytes, WorldBaseline)
<1>f. f \in BOOLEAN
  OBVIOUS
<1>4. op' # Unset => op' = [Measured EXCEPT !.at = "select", !.flagged = f] /\ disk' = disk
  OBVIOUS
<1> HIDE DEF f
<1>5. op' # Unset => op' \in MeasuredOps /\ op'.id = op.id /\ op'.at = "select"
                     /\ op'.doomed = {}
  BY <1>1, <1>3, <1>4, <1>f DEF CopiedOps, MeasuredOps, Measured
<1>6. disk' \subseteq disk /\ \A b \in disk : b # op.id => b \in disk'
  OBVIOUS
<1>7. BackupsTypeOK'
  BY <1>1, <1>5, <1>6 DEF BackupsInv, BackupsTypeOK, CatalogOps
<1>8. op' # Unset => op'.kind # "link"
  BY <1>5 DEF MeasuredOps
<1> QED
  BY <1>2, <1>4, <1>5, <1>6, <1>7, <1>8, JobMoves DEF Making, LinkRunning, BackupsInv

\* A backup selects with its own archive counted first: that one is the newest of all, so it is
\* not selected, and neither is the newest unflagged one of either class.
LEMMA SelectForBackupKeeps ==
  ASSUME BackupsInv, SelectForBackup
  PROVE  BackupsInv'
<1> USE DEF SelectForBackup
<1>0. /\ BackupsTypeOK /\ NumbersFresh /\ Published /\ Unlinked /\ LinksSpared /\ CatalogTrue
      /\ NewestSpared
  BY DEF BackupsInv
<1>1. op \in MeasuredOps /\ op # Unset
  BY <1>0, OpStages DEF At
<1>2. Making /\ op.id = made /\ catalog[op.id] = Unset /\ op.id \in Numbers /\ op.id \in disk
  BY <1>0, <1>1 DEF Making, MeasuredOps, At, NumbersFresh, Published
<1> DEFINE fresh == [b \in {op.id} |-> FreshRow]
           doomed == Select(fresh, keep)
<1>3. /\ DOMAIN fresh = {op.id} /\ fresh[op.id] = FreshRow
      /\ FreshRow.class = op.class /\ FreshRow.flagged = op.flagged
  BY DEF FreshRow
<1>4. op' = [op EXCEPT !.at = "finish", !.doomed = doomed] /\ UNCHANGED <<catalog, links, pruner,
         unlinking, made, disk>>
  OBVIOUS
<1> HIDE DEF fresh
<1>5. \A b \in doomed : b \in Catalogued \cup {op.id} /\ ~BackupPinned(b)
  BY <1>3, SelectTakes
<1>6. doomed \subseteq Numbers
  BY <1>2, <1>5 DEF Catalogued
<1>7. op.id \notin doomed
  <2>1. \A x \in Catalogued \cup DOMAIN fresh : ~(x > op.id)
    <3>1. \A x \in Catalogued : x \in Nat /\ x <= made
      BY <1>0 DEF NumbersFresh, Catalogued, Numbers
    <3>2. made \in Nat /\ ~(made > made)
      BY <1>0 DEF BackupsTypeOK
    <3>3. \A x \in Catalogued : ~(x > made)
      BY <3>1, <3>2
    <3> QED
      BY <1>2, <1>3, <3>2, <3>3
  <2>2. keep \in [cold : Nat, hot : Nat]
    BY <1>0, BackupsAssumption DEF BackupsTypeOK
  <2> QED
    BY <2>1, <2>2, SelectKeepsFirst
<1>8. ASSUME NEW class \in {"cold", "hot"}, NEW b \in Numbers, NewestSound(b, class),
             ~(op.class = class /\ ~op.flagged)
      PROVE  b \notin doomed
  <2>1. b \in Catalogued /\ b # op.id /\ catalog[b].class = class /\ ~catalog[b].flagged
    BY <1>2, <1>8 DEF NewestSound, SoundOf, Catalogued
  <2>2. ASSUME NEW x \in Catalogued \cup DOMAIN fresh, x > b,
               (IF x \in DOMAIN fresh THEN fresh[x] ELSE catalog[x]).class = class
        PROVE  (IF x \in DOMAIN fresh THEN fresh[x] ELSE catalog[x]).flagged
    <3>1. CASE x = op.id
      BY <1>3, <1>8, <2>2, <3>1
    <3>2. CASE x # op.id
      <4>1. x \in Catalogued /\ catalog[x].class = class
        BY <1>3, <2>2, <3>2
      <4>2. x \in Int /\ b \in Int /\ ~(x <= b)
        BY <2>2, <4>1 DEF Catalogued, Numbers
      <4>3. x \notin SoundOf(class)
        BY <1>8, <4>2 DEF NewestSound
      <4> QED
        BY <1>3, <3>2, <4>1, <4>3 DEF SoundOf, Catalogued
    <3> QED
      BY <3>1, <3>2
  <2>3. b \in Catalogued \cup DOMAIN fresh /\ (IF b \in DOMAIN fresh THEN fresh[b] ELSE catalog[b]) = catalog[b]
    BY <1>3, <2>1
  <2> QED
    BY <2>1, <2>2, <2>3, SelectKeepsSound
<1> HIDE DEF doomed
<1>9. op' \in MeasuredOps /\ op'.id = op.id /\ op'.at = "finish" /\ op'.doomed = doomed
      /\ op'.class = op.class /\ op'.flagged = op.flagged /\ op'.kind = op.kind
  BY <1>1, <1>4, <1>6 DEF MeasuredOps
<1>10. BackupsTypeOK'
  BY <1>0, <1>9 DEF BackupsTypeOK, CatalogOps
<1>11. op.kind # "link" /\ ~LinkRunning'
  BY <1>1, <1>9 DEF MeasuredOps, LinkRunning
<1>12. NumbersFresh'
  BY <1>0, <1>2, <1>4, <1>9 DEF NumbersFresh, Making
<1>13. Published' /\ Unlinked' /\ CatalogTrue'
  BY <1>0, <1>2, <1>4, <1>9 DEF Published, Unlinked, CatalogTrue, Catalogued
<1>14. LinksSpared'
  BY <1>0, <1>4, <1>5, <1>9, <1>11 DEF LinksSpared, BackupPinned
<1>15. NewestSpared'
  <2>1. ~meddled' => ~meddled \/ pruner = Unset
    BY <1>0 DEF BackupsTypeOK
  <2>2. ASSUME NEW class \in {"cold", "hot"}, NEW b \in Numbers
        PROVE  NewestSound(b, class)' <=> NewestSound(b, class)
    BY <1>4 DEF NewestSound, SoundOf
  <2> QED
    BY <1>0, <1>4, <1>7, <1>8, <1>9, <2>1, <2>2 DEF NewestSpared
<1> QED
  BY <1>10, <1>12, <1>13, <1>14, <1>15 DEF BackupsInv

\* Deleting rows and keeping one that is sound keeps the newest sound one.
LEMMA NewestAfterDeletion ==
  ASSUME BackupsTypeOK, NEW doomed, NEW class, NEW b \in Numbers,
         catalog' = TxDeleted(catalog, doomed), NewestSound(b, class)',
         \A x \in Numbers : NewestSound(x, class) => x \notin doomed
  PROVE  NewestSound(b, class)
<1>1. SoundOf(class)' \subseteq SoundOf(class)
  BY DEF SoundOf, TxDeleted
<1>2. b \in SoundOf(class)' /\ SoundOf(class) # {} /\ SoundOf(class) \in SUBSET Numbers
  BY <1>1 DEF NewestSound, SoundOf
<1>3. PICK n \in SoundOf(class) : \A y \in SoundOf(class) : y <= n
  BY <1>2, NewestExists
<1>4. n \in Numbers /\ NewestSound(n, class)
  BY <1>3 DEF NewestSound, SoundOf
<1>5. n \in SoundOf(class)'
  BY <1>3, <1>4 DEF SoundOf, TxDeleted
<1>6. n <= b /\ b <= n /\ n \in Int /\ b \in Int
  BY <1>1, <1>3, <1>4, <1>5 DEF NewestSound, Numbers
<1> QED
  BY <1>4, <1>6

\* The pass after a backup ends.
LEMMA CleanupAfterBackupKeeps ==
  ASSUME BackupsInv, CleanupAfterBackup
  PROVE  BackupsInv'
<1> USE DEF CleanupAfterBackup
<1>1. BackupsTypeOK'
  BY DEF BackupsInv, BackupsTypeOK, Cleanup
<1> QED
  BY <1>1, JobMoves DEF Cleanup, Making, LinkRunning, BackupsInv

\* A pass of its own chooses what to prune.
LEMMA PruneRunKeeps ==
  ASSUME BackupsInv, PruneRun
  PROVE  BackupsInv'
<1> USE DEF PruneRun
<1>0. /\ BackupsTypeOK /\ NumbersFresh /\ Published /\ Unlinked /\ LinksSpared /\ CatalogTrue
      /\ NewestSpared
  BY DEF BackupsInv
<1> DEFINE doomed == Select(NoFresh, keep)
<1>1. DOMAIN NoFresh = {}
  BY DEF NoFresh
<1>2. \A b \in doomed : b \in Catalogued /\ ~BackupPinned(b)
  BY <1>1, SelectTakes
<1>3. ASSUME NEW class \in {"cold", "hot"}, NEW b \in Numbers, NewestSound(b, class)
      PROVE  b \notin doomed
  <2>1. b \in Catalogued /\ catalog[b].class = class /\ ~catalog[b].flagged
    BY <1>3 DEF NewestSound, SoundOf, Catalogued
  <2>2. ASSUME NEW x \in Catalogued, x > b, catalog[x].class = class PROVE catalog[x].flagged
    <3>1. x \in Int /\ b \in Int /\ ~(x <= b)
      BY <2>2 DEF Catalogued, Numbers
    <3>2. x \notin SoundOf(class)
      BY <1>3, <3>1 DEF NewestSound
    <3> QED
      BY <2>2, <3>2 DEF SoundOf, Catalogued
  <2> QED
    BY <1>1, <2>1, <2>2, SelectKeepsSound
<1>4. pruner' = [at |-> "finish", doomed |-> doomed]
  OBVIOUS
<1> HIDE DEF doomed
<1>5. doomed \subseteq Numbers /\ pruner' \in Pruners /\ pruner'.doomed = doomed
  BY <1>2, <1>4 DEF Catalogued, Pruners
<1>6. BackupsTypeOK'
  BY <1>0, <1>5 DEF BackupsTypeOK
<1>7. NumbersFresh'
  BY <1>0, <1>2, <1>5 DEF NumbersFresh, Making, Catalogued
<1>8. Published' /\ Unlinked' /\ CatalogTrue'
  BY <1>0 DEF Published, Unlinked, CatalogTrue, Catalogued, Making
<1>9. LinksSpared'
  BY <1>0, <1>2, <1>5 DEF LinksSpared, BackupPinned, LinkRunning, Making
<1>10. NewestSpared'
  <2>1. ~meddled' => ~meddled \/ op = Unset
    BY <1>0 DEF BackupsTypeOK
  <2>2. ASSUME NEW class \in {"cold", "hot"}, NEW b \in Numbers
        PROVE  NewestSound(b, class)' <=> NewestSound(b, class)
    BY DEF NewestSound, SoundOf
  <2> QED
    BY <1>0, <1>3, <1>5, <2>1, <2>2 DEF NewestSpared, Making
<1> QED
  BY <1>6, <1>7, <1>8, <1>9, <1>10 DEF BackupsInv

\* A pruned row goes, and its file is still to be removed.
LEMMA PruneRowsKeeps ==
  ASSUME BackupsInv, pruneBackupRow
  PROVE  BackupsInv'
<1> USE DEF pruneBackupRow
<1>0. /\ BackupsTypeOK /\ NumbersFresh /\ Published /\ Unlinked /\ LinksSpared /\ CatalogTrue
      /\ NewestSpared
  BY DEF BackupsInv
<1>1. pruner \in Pruners
  BY <1>0 DEF BackupsTypeOK
<1>2. pruner' \in Pruners /\ pruner'.doomed = pruner.doomed /\ pruner'.at = "cleanup"
  BY <1>1 DEF Pruners
<1>3. \A b \in Numbers : catalog'[b] \in {Unset, catalog[b]}
                         /\ (b \notin pruner.doomed => catalog'[b] = catalog[b])
  BY DEF TxDeleted
<1>4. catalog' \in [Numbers -> Rows \cup {Unset}]
  BY <1>0 DEF TxDeleted, BackupsTypeOK
<1>5. BackupsTypeOK'
  BY <1>0, <1>2, <1>4 DEF BackupsTypeOK
<1>6. NumbersFresh'
  <2>1. Making => catalog'[op.id] = Unset
    BY <1>0, <1>3, OpStages DEF NumbersFresh, Making
  <2> QED
    BY <1>0, <1>2, <1>3, <2>1 DEF NumbersFresh, Making
<1>7. Published' /\ Unlinked'
  BY <1>0, <1>3 DEF Published, Unlinked, Making, BackupsTypeOK
<1>8. CatalogTrue'
  <2>1. Catalogued' \subseteq disk'
    BY <1>0, <1>3 DEF CatalogTrue, Catalogued
  <2>2. ASSUME NEW s \in Links, links[s] # Unset PROVE links[s] \in Catalogued'
    BY <1>0, <1>3, <2>2 DEF CatalogTrue, Catalogued, LinksSpared
  <2> QED
    BY <2>1, <2>2 DEF CatalogTrue
<1>9. LinksSpared'
  BY <1>0, <1>2 DEF LinksSpared, LinkRunning, Making
<1>10. NewestSpared'
  <2>1. ASSUME ~meddled, NEW class \in {"cold", "hot"}, NEW b \in Numbers, NewestSound(b, class)'
        PROVE  NewestSound(b, class)
    BY <1>0, <2>1, NewestAfterDeletion DEF NewestSpared
  <2> QED
    BY <1>0, <1>2, <2>1 DEF NewestSpared, Making
<1> QED
  BY <1>5, <1>6, <1>7, <1>8, <1>9, <1>10 DEF BackupsInv

\* The files of the pruned rows are removed.
LEMMA CleanupAfterPruneKeeps ==
  ASSUME BackupsInv, CleanupAfterPrune
  PROVE  BackupsInv'
<1> USE DEF CleanupAfterPrune
<1>0. /\ BackupsTypeOK /\ NumbersFresh /\ Published /\ Unlinked /\ LinksSpared /\ CatalogTrue
      /\ NewestSpared
  BY DEF BackupsInv
<1>1. BackupsTypeOK'
  BY <1>0 DEF BackupsTypeOK, Cleanup
<1>2. NumbersFresh' /\ Unlinked' /\ LinksSpared'
  BY <1>0 DEF NumbersFresh, Unlinked, LinksSpared, Making, LinkRunning
<1>3. Published'
  BY <1>0 DEF Published, NumbersFresh, Cleanup, Making
<1>4. CatalogTrue'
  BY <1>0 DEF CatalogTrue, Catalogued, Cleanup
<1>5. NewestSpared'
  BY <1>0 DEF NewestSpared, NewestSound, SoundOf, Making
<1> QED
  BY <1>1, <1>2, <1>3, <1>4, <1>5 DEF BackupsInv

\* The row of the new archive and the deletions of its selection.
LEMMA FinishBackupKeeps ==
  ASSUME BackupsInv, NEW uploads \in BOOLEAN, finishBackup(uploads)
  PROVE  BackupsInv'
<1>a. /\ At("finish") /\ op' = [op EXCEPT !.at = "after finish"]
      /\ catalog' = TxDeleted([catalog EXCEPT ![op.id] = FreshRow], op.doomed)
      /\ pending' = pending \union (IF uploads THEN {op.id} ELSE {})
      /\ UNCHANGED <<serving, disk, links, keep, pruner, unlinking, meddled, made, hand>>
  BY DEF finishBackup
<1>0. /\ BackupsTypeOK /\ NumbersFresh /\ Published /\ Unlinked /\ LinksSpared /\ CatalogTrue
      /\ NewestSpared
  BY DEF BackupsInv
<1>1. op \in MeasuredOps /\ op # Unset /\ op.at = "finish"
  BY <1>0, <1>a, OpStages DEF At
<1>2. /\ Making /\ op.id = made /\ catalog[op.id] = Unset /\ op.id \in Numbers /\ op.id \in disk
      /\ op.id \notin op.doomed /\ op.id \notin unlinking
      /\ pruner # Unset => op.id \notin pruner.doomed
  BY <1>0, <1>1 DEF Making, MeasuredOps, NumbersFresh, Published, NewestSpared
<1> DEFINE entry == FreshRow
<1>3. entry \in Rows /\ entry # Unset /\ entry.class = op.class /\ entry.flagged = op.flagged
  <2> DEFINE l == op.live /\ op.class # "hot"
  <2>1. entry = [class |-> op.class, flagged |-> op.flagged, bytes |-> op.bytes, live |-> l]
        /\ l \in BOOLEAN
    BY DEF FreshRow
  <2> HIDE DEF l, entry
  <2>2. entry \in Rows /\ entry.class = op.class /\ entry.flagged = op.flagged
    BY <1>1, <2>1 DEF Rows, MeasuredOps
  <2> QED
    BY <2>2, BackupsAssumption
<1>4. catalog' = [b \in Numbers |-> IF b \in op.doomed /\ ~RemoteBackupProtected(b) THEN Unset
                                   ELSE [catalog EXCEPT ![op.id] = entry][b]]
  BY <1>a DEF TxDeleted
<1> HIDE DEF entry
<1>5. /\ catalog'[op.id] = entry
      /\ \A b \in Numbers \ {op.id} : catalog'[b] \in {Unset, catalog[b]}
                                      /\ (b \notin op.doomed => catalog'[b] = catalog[b])
  BY <1>0, <1>2, <1>4 DEF BackupsTypeOK
<1>6. catalog' \in [Numbers -> Rows \cup {Unset}]
  BY <1>0, <1>2, <1>3, <1>4, <1>5 DEF BackupsTypeOK
<1>7. op' \in MeasuredOps /\ op'.at = "after finish" /\ op'.kind = op.kind /\ op'.id = op.id
  BY <1>1, <1>a DEF MeasuredOps
<1>8. BackupsTypeOK'
  BY <1>a, <1>0, <1>2, <1>6, <1>7 DEF BackupsTypeOK, CatalogOps
<1>9. ~Making' /\ ~LinkRunning'
  BY <1>7 DEF Making, LinkRunning, MeasuredOps
<1>10. NumbersFresh'
  <2>1. made \in Nat /\ made <= made
    BY <1>0 DEF BackupsTypeOK
  <2>2. \A b \in Numbers : catalog'[b] # Unset \/ b \in unlinking => b <= made
    BY <1>a, <1>0, <1>2, <1>5, <2>1 DEF NumbersFresh
  <2> QED
    BY <1>a, <1>0, <1>9, <2>2 DEF NumbersFresh
<1>11. Published' /\ Unlinked' /\ LinksSpared'
  BY <1>a, <1>0, <1>2, <1>5, <1>9 DEF Published, Unlinked, LinksSpared, BackupsTypeOK
<1>12. CatalogTrue'
  <2>1. Catalogued' \subseteq disk'
    BY <1>a, <1>0, <1>2, <1>5 DEF CatalogTrue, Catalogued
  <2>2. ASSUME NEW s \in Links, links[s] # Unset PROVE links[s] \in Catalogued'
    <3>1. links[s] \in Numbers /\ catalog[links[s]] # Unset /\ links[s] # op.id
      BY <1>0, <1>2, <2>2 DEF CatalogTrue, Catalogued
    <3>2. links[s] \notin op.doomed
      BY <1>0, <1>1, <1>2, <2>2 DEF LinksSpared
    <3> QED
      BY <1>5, <3>1, <3>2 DEF Catalogued
  <2> QED
    BY <1>a, <2>1, <2>2 DEF CatalogTrue
<1>13. NewestSpared'
  <2>1. ASSUME ~meddled, NEW class \in {"cold", "hot"}, NEW b \in Numbers, NewestSound(b, class)',
               pruner # Unset, pruner.at = "finish"
        PROVE  b \notin pruner.doomed
    <3>1. CASE op.class = class /\ ~op.flagged
      <4>1. op.id \in SoundOf(class)'
        BY <1>2, <1>3, <1>5, <3>1 DEF SoundOf
      <4>2. op.id <= b /\ b <= made /\ b \in Int /\ made \in Int
        <5>1. op.id <= b /\ catalog'[b] # Unset
          BY <2>1, <4>1 DEF NewestSound, SoundOf
        <5>2. b <= made' /\ made' = made
          BY <1>a, <1>10, <5>1 DEF NumbersFresh
        <5>3. b \in Int /\ made \in Int
          BY <1>0 DEF Numbers, BackupsTypeOK
        <5> QED
          BY <5>1, <5>2, <5>3
      <4>3. b = op.id
        BY <1>2, <4>2
      <4> QED
        BY <1>2, <2>1, <4>3
    <3>2. CASE ~(op.class = class /\ ~op.flagged)
      <4>1. SoundOf(class)' \subseteq SoundOf(class)
        BY <1>2, <1>3, <1>5, <3>2 DEF SoundOf
      <4>2. b \in SoundOf(class)' /\ SoundOf(class) # {} /\ SoundOf(class) \in SUBSET Numbers
        BY <2>1, <4>1 DEF NewestSound, SoundOf
      <4>3. PICK n \in SoundOf(class) : \A y \in SoundOf(class) : y <= n
        BY <4>2, NewestExists
      <4>4. n \in Numbers /\ NewestSound(n, class) /\ n # op.id
        BY <1>2, <4>3 DEF NewestSound, SoundOf
      <4>5. n \notin op.doomed /\ n \notin pruner.doomed
        BY <1>0, <1>1, <1>2, <2>1, <3>2, <4>4 DEF NewestSpared
      <4>6. n \in SoundOf(class)'
        BY <1>5, <4>3, <4>4, <4>5 DEF SoundOf
      <4>7. n <= b /\ b <= n /\ n \in Int /\ b \in Int
        <5>1. n <= b
          BY <2>1, <4>6 DEF NewestSound
        <5>2. b <= n
          BY <4>1, <4>2, <4>3
        <5> QED
          BY <4>4, <5>1, <5>2 DEF Numbers
      <4> QED
        <5>1. n = b
          BY <4>7
        <5> QED
          BY <4>5, <5>1
    <3> QED
      BY <3>1, <3>2
  <2> QED
    BY <1>a, <1>9, <2>1 DEF NewestSpared
<1> QED
  BY <1>8, <1>10, <1>11, <1>12, <1>13 DEF BackupsInv

\* A setup that names a backup finds it good.
LEMMA ValidateKeeps ==
  ASSUME BackupsInv, NEW s \in Links, NEW b \in Numbers, validateSetupBackup(s, b)
  PROVE  BackupsInv'
<1> USE DEF validateSetupBackup
<1>1. op' \in LinkOps /\ op'.kind = "link"
  BY DEF LinkOps
<1>2. BackupsTypeOK'
  BY <1>1 DEF BackupsInv, BackupsTypeOK, CatalogOps
<1>3. ~Making'
  BY <1>1 DEF Making
<1> QED
  BY <1>2, <1>3, JobMoves DEF BackupsInv

\* The setup checks its backup again in the transaction that saves it.
LEMMA CheckSetupKeeps ==
  ASSUME BackupsInv, checkSetupBackup
  PROVE  BackupsInv'
<1> USE DEF checkSetupBackup
<1>0. /\ BackupsTypeOK /\ NumbersFresh /\ Published /\ Unlinked /\ LinksSpared /\ CatalogTrue
      /\ NewestSpared
  BY DEF BackupsInv
<1>1. op \in LinkOps /\ LinkRunning /\ op' = Unset
  BY <1>0, OpStages
<1>2. op.setup \in Links /\ op.id \in Numbers /\ pruner = Unset
  BY <1>0, <1>1 DEF LinkOps, LinksSpared
<1>3. BackupsTypeOK'
  BY <1>0, <1>2 DEF BackupsTypeOK
<1>4. NumbersFresh' /\ Published' /\ Unlinked' /\ LinksSpared'
  BY <1>0, <1>2 DEF NumbersFresh, Published, Unlinked, LinksSpared, Making, LinkRunning
<1>5. CatalogTrue'
  BY <1>0, <1>2 DEF CatalogTrue, Catalogued, BackupsTypeOK
<1>6. NewestSpared'
  BY <1>0, <1>2 DEF NewestSpared, Making
<1> QED
  BY <1>3, <1>4, <1>5, <1>6 DEF BackupsInv

\* A setup goes and releases its backup.
LEMMA ReleaseLinkKeeps ==
  ASSUME BackupsInv, NEW s \in Links, ReleaseLink(s)
  PROVE  BackupsInv'
<1> USE DEF ReleaseLink
<1>0. /\ BackupsTypeOK /\ NumbersFresh /\ Published /\ Unlinked /\ LinksSpared /\ CatalogTrue
      /\ NewestSpared
  BY DEF BackupsInv
<1>3. BackupsTypeOK'
  BY <1>0 DEF BackupsTypeOK
<1>4. NumbersFresh' /\ Published' /\ Unlinked' /\ LinksSpared'
  BY <1>0 DEF NumbersFresh, Published, Unlinked, LinksSpared, Making, LinkRunning
<1>5. CatalogTrue'
  BY <1>0 DEF CatalogTrue, Catalogued, BackupsTypeOK
<1>6. NewestSpared'
  BY <1>0 DEF NewestSpared, Making
<1> QED
  BY <1>3, <1>4, <1>5, <1>6 DEF BackupsInv

\* What an operator changes under an outstanding selection is remembered.
LEMMA MeddlesMarks ==
  ASSUME BackupsTypeOK, Meddles, ~meddled', UNCHANGED <<op, pruner>>
  PROVE  op = Unset /\ pruner = Unset
  BY DEF Meddles, BackupsTypeOK

\* A backup nothing pins loses its row.
LEMMA DeleteRowKeeps ==
  ASSUME BackupsInv, NEW b \in Numbers, DeleteBackupUnpinned(b)
  PROVE  BackupsInv'
<1> USE DEF DeleteBackupUnpinned
<1>0. /\ BackupsTypeOK /\ NumbersFresh /\ Published /\ Unlinked /\ LinksSpared /\ CatalogTrue
      /\ NewestSpared
  BY DEF BackupsInv
<1>1. /\ catalog' \in [Numbers -> Rows \cup {Unset}] /\ catalog'[b] = Unset
      /\ \A x \in Numbers \ {b} : catalog'[x] = catalog[x]
  BY <1>0 DEF BackupsTypeOK
<1>2. BackupsTypeOK'
  BY <1>0, <1>1 DEF BackupsTypeOK, Meddles, ByHand
<1>3. NumbersFresh'
  <2>1. b <= made /\ (Making => op.id # b)
    BY <1>0 DEF NumbersFresh
  <2>2. Making => op.id \in Numbers
    BY <1>0, OpStages DEF Making
  <2> QED
    BY <1>0, <1>1, <2>1, <2>2 DEF NumbersFresh, Making
<1>4. Published' /\ LinksSpared'
  BY <1>0 DEF Published, LinksSpared, Making, LinkRunning
<1>5. Unlinked'
  BY <1>0, <1>1 DEF Unlinked, BackupsTypeOK
<1>6. CatalogTrue'
  BY <1>0, <1>1 DEF CatalogTrue, Catalogued, BackupPinned
<1>7. NewestSpared'
  BY <1>0, MeddlesMarks DEF NewestSpared, Making
<1> QED
  BY <1>2, <1>3, <1>4, <1>5, <1>6, <1>7 DEF BackupsInv

\* The file of a deleted backup is removed.
LEMMA DeleteFileKeeps ==
  ASSUME BackupsInv, NEW b \in Numbers, deleteBackup(b)
  PROVE  BackupsInv'
<1> USE DEF deleteBackup
<1>0. /\ BackupsTypeOK /\ NumbersFresh /\ Published /\ Unlinked /\ LinksSpared /\ CatalogTrue
      /\ NewestSpared
  BY DEF BackupsInv
<1>2. BackupsTypeOK'
  BY <1>0 DEF BackupsTypeOK
<1>3. NumbersFresh' /\ Unlinked' /\ LinksSpared'
  BY <1>0 DEF NumbersFresh, Unlinked, LinksSpared, Making, LinkRunning
<1>4. Published'
  BY <1>0 DEF Published, NumbersFresh, Making
<1>5. CatalogTrue'
  BY <1>0 DEF CatalogTrue, Catalogued, Unlinked
<1>6. NewestSpared'
  BY <1>0 DEF NewestSpared, NewestSound, SoundOf, Making
<1> QED
  BY <1>2, <1>3, <1>4, <1>5, <1>6 DEF BackupsInv

\* A user accepts a world that did not verify.
LEMMA AcknowledgeKeeps ==
  ASSUME BackupsInv, NEW b \in Numbers, AcknowledgeWorld(b)
  PROVE  BackupsInv'
<1> USE DEF AcknowledgeWorld
<1>0. /\ BackupsTypeOK /\ NumbersFresh /\ Published /\ Unlinked /\ LinksSpared /\ CatalogTrue
      /\ NewestSpared
  BY DEF BackupsInv
<1> DEFINE entry == [catalog[b] EXCEPT !.flagged = FALSE]
<1>1. catalog[b] \in Rows /\ entry \in Rows /\ entry # Unset
  BY <1>0, BackupsAssumption DEF BackupsTypeOK, Rows
<1>2. catalog' = [catalog EXCEPT ![b] = entry]
  OBVIOUS
<1> HIDE DEF entry
<1>3. /\ catalog' \in [Numbers -> Rows \cup {Unset}] /\ catalog'[b] # Unset
      /\ \A x \in Numbers \ {b} : catalog'[x] = catalog[x]
  BY <1>0, <1>1, <1>2 DEF BackupsTypeOK
<1>4. BackupsTypeOK'
  BY <1>0, <1>3 DEF BackupsTypeOK, Meddles, ByHand
<1>5. NumbersFresh'
  <2>1. b <= made /\ (Making => op.id # b)
    BY <1>0 DEF NumbersFresh
  <2>2. Making => op.id \in Numbers
    BY <1>0, OpStages DEF Making
  <2> QED
    BY <1>0, <1>3, <2>1, <2>2 DEF NumbersFresh, Making
<1>6. Published' /\ LinksSpared'
  BY <1>0 DEF Published, LinksSpared, Making, LinkRunning
<1>7. Unlinked'
  BY <1>0, <1>3 DEF Unlinked, BackupsTypeOK
<1>8. CatalogTrue'
  BY <1>0, <1>3 DEF CatalogTrue, Catalogued
<1>9. NewestSpared'
  BY <1>0, MeddlesMarks DEF NewestSpared, Making
<1> QED
  BY <1>4, <1>5, <1>6, <1>7, <1>8, <1>9 DEF BackupsInv

\* The limits change.
LEMMA PatchKeepKeeps ==
  ASSUME BackupsInv, NEW policy \in Policies, PatchKeep(policy)
  PROVE  BackupsInv'
<1> USE DEF PatchKeep
<1>0. /\ BackupsTypeOK /\ NumbersFresh /\ Published /\ Unlinked /\ LinksSpared /\ CatalogTrue
      /\ NewestSpared
  BY DEF BackupsInv
<1>1. BackupsTypeOK'
  BY <1>0 DEF BackupsTypeOK, Meddles, ByHand
<1>2. NumbersFresh' /\ Published' /\ Unlinked' /\ LinksSpared' /\ CatalogTrue'
  BY <1>0 DEF NumbersFresh, Published, Unlinked, LinksSpared, Making, LinkRunning, CatalogTrue,
     Catalogued
<1>3. NewestSpared'
  BY <1>0, MeddlesMarks DEF NewestSpared, Making
<1> QED
  BY <1>1, <1>2, <1>3 DEF BackupsInv

\* An upload of an archive ends.
LEMMA UploadEndsKeeps ==
  ASSUME BackupsInv, NEW b \in Numbers, UploadEnds(b)
  PROVE  BackupsInv'
<1> USE DEF UploadEnds
<1>0. /\ BackupsTypeOK /\ NumbersFresh /\ Published /\ Unlinked /\ LinksSpared /\ CatalogTrue
      /\ NewestSpared
  BY DEF BackupsInv
<1>1. BackupsTypeOK'
  BY <1>0 DEF BackupsTypeOK
<1>2. NumbersFresh' /\ Published' /\ Unlinked' /\ LinksSpared' /\ CatalogTrue'
  BY <1>0 DEF NumbersFresh, Published, Unlinked, LinksSpared, Making, LinkRunning, CatalogTrue,
     Catalogued
<1>3. NewestSpared'
  BY <1>0 DEF NewestSpared, NewestSound, SoundOf, Making
<1> QED
  BY <1>1, <1>2, <1>3 DEF BackupsInv

\* The server starts or stops.
LEMMA ToggleKeeps ==
  ASSUME BackupsInv, ToggleServer
  PROVE  BackupsInv'
<1> USE DEF ToggleServer
<1>0. /\ BackupsTypeOK /\ NumbersFresh /\ Published /\ Unlinked /\ LinksSpared /\ CatalogTrue
      /\ NewestSpared
  BY DEF BackupsInv
<1>1. hand' \in Nat /\ serving' \in BOOLEAN
  BY <1>0 DEF BackupsTypeOK, ByHand
<1>2. CASE At("copying")
  <2>1. op \in CopyingOps /\ op # Unset
    BY <1>0, <1>2, OpStages DEF At
  <2> DEFINE l == op.live \/ serving'
  <2>2. op' = [op EXCEPT !.live = l] /\ l \in BOOLEAN
    BY <1>2
  <2> HIDE DEF l
  <2>3. op' \in CopyingOps /\ op'.id = op.id /\ op'.at = "copying" /\ op'.kind = op.kind /\ op.kind # "link"
    BY <2>1, <2>2 DEF CopyingOps
  <2>4. BackupsTypeOK'
    BY <1>0, <1>1, <2>3 DEF BackupsTypeOK, CatalogOps
  <2>5. Making
    BY <2>1 DEF Making, CopyingOps
  <2> QED
    BY <2>3, <2>4, <2>5, JobMoves DEF LinkRunning
<1>3. CASE ~At("copying")
  <2>1. op' = op
    BY <1>3
  <2>2. BackupsTypeOK'
    BY <1>0, <1>1, <2>1 DEF BackupsTypeOK
  <2>3. NumbersFresh' /\ Published' /\ Unlinked' /\ LinksSpared' /\ CatalogTrue'
    BY <1>0, <2>1 DEF NumbersFresh, Published, Unlinked, LinksSpared, Making, LinkRunning,
       CatalogTrue, Catalogued
  <2>4. NewestSpared'
    BY <1>0, <2>1 DEF NewestSpared, NewestSound, SoundOf, Making
  <2> QED
    BY <2>2, <2>3, <2>4 DEF BackupsInv
<1> QED
  BY <1>2, <1>3

\* The panel dies and sweeps what it left.
LEMMA DieKeeps ==
  ASSUME BackupsInv, DieAndRecover
  PROVE  BackupsInv'
<1> USE DEF DieAndRecover
<1>0. /\ BackupsTypeOK /\ NumbersFresh /\ Published /\ Unlinked /\ LinksSpared /\ CatalogTrue
      /\ NewestSpared
  BY DEF BackupsInv
<1>1. BackupsTypeOK'
  BY <1>0 DEF BackupsTypeOK
<1>2. NumbersFresh' /\ Published' /\ Unlinked' /\ LinksSpared' /\ CatalogTrue'
  BY <1>0 DEF NumbersFresh, Published, Unlinked, LinksSpared, Making, LinkRunning, CatalogTrue,
     Catalogued
<1>3. NewestSpared'
  BY <1>0 DEF NewestSpared, Making
<1> QED
  BY <1>1, <1>2, <1>3 DEF BackupsInv

\* The catalogue begins empty.
LEMMA BackupsInitInv == BackupsInit => BackupsInv
<1> SUFFICES ASSUME BackupsInit PROVE BackupsInv
  OBVIOUS
<1> USE DEF BackupsInit
<1>1. BackupsTypeOK
  <2>1. 0 \in 0..MaxArchives /\ 0 \in Nat
    BY BackupsAssumption
  <2>2. serving \in BOOLEAN /\ meddled \in BOOLEAN
    BY Zenon
  <2> QED
    BY <2>1, <2>2 DEF BackupsTypeOK
<1>2. NumbersFresh /\ Published /\ Unlinked /\ LinksSpared /\ CatalogTrue /\ NewestSpared
  BY DEF NumbersFresh, Published, Unlinked, LinksSpared, Making, LinkRunning, CatalogTrue,
     Catalogued, NewestSpared
<1> QED
  BY <1>1, <1>2 DEF BackupsInv

\* Every step keeps the invariant.
LEMMA BackupsNextInv ==
  ASSUME BackupsInv, [BackupsNext]_backupVars
  PROVE  BackupsInv'
<1>1. CASE UNCHANGED backupVars
  BY <1>1 DEF backupVars, BackupsInv, BackupsTypeOK, NumbersFresh, Published, Unlinked, LinksSpared,
     Making, LinkRunning, CatalogTrue, Catalogued, NewestSpared, NewestSound, SoundOf
<1>2. CASE BackupsNext
  BY <1>2, CreateBackupKeeps, ClaimKeeps, SnapshotKeeps, ArchiveKeeps, ArchiveFailsKeeps,
     StoppedWorldsKeeps, VerifyKeeps, SelectForBackupKeeps, FinishBackupKeeps,
     CleanupAfterBackupKeeps, PruneRunKeeps, PruneRowsKeeps, CleanupAfterPruneKeeps,
     CheckSetupKeeps, ReleaseLinkKeeps, ValidateKeeps, DeleteRowKeeps, DeleteFileKeeps,
     AcknowledgeKeeps, UploadEndsKeeps, PatchKeepKeeps, ToggleKeeps, DieKeeps, Zenon
     DEF BackupsNext
<1> QED
  BY <1>1, <1>2

\* Retention, deletions, saves of setups and deaths of the panel leave a catalogue in which
\* every row has its published file and every linked archive its row.
THEOREM CatalogHolds == BackupsSpec => []CatalogTrue
<1>1. BackupsInit => BackupsInv
  BY BackupsInitInv
<1>2. BackupsInv /\ [BackupsNext]_backupVars => BackupsInv'
  BY BackupsNextInv
<1>3. BackupsInv => CatalogTrue
  BY DEF BackupsInv
<1> QED
  BY <1>1, <1>2, <1>3, PTL DEF BackupsSpec

\* A class with an unflagged archive has a newest one.
LEMMA SoundHasNewest ==
  ASSUME NEW class, Sound(catalog, class)
  PROVE  \E n \in Numbers : NewestSound(n, class)
<1>1. SoundOf(class) # {} /\ SoundOf(class) \in SUBSET Numbers
  BY DEF Sound, SoundOf
<1>2. PICK n \in SoundOf(class) : \A y \in SoundOf(class) : y <= n
  BY <1>1, NewestExists
<1> QED
  BY <1>2 DEF NewestSound, SoundOf

\* The transaction of a backup leaves every class an unflagged archive that had one.
LEMMA FinishKeepsSound ==
  ASSUME BackupsInv, NEW uploads \in BOOLEAN, finishBackup(uploads),
         NEW class \in {"cold", "hot"}, Sound(catalog, class), ~meddled
  PROVE  Sound(catalog', class)
<1>a. /\ At("finish")
      /\ catalog' = TxDeleted([catalog EXCEPT ![op.id] = FreshRow], op.doomed)
  BY DEF finishBackup
<1>0. BackupsTypeOK /\ NumbersFresh /\ NewestSpared
  BY DEF BackupsInv
<1>1. op \in MeasuredOps /\ op # Unset /\ op.at = "finish"
  BY <1>0, <1>a, OpStages DEF At
<1>2. Making /\ op.id \in Numbers /\ op.id \notin op.doomed /\ catalog[op.id] = Unset
  BY <1>0, <1>1 DEF Making, MeasuredOps, NumbersFresh, NewestSpared
<1> DEFINE l == op.live /\ op.class # "hot"
<1>3. FreshRow = [class |-> op.class, flagged |-> op.flagged, bytes |-> op.bytes, live |-> l]
      /\ l \in BOOLEAN
  BY DEF FreshRow
<1> HIDE DEF l
<1>4. FreshRow \in Rows /\ FreshRow.class = op.class /\ FreshRow.flagged = op.flagged
  BY <1>1, <1>3 DEF Rows, MeasuredOps
<1>5. catalog'[op.id] = FreshRow /\ FreshRow # Unset
  BY <1>0, <1>2, <1>4, <1>a, BackupsAssumption DEF TxDeleted, BackupsTypeOK
<1>6. PICK n \in Numbers : NewestSound(n, class)
  BY SoundHasNewest
<1>7. CASE op.class = class /\ ~op.flagged
  BY <1>2, <1>4, <1>5, <1>7 DEF Sound
<1>8. CASE ~(op.class = class /\ ~op.flagged)
  <2>1. n \notin op.doomed /\ n # op.id
    BY <1>0, <1>1, <1>2, <1>6, <1>8 DEF NewestSpared, NewestSound, SoundOf
  <2>2. catalog'[n] = catalog[n]
    BY <1>0, <1>a, <2>1 DEF TxDeleted, BackupsTypeOK
  <2> QED
    BY <1>6, <2>2 DEF Sound, NewestSound, SoundOf
<1> QED
  BY <1>7, <1>8

\* So does the transaction of the prune job.
LEMMA PruneKeepsSound ==
  ASSUME BackupsInv, pruneBackupRow, NEW class \in {"cold", "hot"}, Sound(catalog, class), ~meddled
  PROVE  Sound(catalog', class)
<1>1. PICK n \in Numbers : NewestSound(n, class)
  BY SoundHasNewest
<1>2. n \notin pruner.doomed
  BY <1>1 DEF BackupsInv, NewestSpared, pruneBackupRow
<1>3. catalog'[n] = catalog[n]
  BY <1>2 DEF pruneBackupRow, TxDeleted
<1> QED
  BY <1>1, <1>3 DEF Sound, NewestSound, SoundOf

\* The steps that change the catalogue are the two transactions and what operators do by hand.
LEMMA CatalogWriters ==
  ASSUME BackupsInv, BackupsNext, catalog' # catalog
  PROVE  \/ \E uploads \in BOOLEAN : finishBackup(uploads)
         \/ pruneBackupRow
         \/ hand' # hand
<1>1. hand + 1 # hand
  BY DEF BackupsInv, BackupsTypeOK
<1>2. ASSUME NEW b \in Numbers, DeleteBackupUnpinned(b) \/ AcknowledgeWorld(b)
      PROVE  hand' # hand
  BY <1>1, <1>2 DEF DeleteBackupUnpinned, AcknowledgeWorld, ByHand
<1>3. ASSUME NEW m, createBackup(m) PROVE FALSE
  BY <1>3 DEF createBackup
<1>4. ASSUME NEW w, Archive(w) PROVE FALSE
  BY <1>4 DEF Archive
<1>5. ASSUME consistencyClaim \/ Snapshot \/ ArchiveFails \/ archiveStoppedWorlds
             \/ archiveAndVerify \/ SelectForBackup \/ CleanupAfterBackup
      PROVE  FALSE
  BY <1>5 DEF consistencyClaim, Snapshot, ArchiveFails, archiveStoppedWorlds, archiveAndVerify,
     SelectForBackup, CleanupAfterBackup
<1>6. ASSUME PruneRun \/ CleanupAfterPrune \/ checkSetupBackup \/ ToggleServer \/ DieAndRecover
      PROVE  FALSE
  BY <1>6 DEF PruneRun, CleanupAfterPrune, checkSetupBackup, ToggleServer, DieAndRecover
<1>7. ASSUME NEW s, NEW b, ReleaseLink(s) \/ validateSetupBackup(s, b) \/ deleteBackup(b)
             \/ UploadEnds(b) \/ PatchKeep(b)
      PROVE  FALSE
  BY <1>7 DEF ReleaseLink, validateSetupBackup, deleteBackup, UploadEnds, PatchKeep
<1> QED
  BY <1>2, <1>3, <1>4, <1>5, <1>6, <1>7, Zenon DEF BackupsNext

\* Two jobs that select from different catalogues never delete the last unflagged archive of a
\* class between them: neither selection holds the newest one.
THEOREM SoundIsKept == BackupsSpec => LastSoundKept
<1> DEFINE SoundStays == \A class \in {"cold", "hot"} :
              (Sound(catalog, class) /\ ~Sound(catalog', class)) => (meddled \/ hand' # hand)
<1>1. BackupsInit => BackupsInv
  BY BackupsInitInv
<1>2. BackupsInv /\ [BackupsNext]_backupVars => BackupsInv'
  BY BackupsNextInv
<1>3. BackupsInv /\ [BackupsNext]_backupVars => [SoundStays]_backupVars
  <2> SUFFICES ASSUME BackupsInv, BackupsNext, NEW class \in {"cold", "hot"},
                      Sound(catalog, class), ~Sound(catalog', class), ~meddled, hand' = hand
               PROVE  FALSE
    OBVIOUS
  <2>1. catalog' # catalog
    BY Zenon
  <2> QED
    BY <2>1, CatalogWriters, FinishKeepsSound, PruneKeepsSound
<1> QED
  BY <1>1, <1>2, <1>3, PTL DEF BackupsSpec, LastSoundKept

-----------------------------------------------------------------------------
(* Saved setups (Setups). *)

Restoring == setupJob # Nothing /\ setupJob.kind = "restore"

SnapShape(s) == DOMAIN s = {"launch", "mods", "config"} /\ DOMAIN s.mods \subseteq Managed

RestoreFields ==
  {"kind", "at", "setup", "snap", "etag", "journal", "paths", "remove", "write", "aside"}

JobShape ==
  \/ setupJob.kind = "delete" /\ setupJob.at = "done"
  \/ setupJob.kind = "save" /\ setupJob.at = "begin"
  \/ /\ setupJob.kind = "save" /\ setupJob.at \in {"captured", "retained"}
     /\ DOMAIN setupJob = {"kind", "at", "setup", "etag", "snap"}
     /\ SnapShape(setupJob.snap)
  \/ /\ setupJob.kind = "restore"
     /\ DOMAIN setupJob = RestoreFields
     /\ SnapShape(setupJob.snap)

SetupShape ==
  /\ DOMAIN files = Paths /\ DOMAIN modRows \subseteq Managed /\ DOMAIN setups = SetupIds
  /\ \A s \in SetupIds : setups[s] # Nothing => SnapShape(setups[s])
  /\ daemon \in {"up", "down", "closed"}
  /\ setupJob # Nothing => JobShape

\* What is remembered of the last restore is forgotten when a job of another kind begins.
LastShape ==
  \/ last = NoRestore
  \/ /\ DOMAIN last = {"result", "before", "rows", "snap"}
     /\ last.result \in {"running", "restored", "failed", "parked", "forgotten"}
     /\ SnapShape(last.snap) /\ DOMAIN last.rows \subseteq Managed
     /\ setupJob # Nothing => setupJob.kind = "restore"

\* The packages of a setup about to be saved are retained, though no row names them yet: the
\* start of the panel that would remove them first ends the job.
Retained ==
  setupJob # Nothing /\ setupJob.kind = "save" /\ setupJob.at = "retained" =>
    ValidateSetupRefs(setupJob.snap)

\* Off the paths in S, and off what others changed, the tree is the one the restore found.
AsBefore(S) == \A p \in Paths \ S : p \in edited \/ files[p] = last.before[p]

\* The old files that the setup does not own are gone.
Cleared == \A p \in DOMAIN last.rows \ DOMAIN stage(last.snap) : p \in edited \/ files[p] = Nothing

\* The files of the setup are there, but for those in S.
Written(S) ==
  \A p \in DOMAIN stage(last.snap) \ S : p \in edited \/ files[p] = stage(last.snap)[p]

\* The copies set aside are the files the restore found.
AsideTrue == \A p \in setupJob.paths : p \in edited \/ setupJob.aside[p] = last.before[p]

\* How far a restore has come, stage by stage. The journal is there before the first file goes,
\* and the copies before the journal.
RestoreStages ==
  Restoring =>
    /\ last # NoRestore /\ setupJob.snap = last.snap /\ setupJob.paths \subseteq Paths
    /\ setupJob.at \in {"begin", "staged", "copied", "removing", "writing", "applied", "undo",
                        "stuck", "ended"}
    /\ setupJob.at # "ended" => last.result = "running" /\ modRows = last.rows
    /\ setupJob.at \in {"begin", "staged", "copied"} => ~setupJob.journal /\ AsBefore({})
    /\ setupJob.at \in {"staged", "copied", "removing"} =>
         setupJob.write = DOMAIN stage(last.snap) /\ setupJob.remove \subseteq setupJob.paths
    /\ setupJob.at \in {"staged", "copied"} => DOMAIN last.rows \subseteq setupJob.remove
    /\ setupJob.at \in {"staged", "copied", "removing", "writing"} =>
         setupJob.write \subseteq setupJob.paths \intersect DOMAIN stage(last.snap)
    /\ setupJob.at \in {"removing", "writing", "applied", "undo", "stuck"} =>
         setupJob.journal = TRUE /\ AsBefore(setupJob.paths)
    /\ setupJob.at \in {"copied", "removing", "writing", "applied", "undo", "stuck"} => AsideTrue
    /\ setupJob.at = "removing" =>
         \A p \in DOMAIN last.rows \ setupJob.remove : p \in edited \/ files[p] = Nothing
    /\ setupJob.at = "writing" => Cleared /\ Written(setupJob.write)
    /\ setupJob.at = "applied" => Cleared /\ Written({})
    /\ setupJob.at = "ended" => daemon = "up" /\ last.result = "restored"

\* What a restore left that ended well, and one that did not.
Restored ==
  last.result = "restored" =>
    /\ "launch" \in edited \/ launch = last.snap.launch
    /\ modRows = last.snap.mods
    /\ Cleared /\ Written({})
Undone == last.result = "failed" => modRows = last.rows /\ AsBefore({})

SetupsInv ==
  /\ SetupShape /\ LastShape /\ Retained /\ SavedSetupRestorable
  /\ RestoreStages /\ Restored /\ Undone

-----------------------------------------------------------------------------
\* A setup's paths are paths of the tree.
LEMMA StagePaths ==
  ASSUME NEW snap, SnapShape(snap)
  PROVE  DOMAIN stage(snap) = SetupPaths(snap.mods, snap.config) /\ DOMAIN stage(snap) \subseteq Paths
  BY DEF stage, SetupPaths, SnapShape, Paths

\* A step of others: it changes only what it is remembered for.
LEMMA OthersStep ==
  ASSUME SetupsInv, DOMAIN files' = Paths,
         UNCHANGED <<modRows, setups, blobs, setupJob, last>>,
         daemon' \in {"up", "down", "closed"},
         Restoring /\ setupJob.at = "ended" => daemon' = "up",
         last # NoRestore =>
           /\ edited \subseteq edited'
           /\ \A p \in Paths : files'[p] = files[p] \/ p \in edited'
           /\ launch' = launch \/ "launch" \in edited'
  PROVE  SetupsInv'
<1>0. /\ SetupShape /\ LastShape /\ Retained /\ SavedSetupRestorable
      /\ RestoreStages /\ Restored /\ Undone
  BY DEF SetupsInv
<1>1. SetupShape'
  BY <1>0 DEF SetupShape, JobShape
<1>2. LastShape'
  BY <1>0 DEF LastShape
<1>3. Retained' /\ SavedSetupRestorable'
  BY <1>0 DEF Retained, SavedSetupRestorable, ValidateSetupRefs, Verify
<1>4. CASE last = NoRestore
  <2>1. last.result = "none"
    BY <1>4 DEF NoRestore
  <2>2. RestoreStages' /\ Restored' /\ Undone'
    BY <1>0, <1>4, <2>1 DEF RestoreStages, Restored, Undone, Restoring
  <2> QED
    BY <1>1, <1>2, <1>3, <2>2 DEF SetupsInv
<1>5. CASE last # NoRestore
  <2>0. SnapShape(last.snap) /\ DOMAIN last.rows \subseteq Paths /\ DOMAIN stage(last.snap) \subseteq Paths
    BY <1>0, <1>5, StagePaths DEF LastShape, Paths
  <2>1. \A S : AsBefore(S) => AsBefore(S)'
    BY <1>5 DEF AsBefore
  <2>2. Cleared => Cleared'
    BY <1>5, <2>0 DEF Cleared
  <2>3. \A S : Written(S) => Written(S)'
    BY <1>5, <2>0 DEF Written
  <2>4. AsideTrue => AsideTrue'
    BY <1>5 DEF AsideTrue
  <2>5. (\A p \in DOMAIN last.rows \ setupJob.remove : p \in edited \/ files[p] = Nothing) =>
        (\A p \in DOMAIN last.rows \ setupJob.remove : p \in edited' \/ files'[p] = Nothing)
    BY <1>5, <2>0
  <2>6. RestoreStages'
    BY <1>0, <2>1, <2>2, <2>3, <2>4, <2>5 DEF RestoreStages, Restoring
  <2>7. Restored' /\ Undone'
    BY <1>0, <1>5, <2>1, <2>2, <2>3 DEF Restored, Undone
  <2> QED
    BY <1>1, <1>2, <1>3, <2>6, <2>7 DEF SetupsInv
<1> QED
  BY <1>4, <1>5

\* The job is over and what it leaves is as it was.
LEMMA JobOver ==
  ASSUME SetupsInv, setupJob' = Nothing,
         UNCHANGED <<launch, modRows, files, setups, blobs, edited>>,
         daemon' \in {"up", "down", "closed"},
         \/ last' = last
         \/ /\ Restoring
            /\ \/ last' = [last EXCEPT !.result = "forgotten"]
               \/ last' = [last EXCEPT !.result = "failed"] /\ modRows = last.rows /\ AsBefore({})
  PROVE  SetupsInv'
<1>0. /\ SetupShape /\ LastShape /\ Retained /\ SavedSetupRestorable
      /\ RestoreStages /\ Restored /\ Undone
  BY DEF SetupsInv
<1>1. SetupShape'
  BY <1>0 DEF SetupShape
<1>2. Retained' /\ SavedSetupRestorable'
  BY <1>0 DEF Retained, SavedSetupRestorable, ValidateSetupRefs, Verify
<1>3. RestoreStages'
  BY DEF RestoreStages, Restoring
<1>4. CASE last' = last
  BY <1>0, <1>1, <1>2, <1>3, <1>4 DEF SetupsInv, LastShape, Restored, Undone, Cleared, Written, AsBefore
<1>5. CASE last' # last
  <2>1. DOMAIN last = {"result", "before", "rows", "snap"} /\ SnapShape(last.snap)
        /\ DOMAIN last.rows \subseteq Managed
    BY <1>0, <1>5 DEF LastShape, RestoreStages
  <2>2. /\ DOMAIN last' = DOMAIN last /\ last'.result \in {"forgotten", "failed"}
        /\ last'.before = last.before /\ last'.rows = last.rows /\ last'.snap = last.snap
    BY <1>5, <2>1
  <2>3. last'.result = "failed" => modRows = last.rows /\ AsBefore({})
    BY <1>5, <2>1, <2>2
  <2>4. LastShape'
    BY <2>1, <2>2 DEF LastShape
  <2>5. Restored' /\ Undone'
    BY <2>2, <2>3 DEF Restored, Undone, AsBefore
  <2> QED
    BY <1>1, <1>2, <1>3, <2>4, <2>5 DEF SetupsInv
<1> QED
  BY <1>4, <1>5

\* Nothing is remembered of a restore after the step.
LEMMA ForgetsRestore ==
  ASSUME last' = NoRestore, SetupShape', Retained', SavedSetupRestorable', ~Restoring'
  PROVE  SetupsInv'
<1>1. last'.result = "none"
  BY DEF NoRestore
<1> QED
  BY <1>1 DEF SetupsInv, LastShape, RestoreStages, Restored, Undone

\* The runner of a save or a delete that returns a failure leaves no trace.
LEMMA FailsKeeps == SetupsInv /\ Fails => SetupsInv'
<1> SUFFICES ASSUME SetupsInv, Fails PROVE SetupsInv'
  OBVIOUS
<1>1. daemon \in {"up", "down", "closed"}
  BY DEF SetupsInv, SetupShape
<1> QED
  BY <1>1, JobOver DEF Fails

\* A save, a delete and a mod job begin with no restore to remember.
LEMMA SaveSetupKeeps == ASSUME NEW s \in SetupIds, SetupsInv, saveSetup(s) PROVE SetupsInv'
<1>0. SetupShape /\ SavedSetupRestorable
  BY DEF SetupsInv
<1>1. SetupShape'
  BY <1>0 DEF SetupShape, JobShape, saveSetup
<1>2. Retained' /\ SavedSetupRestorable' /\ ~Restoring'
  BY <1>0 DEF saveSetup, Retained, SavedSetupRestorable, ValidateSetupRefs, Verify, Restoring
<1> QED
  BY <1>1, <1>2, ForgetsRestore DEF saveSetup

\* A deletion is asked for.
LEMMA DeleteSetupKeeps == ASSUME NEW s \in SetupIds, SetupsInv, deleteSetup(s) PROVE SetupsInv'
<1>0. SetupShape /\ SavedSetupRestorable
  BY DEF SetupsInv
<1>1. SetupShape'
  BY <1>0 DEF SetupShape, JobShape, deleteSetup
<1>2. Retained' /\ SavedSetupRestorable' /\ ~Restoring'
  BY <1>0 DEF deleteSetup, Retained, SavedSetupRestorable, ValidateSetupRefs, Verify, Restoring
<1> QED
  BY <1>1, <1>2, ForgetsRestore DEF deleteSetup

\* A mod job changes what is installed.
LEMMA ModJobKeeps == ASSUME NEW l \in Layouts, SetupsInv, ModJob(l) PROVE SetupsInv'
<1>0. SetupShape /\ SavedSetupRestorable
  BY DEF SetupsInv
<1>1. SetupShape'
  BY <1>0, SetupsAssumption DEF SetupShape, JobShape, ModJob, Free
<1>2. Retained' /\ SavedSetupRestorable' /\ ~Restoring'
  BY <1>0 DEF ModJob, Free, Retained, SavedSetupRestorable, ValidateSetupRefs, Verify, Restoring
<1> QED
  BY <1>1, <1>2, ForgetsRestore DEF ModJob

\* While a save or a delete runs no restore is remembered.
LEMMA SavingForgets ==
  ASSUME SetupsInv, setupJob # Nothing, setupJob.kind # "restore"
  PROVE  last = NoRestore
  BY DEF SetupsInv, LastShape

\* A save captures the server.
LEMMA CaptureStateKeeps == SetupsInv /\ CaptureState => SetupsInv'
<1> SUFFICES ASSUME SetupsInv, CaptureState PROVE SetupsInv'
  OBVIOUS
<1>0. SetupShape /\ SavedSetupRestorable /\ last = NoRestore
  BY SavingForgets DEF SetupsInv, CaptureState, On
<1>1. CASE Fails
  BY <1>1, FailsKeeps
<1>2. CASE ~Fails
  <2>0. /\ setupJob' = [kind |-> "save", at |-> "captured", setup |-> setupJob.setup,
                        etag |-> Current, snap |-> Capture]
        /\ UNCHANGED <<launch, password, modRows, files, health, box, setups, blobs, daemon, last>>
    BY <1>2 DEF CaptureState
  <2>1. SetupShape'
    BY <1>0, <2>0 DEF SetupShape, JobShape, Capture, SnapShape
  <2>2. Retained' /\ SavedSetupRestorable' /\ ~Restoring'
    BY <1>0, <2>0 DEF Retained, SavedSetupRestorable, ValidateSetupRefs, Verify, Restoring
  <2> QED
    BY <1>0, <2>0, <2>1, <2>2, ForgetsRestore
<1> QED
  BY <1>1, <1>2

\* A save keeps the packages the setup names.
LEMMA RetainKeeps == SetupsInv /\ retainSetupModArtifact => SetupsInv'
<1> SUFFICES ASSUME SetupsInv, retainSetupModArtifact PROVE SetupsInv'
  OBVIOUS
<1>0. SetupShape /\ SavedSetupRestorable /\ last = NoRestore
  BY SavingForgets DEF SetupsInv, retainSetupModArtifact, On
<1>1. CASE Fails
  BY <1>1, FailsKeeps
<1>2. CASE ~Fails
  <2> DEFINE kept == [p \in DOMAIN setupJob.snap.mods |-> files[p]]
  <2>0. /\ blobs' = blobs \union Range(kept)
        /\ setupJob' = [setupJob EXCEPT !.at = "retained", !.snap.mods = kept]
        /\ UNCHANGED <<launch, password, modRows, files, health, box, setups, daemon, last>>
        /\ setupJob.kind = "save" /\ setupJob.at = "captured" /\ setupJob # Nothing
    BY <1>2 DEF retainSetupModArtifact, Put, makeSetupFilesArchive, On
  <2>1. DOMAIN setupJob = {"kind", "at", "setup", "etag", "snap"} /\ SnapShape(setupJob.snap)
    BY <1>0, <2>0 DEF SetupShape, JobShape
  <2>2. \A p \in DOMAIN setupJob.snap.mods : kept[p] \in blobs'
    BY <2>0 DEF Range
  <2>3. DOMAIN kept = DOMAIN setupJob.snap.mods
    OBVIOUS
  <2> HIDE DEF kept
  <2>4. /\ DOMAIN setupJob' = DOMAIN setupJob /\ setupJob'.kind = "save"
        /\ setupJob'.at = "retained" /\ setupJob'.snap = [setupJob.snap EXCEPT !.mods = kept]
    BY <2>0, <2>1
  <2>5. DOMAIN setupJob'.snap = {"launch", "mods", "config"} /\ setupJob'.snap.mods = kept
    BY <2>1, <2>4 DEF SnapShape
  <2>6. SetupShape'
    BY <1>0, <2>0, <2>1, <2>3, <2>4, <2>5 DEF SetupShape, JobShape, SnapShape
  <2>7. Retained'
    BY <2>2, <2>3, <2>5 DEF Retained, ValidateSetupRefs, Verify
  <2>8. SavedSetupRestorable' /\ ~Restoring'
    BY <1>0, <2>0, <2>4 DEF SavedSetupRestorable, ValidateSetupRefs, Verify, Restoring
  <2> QED
    BY <1>0, <2>0, <2>6, <2>7, <2>8, ForgetsRestore
<1> QED
  BY <1>1, <1>2

\* The packages were retained before the row that names them is written.
LEMMA TxSaveSetupKeeps == SetupsInv /\ TxSaveSetup => SetupsInv'
<1> SUFFICES ASSUME SetupsInv, TxSaveSetup PROVE SetupsInv'
  OBVIOUS
<1>0. SetupShape /\ SavedSetupRestorable /\ Retained /\ last = NoRestore
  BY SavingForgets DEF SetupsInv, TxSaveSetup, On
<1>1. CASE Fails
  BY <1>1, FailsKeeps
<1>2. CASE ~Fails
  <2>0. /\ setups' = [setups EXCEPT ![setupJob.setup] = setupJob.snap]
        /\ setupJob' = Nothing
        /\ UNCHANGED <<launch, password, modRows, files, health, box, blobs, daemon, last>>
        /\ setupJob.kind = "save" /\ setupJob.at = "retained" /\ setupJob # Nothing
    BY <1>2 DEF TxSaveSetup, On
  <2>1. SnapShape(setupJob.snap) /\ ValidateSetupRefs(setupJob.snap)
    BY <1>0, <2>0 DEF SetupShape, JobShape, Retained
  <2>2. \A s \in SetupIds : setups'[s] = setups[s] \/ setups'[s] = setupJob.snap
    BY <1>0, <2>0 DEF SetupShape
  <2>3. SetupShape'
    BY <1>0, <2>0, <2>1, <2>2 DEF SetupShape
  <2>4. SavedSetupRestorable' /\ Retained' /\ ~Restoring'
    BY <1>0, <2>0, <2>1, <2>2 DEF SavedSetupRestorable, ValidateSetupRefs, Verify, Restoring, Retained
  <2> QED
    BY <1>0, <2>0, <2>3, <2>4, ForgetsRestore
<1> QED
  BY <1>1, <1>2

\* A setup is deleted with the packages nobody else names.
LEMMA TxDeleteSetupKeeps == SetupsInv /\ TxDeleteSetup => SetupsInv'
<1> SUFFICES ASSUME SetupsInv, TxDeleteSetup PROVE SetupsInv'
  OBVIOUS
<1>0. SetupShape /\ SavedSetupRestorable /\ last = NoRestore
  BY SavingForgets DEF SetupsInv, TxDeleteSetup, On
<1>1. \A s \in SetupIds : setups'[s] = setups[s] \/ setups'[s] = Nothing
  BY <1>0 DEF SetupShape, TxDeleteSetup
<1>2. SetupShape'
  BY <1>0, <1>1 DEF SetupShape, TxDeleteSetup
<1>3. SavedSetupRestorable' /\ Retained' /\ ~Restoring'
  BY <1>0, <1>1 DEF SavedSetupRestorable, ValidateSetupRefs, Verify, Restoring, Retained, TxDeleteSetup
<1> QED
  BY <1>0, <1>2, <1>3, ForgetsRestore DEF TxDeleteSetup

\* What a start of the panel removes is named by no setup, and no save is under way.
LEMMA GCKeeps == SetupsInv /\ GC => SetupsInv'
<1> SUFFICES ASSUME SetupsInv, GC PROVE SetupsInv'
  OBVIOUS
<1>0. /\ SetupShape /\ LastShape /\ Retained /\ SavedSetupRestorable
      /\ RestoreStages /\ Restored /\ Undone
  BY DEF SetupsInv
<1>a. /\ setupJob = Nothing /\ daemon' = "up"
      /\ blobs' = blobs \intersect ReferencedSetupArtifacts
      /\ UNCHANGED <<launch, modRows, files, setups, setupJob, last, edited>>
  BY DEF GC
<1>1. SetupShape' /\ LastShape'
  BY <1>0, <1>a DEF SetupShape, LastShape
<1>2. ASSUME NEW s \in SetupIds, setups[s] # Nothing, NEW p \in DOMAIN setups[s].mods
      PROVE  setups[s].mods[p] \in blobs'
  <2>1. setups[s].mods[p] \in blobs
    BY <1>0, <1>2 DEF SavedSetupRestorable, ValidateSetupRefs, Verify
  <2>2. setups[s].mods[p] \in Range(setups[s].mods)
    BY DEF Range
  <2>3. setups[s].mods[p] \in ReferencedSetupArtifacts
    BY <2>2, <1>2 DEF ReferencedSetupArtifacts
  <2> QED
    BY <1>a, <2>1, <2>3
<1>3. SavedSetupRestorable'
  BY <1>2, <1>a DEF SavedSetupRestorable, ValidateSetupRefs, Verify
<1>4. Retained' /\ RestoreStages'
  BY <1>a DEF Retained, RestoreStages, Restoring
<1>5. Restored' /\ Undone'
  BY <1>0, <1>a DEF Restored, Undone, Cleared, Written, AsBefore
<1> QED
  BY <1>1, <1>3, <1>4, <1>5 DEF SetupsInv

\* A restore that goes on, and has not reached its end.
LEMMA RestoreGoesOn ==
  ASSUME SetupsInv, Restoring, setupJob.at # "ended",
         setupJob'.kind = "restore", DOMAIN setupJob' = RestoreFields,
         setupJob'.snap = setupJob.snap, DOMAIN files' = Paths,
         UNCHANGED <<modRows, setups, blobs, daemon, last>>, RestoreStages'
  PROVE  SetupsInv'
<1>0. /\ SetupShape /\ LastShape /\ SavedSetupRestorable /\ RestoreStages
  BY DEF SetupsInv
<1>1. last.result = "running" /\ SnapShape(setupJob.snap)
  BY <1>0 DEF RestoreStages, SetupShape, JobShape, Restoring
<1>2. SetupShape'
  BY <1>0, <1>1 DEF SetupShape, JobShape
<1>3. LastShape'
  BY <1>0 DEF LastShape
<1>4. Retained' /\ SavedSetupRestorable'
  BY <1>0 DEF Retained, SavedSetupRestorable, ValidateSetupRefs, Verify
<1>5. Restored' /\ Undone'
  BY <1>1 DEF Restored, Undone
<1> QED
  BY <1>2, <1>3, <1>4, <1>5 DEF SetupsInv

\* A restore that does not reach its end and is undone, or parked for the operator.
LEMMA RestoreEnds ==
  ASSUME SetupsInv, Restoring, setupJob' = Nothing, DOMAIN files' = Paths,
         UNCHANGED <<modRows, setups, blobs, daemon>>,
         \/ last' = [last EXCEPT !.result = "parked"]
         \/ /\ last' = [last EXCEPT !.result = "failed"]
            /\ modRows = last.rows
            /\ \A p \in Paths : p \in edited' \/ files'[p] = last.before[p]
  PROVE  SetupsInv'
<1>0. /\ SetupShape /\ LastShape /\ SavedSetupRestorable /\ RestoreStages
  BY DEF SetupsInv
<1>1. SetupShape'
  BY <1>0 DEF SetupShape
<1>2. Retained' /\ SavedSetupRestorable'
  BY <1>0 DEF Retained, SavedSetupRestorable, ValidateSetupRefs, Verify
<1>3. RestoreStages'
  BY DEF RestoreStages, Restoring
<1>4. DOMAIN last = {"result", "before", "rows", "snap"} /\ SnapShape(last.snap)
      /\ DOMAIN last.rows \subseteq Managed
  BY <1>0 DEF LastShape, RestoreStages
<1>5. /\ DOMAIN last' = DOMAIN last /\ last'.result \in {"parked", "failed"}
      /\ last'.before = last.before /\ last'.rows = last.rows /\ last'.snap = last.snap
  BY <1>4
<1>6. last'.result = "failed" =>
        modRows = last.rows /\ \A p \in Paths : p \in edited' \/ files'[p] = last.before[p]
  BY <1>4, <1>5
<1>7. LastShape'
  BY <1>4, <1>5 DEF LastShape
<1>8. Restored' /\ Undone'
  BY <1>5, <1>6 DEF Restored, Undone, AsBefore
<1> QED
  BY <1>1, <1>2, <1>3, <1>7, <1>8 DEF SetupsInv

\* What a restore finds when it begins is what it is measured against.
LEMMA RestoreSetupKeeps == ASSUME NEW s \in SetupIds, SetupsInv, restoreSetup(s) PROVE SetupsInv'
<1>0. SetupShape /\ SavedSetupRestorable
  BY DEF SetupsInv
<1>a. /\ setups[s] # Nothing
      /\ setupJob' = [kind |-> "restore", at |-> "begin", setup |-> s, snap |-> setups[s],
                  etag |-> Current, journal |-> FALSE, paths |-> {}, remove |-> {},
                  write |-> {}, aside |-> [p \in {} |-> Nothing]]
      /\ last' = [result |-> "running", before |-> files, rows |-> modRows, snap |-> setups[s]]
      /\ UNCHANGED <<modRows, files, setups, blobs, daemon>>
  BY DEF restoreSetup
<1>1. /\ setupJob'.kind = "restore" /\ setupJob'.at = "begin" /\ setupJob'.snap = setups[s]
      /\ setupJob'.journal = FALSE /\ DOMAIN setupJob' = RestoreFields
  BY <1>a DEF RestoreFields
<1>2. /\ last'.result = "running" /\ last'.before = files /\ last'.rows = modRows
      /\ last'.snap = setups[s] /\ DOMAIN last' = {"result", "before", "rows", "snap"}
      /\ last' # NoRestore
  BY <1>a DEF NoRestore
<1>3. SetupShape'
  BY <1>0, <1>a, <1>1 DEF SetupShape, JobShape
<1>4. LastShape'
  BY <1>0, <1>a, <1>1, <1>2 DEF LastShape, SetupShape
<1>5. Retained' /\ SavedSetupRestorable'
  BY <1>0, <1>a, <1>1 DEF Retained, SavedSetupRestorable, ValidateSetupRefs, Verify
<1>b. setupJob'.paths = {}
  BY <1>a
<1>6. RestoreStages'
  BY <1>a, <1>b, <1>1, <1>2 DEF RestoreStages, AsBefore
<1>7. Restored' /\ Undone'
  BY <1>2 DEF Restored, Undone
<1> QED
  BY <1>3, <1>4, <1>5, <1>6, <1>7 DEF SetupsInv

\* A restore that fails before its journal is written has touched nothing.
LEMMA FailRestoreKeeps ==
  ASSUME SetupsInv, Restoring, setupJob.at \in {"begin", "staged", "copied"},
         setupJob' = Nothing, last' = [last EXCEPT !.result = "failed"],
         UNCHANGED <<modRows, files, setups, blobs, daemon, edited>>
  PROVE  SetupsInv'
<1>1. AsBefore({}) /\ modRows = last.rows /\ DOMAIN files = Paths
  BY DEF SetupsInv, RestoreStages, SetupShape
<1> QED
  BY <1>1, RestoreEnds DEF AsBefore

\* A restore works out what it will remove and write.
LEMMA PrepareKeeps == SetupsInv /\ prepareSetupRestore => SetupsInv'
<1> SUFFICES ASSUME SetupsInv, prepareSetupRestore PROVE SetupsInv'
  OBVIOUS
<1>0. SetupShape /\ LastShape /\ RestoreStages /\ Restoring /\ setupJob.at = "begin"
  BY DEF SetupsInv, prepareSetupRestore, On, Restoring
<1>1. CASE FailRestore
  BY <1>0, <1>1, FailRestoreKeeps DEF FailRestore, Ended
<1>2. CASE ~FailRestore
  <2>0. /\ setupJob' = [setupJob EXCEPT !.at = "staged", !.paths = unionSetupPaths(setupJob.snap),
                          !.remove = currentPaths, !.write = DOMAIN stage(setupJob.snap)]
        /\ UNCHANGED <<launch, modRows, files, setups, blobs, daemon, last, edited>>
    BY <1>2 DEF prepareSetupRestore
  <2>1. DOMAIN setupJob = RestoreFields /\ SnapShape(setupJob.snap) /\ setupJob.snap = last.snap
    BY <1>0 DEF SetupShape, JobShape, RestoreStages, Restoring
  <2>2. /\ DOMAIN setupJob' = RestoreFields /\ setupJob'.kind = "restore"
        /\ setupJob'.at = "staged" /\ setupJob'.snap = setupJob.snap
        /\ setupJob'.journal = setupJob.journal
        /\ setupJob'.paths = unionSetupPaths(last.snap) /\ setupJob'.remove = currentPaths
        /\ setupJob'.write = DOMAIN stage(last.snap)
    BY <1>0, <2>0, <2>1 DEF RestoreFields, Restoring
  <2>3. setupJob'.write \subseteq setupJob'.paths /\ setupJob'.remove \subseteq setupJob'.paths
    BY <2>1, <2>2, StagePaths DEF unionSetupPaths
  <2>4. DOMAIN modRows \subseteq setupJob'.remove
    BY <2>2 DEF currentPaths, SetupPaths
  <2>a. setupJob'.paths \subseteq Paths
    BY <1>0, <2>1, <2>2, StagePaths DEF unionSetupPaths, currentPaths, SetupPaths, SetupShape, Paths
  <2>5. RestoreStages'
    BY <1>0, <2>0, <2>1, <2>2, <2>3, <2>4, <2>a DEF RestoreStages, AsBefore
  <2>6. DOMAIN files' = Paths
    BY <1>0, <2>0 DEF SetupShape
  <2> QED
    BY <1>0, <2>0, <2>2, <2>5, <2>6, RestoreGoesOn
<1> QED
  BY <1>1, <1>2

\* What the restore will overwrite is put aside.
LEMMA BackUpAsideKeeps == SetupsInv /\ backUpAside => SetupsInv'
<1> SUFFICES ASSUME SetupsInv, backUpAside PROVE SetupsInv'
  OBVIOUS
<1>0. SetupShape /\ LastShape /\ RestoreStages /\ Restoring /\ setupJob.at = "staged"
  BY DEF SetupsInv, backUpAside, On, Restoring
<1>1. CASE setupJob' = Nothing /\ Ended("failed") /\ UNCHANGED <<modRows, files, setups, blobs, daemon, edited>>
  BY <1>0, <1>1, FailRestoreKeeps DEF Ended
<1>2. CASE /\ setupJob' = [setupJob EXCEPT !.at = "copied", !.aside = [p \in setupJob.paths |-> files[p]]]
           /\ UNCHANGED <<launch, modRows, files, setups, blobs, daemon, last, edited>>
  <2>1. DOMAIN setupJob = RestoreFields /\ SnapShape(setupJob.snap) /\ setupJob.snap = last.snap
    BY <1>0 DEF SetupShape, JobShape, RestoreStages, Restoring
  <2> DEFINE copies == [p \in setupJob.paths |-> files[p]]
  <2>2. \A p \in setupJob.paths : copies[p] = files[p]
    OBVIOUS
  <2>3. setupJob' = [setupJob EXCEPT !.at = "copied", !.aside = copies]
    BY <1>2
  <2> HIDE DEF copies
  <2>4. /\ DOMAIN setupJob' = RestoreFields /\ setupJob'.kind = "restore"
        /\ setupJob'.at = "copied" /\ setupJob'.snap = setupJob.snap
        /\ setupJob'.journal = setupJob.journal
        /\ setupJob'.paths = setupJob.paths /\ setupJob'.remove = setupJob.remove
        /\ setupJob'.write = setupJob.write /\ setupJob'.aside = copies
    BY <1>0, <2>3, <2>1 DEF RestoreFields, Restoring
  <2>5. setupJob.paths \subseteq Paths
    BY <1>0 DEF RestoreStages
  <2>6. AsideTrue'
    BY <1>0, <1>2, <2>2, <2>4, <2>5 DEF AsideTrue, AsBefore, RestoreStages
  <2>7. RestoreStages'
    BY <1>0, <1>2, <2>1, <2>4, <2>6 DEF RestoreStages, AsBefore
  <2>8. DOMAIN files' = Paths
    BY <1>0, <1>2 DEF SetupShape
  <2> QED
    BY <1>0, <1>2, <2>4, <2>7, <2>8, RestoreGoesOn
<1> QED
  BY <1>1, <1>2 DEF backUpAside, FailRestore, Ended

\* What the invariant says of a restore that is under way.
LEMMA RestoreUnderWay ==
  ASSUME SetupsInv, Restoring
  PROVE  /\ DOMAIN setupJob = RestoreFields /\ SnapShape(setupJob.snap) /\ setupJob.snap = last.snap
         /\ DOMAIN files = Paths /\ setupJob.paths \subseteq Paths /\ setupJob.kind = "restore"
         /\ DOMAIN stage(last.snap) \subseteq Paths /\ DOMAIN last.rows \subseteq Paths
         /\ DOMAIN last = {"result", "before", "rows", "snap"}
  BY StagePaths DEF SetupsInv, SetupShape, JobShape, RestoreStages, Restoring, LastShape, Paths

\* The journal is written.
LEMMA WriteSetupJournalKeeps == SetupsInv /\ WriteSetupJournal => SetupsInv'
<1> SUFFICES ASSUME SetupsInv, WriteSetupJournal PROVE SetupsInv'
  OBVIOUS
<1>0. RestoreStages /\ Restoring /\ setupJob.at = "copied"
  BY DEF SetupsInv, WriteSetupJournal, On, Restoring
<1> DEFINE next == IF box THEN "undo" ELSE "removing"
<1>a. /\ setupJob' = [setupJob EXCEPT !.at = next, !.journal = TRUE]
      /\ UNCHANGED <<launch, modRows, files, setups, blobs, daemon, last, edited>>
  BY DEF WriteSetupJournal
<1>b. next \in {"undo", "removing"}
  OBVIOUS
<1> HIDE DEF next
<1>1. DOMAIN setupJob = RestoreFields /\ DOMAIN files' = Paths /\ setupJob.kind = "restore"
      /\ setupJob.paths \subseteq Paths /\ setupJob.snap = last.snap
  BY <1>0, <1>a, RestoreUnderWay
<1>2. /\ DOMAIN setupJob' = RestoreFields /\ setupJob'.kind = "restore"
      /\ setupJob'.at = next /\ setupJob'.snap = setupJob.snap
      /\ setupJob'.journal = TRUE
      /\ setupJob'.paths = setupJob.paths /\ setupJob'.remove = setupJob.remove
      /\ setupJob'.write = setupJob.write /\ setupJob'.aside = setupJob.aside
  BY <1>a, <1>1 DEF RestoreFields
<1>3. AsBefore({}) /\ AsideTrue
  BY <1>0 DEF RestoreStages
<1>4. AsBefore(setupJob.paths)' /\ AsideTrue'
  BY <1>3, <1>a, <1>2 DEF AsBefore, AsideTrue
<1>5. RestoreStages'
  BY <1>0, <1>a, <1>b, <1>1, <1>2, <1>4 DEF RestoreStages
<1> QED
  BY <1>0, <1>a, <1>1, <1>2, <1>5, RestoreGoesOn

\* Giving up: the job goes to its rollback with the tree as it is.
LEMMA GivesUp ==
  ASSUME SetupsInv, Restoring, setupJob.at \in {"removing", "writing", "applied"},
         NEW at \in {"undo", "stuck"}, setupJob' = [setupJob EXCEPT !.at = at],
         UNCHANGED <<modRows, files, setups, blobs, daemon, last, edited>>
  PROVE  SetupsInv'
<1>0. RestoreStages
  BY DEF SetupsInv
<1>1. DOMAIN setupJob = RestoreFields /\ DOMAIN files' = Paths /\ setupJob.kind = "restore"
      /\ setupJob.paths \subseteq Paths /\ setupJob.snap = last.snap
  BY RestoreUnderWay
<1>2. /\ DOMAIN setupJob' = RestoreFields /\ setupJob'.kind = "restore"
      /\ setupJob'.at = at /\ setupJob'.snap = setupJob.snap
      /\ setupJob'.journal = setupJob.journal
      /\ setupJob'.paths = setupJob.paths /\ setupJob'.aside = setupJob.aside
  BY <1>1 DEF RestoreFields
<1>3. AsBefore(setupJob.paths) /\ AsideTrue /\ setupJob.journal = TRUE
  BY <1>0 DEF RestoreStages
<1>4. AsBefore(setupJob.paths)' /\ AsideTrue'
  BY <1>3, <1>2 DEF AsBefore, AsideTrue
<1>5. RestoreStages'
  BY <1>0, <1>1, <1>2, <1>3, <1>4 DEF RestoreStages
<1> QED
  BY <1>1, <1>2, <1>5, RestoreGoesOn

\* The files go one at a time, each of them a path that was copied aside.
LEMMA RemovePathsKeeps == SetupsInv /\ RemovePaths => SetupsInv'
<1> SUFFICES ASSUME SetupsInv, RemovePaths PROVE SetupsInv'
  OBVIOUS
<1>0. RestoreStages /\ Restoring /\ setupJob.at = "removing"
  BY DEF SetupsInv, RemovePaths, On, Restoring
<1>a. UNCHANGED <<launch, modRows, setups, blobs, daemon, last, edited>>
  BY DEF RemovePaths
<1>b. /\ DOMAIN setupJob = RestoreFields /\ DOMAIN files = Paths /\ setupJob.kind = "restore"
      /\ setupJob.paths \subseteq Paths /\ setupJob.snap = last.snap
      /\ DOMAIN stage(last.snap) \subseteq Paths /\ DOMAIN last.rows \subseteq Paths
  BY <1>0, RestoreUnderWay
<1>c. /\ setupJob.write = DOMAIN stage(last.snap) /\ setupJob.remove \subseteq setupJob.paths
      /\ setupJob.write \subseteq setupJob.paths
      /\ setupJob.journal = TRUE /\ AsBefore(setupJob.paths) /\ AsideTrue
      /\ \A p \in DOMAIN last.rows \ setupJob.remove : p \in edited \/ files[p] = Nothing
      /\ last.result = "running" /\ modRows = last.rows /\ last # NoRestore
  BY <1>0 DEF RestoreStages
<1>1. CASE setupJob.remove = {} /\ setupJob' = [setupJob EXCEPT !.at = "writing"] /\ UNCHANGED files
  <2>1. /\ DOMAIN setupJob' = RestoreFields /\ setupJob'.kind = "restore"
        /\ setupJob'.at = "writing" /\ setupJob'.snap = setupJob.snap
        /\ setupJob'.journal = setupJob.journal /\ setupJob'.write = setupJob.write
        /\ setupJob'.paths = setupJob.paths /\ setupJob'.aside = setupJob.aside
    BY <1>1, <1>b DEF RestoreFields
  <2>2. AsBefore(setupJob.paths)' /\ AsideTrue'
    BY <1>c, <1>a, <1>1, <2>1 DEF AsBefore, AsideTrue
  <2>3. Cleared' /\ Written(setupJob.write)'
    BY <1>c, <1>a, <1>1, <2>1 DEF Cleared, Written
  <2>4. RestoreStages'
    BY <1>a, <1>b, <1>c, <1>1, <2>1, <2>2, <2>3 DEF RestoreStages
  <2> QED
    BY <1>0, <1>1, <1>a, <1>b, <2>1, <2>4, RestoreGoesOn
<1>2. ASSUME NEW p \in setupJob.remove, files' = [files EXCEPT ![p] = Nothing],
             setupJob' = [setupJob EXCEPT !.remove = @ \ {p}]
      PROVE  SetupsInv'
  <2>1. /\ DOMAIN setupJob' = RestoreFields /\ setupJob'.kind = "restore"
        /\ setupJob'.at = "removing" /\ setupJob'.snap = setupJob.snap
        /\ setupJob'.journal = setupJob.journal /\ setupJob'.write = setupJob.write
        /\ setupJob'.paths = setupJob.paths /\ setupJob'.aside = setupJob.aside
        /\ setupJob'.remove = setupJob.remove \ {p}
    BY <1>0, <1>2, <1>b DEF RestoreFields
  <2>2. p \in setupJob.paths /\ p \in Paths
    BY <1>b, <1>c
  <2>3. AsBefore(setupJob.paths)' /\ AsideTrue'
    BY <1>c, <1>a, <1>b, <1>2, <2>1, <2>2 DEF AsBefore, AsideTrue
  <2>4. \A q \in DOMAIN last.rows \ setupJob'.remove : q \in edited' \/ files'[q] = Nothing
    BY <1>a, <1>b, <1>c, <1>2, <2>1, <2>2
  <2>5. RestoreStages'
    BY <1>a, <1>b, <1>c, <2>1, <2>3, <2>4 DEF RestoreStages
  <2>6. DOMAIN files' = Paths
    BY <1>2, <1>b
  <2> QED
    BY <1>0, <1>a, <1>b, <2>1, <2>5, <2>6, RestoreGoesOn
<1>3. CASE setupJob' = [setupJob EXCEPT !.at = "undo"] /\ UNCHANGED files
  BY <1>0, <1>3, <1>a, GivesUp
<1> QED
  BY <1>1, <1>2, <1>3 DEF RemovePaths

\* The staged files are published one at a time, each at a path that was copied aside.
LEMMA ApplySetupRootKeeps == SetupsInv /\ applySetupRoot => SetupsInv'
<1> SUFFICES ASSUME SetupsInv, applySetupRoot PROVE SetupsInv'
  OBVIOUS
<1>0. RestoreStages /\ Restoring /\ setupJob.at = "writing"
  BY DEF SetupsInv, applySetupRoot, On, Restoring
<1>a. UNCHANGED <<launch, modRows, setups, blobs, daemon, last, edited>>
  BY DEF applySetupRoot
<1>b. /\ DOMAIN setupJob = RestoreFields /\ DOMAIN files = Paths /\ setupJob.kind = "restore"
      /\ setupJob.paths \subseteq Paths /\ setupJob.snap = last.snap
      /\ DOMAIN stage(last.snap) \subseteq Paths /\ DOMAIN last.rows \subseteq Paths
  BY <1>0, RestoreUnderWay
<1>c. /\ setupJob.write \subseteq setupJob.paths \intersect DOMAIN stage(last.snap)
      /\ setupJob.journal = TRUE /\ AsBefore(setupJob.paths) /\ AsideTrue
      /\ Cleared /\ Written(setupJob.write)
      /\ last.result = "running" /\ modRows = last.rows /\ last # NoRestore
  BY <1>0 DEF RestoreStages
<1>1. CASE setupJob.write = {} /\ setupJob' = [setupJob EXCEPT !.at = "applied"] /\ UNCHANGED files
  <2>1. /\ DOMAIN setupJob' = RestoreFields /\ setupJob'.kind = "restore"
        /\ setupJob'.at = "applied" /\ setupJob'.snap = setupJob.snap
        /\ setupJob'.journal = setupJob.journal
        /\ setupJob'.paths = setupJob.paths /\ setupJob'.aside = setupJob.aside
    BY <1>1, <1>b DEF RestoreFields
  <2>2. AsBefore(setupJob.paths)' /\ AsideTrue'
    BY <1>c, <1>a, <1>1, <2>1 DEF AsBefore, AsideTrue
  <2>3. Cleared' /\ Written({})'
    BY <1>c, <1>a, <1>1 DEF Cleared, Written
  <2>4. RestoreStages'
    BY <1>a, <1>b, <1>c, <1>1, <2>1, <2>2, <2>3 DEF RestoreStages
  <2> QED
    BY <1>0, <1>1, <1>a, <1>b, <2>1, <2>4, RestoreGoesOn
<1>2. ASSUME NEW p \in setupJob.write, files' = [files EXCEPT ![p] = stage(setupJob.snap)[p]],
             setupJob' = [setupJob EXCEPT !.write = @ \ {p}]
      PROVE  SetupsInv'
  <2>1. /\ DOMAIN setupJob' = RestoreFields /\ setupJob'.kind = "restore"
        /\ setupJob'.at = "writing" /\ setupJob'.snap = setupJob.snap
        /\ setupJob'.journal = setupJob.journal
        /\ setupJob'.paths = setupJob.paths /\ setupJob'.aside = setupJob.aside
        /\ setupJob'.write = setupJob.write \ {p}
    BY <1>0, <1>2, <1>b DEF RestoreFields
  <2>2. p \in setupJob.paths /\ p \in Paths /\ p \in DOMAIN stage(last.snap)
    BY <1>b, <1>c
  <2>3. AsBefore(setupJob.paths)' /\ AsideTrue'
    BY <1>c, <1>a, <1>b, <1>2, <2>1, <2>2 DEF AsBefore, AsideTrue
  <2>4. files' = [files EXCEPT ![p] = stage(last.snap)[p]]
    BY <1>2, <1>b
  <2>5. Cleared'
    BY <1>a, <1>b, <1>c, <2>4, <2>2 DEF Cleared
  <2>6. Written(setupJob.write)'
    BY <1>a, <1>b, <1>c, <2>4, <2>1, <2>2 DEF Written
  <2>7. RestoreStages'
    BY <1>a, <1>b, <1>c, <2>1, <2>3, <2>5, <2>6 DEF RestoreStages
  <2>8. DOMAIN files' = Paths
    BY <1>2, <1>b
  <2> QED
    BY <1>0, <1>a, <1>b, <2>1, <2>7, <2>8, RestoreGoesOn
<1>3. CASE setupJob' = [setupJob EXCEPT !.at = "undo"] /\ UNCHANGED files
  BY <1>0, <1>3, <1>a, GivesUp
<1> QED
  BY <1>1, <1>2, <1>3 DEF applySetupRoot

\* The rows change in one transaction, once every file is in its place.
LEMMA TxApplySetupStateKeeps == SetupsInv /\ TxApplySetupState => SetupsInv'
<1> SUFFICES ASSUME SetupsInv, TxApplySetupState PROVE SetupsInv'
  OBVIOUS
<1>0. /\ SetupShape /\ LastShape /\ SavedSetupRestorable /\ RestoreStages
      /\ Restoring /\ setupJob.at = "applied" /\ daemon = "up"
  BY DEF SetupsInv, TxApplySetupState, On, Restoring
<1>a. UNCHANGED <<files, setups, blobs, daemon, edited>>
  BY DEF TxApplySetupState
<1>b. /\ DOMAIN setupJob = RestoreFields /\ DOMAIN files = Paths /\ setupJob.kind = "restore"
      /\ setupJob.paths \subseteq Paths /\ setupJob.snap = last.snap /\ SnapShape(last.snap)
      /\ DOMAIN last = {"result", "before", "rows", "snap"} /\ DOMAIN last.rows \subseteq Managed
  BY <1>0, RestoreUnderWay DEF LastShape, RestoreStages
<1>1. CASE /\ \E at \in {"undo", "stuck"} : setupJob' = [setupJob EXCEPT !.at = at]
           /\ UNCHANGED <<modRows, last>>
  BY <1>0, <1>1, <1>a, GivesUp
<1>2. CASE /\ modRows' = setupStateRows(setupJob.snap).mods
           /\ launch' = setupStateRows(setupJob.snap).launch
           /\ Ended("restored") /\ setupJob' = [setupJob EXCEPT !.at = "ended"]
  <2>1. /\ DOMAIN setupJob' = RestoreFields /\ setupJob'.kind = "restore"
        /\ setupJob'.at = "ended" /\ setupJob'.snap = setupJob.snap
        /\ setupJob'.paths = setupJob.paths
    BY <1>2, <1>b DEF RestoreFields
  <2>2. /\ DOMAIN last' = DOMAIN last /\ last'.result = "restored"
        /\ last'.before = last.before /\ last'.rows = last.rows /\ last'.snap = last.snap
    BY <1>2, <1>b DEF Ended
  <2>3. modRows' = last.snap.mods /\ launch' = last.snap.launch
    BY <1>2, <1>b DEF setupStateRows
  <2>4. SetupShape'
    BY <1>0, <1>a, <1>b, <2>1, <2>3 DEF SetupShape, JobShape, SnapShape
  <2>5. LastShape'
    BY <1>b, <2>1, <2>2 DEF LastShape
  <2>6. Retained' /\ SavedSetupRestorable'
    BY <1>0, <1>a, <2>1 DEF Retained, SavedSetupRestorable, ValidateSetupRefs, Verify
  <2>7. Cleared' /\ Written({})'
    BY <1>0, <1>a, <2>2 DEF Cleared, Written, RestoreStages
  <2>8. Restored' /\ Undone'
    BY <2>2, <2>3, <2>7 DEF Restored, Undone
  <2>9. last' # NoRestore
    BY <2>2 DEF NoRestore
  <2>10. RestoreStages'
    BY <1>0, <1>a, <1>b, <2>1, <2>2, <2>9 DEF RestoreStages
  <2> QED
    BY <2>4, <2>5, <2>6, <2>8, <2>10 DEF SetupsInv
<1> QED
  BY <1>1, <1>2 DEF TxApplySetupState

\* A rollback brings back every path that was copied aside; off those nothing had moved.
LEMMA RolledBackIsBefore ==
  ASSUME SetupsInv, Restoring,
         setupJob.at \in {"removing", "writing", "applied", "undo", "stuck"}
  PROVE  /\ DOMAIN RolledBack(setupJob) = Paths /\ modRows = last.rows
         /\ \A p \in Paths : p \in edited \/ RolledBack(setupJob)[p] = last.before[p]
<1>1. AsBefore(setupJob.paths) /\ AsideTrue /\ modRows = last.rows
  BY DEF SetupsInv, RestoreStages
<1> QED
  BY <1>1 DEF RolledBack, AsBefore, AsideTrue

\* A rollback puts back every path of the journal.
LEMMA RollbackKeeps ==
  ASSUME SetupsInv, Restoring,
         setupJob.at \in {"removing", "writing", "applied", "undo", "stuck"},
         setupJob' = Nothing, UNCHANGED <<modRows, setups, blobs, daemon, edited>>,
         \/ files' = RolledBack(setupJob) /\ Ended("failed")
         \/ /\ \E p \in setupJob.paths : files' = [RolledBack(setupJob) EXCEPT ![p] = files[p]]
            /\ Ended("parked")
  PROVE  SetupsInv'
<1>1. /\ DOMAIN RolledBack(setupJob) = Paths /\ modRows = last.rows
      /\ \A p \in Paths : p \in edited \/ RolledBack(setupJob)[p] = last.before[p]
  BY RolledBackIsBefore
<1>2. DOMAIN files' = Paths
  BY <1>1
<1>3. CASE files' = RolledBack(setupJob) /\ Ended("failed")
  BY <1>1, <1>2, <1>3, RestoreEnds DEF Ended
<1>4. CASE Ended("parked")
  BY <1>2, <1>4, RestoreEnds DEF Ended
<1> QED
  BY <1>3, <1>4

\* A restore that failed is rolled back.
LEMMA RollbackSetupPathsKeeps == SetupsInv /\ rollbackSetupPaths => SetupsInv'
<1> SUFFICES ASSUME SetupsInv, rollbackSetupPaths PROVE SetupsInv'
  OBVIOUS
<1>1. Restoring /\ setupJob.at = "undo"
  BY DEF rollbackSetupPaths, On, Restoring
<1> QED
  BY <1>1, RollbackKeeps DEF rollbackSetupPaths

\* At the next start: no journal, and nothing was touched; a journal, and its paths come back.
LEMMA SweepSetupRestoreKeeps == SetupsInv /\ sweepSetupRestore => SetupsInv'
<1> SUFFICES ASSUME SetupsInv, sweepSetupRestore PROVE SetupsInv'
  OBVIOUS
<1>1. Restoring /\ RestoreStages /\ setupJob.at # "ended" /\ daemon = "closed"
  BY DEF sweepSetupRestore, Restoring, SetupsInv, RestoreStages
<1>2. CASE setupJob.at \in {"begin", "staged", "copied"}
  <2>1. ~setupJob.journal
    BY <1>1, <1>2 DEF RestoreStages
  <2> QED
    BY <1>1, <1>2, <2>1, FailRestoreKeeps DEF sweepSetupRestore, Ended
<1>3. CASE setupJob.at \in {"removing", "writing", "applied", "undo", "stuck"}
  <2>1. setupJob.journal
    BY <1>1, <1>3 DEF RestoreStages
  <2> QED
    BY <1>1, <1>3, <2>1, RollbackKeeps DEF sweepSetupRestore
<1> QED
  BY <1>1, <1>2, <1>3 DEF RestoreStages

\* A job ends and its directory goes; a save left by a dead panel is swept.
LEMMA CleanupKeeps == SetupsInv /\ (cleanup \/ sweepSetupSave) => SetupsInv'
<1> SUFFICES ASSUME SetupsInv, cleanup \/ sweepSetupSave PROVE SetupsInv'
  OBVIOUS
<1>1. daemon \in {"up", "down", "closed"}
  BY DEF SetupsInv, SetupShape
<1> QED
  BY <1>1, JobOver DEF cleanup, sweepSetupSave

\* A dying panel leaves a restore that has not ended to the next start, or forgets it.
LEMMA PanelDiesKeeps == SetupsInv /\ PanelDies => SetupsInv'
<1> SUFFICES ASSUME SetupsInv, PanelDies PROVE SetupsInv'
  OBVIOUS
<1>a. /\ daemon' = "down"
      /\ setupJob' = IF daemon = "closed" \/ (setupJob # Nothing /\ setupJob.at = "ended")
                     THEN Nothing ELSE setupJob
      /\ last' = IF daemon = "closed" /\ setupJob # Nothing /\ setupJob.kind = "restore"
                 THEN [last EXCEPT !.result = "forgotten"] ELSE last
      /\ UNCHANGED <<launch, modRows, files, setups, blobs, edited>>
  BY DEF PanelDies
<1>1. CASE daemon = "closed"
  BY <1>a, <1>1, JobOver DEF Restoring
<1>2. CASE daemon # "closed" /\ setupJob # Nothing /\ setupJob.at = "ended"
  BY <1>a, <1>2, JobOver
<1>3. CASE daemon # "closed" /\ ~(setupJob # Nothing /\ setupJob.at = "ended")
  <2>1. DOMAIN files' = Paths
    BY <1>a DEF SetupsInv, SetupShape
  <2>2. UNCHANGED <<setupJob, last>>
    BY <1>a, <1>3
  <2> QED
    BY <1>a, <1>3, <2>1, <2>2, OthersStep DEF Restoring
<1> QED
  BY <1>1, <1>2, <1>3

\* The sweep closes the job of a dead panel.
LEMMA SweepClosesKeeps == SetupsInv /\ SweepCloses => SetupsInv'
<1> SUFFICES ASSUME SetupsInv, SweepCloses PROVE SetupsInv'
  OBVIOUS
<1>1. DOMAIN files' = Paths
  BY DEF SetupsInv, SetupShape, SweepCloses
<1>2. ~(Restoring /\ setupJob.at = "ended")
  BY DEF SetupsInv, RestoreStages, SweepCloses
<1> QED
  BY <1>1, <1>2, OthersStep DEF SweepCloses

\* What others change is remembered from the moment a restore begins.
LEMMA EditsKeep ==
  ASSUME SetupsInv, DOMAIN files' = Paths, NEW what, Edits(what), UNCHANGED modRows,
         \A p \in Paths : p # what => files'[p] = files[p],
         what # "launch" => launch' = launch
  PROVE  SetupsInv'
<1>1. daemon \in {"up", "down", "closed"} /\ (Restoring /\ setupJob.at = "ended" => daemon = "up")
  BY DEF SetupsInv, SetupShape, RestoreStages
<1>2. /\ last # NoRestore => edited' = edited \union {what}
      /\ UNCHANGED <<setups, blobs, setupJob, daemon, last>>
  BY DEF Edits
<1> QED
  BY <1>1, <1>2, OthersStep

\* Launch settings change.
LEMMA PatchLaunchKeeps == ASSUME NEW l, SetupsInv, PatchLaunch(l) PROVE SetupsInv'
<1>1. DOMAIN files' = Paths
  BY DEF SetupsInv, SetupShape, PatchLaunch
<1> QED
  BY <1>1, EditsKeep DEF PatchLaunch

\* A configuration file is written.
LEMMA PutConfigKeeps == ASSUME NEW t, SetupsInv, PutConfig(t) PROVE SetupsInv'
<1>1. DOMAIN files' = Paths /\ \A p \in Paths : p # ConfigFile => files'[p] = files[p]
  BY DEF SetupsInv, SetupShape, PutConfig
<1> QED
  BY <1>1, EditsKeep DEF PutConfig

\* The operator changes a file.
LEMMA TouchFileKeeps == ASSUME NEW f, NEW t, SetupsInv, TouchFile(f, t) PROVE SetupsInv'
<1>1. DOMAIN files' = Paths /\ \A p \in Paths : p # f => files'[p] = files[p]
  BY DEF SetupsInv, SetupShape, TouchFile
<1> QED
  BY <1>1, EditsKeep DEF TouchFile

\* The password, the container and the rest of the row are no part of a setup.
LEMMA AsideOfSetupsKeeps ==
  ASSUME SetupsInv,
         UNCHANGED <<launch, modRows, files, setups, blobs, setupJob, daemon, last, edited>>
  PROVE  SetupsInv'
<1>1. daemon \in {"up", "down", "closed"} /\ (Restoring /\ setupJob.at = "ended" => daemon = "up")
      /\ DOMAIN files = Paths
  BY DEF SetupsInv, SetupShape, RestoreStages
<1> QED
  BY <1>1, OthersStep

\* The invariant holds in the first state.
LEMMA SetupsInitInv == SetupsInit => SetupsInv
<1> SUFFICES ASSUME SetupsInit PROVE SetupsInv
  OBVIOUS
<1>1. SetupShape
  BY SetupsAssumption DEF SetupsInit, SetupShape
<1>2. last.result = "none" /\ last = NoRestore
  BY DEF SetupsInit, NoRestore
<1>3. Retained /\ SavedSetupRestorable /\ ~Restoring
  BY DEF SetupsInit, Retained, SavedSetupRestorable, Restoring
<1> QED
  BY <1>1, <1>2, <1>3 DEF SetupsInv, LastShape, RestoreStages, Restored, Undone

\* Every step keeps it.
LEMMA SetupsNextInv == SetupsInv /\ [SetupsNext]_setupVars => SetupsInv'
<1> SUFFICES ASSUME SetupsInv, [SetupsNext]_setupVars PROVE SetupsInv'
  OBVIOUS
<1>1. ASSUME NEW s \in SetupIds, saveSetup(s) \/ restoreSetup(s) \/ deleteSetup(s)
      PROVE  SetupsInv'
  BY <1>1, SaveSetupKeeps, RestoreSetupKeeps, DeleteSetupKeeps
<1>2. CASE CaptureState \/ retainSetupModArtifact \/ TxSaveSetup \/ TxDeleteSetup
  BY <1>2, CaptureStateKeeps, RetainKeeps, TxSaveSetupKeeps, TxDeleteSetupKeeps
<1>3. CASE prepareSetupRestore \/ backUpAside \/ WriteSetupJournal \/ RemovePaths \/ applySetupRoot
  BY <1>3, PrepareKeeps, BackUpAsideKeeps, WriteSetupJournalKeeps, RemovePathsKeeps, ApplySetupRootKeeps
<1>4. CASE TxApplySetupState \/ rollbackSetupPaths \/ cleanup \/ sweepSetupSave
  BY <1>4, TxApplySetupStateKeeps, RollbackSetupPathsKeeps, CleanupKeeps
<1>5. CASE PanelDies \/ SweepCloses \/ sweepSetupRestore \/ GC
  BY <1>5, PanelDiesKeeps, SweepClosesKeeps, SweepSetupRestoreKeeps, GCKeeps
<1>6. ASSUME NEW l \in Settings, PatchLaunch(l) \/ PatchPassword(l) PROVE SetupsInv'
  <2>1. PatchPassword(l) => SetupsInv'
    BY AsideOfSetupsKeeps DEF PatchPassword
  <2> QED
    BY <1>6, <2>1, PatchLaunchKeeps
<1>7. ASSUME NEW t \in Texts, PutConfig(t) PROVE SetupsInv'
  BY <1>7, PutConfigKeeps
<1>8. ASSUME NEW p \in Managed, NEW t \in {Nothing, Strange}, TouchFile(p, t) PROVE SetupsInv'
  BY <1>8, TouchFileKeeps
<1>9. CASE ToggleContainer \/ UNCHANGED setupVars
  BY <1>9, AsideOfSetupsKeeps DEF ToggleContainer, setupVars
<1>10. ASSUME NEW l \in Layouts, ModJob(l) PROVE SetupsInv'
  BY <1>10, ModJobKeeps
<1> QED
  BY <1>1, <1>2, <1>3, <1>4, <1>5, <1>6, <1>7, <1>8, <1>9, <1>10, Zenon DEF SetupsNext

\* What the invariant says when no job runs.
LEMMA SetupsInvHolds == SetupsInv => SetupsHold
<1> SUFFICES ASSUME SetupsInv PROVE SetupsHold
  OBVIOUS
<1>1. Restored /\ Undone /\ SavedSetupRestorable
  BY DEF SetupsInv
<1>2. RestoreIsWhole
  <2>1. CASE last.result = "restored"
    BY <1>1, <2>1 DEF RestoreIsWhole, Restored, Cleared, Written
  <2>2. CASE last.result = "failed"
    BY <1>1, <2>2 DEF RestoreIsWhole, Undone, AsBefore
  <2>3. CASE last.result \notin {"restored", "failed"}
    BY <2>3 DEF RestoreIsWhole
  <2> QED
    BY <2>1, <2>2, <2>3
<1> QED
  BY <1>1, <1>2 DEF SetupsHold

(***************************************************************************)
(* Whatever fails and whenever the panel dies, a restore of a saved setup  *)
(* that has ended left all of the setup, or all of what was there before,  *)
(* on every path nobody else touched, and every saved setup has the        *)
(* packages it names (control/setup_restore.go, control/setup_recovery.go, *)
(* control/setup_jobs.go).                                                 *)
(***************************************************************************)
THEOREM SetupsAlwaysHold == SetupsSpec => []SetupsHold
<1>1. SetupsInit => SetupsInv
  BY SetupsInitInv
<1>2. SetupsInv /\ [SetupsNext]_setupVars => SetupsInv'
  BY SetupsNextInv
<1>3. SetupsInv => SetupsHold
  BY SetupsInvHolds
<1> QED
  BY <1>1, <1>2, <1>3, PTL DEF SetupsSpec
=============================================================================
