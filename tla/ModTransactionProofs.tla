------------------------ MODULE ModTransactionProofs ------------------------
(* The safety of the mod jobs for every set of packages, versions and      *)
(* paths, and for every number of jobs.                                    *)
(*                                                                         *)
(* First OneOwner, whatever happens short of a rollback that cannot write. *)
(* The argument: while the plan is pending it is disjoint (planClosure),   *)
(* once the rows are written the staging directory holds every replaced    *)
(* manifest, and so whichever of the two undoes the job, it returns to the *)
(* manifests the job found, which were disjoint.                           *)
(*                                                                         *)
(* Then AllOrNothing, RowsDescribeFiles and UserFilesKept, as long as no   *)
(* mishap has fallen.  AtRest says how rows and trees agree between jobs;  *)
(* StoresInv says for every stage of each kind of job how far they are     *)
(* from what the job found, and what the staging directory holds of it.    *)
(* Three facts carry the proof: the plan accounts for every file of the    *)
(* packages it touches (PlanSound), so that placing all of it is rest      *)
(* again (AppliedRests); the rows the sweep takes for rewritten name every *)
(* file that may differ (InstallReverts); and a file a toggle moves is in  *)
(* one of three states that settleOne tells apart (TreesStep).             *)
EXTENDS ModTransaction, TLAPS

Calm == hit \cap {"stuck", "cleanup"} = {}

Disjoint(r) == \A p, q \in Packages : p # q => r[p].man \cap r[q].man = {}

(* A table in which a package without a version has no files. *)
Table(r) ==
    /\ DOMAIN r = Packages
    /\ \A p \in Packages : r[p].man \in SUBSET Paths
    /\ \A p \in Packages : r[p].ver = "-" => r[p].man = {}

ModShape ==
    /\ Table(rows) /\ Table(before.rows)
    /\ DOMAIN prev = Packages
    /\ \A p \in Packages : prev[p].row.ver = "-" => prev[p].row.man = {}
    /\ \A p \in Packages : prev[p].row.man \in SUBSET Paths
    /\ DOMAIN plan = Packages
    /\ \A p \in Packages : plan[p].man \in SUBSET Paths
    /\ staged \subseteq Packages
    /\ hit \subseteq AllMishaps
    /\ ("stuck" \notin hit => stuck = {})
    /\ pc \in PCs

(* Before the rows are written: they are those the job found, and what is  *)
(* planned for them is disjoint.                                           *)
PlanPending ==
    job.kind = "install" /\ pc \in {"prepare", "save", "write"} =>
        /\ rows = before.rows
        /\ outcome = "running"
        /\ pc \in {"prepare", "save"} => prev = [p \in Packages |-> NoPrev]
        /\ pc = "prepare" => mark = "none"
        /\ pc = "save" => mark = "none"
        /\ pc \in {"save", "write"} =>
             /\ staged = Scope
             /\ \A p \in Scope \ Placed : plan[p].man = {}
             /\ Calm =>
                  /\ \A p, q \in Scope : p # q => plan[p].man \cap plan[q].man = {}
                  /\ \A p \in Scope, q \in Packages \ Scope :
                        plan[p].man \cap rows[q].man = {}

(* What the staging directory can give back. *)
Undoable ==
    /\ staged = Scope
    /\ \A p \in Packages \ Scope : rows[p].man = before.rows[p].man
    /\ \A p \in Scope :
         /\ prev[p].row.man = before.rows[p].man
         /\ rows[p].ver = "-" => rows[p].man = before.rows[p].man

UndoPending ==
    job.kind = "install"
    /\ (pc \in {"write", "written", "place", "rollback"} \/ (pc = "down" /\ mark # "none"))
    /\ Calm =>
        \/ Undoable
        \/ staged = {} /\ (pc = "down" \/ outcome = "interrupted")

(* The places a kill leaves nothing to undo from. *)
Spent ==
    /\ pc = "finish" /\ job.kind = "install" => staged = {}
    /\ pc \in {"prepare", "save", "write", "written", "place", "move", "finish"}
         => outcome # "interrupted"
    /\ pc \in {"prepare", "write", "written"} => job.kind = "install"
    /\ pc \in {"save", "place", "rollback"} => job.kind # "toggle"
    /\ pc \in {"move", "settle"} => job.kind = "toggle"

Owned == Calm => Disjoint(rows) /\ Disjoint(before.rows)

ModInv == ModShape /\ PlanPending /\ UndoPending /\ Spent /\ Owned

(* The starting tables are disjoint by assumption. *)
LEMMA ModInit == Init => ModInv
<1> SUFFICES ASSUME Init PROVE ModInv
    OBVIOUS
<1> USE DEF Init
<1>1. Table(rows) /\ Disjoint(rows)
    <2>1. rows \in Starts /\ rows \in [Packages -> Rows]
        BY StartsAssumption
    <2>2. \A p \in Packages : rows[p].man \subseteq Paths
        BY <2>1 DEF Rows
    <2>3. \A p \in Packages : rows[p].ver = "-" => rows[p] = NoRow
        BY <2>1, StartsAssumption
    <2>4. \A p \in Packages : \A q \in Packages \ {p} : rows[p].man \cap rows[q].man = {}
        BY <2>1, StartsAssumption
    <2>5. \A p \in Packages : rows[p].ver = "-" => rows[p].man = {}
        BY <2>3 DEF NoRow
    <2>6. QED
        BY <2>1, <2>2, <2>4, <2>5 DEF Table, Disjoint
<1>2. before.rows = rows
    BY DEF Snapshot
<1>3. ModShape
    BY <1>1, <1>2 DEF PCs, ModShape, Table, NoPrev, NoRow, NoPlan, AllMishaps
<1>4. QED
    BY <1>1, <1>2, <1>3 DEF ModInv, PlanPending, UndoPending, Spent, Owned, NoJob

(* A planned manifest is made of shipped paths, and a removal's is empty. *)
LEMMA PlanShape ==
    /\ \A p \in Scope : NewManifest(p) \in SUBSET Paths
    /\ \A p \in Scope \ Placed : NewManifest(p) = {}
    /\ \A p \in Placed : NewManifest(p) \subseteq Changes(p)
<1>1. \A p \in Scope \ Placed : NewManifest(p) = {}
    BY DEF NewManifest
<1>2. \A p \in Placed : NewManifest(p) \subseteq Changes(p) /\ Changes(p) \subseteq Paths
    <2> TAKE p \in Placed
    <2>1. p \in Packages /\ job.want[p] \in Versions
        BY DEF Placed
    <2>2. Ships[p][job.want[p]] \subseteq Paths
        BY <2>1, ModAssumption
    <2>3. QED
        BY <2>2 DEF NewManifest, Changes
<1>3. QED
    BY <1>1, <1>2

(* planClosure: what it lets through is disjoint from everything else. *)
LEMMA PlanDisjoint ==
    ASSUME Disjoint(rows), ~Refused
    PROVE  /\ \A p, q \in Scope : p # q => NewManifest(p) \cap NewManifest(q) = {}
           /\ \A p \in Scope, q \in Packages \ Scope : NewManifest(p) \cap rows[q].man = {}
<1>1. \A p \in Scope \ Placed : NewManifest(p) = {}
    BY PlanShape
<1>2. \A p, q \in Scope : p # q => NewManifest(p) \cap NewManifest(q) = {}
    <2> TAKE p, q \in Scope
    <2>1. CASE p \in Placed /\ q \in Placed
        BY <2>1 DEF Refused
    <2>2. CASE ~(p \in Placed /\ q \in Placed)
        BY <2>2, <1>1
    <2>3. QED
        BY <2>1, <2>2
<1>3. ASSUME NEW p \in Scope, NEW q \in Packages \ Scope
      PROVE  NewManifest(p) \cap rows[q].man = {}
    <2>1. CASE p \notin Placed
        BY <2>1, <1>1, <1>3
    <2>2. CASE p \in Placed
        <3>1. Changes(p) \cap Claimed(p) = {}
            BY <2>2 DEF Refused
        <3>2. \A r \in Replaces : r \in Packages /\ r # q
            BY <1>3 DEF Replaces, Scope
        <3>3. rows[q].man \cap Open = {}
            BY <3>2, <1>3 DEF Open, Disjoint
        <3>4. p # q /\ p \in Packages
            BY <1>3 DEF Scope
        <3>5. rows[q].man \subseteq Claimed(p)
            BY <3>3, <3>4, <1>3 DEF Claimed
        <3>6. QED
            BY <3>1, <3>5, <2>2, PlanShape
    <2>3. QED
        BY <2>1, <2>2
<1>4. QED
    BY <1>2, <1>3

(* Every step keeps the inductive invariant. *)
LEMMA ModStep == ModInv /\ [Next]_vars => ModInv'
<1> SUFFICES ASSUME ModInv, [Next]_vars PROVE ModInv'
    OBVIOUS
<1> USE DEF ModInv
<1>claim. ASSUME NEW kind \in {"install", "uninstall", "toggle"}, NEW want, NEW answer,
                 NEW configs, NEW first \in {"prepare", "save", "move"},
                 kind = "install" <=> first = "prepare",
                 kind = "toggle" <=> first = "move",
                 Claim(kind, want, answer, configs, first)
          PROVE  ModInv'
    <2> USE <1>claim DEF Claim, EmptyStaging
    <2>1. Calm' <=> Calm
        BY DEF Calm
    <2>2. before'.rows = rows /\ rows' = rows
        BY DEF Snapshot
    <2>3. ModShape'
        BY <2>2 DEF PCs, ModShape, Table, NoPrev, NoRow
    <2>4. Owned'
        BY <2>1, <2>2 DEF Owned, Disjoint
    <2>5. PlanPending'
        BY <2>2 DEF PlanPending
    <2>6. UndoPending' /\ Spent'
        BY DEF UndoPending, Spent
    <2>7. QED
        BY <2>3, <2>4, <2>5, <2>6
<1>1. CASE Submit
    BY <1>1, <1>claim DEF Submit
<1>2. CASE SubmitUninstall
    BY <1>2, <1>claim DEF SubmitUninstall
<1>3. CASE SubmitToggle
    BY <1>3, <1>claim DEF SubmitToggle
<1>4. CASE Prepare
    <2> USE <1>4 DEF Prepare
    <2>1. (Calm' <=> Calm) /\ (Scope' = Scope) /\ (Placed' = Placed)
        BY DEF Calm, Scope, Placed
    <2>2. Owned'
        BY <2>1 DEF Owned, Disjoint
    <2>3. UndoPending' /\ Spent'
        BY DEF UndoPending, Spent, Returns
    <2>4. ASSUME ~Refused, pc' = "save",
                 plan' = [p \in Packages |->
                            IF p \in Scope THEN [man |-> NewManifest(p), stale |-> Stale(p)]
                            ELSE NoPlan]
          PROVE  ModShape' /\ PlanPending'
        <3>1. \A p \in Packages : plan'[p].man = IF p \in Scope THEN NewManifest(p) ELSE {}
            BY <2>4 DEF NoPlan
        <3>2. Scope \subseteq Packages
            BY DEF Scope
        <3>3. Calm => /\ \A p, q \in Scope : p # q => NewManifest(p) \cap NewManifest(q) = {}
                      /\ \A p \in Scope, q \in Packages \ Scope :
                            NewManifest(p) \cap rows[q].man = {}
            BY <2>4, PlanDisjoint DEF Owned
        <3>4. ModShape'
            <4>1. \A p \in Packages : plan'[p].man \in SUBSET Paths
                BY <3>1, PlanShape
            <4>2. DOMAIN plan' = Packages
                BY <2>4
            <4>3. QED
                BY <2>4, <4>1, <4>2, <3>2 DEF PCs, ModShape, Table
        <3>5. CASE job.kind # "install"
            BY <3>4, <3>5 DEF PlanPending
        <3>6. CASE job.kind = "install"
            <4>1. /\ rows' = before'.rows /\ outcome' = "running" /\ mark' = "none"
                  /\ prev' = [p \in Packages |-> NoPrev] /\ staged' = Scope'
                BY <2>1, <2>4, <3>6 DEF PlanPending, Returns
            <4>2. \A p \in Scope' \ Placed' : plan'[p].man = {}
                BY <2>1, <3>1, <3>2, PlanShape
            <4>3. Calm' => /\ \A p, q \in Scope' : p # q => plan'[p].man \cap plan'[q].man = {}
                           /\ \A p \in Scope', q \in Packages \ Scope' :
                                 plan'[p].man \cap rows'[q].man = {}
                BY <2>1, <3>1, <3>2, <3>3
            <4>4. PlanPending'
                BY <4>1, <4>2, <4>3, <2>4 DEF PlanPending
            <4>5. QED
                BY <3>4, <4>4
        <3>7. QED
            BY <3>5, <3>6
    <2>5. ASSUME Returns("failed"), plan' = plan
          PROVE  ModShape' /\ PlanPending'
        <3>1. Scope \subseteq Packages
            BY DEF Scope
        <3>2. QED
            BY <2>5, <3>1 DEF PCs, ModShape, Table, PlanPending, Returns
    <2>6. QED
        BY <2>2, <2>3, <2>4, <2>5
<1>quiet. ASSUME UNCHANGED <<rows, prev, plan, staged, job, mark, hit, before>>,
                 "stuck" \notin hit => stuck' = {},
                 pc' \in {"prepare", "save", "write", "move"} => pc = pc' /\ outcome' = outcome,
                 pc' = "written" => pc = pc',
                 pc' = "place" => pc \in {"written", "place"},
                 pc' = "rollback" => pc \in {"written", "place", "rollback"},
                 pc' = "settle" => pc \in {"move", "settle"},
                 pc' \in PCs,
                 pc' = "rollback" /\ outcome = "interrupted" => outcome' = outcome,
                 pc' = "down" => pc' = pc /\ outcome' = outcome,
                 pc' = "finish" => pc' = pc \/ job.kind = "toggle",
                 pc' \in {"written", "place", "finish"} => outcome' # "interrupted"
          PROVE  ModInv'
    <2> USE <1>quiet
    <2>1. (Calm' <=> Calm) /\ (Scope' = Scope) /\ (Placed' = Placed)
        BY DEF Calm, Scope, Placed
    <2>2. ModShape'
        BY DEF PCs, ModShape, Table
    <2>3. Owned'
        BY <2>1 DEF Owned, Disjoint
    <2>4. PlanPending'
        BY <2>1 DEF PlanPending
    <2>5. Undoable' <=> Undoable
        BY <2>1 DEF Undoable
    <2>6. UndoPending'
        BY <2>1, <2>5 DEF UndoPending, Spent
    <2>7. Spent'
        BY DEF Spent
    <2>8. QED
        BY <2>2, <2>3, <2>4, <2>6, <2>7
<1>5. CASE SaveOne
    BY <1>5, <1>quiet DEF SaveOne, Returns, PCs, ModShape, Spent
<1>6. CASE MarkSaved
    <2> USE <1>6 DEF MarkSaved
    <2>1. (Calm' <=> Calm) /\ (Scope' = Scope) /\ (Placed' = Placed) /\ Scope \subseteq Packages
        BY DEF Calm, Scope, Placed
    <2>2. \A p \in Packages : prev'[p].row = IF job.kind = "install" /\ p \in Replaces
                                             THEN rows[p] ELSE prev[p].row
        OBVIOUS
    <2>3. ModShape'
        BY <2>2 DEF PCs, ModShape, Table
    <2>4. Owned' /\ Spent'
        BY <2>1 DEF Owned, Disjoint, Spent
    <2>5. CASE job.kind # "install"
        BY <2>3, <2>4, <2>5 DEF PlanPending, UndoPending
    <2>6. CASE job.kind = "install"
        <3>1. rows = before.rows /\ staged = Scope /\ prev = [p \in Packages |-> NoPrev]
            BY <2>6 DEF PlanPending
        <3>2. \A p \in Packages : prev[p].row.man = {}
            BY <3>1 DEF NoPrev, NoRow
        <3>3. \A p \in Scope : prev'[p].row.man = rows[p].man
            BY <2>1, <2>2, <2>6, <3>2 DEF Replaces, Installed, PCs, ModShape, Table
        <3>4. Undoable'
            BY <2>1, <3>1, <3>3 DEF Undoable
        <3>5. UndoPending'
            BY <3>4 DEF UndoPending
        <3>6. PlanPending'
            BY <2>1, <2>6, <3>1 DEF PlanPending
        <3>7. QED
            BY <2>3, <2>4, <3>5, <3>6
    <2>7. QED
        BY <2>5, <2>6
<1>7. CASE WriteManifests
    <2> USE <1>7 DEF WriteManifests
    <2>1. (Calm' <=> Calm) /\ (Scope' = Scope) /\ (Placed' = Placed) /\ Scope \subseteq Packages
        BY DEF Calm, Scope, Placed
    <2>2. CASE Returns("failed") /\ UNCHANGED rows
        BY <2>2, <1>quiet DEF Returns, PCs, ModShape, Spent
    <2>3. CASE rows' = [p \in Packages |-> IF p \in Scope THEN NewRow(p) ELSE rows[p]]
               /\ pc' = "written" /\ UNCHANGED <<outcome, todo>>
        <3> USE <2>3
        <3>1. \A p \in Packages : rows'[p].man = IF p \in Scope THEN plan[p].man ELSE rows[p].man
            BY DEF NewRow
        <3>2. \A p \in Scope : rows'[p].ver = IF p \in Placed THEN job.want[p] ELSE rows[p].ver
            BY <2>1 DEF NewRow
        <3>3. \A p \in Placed : job.want[p] # "-"
            BY ModAssumption DEF Placed
        <3>5. job.kind = "install"
            BY DEF Spent
        <3>6. QED
            <4>1. /\ rows = before.rows /\ staged = Scope
                  /\ \A p \in Scope \ Placed : plan[p].man = {}
                BY <3>5 DEF PlanPending
            <4>2. Table(rows')
                BY <3>1, <3>2, <3>3, <2>1, <4>1, ZenonT(30) DEF PCs, ModShape, Table
            <4>3. ModShape'
                BY <4>2 DEF PCs, ModShape, Table
            <4>4. Calm => Disjoint(rows')
                <5> SUFFICES ASSUME Calm, NEW p \in Packages, NEW q \in Packages, p # q
                             PROVE  rows'[p].man \cap rows'[q].man = {}
                    BY DEF Disjoint
                <5>1. CASE p \in Scope /\ q \in Scope
                    BY <5>1, <3>1, <3>5 DEF PlanPending
                <5>2. CASE p \in Scope /\ q \notin Scope
                    BY <5>2, <3>1, <3>5 DEF PlanPending
                <5>3. CASE p \notin Scope /\ q \in Scope
                    BY <5>3, <3>1, <3>5 DEF PlanPending
                <5>4. CASE p \notin Scope /\ q \notin Scope
                    BY <5>4, <3>1 DEF Owned, Disjoint
                <5>5. QED
                    BY <5>1, <5>2, <5>3, <5>4
            <4>5. Owned'
                BY <4>4, <2>1 DEF Owned, Disjoint
            <4>6. Undoable \/ ~Calm
                BY <3>5 DEF UndoPending, Spent
            <4>7. Undoable => Undoable'
                <5>1. \A p \in Scope : rows'[p].ver = "-" => rows'[p].man = before.rows[p].man
                    BY <2>1, <3>1, <3>2, <3>3, <4>1, ZenonT(30) DEF PCs, ModShape, Table
                <5>2. \A p \in Packages \ Scope : rows'[p].man = before.rows[p].man
                    BY <3>1, <4>1
                <5>3. QED
                    BY <5>1, <5>2, <2>1 DEF Undoable
            <4>8. UndoPending' /\ PlanPending' /\ Spent'
                BY <4>6, <4>7, <2>1 DEF UndoPending, PlanPending, Spent
            <4>9. QED
                BY <4>3, <4>5, <4>8
    <2>4. QED
        BY <2>2, <2>3
<1>8. CASE MarkWritten
    BY <1>8, <1>quiet DEF MarkWritten, EntersRollback, PCs, ModShape, Spent
<1>9. CASE Place
    BY <1>9, <1>quiet DEF Place, EntersRollback, PCs, ModShape, Spent
<1>10. CASE MarkApplied
    BY <1>10, <1>quiet DEF MarkApplied, Returns, PCs, ModShape, Spent
<1>11. CASE Rollback
    <2> USE <1>11 DEF Rollback
    <2>1. CASE UNCHANGED <<stuck, hit>>
        BY <2>1, <1>quiet DEF PCs, ModShape
    <2>2. CASE \E f \in todo : Stick(f)
        <3>1. ~Calm' /\ hit' \subseteq AllMishaps /\ "stuck" \in hit'
            BY <2>2 DEF Stick, Calm, AllMishaps, PCs, ModShape
        <3>2. ModShape'
            BY <3>1 DEF PCs, ModShape, Table
        <3>3. QED
            BY <3>1, <3>2 DEF PlanPending, UndoPending, Spent, Owned
    <2>3. QED
        BY <2>1, <2>2
<1>12. CASE RollbackRows
    <2> USE <1>12 DEF RollbackRows
    <2>1. (Scope' = Scope) /\ Scope \subseteq Packages
        BY DEF Scope
    <2>2. pc' \in {"cleanup", "finish"} /\ (pc' = "finish" => job.kind = "toggle")
        BY DEF Returns
    <2>3. PlanPending' /\ UndoPending'
        BY <2>2 DEF PlanPending, UndoPending
    <2>4. Spent'
        BY <2>2 DEF Spent
    <2>5. CASE UNCHANGED rows
        <3>1. (Calm' => Calm) /\ hit' \subseteq AllMishaps /\ hit \subseteq hit'
            BY <2>5 DEF Calm, AllMishaps, PCs, ModShape
        <3>2. QED
            BY <2>2, <2>3, <2>4, <2>5, <3>1 DEF PCs, ModShape, Table, Owned, Disjoint
    <2>6. CASE /\ rows' = [p \in Packages |->
                            IF job.kind = "install" /\ p \in RolledBack
                            THEN prev[p].row ELSE rows[p]]
               /\ UNCHANGED hit
        <3> USE <2>6
        <3>1. Calm' <=> Calm
            BY DEF Calm
        <3>2. ModShape'
            BY <2>2 DEF PCs, ModShape, Table
        <3>3. Calm => Disjoint(rows')
            <4> SUFFICES ASSUME Calm PROVE Disjoint(rows')
                OBVIOUS
            <4>1. CASE job.kind # "install"
                BY <4>1 DEF Owned, Disjoint
            <4>2. CASE job.kind = "install" /\ staged = {} /\ outcome = "interrupted"
                <5>1. RolledBack = {}
                    BY <4>2 DEF RolledBack, Rewritten
                <5>2. QED
                    BY <5>1 DEF Owned, Disjoint
            <4>3. CASE job.kind = "install" /\ Undoable
                <5>1. stuck = {}
                    BY DEF PCs, ModShape, Calm
                <5>2. \A p \in Packages : rows'[p].man = before.rows[p].man
                    <6> TAKE p \in Packages
                    <6>1. CASE p \in RolledBack
                        <7>1. p \in Scope
                            BY <6>1, <4>3 DEF RolledBack, Rewritten, Undoable
                        <7>2. QED
                            BY <6>1, <7>1, <4>3 DEF Undoable
                    <6>2. CASE p \notin Scope
                        BY <6>2, <6>1, <4>3 DEF Undoable
                    <6>3. CASE p \in Scope /\ p \notin RolledBack
                        <7>1. outcome = "interrupted" /\ p \notin Rewritten
                            BY <6>3, <5>1 DEF RolledBack
                        <7>2. rows[p].ver = "-" \/ rows[p] = prev[p].row
                            BY <7>1, <6>3, <4>3 DEF Rewritten, Undoable, Installed
                        <7>3. QED
                            BY <7>2, <6>3, <4>3 DEF Undoable
                    <6>4. QED
                        BY <6>1, <6>2, <6>3
                <5>3. QED
                    BY <5>2 DEF Owned, Disjoint
            <4>4. QED
                BY <4>1, <4>2, <4>3 DEF UndoPending
        <3>4. Owned'
            BY <3>1, <3>3 DEF Owned, Disjoint
        <3>5. QED
            BY <2>3, <2>4, <3>2, <3>4
    <2>7. QED
        BY <2>5, <2>6
<1>13. CASE Move
    BY <1>13, <1>quiet DEF Move, PCs, ModShape, Spent
<1>14. CASE MoveDone
    BY <1>14, <1>quiet DEF MoveDone, Returns, PCs, ModShape, Spent
<1>15. CASE Settle
    BY <1>15, <1>quiet DEF Settle, PCs, ModShape
<1>16. CASE SettleDone
    <2> USE <1>16 DEF SettleDone
    <2>1. Calm' <=> Calm
        BY DEF Calm
    <2>2. ModShape'
        BY DEF PCs, ModShape, Table
    <2>3. Owned'
        BY <2>1 DEF Owned, Disjoint
    <2>4. PlanPending' /\ UndoPending' /\ Spent'
        BY DEF PlanPending, UndoPending, Spent
    <2>5. QED
        BY <2>2, <2>3, <2>4
<1>17. CASE Cleanup
    <2> USE <1>17 DEF Cleanup, EmptyStaging
    <2>1. Calm' <=> Calm
        BY DEF Calm
    <2>2. ModShape'
        BY DEF PCs, ModShape, Table, NoPrev, NoRow, NoPlan
    <2>3. Owned'
        BY <2>1 DEF Owned, Disjoint
    <2>4. PlanPending' /\ UndoPending' /\ Spent'
        BY DEF PlanPending, UndoPending, Spent
    <2>5. QED
        BY <2>2, <2>3, <2>4
<1>18. CASE Finish
    <2> USE <1>18 DEF Finish
    <2>1. (Calm' <=> Calm) /\ Scope \subseteq Packages
        BY DEF Calm, Scope
    <2>2. PlanPending' /\ UndoPending' /\ Spent'
        BY DEF PlanPending, UndoPending, Spent
    <2>3. CASE UNCHANGED rows
        BY <2>1, <2>2, <2>3 DEF PCs, ModShape, Table, Owned, Disjoint
    <2>4. CASE rows' = [p \in Packages |-> IF p \in Scope THEN FinishedRow(p) ELSE rows[p]]
        <3>1. \A p \in Packages :
                \/ rows'[p].man = rows[p].man /\ rows'[p].ver = rows[p].ver
                \/ rows'[p] = NoRow
            BY <2>4 DEF FinishedRow
        <3>2. ModShape'
            BY <2>4, <3>1 DEF PCs, ModShape, Table, NoRow
        <3>3. Owned'
            BY <2>1, <3>1 DEF Owned, Disjoint, NoRow
        <3>4. QED
            BY <2>2, <3>2, <3>3
    <2>5. QED
        BY <2>3, <2>4
<1>19. CASE Kill
    <2> USE <1>19 DEF Kill
    <2>1. hit \subseteq hit' /\ hit' \subseteq AllMishaps /\ (Calm' => Calm)
        BY ModAssumption DEF PCs, ModShape, Calm
    <2>2. ModShape'
        <3>1. /\ DOMAIN prev' = Packages /\ staged' \subseteq Packages
              /\ \A p \in Packages : prev'[p] = prev[p] \/ prev'[p] = NoPrev
            BY DEF ModShape
        <3>2. \A p \in Packages : /\ prev'[p].row.ver = "-" => prev'[p].row.man = {}
                                 /\ prev'[p].row.man \in SUBSET Paths
            BY <3>1 DEF ModShape, NoPrev, NoRow
        <3>3. QED
            BY <2>1, <3>1, <3>2 DEF PCs, ModShape, Table, NoPlan
    <2>3. Owned'
        BY <2>1 DEF Owned, Disjoint
    <2>4. PlanPending' /\ Spent'
        BY DEF PlanPending, Spent
    <2>5. UndoPending'
        <3> SUFFICES ASSUME job'.kind = "install", mark # "none", Calm'
                     PROVE  Undoable' \/ staged' = {}
            BY DEF UndoPending
        <3>1. job' = job /\ outcome # "interrupted"
            BY DEF NoJob
        <3>2. pc # "cleanup"
            BY <3>1 DEF Moment, Calm
        <3>3. UNCHANGED <<save, staged, prev>>
            BY <3>2
        <3>4. Undoable => Undoable'
            BY <3>1, <3>3 DEF Undoable, Scope
        <3>5. pc \in {"write", "written", "place", "rollback", "finish"}
            BY <3>1, <3>2 DEF PCs, ModShape, Spent, PlanPending
        <3>6. QED
            BY <2>1, <3>1, <3>3, <3>4, <3>5 DEF UndoPending, Spent
    <2>6. QED
        BY <2>2, <2>3, <2>4, <2>5
<1>20. CASE Boot
    <2> USE <1>20 DEF Boot
    <2>1. (Calm' <=> Calm) /\ (Scope' = Scope)
        BY DEF Calm, Scope
    <2>2. ModShape'
        BY DEF PCs, ModShape, Table
    <2>3. Owned'
        BY <2>1 DEF Owned, Disjoint
    <2>4. PlanPending' /\ Spent'
        BY DEF PlanPending, Spent
    <2>5. Undoable => Undoable'
        BY <2>1 DEF Undoable
    <2>6. UndoPending'
        BY <2>1, <2>5 DEF UndoPending
    <2>7. QED
        BY <2>2, <2>3, <2>4, <2>6
<1>21. CASE Put
    BY <1>21, <1>quiet DEF Put, PCs, ModShape, Spent
<1>22. CASE Rest
    BY <1>22, <1>quiet DEF Rest, vars, PCs, ModShape, Spent
<1>23. CASE UNCHANGED vars
    BY <1>23, <1>quiet DEF vars, PCs, ModShape, Spent
<1>24. QED
    BY <1>1, <1>2, <1>3, <1>4, <1>5, <1>6, <1>7, <1>8, <1>9, <1>10, <1>11, <1>12,
       <1>13, <1>14, <1>15, <1>16, <1>17, <1>18, <1>19, <1>20, <1>21, <1>22, <1>23
       DEF Next


(* OneOwner of ModTransaction: through every install, update, uninstall,   *)
(* disable, enable, rollback, kill and sweep, no two installed packages    *)
(* ever have one path in both their file manifests (short of a rollback    *)
(* that cannot write and a kill inside the staging removal).               *)
THEOREM ManifestsStayDisjoint == Spec => []OneOwner
<1>1. ModInv => OneOwner
    BY DEF ModInv, Owned, OneOwner, Calm, Disjoint
<1>2. QED
    BY ModInit, ModStep, <1>1, PTL DEF Spec

-----------------------------------------------------------------------------
(* A version, a package's bytes and a row of the right shape.              *)
LEMMA Shapes ==
    /\ Absent \in Content /\ User \in Content /\ NoRow \in Rows
    /\ NoPrev \in [row : Rows, stale : SUBSET Paths]
    /\ NoPlan \in [man : SUBSET Paths, stale : SUBSET Paths]
    /\ NoFiles \in [Paths -> Content]
    /\ NoJob.want \in [Packages -> {"-"}] /\ NoJob.configs = {}
    /\ \A p \in Packages, v \in Versions \cup {"-"} : <<p, v>> \in Content
<1>1. /\ Absent \in Content /\ User \in Content
      /\ \A p \in Packages, v \in Versions \cup {"-"} : <<p, v>> \in Content
    BY DEF Content, Absent, User
<1>2. NoRow \in Rows
    BY DEF NoRow, Rows
<1>3. QED
    BY <1>1, <1>2 DEF NoPrev, NoPlan, NoFiles, NoJob

JobType == [kind : {"none", "install", "uninstall", "toggle"},
            want : [Packages -> Versions \cup {"-", "remove", "enable", "disable"}],
            answer : {"ask", "keep", "replace"}, configs : SUBSET ConfigPaths]

(* A toggle's job row names a package, and only a package to be placed has *)
(* a planned manifest.                                                     *)
Named == job.kind = "toggle" => \E p \in Packages : job.want[p] # "-"
PlanForPlaced ==
    job.kind = "install" /\ pc \in {"save", "write", "written", "place"} =>
        \A p \in Scope : plan[p].man # {} => p \in Placed

TypeInv == TypeOK /\ Named /\ PlanForPlaced

(* The variables start with the right shapes. *)
LEMMA TypeInit == Init => TypeInv
<1> SUFFICES ASSUME Init PROVE TypeInv
    OBVIOUS
<1> USE DEF Init
<1>1. rows \in [Packages -> Rows]
    BY StartsAssumption
<1>2. \A p \in Packages : rows[p] \in Rows /\ rows[p].ver \in Versions \cup {"-"}
    BY <1>1 DEF Rows
<1>3. \A f \in Paths : FilesOf(rows, f) \in Content
    <2> TAKE f \in Paths
    <2> DEFINE owners == {p \in Packages : f \in rows[p].man \ rows[p].parked}
    <2>1. CASE owners = {}
        BY <2>1, Shapes DEF FilesOf
    <2>2. CASE owners # {}
        <3>1. (CHOOSE p \in owners : TRUE) \in owners
            BY <2>2
        <3>2. FilesOf(rows, f) = <<(CHOOSE p \in owners : TRUE), rows[(CHOOSE p \in owners : TRUE)].ver>>
            BY <2>2 DEF FilesOf
        <3>3. QED
            BY <3>1, <3>2, <1>2, Shapes
    <2>3. QED
        BY <2>1, <2>2
<1>4. server \in [Paths -> Content]
    BY <1>3
<1>5. park \in [Packages -> [Paths -> Content]]
    <2>1. \A p \in Packages, f \in Paths :
            (IF f \in rows[p].parked THEN <<p, rows[p].ver>> ELSE Absent) \in Content
        BY <1>2, Shapes
    <2>2. QED
        BY <2>1
<1>6. before \in [rows : [Packages -> Rows], server : [Paths -> Content],
                  park : [Packages -> [Paths -> Content]]]
    BY <1>1, <1>4, <1>5 DEF Snapshot
<1>7. job \in JobType
    BY Shapes DEF NoJob, JobType
<1>8. QED
    BY <1>1, <1>4, <1>5, <1>6, <1>7, Shapes, ModAssumption
       DEF TypeInv, Named, PlanForPlaced, TypeOK, PCs, JobType, NoJob

(* A claim writes a well-formed job row. *)
LEMMA TypeClaim ==
    ASSUME TypeOK, NEW kind \in {"install", "uninstall", "toggle"},
           NEW want \in [Packages -> Versions \cup {"-", "remove", "enable", "disable"}],
           NEW answer \in {"ask", "keep", "replace"}, NEW configs \in SUBSET ConfigPaths,
           NEW first \in {"prepare", "save", "move"},
           Claim(kind, want, answer, configs, first), todo' \subseteq Paths
    PROVE  TypeOK'
<1> USE DEF Claim, EmptyStaging
<1>1. before' \in [rows : [Packages -> Rows], server : [Paths -> Content],
                   park : [Packages -> [Paths -> Content]]]
    BY DEF Snapshot, TypeOK
<1>2. jobs' \in 0..MaxJobs
    BY ModAssumption DEF TypeOK
<1>3. job' \in JobType
    BY DEF JobType
<1>4. QED
    BY <1>1, <1>2, <1>3, Shapes DEF TypeOK, PCs, JobType

(* The job row is written at the claim and the plan in the preparation. *)
LEMMA NamedStep == TypeInv /\ [Next]_vars => Named' /\ PlanForPlaced'
<1> SUFFICES ASSUME TypeInv, [Next]_vars PROVE Named' /\ PlanForPlaced'
    OBVIOUS
<1> USE DEF TypeInv
<1>1. CASE Submit
    BY <1>1 DEF Submit, Claim, Named, PlanForPlaced
<1>2. CASE SubmitUninstall
    BY <1>2 DEF SubmitUninstall, Claim, Named, PlanForPlaced
<1>3. CASE SubmitToggle
    <2>1. PICK p \in Packages, way \in {"enable", "disable"} :
            Claim("toggle", [NoJob.want EXCEPT ![p] = way], "ask", {}, "move")
        BY <1>3 DEF SubmitToggle
    <2>2. job'.kind = "toggle" /\ job'.want[p] # "-"
        BY <2>1, Shapes DEF Claim
    <2>3. QED
        BY <2>2 DEF Named, PlanForPlaced
<1>4. CASE Prepare
    <2> USE <1>4 DEF Prepare
    <2>1. Scope' = Scope /\ Placed' = Placed /\ Named' /\ Scope \subseteq Packages
        BY DEF Scope, Placed, Named
    <2>2. CASE Returns("failed")
        BY <2>1, <2>2 DEF PlanForPlaced, Returns
    <2>3. CASE plan' = [p \in Packages |->
                        IF p \in Scope THEN [man |-> NewManifest(p), stale |-> Stale(p)]
                        ELSE NoPlan]
        BY <2>1, <2>3, PlanShape DEF PlanForPlaced
    <2>4. QED
        BY <2>2, <2>3
<1>quiet. ASSUME UNCHANGED job,
                 pc' \in {"save", "write", "written", "place"} =>
                    /\ UNCHANGED plan
                    /\ job.kind = "install" => pc \in {"save", "write", "written", "place"}
          PROVE  Named' /\ PlanForPlaced'
    BY <1>quiet DEF Named, PlanForPlaced, Scope, Placed
<1>gone. ASSUME job' \in {job, NoJob}, pc' \notin {"save", "write", "written", "place"}
         PROVE  Named' /\ PlanForPlaced'
    BY <1>gone DEF Named, PlanForPlaced, NoJob
<1>5. CASE SaveOne
    BY <1>5, <1>quiet DEF SaveOne, Returns
<1>6. CASE MarkSaved
    BY <1>6, <1>quiet DEF MarkSaved
<1>7. CASE WriteManifests
    BY <1>7, <1>quiet DEF WriteManifests, Returns
<1>8. CASE MarkWritten
    BY <1>8, <1>quiet DEF MarkWritten, EntersRollback
<1>9. CASE Place
    BY <1>9, <1>quiet DEF Place, EntersRollback
<1>10. CASE MarkApplied
    BY <1>10, <1>quiet DEF MarkApplied, Returns
<1>11. CASE Rollback
    BY <1>11, <1>quiet DEF Rollback
<1>12. CASE RollbackRows
    BY <1>12, <1>quiet DEF RollbackRows, Returns
<1>13. CASE Move
    BY <1>13, <1>quiet DEF Move
<1>14. CASE MoveDone
    BY <1>14, <1>quiet DEF MoveDone, Returns
<1>15. CASE Settle
    BY <1>15, <1>quiet DEF Settle
<1>16. CASE SettleDone
    BY <1>16, <1>gone DEF SettleDone
<1>17. CASE Cleanup
    BY <1>17, <1>gone DEF Cleanup
<1>18. CASE Finish
    BY <1>18, <1>quiet DEF Finish
<1>19. CASE Kill
    BY <1>19, <1>gone DEF Kill
<1>20. CASE Boot
    BY <1>20, <1>quiet DEF Boot
<1>21. CASE Put
    BY <1>21, <1>quiet DEF Put
<1>22. CASE Rest \/ UNCHANGED vars
    BY <1>22, <1>quiet DEF Rest, vars
<1>24. QED
    BY <1>1, <1>2, <1>3, <1>4, <1>5, <1>6, <1>7, <1>8, <1>9, <1>10, <1>11, <1>12,
       <1>13, <1>14, <1>15, <1>16, <1>17, <1>18, <1>19, <1>20, <1>21, <1>22
       DEF Next

(* Every step keeps the shapes. *)
LEMMA TypeStep == TypeInv /\ ModInv /\ [Next]_vars => TypeInv'
<1> SUFFICES ASSUME TypeInv, ModInv, [Next]_vars PROVE TypeOK'
    BY NamedStep DEF TypeInv
<1> USE DEF TypeInv
<1>r. \A p \in Packages : /\ rows[p] \in Rows /\ rows[p].man \subseteq Paths
                          /\ rows[p].parked \subseteq Paths
                          /\ rows[p].ver \in Versions \cup {"-"}
                          /\ rows[p].enabled \in {"yes", "no"}
    BY DEF TypeOK, Rows
<1>p. \A p \in Packages : plan[p].man \subseteq Paths /\ plan[p].stale \subseteq Paths
    BY DEF TypeOK
<1>q. \A p \in Packages : prev[p].row \in Rows /\ prev[p].stale \subseteq Paths
    BY DEF TypeOK
<1>s. Scope \subseteq Packages /\ Placed \subseteq Packages
    BY DEF Scope, Placed
<1>c. job.configs \subseteq Paths
    BY ModAssumption DEF TypeOK
<1>ie. InstallEntries \subseteq Paths
    BY <1>p, <1>s DEF InstallEntries
<1>ue. UninstallEntries \subseteq Paths
    BY <1>r, <1>s, <1>c DEF UninstallEntries, SavedConfigs
<1>1. CASE Submit
    <2>1. PICK want \in [Packages -> Versions \cup {"-", "remove"}], answer \in {"ask", "keep", "replace"} :
            Claim("install", want, answer, {}, "prepare") /\ todo' = {}
        BY <1>1 DEF Submit
    <2>2. want \in [Packages -> Versions \cup {"-", "remove", "enable", "disable"}]
        OBVIOUS
    <2>3. QED
        BY <2>1, <2>2, TypeClaim
<1>2. CASE SubmitUninstall
    <2>1. PICK want \in [Packages -> {"-", "remove"}], configs \in SUBSET ConfigPaths :
            Claim("uninstall", want, "ask", configs, "save") /\ todo' = RemovalPaths(want, configs)
        BY <1>2 DEF SubmitUninstall
    <2>2. want \in [Packages -> Versions \cup {"-", "remove", "enable", "disable"}]
        OBVIOUS
    <2>3. todo' \subseteq Paths
        BY <2>1, <1>r, ModAssumption DEF RemovalPaths
    <2>4. QED
        BY <2>1, <2>2, <2>3, TypeClaim
<1>3. CASE SubmitToggle
    <2>1. PICK p \in Packages, way \in {"enable", "disable"} :
            Claim("toggle", [NoJob.want EXCEPT ![p] = way], "ask", {}, "move") /\ todo' = MovePaths(p, way)
        BY <1>3 DEF SubmitToggle
    <2>2. [NoJob.want EXCEPT ![p] = way] \in [Packages -> Versions \cup {"-", "remove", "enable", "disable"}]
        BY Shapes
    <2>3. todo' \subseteq Paths
        BY <2>1, <1>r DEF MovePaths
    <2>4. QED
        BY <2>1, <2>2, <2>3, TypeClaim
<1>4. CASE Prepare
    <2> USE <1>4 DEF Prepare
    <2>1. CASE Returns("failed") /\ UNCHANGED plan
        BY <2>1, <1>s DEF Returns, TypeOK, PCs
    <2>2. CASE /\ plan' = [p \in Packages |->
                        IF p \in Scope THEN [man |-> NewManifest(p), stale |-> Stale(p)]
                        ELSE NoPlan]
               /\ todo' = UNION {NewManifest(p) \cup Stale(p) : p \in Scope}
               /\ pc' = "save" /\ UNCHANGED outcome
        <3>1. \A p \in Scope : NewManifest(p) \subseteq Paths /\ Stale(p) \subseteq Paths
            BY <1>r, <1>s, PlanShape DEF Stale
        <3>2. plan' \in [Packages -> [man : SUBSET Paths, stale : SUBSET Paths]]
            BY <2>2, <3>1, Shapes
        <3>3. todo' \subseteq Paths
            BY <2>2, <3>1
        <3>4. QED
            BY <2>2, <3>2, <3>3, <1>s DEF TypeOK, PCs
    <2>3. QED
        BY <2>1, <2>2
<1>5. CASE SaveOne
    <2> USE <1>5 DEF SaveOne
    <2>1. CASE Returns("failed") /\ UNCHANGED save
        BY <2>1 DEF Returns, TypeOK, PCs
    <2>2. CASE \E f \in todo : /\ save' = [save EXCEPT ![f] = Source(f)]
                               /\ todo' = todo \ {f} /\ UNCHANGED <<pc, outcome>>
        <3>1. PICK f \in todo : /\ save' = [save EXCEPT ![f] = Source(f)]
                                /\ todo' = todo \ {f} /\ UNCHANGED <<pc, outcome>>
            BY <2>2
        <3>2. Source(f) \in Content
            <4>1. f \in Paths
                BY DEF TypeOK
            <4>2. CASE ParkedOwner(f) = {} \/ job.kind # "uninstall"
                BY <4>1, <4>2 DEF Source, TypeOK
            <4>3. CASE ParkedOwner(f) # {} /\ job.kind = "uninstall"
                <5>1. (CHOOSE p \in ParkedOwner(f) : TRUE) \in Packages
                    BY <4>3, <1>s DEF ParkedOwner
                <5>2. QED
                    BY <4>1, <4>3, <5>1 DEF Source, TypeOK
            <4>4. QED
                BY <4>2, <4>3
        <3>3. save' \in [Paths -> Content]
            BY <3>1, <3>2 DEF TypeOK
        <3>4. QED
            BY <3>1, <3>3 DEF TypeOK
    <2>3. QED
        BY <2>1, <2>2
<1>6. CASE MarkSaved
    <2> USE <1>6 DEF MarkSaved
    <2>1. prev' \in [Packages -> [row : Rows, stale : SUBSET Paths]]
        BY <1>r, <1>p DEF TypeOK
    <2>2. RemovalPaths(job.want, job.configs) \subseteq Paths
        BY <1>r, <1>c DEF RemovalPaths
    <2>3. QED
        BY <2>1, <2>2 DEF TypeOK, PCs
<1>7. CASE WriteManifests
    <2> USE <1>7 DEF WriteManifests
    <2>1. \A p \in Scope : NewRow(p) \in Rows
        BY <1>r, <1>p, <1>s DEF NewRow, Rows, Placed
    <2>2. CASE Returns("failed") /\ UNCHANGED rows
        BY <2>2 DEF TypeOK, PCs, Returns
    <2>3. CASE /\ rows' = [p \in Packages |-> IF p \in Scope THEN NewRow(p) ELSE rows[p]]
               /\ pc' = "written" /\ UNCHANGED <<outcome, todo>>
        <3>1. rows' \in [Packages -> Rows]
            BY <2>1, <2>3, <1>r
        <3>2. QED
            BY <2>3, <3>1 DEF TypeOK, PCs
    <2>4. QED
        BY <2>2, <2>3
<1>8. CASE MarkWritten
    BY <1>8, <1>ie, <1>ue DEF MarkWritten, EntersRollback, TypeOK, PCs
<1>9. CASE Place
    <2> USE <1>9 DEF Place
    <2>1. CASE EntersRollback /\ UNCHANGED <<server, park>>
        BY <2>1, <1>ie, <1>ue DEF EntersRollback, TypeOK, PCs
    <2>2. CASE \E f \in todo : PlaceOne(f) /\ todo' = todo \ {f} /\ UNCHANGED <<pc, outcome>>
        <3>1. PICK f \in todo : PlaceOne(f) /\ todo' = todo \ {f} /\ UNCHANGED <<pc, outcome>>
            BY <2>2
        <3>2. server' \in [Paths -> Content] /\ park' \in [Packages -> [Paths -> Content]]
            <4>1. CASE job.kind = "install"
                <5>1. PICK c \in Content : server' = [server EXCEPT ![f] = c] /\ UNCHANGED park
                    <6>1. CASE \E p \in Scope : /\ f \in plan[p].man
                                                /\ server' = [server EXCEPT ![f] = <<p, job.want[p]>>]
                        <7>1. PICK p \in Scope : /\ f \in plan[p].man
                                                 /\ server' = [server EXCEPT ![f] = <<p, job.want[p]>>]
                            BY <6>1
                        <7>2. <<p, job.want[p]>> \in Content
                            BY <7>1, <1>s, <4>1, Shapes DEF PlanForPlaced, Placed
                        <7>3. QED
                            BY <7>1, <7>2, <4>1, <3>1 DEF PlaceOne
                    <6>2. QED
                        BY <6>1, <3>1, <4>1, Shapes DEF PlaceOne
                <5>2. QED
                    BY <5>1 DEF TypeOK
            <4>2. CASE job.kind # "install"
                <5>1. server' = server \/ server' = [server EXCEPT ![f] = Absent]
                    BY <4>2, <3>1 DEF PlaceOne
                <5>2. park' = park \/ park' = [p \in Packages |-> IF p \in ParkedOwner(f)
                                                    THEN [park[p] EXCEPT ![f] = Absent] ELSE park[p]]
                    BY <4>2, <3>1 DEF PlaceOne
                <5>3. \A p \in Packages : park[p] \in [Paths -> Content]
                    BY DEF TypeOK
                <5>4. \A p \in Packages : [park[p] EXCEPT ![f] = Absent] \in [Paths -> Content]
                    BY <5>3, Shapes
                <5>5. server \in [Paths -> Content] /\ park \in [Packages -> [Paths -> Content]]
                    BY DEF TypeOK
                <5>6. park' \in [Packages -> [Paths -> Content]]
                    BY <5>2, <5>3, <5>4, <5>5
                <5>7. server' \in [Paths -> Content]
                    BY <5>1, <5>5, Shapes
                <5>8. QED
                    BY <5>6, <5>7
            <4>3. QED
                BY <4>1, <4>2
        <3>3. QED
            BY <3>1, <3>2 DEF TypeOK
    <2>3. QED
        BY <2>1, <2>2
<1>10. CASE MarkApplied
    BY <1>10 DEF MarkApplied, Returns, TypeOK, PCs
<1>11. CASE Rollback
    <2> USE <1>11 DEF Rollback
    <2>1. PICK f \in todo : /\ \/ RollbackOne(f) /\ UNCHANGED <<stuck, hit>>
                               \/ Stick(f)
                            /\ todo' = todo \ {f}
        OBVIOUS
    <2>2. save[f] \in Content
        BY DEF TypeOK
    <2>3. server' \in [Paths -> Content] /\ park' \in [Packages -> [Paths -> Content]]
        <3>1. server' = server \/ server' = [server EXCEPT ![f] = save[f]]
            BY <2>1 DEF RollbackOne, Stick
        <3>2. park' = park \/ park' = [p \in Packages |-> IF p \in ParkedOwner(f)
                                            THEN [park[p] EXCEPT ![f] = save[f]] ELSE park[p]]
            BY <2>1 DEF RollbackOne, Stick
        <3>3. \A p \in Packages : park[p] \in [Paths -> Content]
            BY DEF TypeOK
        <3>4. \A p \in Packages : [park[p] EXCEPT ![f] = save[f]] \in [Paths -> Content]
            BY <3>3, <2>2
        <3>5. server \in [Paths -> Content] /\ park \in [Packages -> [Paths -> Content]]
            BY DEF TypeOK
        <3>6. park' \in [Packages -> [Paths -> Content]]
            BY <3>2, <3>3, <3>4, <3>5
        <3>7. QED
            BY <3>1, <3>5, <3>6, <2>2
    <2>4. stuck' \subseteq Packages /\ hit' \subseteq AllMishaps
        BY <2>1, <1>s DEF Stick, TypeOK, AllMishaps
    <2>5. QED
        BY <2>1, <2>3, <2>4 DEF TypeOK
<1>12. CASE RollbackRows
    <2> USE <1>12 DEF RollbackRows
    <2>1. rows' \in [Packages -> Rows]
        <3>1. CASE UNCHANGED rows
            BY <3>1 DEF TypeOK
        <3>2. CASE rows' = [p \in Packages |-> IF job.kind = "install" /\ p \in RolledBack
                                               THEN prev[p].row ELSE rows[p]]
            BY <3>2, <1>r, <1>q
        <3>3. QED
            BY <3>1, <3>2
    <2>2. hit' \subseteq AllMishaps
        BY DEF TypeOK, AllMishaps
    <2>3. QED
        BY <2>1, <2>2 DEF TypeOK, PCs, Returns
<1>t. pc \in {"move", "settle"} \/ job.kind = "toggle"
        => Toggled \in Packages /\ Settleable(Toggled) \subseteq Paths
    BY <1>r DEF ModInv, Spent, Named, Toggled, Settleable
<1>trees. ASSUME NEW f \in Paths, Toggled \in Packages,
                 \/ UNCHANGED server
                 \/ \E c \in Content : server' = [server EXCEPT ![f] = c],
                 \/ UNCHANGED park
                 \/ \E c \in Content : park' = [park EXCEPT ![Toggled][f] = c]
          PROVE  server' \in [Paths -> Content] /\ park' \in [Packages -> [Paths -> Content]]
    <2>1. server' \in [Paths -> Content]
        BY <1>trees DEF TypeOK
    <2>2. ASSUME NEW c \in Content, park' = [park EXCEPT ![Toggled][f] = c]
          PROVE  park' \in [Packages -> [Paths -> Content]]
        <3>1. [park[Toggled] EXCEPT ![f] = c] \in [Paths -> Content]
            BY <1>trees DEF TypeOK
        <3>2. park' = [park EXCEPT ![Toggled] = [park[Toggled] EXCEPT ![f] = c]]
            BY <1>trees, <2>2 DEF TypeOK
        <3>3. QED
            BY <3>1, <3>2 DEF TypeOK
    <2>3. QED
        BY <1>trees, <2>1, <2>2 DEF TypeOK
<1>cells. Toggled \in Packages => \A f \in Paths : server[f] \in Content /\ park[Toggled][f] \in Content
    BY DEF TypeOK
<1>13. CASE Move
    <2> USE <1>13 DEF Move
    <2>1. CASE /\ pc' = "settle" /\ outcome' = "failed"
               /\ todo' = Settleable(Toggled) /\ UNCHANGED <<server, park, moved>>
        BY <2>1, <1>t DEF TypeOK, PCs
    <2>2. CASE \E f \in todo :
                 /\ \/ MoveCopy(f) /\ UNCHANGED moved
                    \/ MoveDrop(f) /\ moved' = moved \cup {f}
                 /\ UNCHANGED <<pc, outcome>>
        <3>1. PICK f \in todo :
                 /\ \/ MoveCopy(f) /\ UNCHANGED moved
                    \/ MoveDrop(f) /\ moved' = moved \cup {f}
                 /\ UNCHANGED <<pc, outcome>>
            BY <2>2
        <3>2. f \in Paths /\ Toggled \in Packages
            BY <1>t DEF TypeOK
        <3>3. \/ UNCHANGED server
              \/ \E c \in Content : server' = [server EXCEPT ![f] = c]
            BY <3>1, <3>2, <1>cells, Shapes DEF MoveCopy, MoveDrop
        <3>4. \/ UNCHANGED park
              \/ \E c \in Content : park' = [park EXCEPT ![Toggled][f] = c]
            BY <3>1, <3>2, <1>cells, Shapes DEF MoveCopy, MoveDrop
        <3>5. server' \in [Paths -> Content] /\ park' \in [Packages -> [Paths -> Content]]
            BY <3>2, <3>3, <3>4, <1>trees
        <3>6. todo' \subseteq todo /\ moved' \subseteq Paths
            BY <3>1, <3>2 DEF MoveCopy, MoveDrop, TypeOK
        <3>7. QED
            BY <3>1, <3>5, <3>6 DEF TypeOK
    <2>3. QED
        BY <2>1, <2>2
<1>14. CASE MoveDone
    BY <1>14 DEF MoveDone, Returns, TypeOK, PCs
<1>15. CASE Settle
    <2> USE <1>15 DEF Settle
    <2>1. PICK f \in todo : SettleOne(f)
        OBVIOUS
    <2>2. f \in Paths /\ Toggled \in Packages
        BY <1>t DEF TypeOK
    <2>3. \/ UNCHANGED server
          \/ \E c \in Content : server' = [server EXCEPT ![f] = c]
        BY <2>1, <2>2, <1>cells, Shapes DEF SettleOne
    <2>4. \/ UNCHANGED park
          \/ \E c \in Content : park' = [park EXCEPT ![Toggled][f] = c]
        BY <2>1, <2>2, <1>cells, Shapes DEF SettleOne
    <2>5. server' \in [Paths -> Content] /\ park' \in [Packages -> [Paths -> Content]]
        BY <2>2, <2>3, <2>4, <1>trees
    <2>6. todo' \subseteq todo
        BY <2>1 DEF SettleOne
    <2>7. QED
        BY <2>5, <2>6 DEF TypeOK
<1>job. NoJob \in JobType /\ job \in JobType
    BY Shapes DEF NoJob, JobType, TypeOK
<1>16. CASE SettleDone
    BY <1>16, <1>job DEF SettleDone, TypeOK, PCs, JobType
<1>17. CASE Cleanup
    BY <1>17, <1>job, Shapes DEF Cleanup, EmptyStaging, TypeOK, PCs, JobType
<1>18. CASE Finish
    <2> USE <1>18 DEF Finish
    <2>1. CASE UNCHANGED <<rows, park>>
        BY <2>1 DEF TypeOK, PCs
    <2>2. CASE /\ rows' = [p \in Packages |-> IF p \in Scope THEN FinishedRow(p) ELSE rows[p]]
               /\ park' = [p \in Packages |->
                             IF p \in Scope /\ EmptiesPark(p) THEN NoFiles ELSE park[p]]
        <3>1. \A p \in Scope : FinishedRow(p) \in Rows
            <4> TAKE p \in Scope
            <4>1. moved \subseteq Paths /\ rows[p] \in Rows /\ p \in Packages
                BY <1>r, <1>s DEF TypeOK
            <4>2. CASE job.want[p] = "remove"
                BY <4>2, Shapes DEF FinishedRow
            <4>3. CASE job.want[p] # "remove" /\ job.kind # "toggle"
                BY <4>1, <4>3 DEF FinishedRow
            <4>4. CASE job.want[p] # "remove" /\ job.kind = "toggle"
                BY <4>1, <4>4, <1>r DEF FinishedRow, Rows
            <4>5. QED
                BY <4>2, <4>3, <4>4
        <3>2. rows' \in [Packages -> Rows]
            BY <3>1, <2>2, <1>r
        <3>3. park' \in [Packages -> [Paths -> Content]]
            BY <2>2, Shapes DEF TypeOK
        <3>4. QED
            BY <3>2, <3>3 DEF TypeOK, PCs
    <2>3. QED
        BY <2>1, <2>2
<1>19. CASE Kill
    <2> USE <1>19 DEF Kill
    <2>1. save' \in [Paths -> Content] /\ staged' \subseteq Packages
          /\ prev' \in [Packages -> [row : Rows, stale : SUBSET Paths]]
        <3>1. CASE pc # "cleanup"
            BY <3>1 DEF TypeOK
        <3>2. CASE pc = "cleanup"
            <4>1. PICK lost \in SUBSET Paths, gone \in SUBSET Packages, rest \in SUBSET Packages :
                    /\ save' = [f \in Paths |-> IF f \in lost THEN Absent ELSE save[f]]
                    /\ staged' = staged \ gone
                    /\ prev' = [p \in Packages |-> IF p \in rest THEN NoPrev ELSE prev[p]]
                BY <3>2
            <4>2. QED
                BY <4>1, Shapes DEF TypeOK
        <3>3. QED
            BY <3>1, <3>2
    <2>2. hit' \subseteq AllMishaps
        BY ModAssumption DEF TypeOK
    <2>3. plan' \in [Packages -> [man : SUBSET Paths, stale : SUBSET Paths]]
        BY Shapes
    <2>4. job' \in JobType
        BY <1>job
    <2>5. QED
        BY <2>1, <2>2, <2>3, <2>4 DEF TypeOK, PCs, JobType
<1>20. CASE Boot
    <2> USE <1>20 DEF Boot
    <2>1. Rewritten \subseteq Packages
        BY DEF Rewritten, TypeOK
    <2>2. UNION {rows[p].man \cup prev[p].stale : p \in Rewritten} \subseteq Paths
        BY <2>1, <1>r, <1>q
    <2>3. QED
        BY <2>2, <1>ue, <1>t DEF TypeOK, PCs
<1>21. CASE Put
    <2>1. puts' \in 0..MaxPuts
        BY <1>21, ModAssumption DEF Put, TypeOK
    <2>2. QED
        BY <2>1, <1>21, Shapes DEF Put, TypeOK
<1>22. CASE Rest \/ UNCHANGED vars
    BY <1>22 DEF Rest, vars, TypeOK
<1>24. QED
    BY <1>1, <1>2, <1>3, <1>4, <1>5, <1>6, <1>7, <1>8, <1>9, <1>10, <1>11, <1>12,
       <1>13, <1>14, <1>15, <1>16, <1>17, <1>18, <1>19, <1>20, <1>21, <1>22
       DEF Next

-----------------------------------------------------------------------------
(* The three stores at rest and in every stage of a job.                   *)

(* Rows r, server tree s and parking tree k agree.                         *)
AtRest(r, s, k) ==
    /\ \A p \in Packages :
         /\ r[p].ver = "-" => r[p] = NoRow
         /\ r[p].parked \subseteq r[p].man \ ConfigPaths
         /\ r[p].enabled = "yes" => r[p].parked = {}
    /\ Disjoint(r)
    /\ \A p \in Packages, f \in Paths :
         k[p][f] = IF f \in r[p].parked THEN <<p, r[p].ver>> ELSE Absent
    /\ \A p \in Packages : \A f \in (r[p].man \ r[p].parked) \ ConfigPaths : s[f] = <<p, r[p].ver>>
    /\ \A p \in Packages, f \in Paths \ ConfigPaths, v \in Versions \cup {"-"} :
         s[f] = <<p, v>> => f \in r[p].man \ r[p].parked /\ v = r[p].ver

(* The stores are as the job found them. *)
Same == rows = before.rows /\ server = before.server /\ park = before.park

(* UserFilesKept, at any moment. *)
UserKept ==
    \A f \in Paths : before.server[f] = User =>
        \/ server[f] = User
        \/ f \in job.configs
        \/ job.answer = "replace" /\ f \notin ConfigPaths

(* An install places packages at another version and removes installed     *)
(* ones.                                                                   *)
IWant ==
    \A p \in Packages :
        /\ job.want[p] \in Versions \cup {"-", "remove"}
        /\ job.want[p] \in Versions => job.want[p] # before.rows[p].ver
        /\ job.want[p] = "remove" => before.rows[p].ver # "-"

(* What planClosure answers for, in the terms of the tables the job found. *)
PlanOk ==
    /\ \A p \in Scope :
         /\ p \notin Placed => plan[p].man = {}
         /\ plan[p].stale \subseteq before.rows[p].man \ ConfigPaths
         /\ before.rows[p].parked = {}
         /\ before.rows[p].ver # "-" => before.rows[p].enabled = "yes"
         /\ \A f \in before.rows[p].man \ ConfigPaths :
              f \in plan[p].stale \/ \E q \in Scope : f \in plan[q].man
         /\ \A f \in plan[p].man : before.server[f] = User =>
              job.answer = "replace" /\ f \notin ConfigPaths
    /\ \A p, q \in Scope :
         /\ plan[p].stale \cap plan[q].man = {}
         /\ p # q => plan[p].man \cap plan[q].man = {}
    /\ \A p \in Scope, q \in Packages \ Scope : plan[p].man \cap before.rows[q].man = {}

(* The staging directory holds the rows the job found, *)
Backed ==
    /\ staged = Scope /\ mark = "saved"
    /\ \A p \in Scope : prev[p].row = before.rows[p]
                        /\ (before.rows[p].ver = "-" => prev[p] = NoPrev)

(* and the files it is about to change. *)
WithPlan ==
    /\ PlanOk
    /\ \A p \in Scope : prev[p].stale = plan[p].stale
    /\ \A f \in InstallEntries : save[f] = before.server[f]

(* The table WriteInstanceMods leaves. *)
NewRows ==
    \A p \in Packages :
        rows[p] = IF p \in Scope
                  THEN [ver |-> IF p \in Placed THEN job.want[p] ELSE before.rows[p].ver,
                        man |-> plan[p].man, parked |-> {}, enabled |-> "yes"]
                  ELSE before.rows[p]

(* One path of the plan is done. *)
PlacedAt(f) ==
    \/ \E p \in Scope : f \in plan[p].man /\ server[f] = <<p, job.want[p]>>
    \/ (\A p \in Scope : f \notin plan[p].man) /\ server[f] = Absent

(* The files the boot sweep would restore, and that it can. *)
SweepEntries == UNION {rows[p].man \cup prev[p].stale : p \in Rewritten}

Revertible ==
    /\ Backed /\ park = before.park
    /\ \A p \in Packages : rows[p] = before.rows[p] \/ p \in Rewritten
    /\ \A f \in SweepEntries : save[f] = before.server[f]

(* The stages of an install. *)
IPrepare == Same /\ outcome = "running" /\ mark = "none" /\ \A p \in Packages : prev[p] = NoPrev
ISave ==
    /\ Same /\ outcome = "running" /\ mark = "none" /\ (\A p \in Packages : prev[p] = NoPrev)
    /\ PlanOk /\ staged = Scope /\ todo \subseteq InstallEntries
    /\ \A f \in InstallEntries \ todo : save[f] = before.server[f]
IWrite == Same /\ outcome = "running" /\ Backed /\ WithPlan
IWritten == outcome = "running" /\ Backed /\ WithPlan /\ NewRows /\ server = before.server /\ park = before.park
IPlace ==
    /\ outcome = "running" /\ Backed /\ WithPlan /\ NewRows /\ park = before.park
    /\ todo \subseteq InstallEntries
    /\ \A f \in Paths \ InstallEntries : server[f] = before.server[f]
    /\ \A f \in InstallEntries \ todo : PlacedAt(f)
IRollback ==
    /\ outcome = "failed" =>
         Backed /\ WithPlan /\ NewRows /\ park = before.park /\ todo \subseteq InstallEntries
    /\ outcome # "failed" => outcome = "interrupted" /\ Revertible /\ todo \subseteq SweepEntries
    /\ \A f \in Paths \ todo : server[f] = before.server[f]
IDown ==
    /\ mark = "none" => Same
    /\ mark # "none" => Revertible /\ \A f \in Paths \ SweepEntries : server[f] = before.server[f]
IDone ==
    /\ outcome \in {"ok", "failed", "interrupted"}
    /\ outcome # "ok" => Same
    /\ outcome = "ok" =>
         /\ AtRest(rows, server, park) /\ UserKept
         /\ \A p \in Packages : job.want[p] = "remove" => rows[p].man = {} /\ rows[p].parked = {}

InstallAt ==
    /\ IWant
    /\ pc \in {"prepare", "save", "write", "written", "place", "rollback", "down", "cleanup", "finish"}
    /\ pc = "prepare" => IPrepare
    /\ pc = "save" => ISave
    /\ pc = "write" => IWrite
    /\ pc = "written" => IWritten
    /\ pc = "place" => IPlace
    /\ pc = "rollback" => IRollback
    /\ pc = "down" => IDown
    /\ pc \in {"cleanup", "finish"} => IDone

(* The files an uninstall removes, and the owner of one that is parked. *)
Removal == job.configs \cup UNION {before.rows[p].man \ ConfigPaths : p \in Scope}
ParkedIn(f) == {p \in Scope : f \in before.rows[p].parked}

(* Nothing but those files differs, each in the tree it lives in, *)
Apart ==
    /\ rows = before.rows
    /\ \A f \in Paths : ParkedIn(f) # {} \/ f \notin Removal => server[f] = before.server[f]
    /\ \A p \in Packages, f \in Paths :
         p \notin ParkedIn(f) \/ f \notin Removal => park[p][f] = before.park[p][f]

(* and each is there or gone, with its copy in the staging directory. *)
Kept ==
    /\ Apart
    /\ \A f \in Removal : ParkedIn(f) = {} =>
         server[f] \in {before.server[f], Absent} /\ save[f] = before.server[f]
    /\ \A f \in Removal : \A p \in ParkedIn(f) :
         park[p][f] \in {before.park[p][f], Absent} /\ save[f] = before.park[p][f]

(* These have gone from the server tree. *)
Gone(T) == \A f \in T : ParkedIn(f) = {} => server[f] = Absent

(* The stages of an uninstall. *)
USave ==
    /\ Same /\ outcome = "running" /\ mark = "none" /\ todo \subseteq Removal
    /\ \A f \in Removal \ todo :
         /\ ParkedIn(f) = {} => save[f] = before.server[f]
         /\ \A p \in ParkedIn(f) : save[f] = before.park[p][f]
UPlace == outcome = "running" /\ mark = "saved" /\ Kept /\ todo \subseteq Removal /\ Gone(Removal \ todo)
URollback ==
    /\ outcome \in {"failed", "interrupted"} /\ mark = "saved" /\ Kept /\ todo \subseteq Removal
    /\ \A f \in Paths \ todo :
         server[f] = before.server[f] /\ \A p \in Packages : park[p][f] = before.park[p][f]
UDown == mark = "saved" /\ Kept
UDone ==
    /\ outcome \in {"ok", "failed", "interrupted"}
    /\ outcome # "ok" => Same
    /\ outcome = "ok" => Apart /\ Gone(Removal) /\ UserKept

(* An uninstall removes packages that were installed. *)
UWant ==
    \A p \in Packages :
        /\ job.want[p] \in {"-", "remove"}
        /\ job.want[p] = "remove" => before.rows[p].ver # "-"

UninstallAt ==
    /\ UWant
    /\ pc \in {"save", "place", "rollback", "down", "cleanup", "finish"}
    /\ pc = "save" => USave
    /\ pc = "place" => UPlace
    /\ pc = "rollback" => URollback
    /\ pc = "down" => UDown
    /\ pc \in {"cleanup", "finish"} => UDone

(* The files of a toggled package, their bytes, and those that move. *)
Movable == before.rows[Toggled].man \ ConfigPaths
Own == <<Toggled, before.rows[Toggled].ver>>
ToMove == IF Way = "enable" THEN before.rows[Toggled].parked
          ELSE (before.rows[Toggled].man \ before.rows[Toggled].parked) \ ConfigPaths

(* A file where it was found, *)
Unmoved(f) == server[f] = before.server[f] /\ park[Toggled][f] = before.park[Toggled][f]
(* half way, or all the way, to the other tree. *)
InBoth(f) == server[f] = Own /\ park[Toggled][f] = Own
Over(f) ==
    IF f \in before.rows[Toggled].parked THEN server[f] = Own /\ park[Toggled][f] = Absent
    ELSE server[f] = Absent /\ park[Toggled][f] = Own

(* Each file is in one of those states; a parked one only left for a path  *)
(* that was free.                                                          *)
Trees ==
    /\ rows = before.rows
    /\ \A p \in Packages : p # Toggled => park[p] = before.park[p]
    /\ \A f \in Paths \ Movable : Unmoved(f)
    /\ \A f \in Movable :
         \/ Unmoved(f)
         \/ (f \in before.rows[Toggled].parked => before.server[f] = Absent) /\ (InBoth(f) \/ Over(f))

(* The stages of a toggle. *)
TMove ==
    /\ outcome = "running" /\ Trees /\ todo \subseteq ToMove /\ moved = ToMove \ todo
    /\ \A f \in Paths \ ToMove : Unmoved(f)
    /\ \A f \in todo : ~Over(f)
    /\ \A f \in moved : Over(f)
TSettle ==
    /\ outcome \in {"failed", "interrupted"} /\ Trees /\ todo \subseteq Movable
    /\ \A f \in Movable \ todo : Unmoved(f)
TFinish ==
    /\ outcome \in {"ok", "failed"} /\ Trees
    /\ outcome = "failed" => Same
    /\ outcome = "ok" =>
         /\ moved = ToMove
         /\ \A f \in Paths \ ToMove : Unmoved(f)
         /\ \A f \in ToMove : Over(f)

(* A toggle turns one installed package the other way. *)
ToggleOk ==
    /\ Toggled \in Packages /\ Scope = {Toggled}
    /\ Way \in {"enable", "disable"}
    /\ before.rows[Toggled].ver # "-"
    /\ before.rows[Toggled].enabled = (IF Way = "enable" THEN "no" ELSE "yes")

ToggleAt ==
    /\ ToggleOk
    /\ pc \in {"move", "settle", "down", "finish"}
    /\ pc = "move" => TMove
    /\ pc = "settle" => TSettle
    /\ pc = "down" => Trees
    /\ pc = "finish" => TFinish

(* Between jobs. *)
IdleOk ==
    /\ AtRest(rows, server, park)
    /\ outcome \in {"failed", "interrupted"} => Same
    /\ outcome = "ok" => UserKept

QuietInv ==
    /\ AtRest(before.rows, before.server, before.park)
    /\ pc = "idle" => IdleOk
    /\ pc # "idle" => job.kind \in {"install", "uninstall", "toggle"}
    /\ pc # "idle" /\ job.kind = "install" => InstallAt
    /\ pc # "idle" /\ job.kind = "uninstall" => UninstallAt
    /\ pc # "idle" /\ job.kind = "toggle" => ToggleAt

(* The invariant of the three stores, as long as no mishap has fallen. *)
StoresInv == hit = {} => QuietInv

(* What a job found stays at rest as long as the job lasts. *)
LEMMA BeforeRests ==
    ASSUME UNCHANGED before, AtRest(before.rows, before.server, before.park)
    PROVE  AtRest(before.rows, before.server, before.park)'
BY DEF AtRest, Disjoint

(* planClosure over tables at rest: what it lets through leaves every      *)
(* file outside BepInEx/config/ either stale or taken over, takes nothing  *)
(* of an untouched package, and no file of the operator's unless told so.  *)
LEMMA PlanSound ==
    ASSUME TypeOK, AtRest(rows, server, park), ~Refused
    PROVE  /\ \A p \in Scope :
                /\ p \notin Placed => NewManifest(p) = {}
                /\ Stale(p) \subseteq rows[p].man \ ConfigPaths
                /\ rows[p].parked = {}
                /\ rows[p].ver # "-" => rows[p].enabled = "yes"
                /\ \A f \in rows[p].man \ ConfigPaths :
                     f \in Stale(p) \/ \E q \in Scope : f \in NewManifest(q)
                /\ \A f \in NewManifest(p) : server[f] = User =>
                     job.answer = "replace" /\ f \notin ConfigPaths
           /\ \A p, q \in Scope :
                /\ Stale(p) \cap NewManifest(q) = {}
                /\ p # q => NewManifest(p) \cap NewManifest(q) = {}
           /\ \A p \in Scope, q \in Packages \ Scope : NewManifest(p) \cap rows[q].man = {}
<1>d. Disjoint(rows)
    BY DEF AtRest
<1>1. /\ \A p, q \in Scope : p # q => NewManifest(p) \cap NewManifest(q) = {}
      /\ \A p \in Scope, q \in Packages \ Scope : NewManifest(p) \cap rows[q].man = {}
    BY <1>d, PlanDisjoint
<1>s. Scope \subseteq Packages /\ Placed \subseteq Scope
    BY ModAssumption DEF Scope, Placed
<1>2. \A p \in Scope : p \notin Placed => NewManifest(p) = {}
    BY PlanShape
<1>3. \A p \in Scope : Stale(p) \subseteq rows[p].man \ ConfigPaths
    BY DEF Stale
<1>4. ASSUME NEW p \in Scope PROVE rows[p].parked = {} /\ (rows[p].ver # "-" => rows[p].enabled = "yes")
    <2>1. rows[p].enabled \in {"yes", "no"} /\ p \in Packages
        BY <1>s DEF TypeOK, Rows
    <2>2. CASE rows[p].ver = "-"
        BY <2>1, <2>2 DEF AtRest, NoRow
    <2>3. CASE rows[p].ver # "-"
        <3>1. rows[p].enabled = "yes"
            BY <2>1, <2>3, <1>4 DEF Refused, Installed
        <3>2. QED
            BY <2>1, <3>1 DEF AtRest
    <2>4. QED
        BY <2>2, <2>3
<1>5. ASSUME NEW p \in Scope, NEW f \in rows[p].man \ ConfigPaths, f \notin Stale(p)
      PROVE  \E q \in Scope : f \in NewManifest(q)
    <2>1. CASE p \in Placed /\ f \in Ships[p][job.want[p]]
        <3>1. f \in Changes(p)
            BY <2>1, <1>5 DEF Changes
        <3>2. f \notin UnownedIn(p)
            BY <1>5, <1>s DEF UnownedIn
        <3>3. f \in NewManifest(p)
            BY <2>1, <3>1, <3>2 DEF NewManifest
        <3>4. QED
            BY <3>3
    <2>2. CASE ~(p \in Placed /\ f \in Ships[p][job.want[p]])
        <3>1. f \in UNION {NewManifest(q) : q \in Placed \ {p}}
            BY <2>2, <1>5 DEF Stale
        <3>2. QED
            BY <3>1, <1>s
    <2>3. QED
        BY <2>1, <2>2
<1>6. ASSUME NEW p \in Scope, NEW f \in NewManifest(p), server[f] = User
      PROVE  job.answer = "replace" /\ f \notin ConfigPaths
    <2>1. p \in Placed /\ f \in Changes(p)
        BY <1>6, <1>2, PlanShape
    <2>2. f \notin ConfigPaths /\ f \in Paths
        <3>1. f \in Paths
            BY <1>6, PlanShape
        <3>2. User # Absent
            BY DEF User, Absent
        <3>3. QED
            BY <2>1, <1>6, <3>1, <3>2 DEF Changes
    <2>3. ASSUME NEW q \in Packages, f \in rows[q].man PROVE FALSE
        <3>1. CASE f \notin rows[q].parked
            <4>1. server[f] = <<q, rows[q].ver>>
                BY <2>2, <2>3, <3>1 DEF AtRest
            <4>2. QED
                BY <4>1, <1>6, <2>3, ModAssumption DEF User
        <3>2. CASE f \in rows[q].parked
            <4>1. q \notin Scope
                BY <3>2, <1>4
            <4>2. QED
                BY <1>1, <1>6, <2>3, <4>1
        <3>3. QED
            BY <3>1, <3>2
    <2>4. f \in UnownedIn(p)
        <3>1. User # Absent
            BY DEF User, Absent
        <3>2. QED
            BY <2>1, <2>3, <1>6, <3>1 DEF UnownedIn
    <2>5. job.answer # "ask"
        BY <2>1, <2>4 DEF Refused
    <2>6. job.answer # "keep"
        BY <2>1, <2>4, <1>6 DEF NewManifest
    <2>7. QED
        BY <2>2, <2>5, <2>6 DEF TypeOK
<1>7. ASSUME NEW p \in Scope, NEW q \in Scope PROVE Stale(p) \cap NewManifest(q) = {}
    <2>1. CASE q \notin Placed
        BY <2>1, <1>2, <1>7
    <2>2. CASE q \in Placed /\ q # p
        BY <2>2 DEF Stale
    <2>3. CASE q \in Placed /\ q = p
        <3>1. NewManifest(p) \subseteq Ships[p][job.want[p]]
            BY <2>3, PlanShape DEF Changes
        <3>2. QED
            BY <2>3, <3>1 DEF Stale
    <2>4. QED
        BY <2>1, <2>2, <2>3
<1>8. QED
    BY <1>1, <1>2, <1>3, <1>4, <1>5, <1>6, <1>7

(* The stage of an install, once reached, is all there is to show. *)
LEMMA InstallCarries ==
    ASSUME QuietInv, UNCHANGED <<before, job>>, job.kind = "install", pc # "idle", pc' # "idle",
           IWant => InstallAt'
    PROVE  QuietInv'
<1>1. IWant
    BY DEF QuietInv, InstallAt
<1>2. AtRest(before.rows, before.server, before.park)'
    BY BeforeRests DEF QuietInv
<1>3. QED
    BY <1>1, <1>2 DEF QuietInv

(* What an install is about, while its job row stands. *)
LEMMA ScopeStands ==
    ASSUME UNCHANGED <<job, before>>
    PROVE  Scope' = Scope /\ Placed' = Placed /\ (IWant => IWant')
<1>1. Scope' = Scope /\ Placed' = Placed
    BY DEF Scope, Placed
<1>2. QED
    BY <1>1 DEF IWant

(* A job that ends having touched nothing. *)
LEMMA InstallEnds ==
    ASSUME QuietInv, job.kind = "install", pc # "idle", Same, outcome \in {"running", "failed", "interrupted"},
           Returns("failed"), UNCHANGED <<rows, server, park, before, job>>
    PROVE  QuietInv'
<1>1. Same'
    BY DEF Same
<1>2. pc' = "cleanup" /\ outcome' \in {"failed", "interrupted"}
    BY DEF Returns
<1>3. IDone'
    BY <1>1, <1>2 DEF IDone
<1>4. IWant => InstallAt'
    BY <1>2, <1>3, ScopeStands DEF InstallAt
<1>5. QED
    BY <1>2, <1>4, InstallCarries

(* Prepare: the plan over the tables the job found. *)
LEMMA PrepareStands ==
    ASSUME TypeInv, ModInv, QuietInv, Prepare
    PROVE  QuietInv'
<1> USE DEF Prepare
<1>1. job.kind = "install" /\ pc = "prepare" /\ pc # "idle"
    BY DEF ModInv, Spent
<1>2. IPrepare /\ IWant
    BY <1>1 DEF QuietInv, InstallAt
<1>3. CASE Returns("failed") /\ UNCHANGED plan
    BY <1>1, <1>2, <1>3, InstallEnds DEF IPrepare
<1>4. CASE /\ ~Refused
           /\ plan' = [p \in Packages |->
                        IF p \in Scope THEN [man |-> NewManifest(p), stale |-> Stale(p)]
                        ELSE NoPlan]
           /\ todo' = UNION {NewManifest(p) \cup Stale(p) : p \in Scope}
           /\ pc' = "save" /\ UNCHANGED outcome
    <2> USE <1>4
    <2>1. Scope' = Scope /\ Placed' = Placed /\ IWant' /\ Scope \subseteq Packages
        BY <1>2, ScopeStands DEF Scope
    <2>2. \A p \in Scope : plan'[p].man = NewManifest(p) /\ plan'[p].stale = Stale(p)
        BY <2>1
    <2>3. rows = before.rows /\ server = before.server /\ park = before.park
        BY <1>2 DEF IPrepare, Same
    <2>4. AtRest(rows, server, park)
        BY <2>3 DEF QuietInv
    <2>5. PlanOk'
        <3>1. before'.rows = rows /\ before'.server = server /\ job' = job
            BY <2>3
        <3>2. /\ \A p \in Scope :
                  /\ p \notin Placed => NewManifest(p) = {}
                  /\ Stale(p) \subseteq rows[p].man \ ConfigPaths
                  /\ rows[p].parked = {}
                  /\ rows[p].ver # "-" => rows[p].enabled = "yes"
                  /\ \A f \in rows[p].man \ ConfigPaths :
                       f \in Stale(p) \/ \E q \in Scope : f \in NewManifest(q)
                  /\ \A f \in NewManifest(p) : server[f] = User =>
                       job.answer = "replace" /\ f \notin ConfigPaths
              /\ \A p, q \in Scope :
                  /\ Stale(p) \cap NewManifest(q) = {}
                  /\ p # q => NewManifest(p) \cap NewManifest(q) = {}
              /\ \A p \in Scope, q \in Packages \ Scope : NewManifest(p) \cap rows[q].man = {}
            BY <2>4, PlanSound DEF TypeInv
        <3>3. QED
            BY <3>1, <3>2, <2>1, <2>2 DEF PlanOk
    <2>6. InstallEntries' = todo'
        BY <2>1, <2>2 DEF InstallEntries
    <2>7. Same' /\ outcome' = "running" /\ mark' = "none" /\ (\A p \in Packages : prev'[p] = NoPrev)
        BY <1>2 DEF IPrepare, Same
    <2>8. ISave'
        BY <2>1, <2>5, <2>6, <2>7 DEF ISave
    <2>9. InstallAt'
        BY <2>1, <2>8 DEF InstallAt
    <2>10. QED
        BY <2>9, <1>1, InstallCarries
<1>5. QED
    BY <1>3, <1>4

(* A plan stands as long as the job, what it found and the plan do. *)
LEMMA PlanStands ==
    ASSUME UNCHANGED <<job, before, plan>>, PlanOk
    PROVE  PlanOk' /\ InstallEntries' = InstallEntries
<1>1. Scope' = Scope /\ Placed' = Placed
    BY ScopeStands
<1>2. InstallEntries' = InstallEntries
    BY <1>1 DEF InstallEntries
<1>3. QED
    BY <1>1, <1>2 DEF PlanOk

(* BackupPaths of an install, and what a failed copy leaves. *)
LEMMA InstallSaves ==
    ASSUME TypeInv, ModInv, QuietInv, SaveOne, job.kind = "install"
    PROVE  QuietInv'
<1> USE DEF SaveOne
<1>1. pc = "save" /\ pc # "idle" /\ ISave /\ IWant
    BY DEF QuietInv, InstallAt
<1>2. CASE Returns("failed") /\ UNCHANGED save
    BY <1>1, <1>2, InstallEnds DEF ISave
<1>3. CASE \E f \in todo : /\ save' = [save EXCEPT ![f] = Source(f)]
                           /\ todo' = todo \ {f} /\ UNCHANGED <<pc, outcome>>
    <2>1. PICK f \in todo : /\ save' = [save EXCEPT ![f] = Source(f)]
                            /\ todo' = todo \ {f} /\ UNCHANGED <<pc, outcome>>
        BY <1>3
    <2>2. Source(f) = before.server[f]
        BY <1>1 DEF Source, ISave, Same
    <2>3. PlanOk' /\ InstallEntries' = InstallEntries /\ Scope' = Scope /\ IWant'
        BY <1>1, PlanStands, ScopeStands DEF ISave
    <2>4. \A g \in InstallEntries \ (todo \ {f}) : save'[g] = before.server[g]
        BY <2>1, <2>2, <1>1 DEF ISave, TypeInv, TypeOK
    <2>5. ISave'
        BY <2>1, <2>3, <2>4, <1>1 DEF ISave, Same
    <2>6. InstallAt'
        BY <2>1, <2>3, <2>5, <1>1 DEF InstallAt
    <2>7. QED
        BY <2>1, <2>6, <1>1, InstallCarries
<1>4. QED
    BY <1>2, <1>3

(* writePrevRows: the staging directory holds every row it will replace. *)
LEMMA InstallBacksUp ==
    ASSUME TypeInv, ModInv, QuietInv, MarkSaved, job.kind = "install"
    PROVE  QuietInv'
<1> USE DEF MarkSaved
<1>1. pc = "save" /\ pc # "idle" /\ ISave /\ IWant
    BY DEF QuietInv, InstallAt
<1>2. PlanOk' /\ InstallEntries' = InstallEntries /\ Scope' = Scope /\ IWant' /\ Scope \subseteq Packages
    BY <1>1, PlanStands, ScopeStands DEF ISave, Scope
<1>3. rows = before.rows /\ PlanOk
    BY <1>1 DEF ISave, Same
<1>4. ASSUME NEW p \in Scope
      PROVE  /\ prev'[p].row = before.rows[p] /\ prev'[p].stale = plan[p].stale
             /\ before.rows[p].ver = "-" => prev'[p] = NoPrev
    <2>1. prev[p] = NoPrev
        BY <1>1, <1>2 DEF ISave
    <2>2. CASE rows[p].ver # "-"
        BY <2>2, <1>2, <1>3 DEF Replaces, Installed
    <2>3. CASE rows[p].ver = "-"
        <3>1. before.rows[p] = NoRow
            BY <2>3, <1>2, <1>3 DEF QuietInv, AtRest
        <3>2. plan[p].stale = {}
            BY <3>1, <1>3 DEF PlanOk, NoRow
        <3>3. prev'[p] = NoPrev
            BY <2>1, <2>3, <1>2 DEF Replaces, Installed
        <3>4. QED
            BY <3>1, <3>2, <3>3 DEF NoPrev
    <2>4. QED
        BY <2>2, <2>3
<1>5. Backed'
    BY <1>1, <1>2, <1>4 DEF Backed, ISave
<1>6. WithPlan'
    BY <1>1, <1>2, <1>4 DEF WithPlan, ISave
<1>7. IWrite'
    BY <1>1, <1>5, <1>6 DEF IWrite, ISave, Same
<1>8. InstallAt'
    BY <1>2, <1>7 DEF InstallAt
<1>9. QED
    BY <1>8, <1>1, InstallCarries

(* The staging directory stands as long as nothing of it is touched. *)
LEMMA BackedStands ==
    ASSUME UNCHANGED <<job, before, plan, save, staged, prev, mark>>, Backed, WithPlan
    PROVE  Backed' /\ WithPlan' /\ InstallEntries' = InstallEntries /\ Scope' = Scope /\ Placed' = Placed
<1>1. PlanOk' /\ InstallEntries' = InstallEntries /\ Scope' = Scope /\ Placed' = Placed
    BY PlanStands, ScopeStands DEF WithPlan
<1>2. QED
    BY <1>1 DEF Backed, WithPlan

(* WriteInstanceMods, and the transaction that fails. *)
LEMMA InstallWrites ==
    ASSUME TypeInv, ModInv, QuietInv, WriteManifests
    PROVE  QuietInv'
<1> USE DEF WriteManifests
<1>1. job.kind = "install" /\ pc = "write" /\ pc # "idle"
    BY DEF ModInv, Spent
<1>2. IWrite /\ IWant
    BY <1>1 DEF QuietInv, InstallAt
<1>3. CASE Returns("failed") /\ UNCHANGED rows
    BY <1>1, <1>2, <1>3, InstallEnds DEF IWrite
<1>4. CASE /\ rows' = [p \in Packages |-> IF p \in Scope THEN NewRow(p) ELSE rows[p]]
           /\ pc' = "written" /\ UNCHANGED <<outcome, todo>>
    <2>1. Backed' /\ WithPlan' /\ Scope' = Scope /\ Placed' = Placed /\ IWant'
        BY <1>2, BackedStands, ScopeStands DEF IWrite
    <2>2. rows = before.rows /\ PlanOk /\ Scope \subseteq Packages
        BY <1>2 DEF IWrite, Same, WithPlan, Scope
    <2>3. \A p \in Scope : (IF Installed(p) THEN rows[p].enabled ELSE "yes") = "yes"
        BY <2>2 DEF Installed, PlanOk
    <2>4. NewRows'
        BY <1>4, <2>1, <2>2, <2>3 DEF NewRows, NewRow
    <2>5. IWritten'
        BY <1>2, <1>4, <2>1, <2>4 DEF IWritten, IWrite, Same
    <2>6. InstallAt'
        BY <1>4, <2>1, <2>5 DEF InstallAt
    <2>7. QED
        BY <1>1, <1>4, <2>6, InstallCarries
<1>5. QED
    BY <1>3, <1>4

(* The new rows stand as long as the job, the plan and the table do. *)
LEMMA NewRowsStand ==
    ASSUME UNCHANGED <<job, before, plan, rows>>, NewRows
    PROVE  NewRows'
<1>1. Scope' = Scope /\ Placed' = Placed
    BY ScopeStands
<1>2. QED
    BY <1>1 DEF NewRows

(* The last checkpoint before the files; a failed one rolls back. *)
LEMMA InstallWritten ==
    ASSUME TypeInv, ModInv, QuietInv, MarkWritten
    PROVE  QuietInv'
<1> USE DEF MarkWritten
<1>1. job.kind = "install" /\ pc = "written" /\ pc # "idle"
    BY DEF ModInv, Spent
<1>2. IWritten /\ IWant
    BY <1>1 DEF QuietInv, InstallAt
<1>3. /\ Backed' /\ WithPlan' /\ Scope' = Scope /\ IWant' /\ NewRows' /\ park' = before'.park
      /\ InstallEntries' = InstallEntries /\ server' = before'.server
    BY <1>2, BackedStands, ScopeStands, NewRowsStand DEF IWritten
<1>4. CASE pc' = "place" /\ todo' = InstallEntries /\ UNCHANGED outcome
    <2>1. IPlace'
        BY <1>2, <1>3, <1>4 DEF IPlace, IWritten
    <2>2. InstallAt'
        BY <1>3, <1>4, <2>1 DEF InstallAt
    <2>3. QED
        BY <1>1, <1>4, <2>2, InstallCarries
<1>5. CASE EntersRollback
    <2>1. pc' = "rollback" /\ outcome' = "failed" /\ todo' = InstallEntries
        BY <1>1, <1>5 DEF EntersRollback
    <2>2. IRollback'
        BY <1>3, <2>1 DEF IRollback
    <2>3. InstallAt'
        BY <1>3, <2>1, <2>2 DEF InstallAt
    <2>4. QED
        BY <1>1, <2>1, <2>3, InstallCarries
<1>6. QED
    BY <1>4, <1>5

(* Apply and Remove on one path, and the failed write that rolls back. *)
LEMMA InstallPlaces ==
    ASSUME TypeInv, ModInv, QuietInv, Place, job.kind = "install"
    PROVE  QuietInv'
<1> USE DEF Place
<1>1. pc = "place" /\ pc # "idle" /\ IPlace /\ IWant
    BY DEF QuietInv, InstallAt
<1>2. /\ Backed' /\ WithPlan' /\ Scope' = Scope /\ IWant' /\ NewRows'
      /\ InstallEntries' = InstallEntries
    BY <1>1, BackedStands, ScopeStands, NewRowsStand DEF IPlace
<1>3. CASE EntersRollback /\ UNCHANGED <<server, park>>
    <2>1. pc' = "rollback" /\ outcome' = "failed" /\ todo' = InstallEntries
        BY <1>3 DEF EntersRollback
    <2>2. IRollback'
        BY <1>1, <1>2, <1>3, <2>1 DEF IRollback, IPlace
    <2>3. InstallAt'
        BY <1>2, <2>1, <2>2 DEF InstallAt
    <2>4. QED
        BY <1>1, <2>1, <2>3, InstallCarries
<1>4. CASE \E f \in todo : PlaceOne(f) /\ todo' = todo \ {f} /\ UNCHANGED <<pc, outcome>>
    <2>1. PICK f \in todo : PlaceOne(f) /\ todo' = todo \ {f} /\ UNCHANGED <<pc, outcome>>
        BY <1>4
    <2>2. f \in Paths /\ f \in InstallEntries /\ server \in [Paths -> Content]
        BY <1>1 DEF TypeInv, TypeOK, IPlace
    <2>3. PlanOk
        BY <1>1 DEF IPlace, WithPlan
    <2>4. /\ UNCHANGED park /\ \A g \in Paths \ {f} : server'[g] = server[g]
          /\ PlacedAt(f)'
        <3>1. UNCHANGED park
            BY <2>1 DEF PlaceOne
        <3>2. CASE \E p \in Scope : /\ f \in plan[p].man
                                    /\ server' = [server EXCEPT ![f] = <<p, job.want[p]>>]
            <4>1. PICK p \in Scope : /\ f \in plan[p].man
                                     /\ server' = [server EXCEPT ![f] = <<p, job.want[p]>>]
                BY <3>2
            <4>2. server'[f] = <<p, job.want[p]>>
                BY <4>1, <2>2
            <4>3. PlacedAt(f)'
                BY <4>1, <4>2, <1>2 DEF PlacedAt
            <4>4. QED
                BY <3>1, <4>1, <4>3, <2>2
        <3>3. CASE /\ \E p \in Scope : f \in plan[p].stale
                   /\ server' = [server EXCEPT ![f] = Absent]
            <4>1. \A q \in Scope : f \notin plan[q].man
                BY <3>3, <2>3 DEF PlanOk
            <4>2. server'[f] = Absent
                BY <3>3, <2>2
            <4>3. PlacedAt(f)'
                BY <4>1, <4>2, <1>2 DEF PlacedAt
            <4>4. QED
                BY <3>1, <3>3, <4>3, <2>2
        <3>4. QED
            BY <2>1, <3>2, <3>3 DEF PlaceOne
    <2>5. \A g \in InstallEntries \ (todo \ {f}) : PlacedAt(g)'
        <3> TAKE g \in InstallEntries \ (todo \ {f})
        <3>1. CASE g = f
            BY <3>1, <2>4
        <3>2. CASE g # f
            <4>1. g \in Paths
                <5>1. \A p \in Scope : plan[p].man \subseteq Paths /\ plan[p].stale \subseteq Paths
                    BY DEF TypeInv, TypeOK, Scope
                <5>2. QED
                    BY <5>1 DEF InstallEntries
            <4>2. PlacedAt(g) /\ server'[g] = server[g]
                BY <3>2, <4>1, <2>4, <1>1 DEF IPlace
            <4>3. QED
                BY <4>2, <1>2 DEF PlacedAt
        <3>3. QED
            BY <3>1, <3>2
    <2>6. IPlace'
        <3>1. \A g \in Paths \ InstallEntries' : server'[g] = before'.server[g]
            BY <1>1, <1>2, <2>2, <2>4 DEF IPlace
        <3>2. \A g \in InstallEntries' \ todo' : PlacedAt(g)'
            BY <1>2, <2>1, <2>5
        <3>3. outcome' = "running" /\ park' = before'.park /\ todo' \subseteq InstallEntries'
            BY <1>1, <1>2, <2>1, <2>4 DEF IPlace
        <3>4. QED
            BY <1>2, <3>1, <3>2, <3>3 DEF IPlace
    <2>7. InstallAt'
        BY <1>1, <1>2, <2>1, <2>6 DEF InstallAt
    <2>8. QED
        BY <1>1, <2>1, <2>7, InstallCarries
<1>5. QED
    BY <1>3, <1>4

(* Every path of the plan settled: rows and trees agree again, the         *)
(* operator's files are where they were, and a removed package has no      *)
(* file left for the Finish to forget.                                     *)
LEMMA AppliedRests ==
    ASSUME TypeInv, QuietInv, IPlace, IWant, todo = {}
    PROVE  /\ AtRest(rows, server, park) /\ UserKept
           /\ \A p \in Packages : job.want[p] = "remove" => rows[p].man = {} /\ rows[p].parked = {}
<1>r. AtRest(before.rows, before.server, before.park)
    BY DEF QuietInv
<1>p. PlanOk /\ NewRows /\ park = before.park
    BY DEF IPlace, WithPlan
<1>s. Scope \subseteq Packages /\ Placed \subseteq Scope /\ (\A p \in Placed : job.want[p] \in Versions)
      /\ (\A p \in Packages : job.want[p] = "remove" => p \in Scope \ Placed)
      /\ (\A p \in Scope \ Placed : job.want[p] = "remove")
    <2>1. "-" \notin Versions /\ "remove" \notin Versions /\ "remove" # "-"
        BY ModAssumption
    <2>2. \A p \in Packages : job.want[p] \in Versions \cup {"-", "remove"}
        BY DEF IWant
    <2>3. QED
        BY <2>1, <2>2 DEF Scope, Placed
<1>n. \A p \in Scope : /\ rows[p].ver = IF p \in Placed THEN job.want[p] ELSE before.rows[p].ver
                       /\ rows[p].man = plan[p].man /\ rows[p].parked = {} /\ rows[p].enabled = "yes"
    <2> TAKE p \in Scope
    <2>1. rows[p] = [ver |-> IF p \in Placed THEN job.want[p] ELSE before.rows[p].ver,
                     man |-> plan[p].man, parked |-> {}, enabled |-> "yes"]
        BY <1>p, <1>s DEF NewRows
    <2>2. QED
        BY <2>1
<1>o. \A p \in Packages \ Scope : rows[p] = before.rows[p]
    BY <1>p DEF NewRows
<1>v. \A p \in Scope : rows[p].ver # "-"
    BY <1>n, <1>s, ModAssumption DEF IWant
<1>e. \A p \in Scope : plan[p].man \subseteq InstallEntries /\ plan[p].stale \subseteq InstallEntries
    BY DEF InstallEntries
<1>x. \A f \in InstallEntries : f \in Paths /\ PlacedAt(f)
    <2>1. \A p \in Scope : plan[p].man \subseteq Paths /\ plan[p].stale \subseteq Paths
        BY DEF TypeInv, TypeOK, Scope
    <2>2. QED
        BY <2>1 DEF InstallEntries, IPlace
<1>y. \A f \in Paths \ InstallEntries : server[f] = before.server[f]
    BY DEF IPlace
<1>m. \A p \in Packages : before.rows[p].man \subseteq Paths /\ rows[p].man \subseteq Paths
    BY DEF TypeInv, TypeOK, Rows
<1>out. ASSUME NEW p \in Packages \ Scope, NEW f \in before.rows[p].man PROVE f \notin InstallEntries
    <2>1. \A q \in Scope : f \notin plan[q].man
        BY <1>out, <1>p DEF PlanOk
    <2>2. \A q \in Scope : f \notin plan[q].stale
        <3>1. \A q \in Scope : f \notin before.rows[q].man
            BY <1>out, <1>s, <1>r DEF AtRest, Disjoint
        <3>2. QED
            BY <3>1, <1>p DEF PlanOk
    <2>3. QED
        BY <2>1, <2>2 DEF InstallEntries
<1>1. \A p \in Packages :
        /\ rows[p].ver = "-" => rows[p] = NoRow
        /\ rows[p].parked \subseteq rows[p].man \ ConfigPaths
        /\ rows[p].enabled = "yes" => rows[p].parked = {}
    BY <1>v, <1>n, <1>o, <1>r DEF AtRest
<1>2. Disjoint(rows)
    <2> SUFFICES ASSUME NEW p \in Packages, NEW q \in Packages, p # q
                 PROVE  rows[p].man \cap rows[q].man = {}
        BY DEF Disjoint
    <2>1. CASE p \in Scope /\ q \in Scope
        BY <2>1, <1>n, <1>p DEF PlanOk
    <2>2. CASE p \in Scope /\ q \notin Scope
        BY <2>2, <1>n, <1>o, <1>p DEF PlanOk
    <2>3. CASE p \notin Scope /\ q \in Scope
        BY <2>3, <1>n, <1>o, <1>p DEF PlanOk
    <2>4. CASE p \notin Scope /\ q \notin Scope
        BY <2>4, <1>o, <1>r DEF AtRest, Disjoint
    <2>5. QED
        BY <2>1, <2>2, <2>3, <2>4
<1>3. ASSUME NEW p \in Packages, NEW f \in Paths
      PROVE  park[p][f] = IF f \in rows[p].parked THEN <<p, rows[p].ver>> ELSE Absent
    <2>1. park[p][f] = IF f \in before.rows[p].parked THEN <<p, before.rows[p].ver>> ELSE Absent
        BY <1>p, <1>r DEF AtRest
    <2>2. CASE p \in Scope
        BY <2>1, <2>2, <1>n, <1>p DEF PlanOk
    <2>3. CASE p \notin Scope
        BY <2>1, <2>3, <1>o
    <2>4. QED
        BY <2>2, <2>3
<1>4. ASSUME NEW p \in Packages, NEW f \in (rows[p].man \ rows[p].parked) \ ConfigPaths
      PROVE  server[f] = <<p, rows[p].ver>>
    <2>1. CASE p \in Scope
        <3>1. f \in plan[p].man /\ PlacedAt(f)
            BY <2>1, <1>4, <1>n, <1>e, <1>x
        <3>2. p \in Placed
            BY <2>1, <3>1, <1>p DEF PlanOk
        <3>3. PICK q \in Scope : f \in plan[q].man /\ server[f] = <<q, job.want[q]>>
            BY <2>1, <3>1 DEF PlacedAt
        <3>4. q = p
            BY <2>1, <3>1, <3>3, <1>p DEF PlanOk
        <3>5. QED
            BY <3>2, <3>3, <3>4, <2>1, <1>n
    <2>2. CASE p \notin Scope
        <3>1. f \in Paths \ InstallEntries
            BY <2>2, <1>4, <1>o, <1>out, <1>m
        <3>2. QED
            BY <2>2, <3>1, <1>4, <1>o, <1>y, <1>r DEF AtRest
    <2>3. QED
        BY <2>1, <2>2
<1>5. ASSUME NEW p \in Packages, NEW f \in Paths \ ConfigPaths, NEW v \in Versions \cup {"-"},
             server[f] = <<p, v>>
      PROVE  f \in rows[p].man \ rows[p].parked /\ v = rows[p].ver
    <2>1. CASE f \in InstallEntries
        <3>1. server[f] # Absent
            BY <1>5, ModAssumption DEF Absent
        <3>2. PICK q \in Scope : f \in plan[q].man /\ server[f] = <<q, job.want[q]>>
            BY <2>1, <3>1, <1>x DEF PlacedAt
        <3>3. q = p /\ v = job.want[q]
            BY <3>2, <1>5
        <3>4. q \in Placed
            BY <3>2, <1>p DEF PlanOk
        <3>5. QED
            BY <3>2, <3>3, <3>4, <1>n
    <2>2. CASE f \notin InstallEntries
        <3>1. f \in before.rows[p].man \ before.rows[p].parked /\ v = before.rows[p].ver
            BY <2>2, <1>5, <1>y, <1>r DEF AtRest
        <3>2. p \notin Scope
            BY <3>1, <2>2, <1>5, <1>e, <1>p DEF PlanOk
        <3>3. QED
            BY <3>1, <3>2, <1>o
    <2>3. QED
        BY <2>1, <2>2
<1>6. AtRest(rows, server, park)
    BY <1>1, <1>2, <1>3, <1>4, <1>5 DEF AtRest
<1>7. UserKept
    <2> SUFFICES ASSUME NEW f \in Paths, before.server[f] = User
                 PROVE  server[f] = User \/ (job.answer = "replace" /\ f \notin ConfigPaths)
        BY DEF UserKept
    <2>1. CASE f \notin InstallEntries
        BY <2>1, <1>y
    <2>2. CASE \E p \in Scope : f \in plan[p].man
        BY <2>2, <1>p DEF PlanOk
    <2>3. CASE \E p \in Scope : f \in plan[p].stale
        <3>1. PICK p \in Scope : f \in plan[p].stale
            BY <2>3
        <3>2. f \in (before.rows[p].man \ before.rows[p].parked) \ ConfigPaths
            BY <3>1, <1>p DEF PlanOk
        <3>3. before.server[f] = <<p, before.rows[p].ver>> /\ p \in Packages
            BY <3>2, <1>r, <1>s DEF AtRest
        <3>4. QED
            BY <3>3, ModAssumption DEF User
    <2>4. QED
        BY <2>1, <2>2, <2>3 DEF InstallEntries
<1>8. \A p \in Packages : job.want[p] = "remove" => rows[p].man = {} /\ rows[p].parked = {}
    BY <1>s, <1>n, <1>p DEF PlanOk
<1>9. QED
    BY <1>6, <1>7, <1>8

(* UserKept stands while the server tree and the job row do. *)
LEMMA UserKeptStands ==
    ASSUME UNCHANGED <<before, server, job>>, UserKept
    PROVE  UserKept'
BY DEF UserKept

(* Rest stands while the three stores do. *)
LEMMA RestStands ==
    ASSUME UNCHANGED <<rows, server, park>>, AtRest(rows, server, park)
    PROVE  AtRest(rows, server, park)'
BY DEF AtRest, Disjoint

(* The last checkpoint of an install: the job has done what it was asked. *)
LEMMA InstallApplied ==
    ASSUME TypeInv, ModInv, QuietInv, MarkApplied, job.kind = "install"
    PROVE  QuietInv'
<1> USE DEF MarkApplied
<1>1. pc = "place" /\ pc # "idle" /\ IPlace /\ IWant /\ todo = {}
    BY DEF QuietInv, InstallAt
<1>2. /\ AtRest(rows, server, park) /\ UserKept
      /\ \A p \in Packages : job.want[p] = "remove" => rows[p].man = {} /\ rows[p].parked = {}
    BY <1>1, AppliedRests
<1>3. pc' = "cleanup" /\ outcome' = "ok"
    BY <1>1 DEF Returns, IPlace
<1>4. AtRest(rows, server, park)' /\ UserKept' /\ IWant'
    BY <1>1, <1>2, UserKeptStands, RestStands, ScopeStands
<1>5. IDone'
    BY <1>2, <1>3, <1>4 DEF IDone
<1>6. InstallAt'
    BY <1>3, <1>4, <1>5 DEF InstallAt
<1>7. QED
    BY <1>1, <1>3, <1>6, InstallCarries

(* What the sweep would undo stands while rows and staging directory do. *)
LEMMA SweepStands ==
    ASSUME UNCHANGED <<job, before, rows, park, save, staged, prev, mark>>
    PROVE  SweepEntries' = SweepEntries /\ (Revertible => Revertible')
<1>1. Rewritten' = Rewritten
    BY DEF Rewritten, Installed
<1>2. SweepEntries' = SweepEntries
    BY <1>1 DEF SweepEntries
<1>3. Scope' = Scope
    BY ScopeStands
<1>4. QED
    BY <1>1, <1>2, <1>3 DEF Revertible, Backed

(* installer.Rollback on one path, by the job or by the sweep. *)
LEMMA InstallRollsBack ==
    ASSUME TypeInv, ModInv, QuietInv, Rollback, job.kind = "install", hit = {}, hit' = {}
    PROVE  QuietInv'
<1> USE DEF Rollback
<1>1. pc = "rollback" /\ pc # "idle" /\ IRollback /\ IWant
    BY DEF QuietInv, InstallAt
<1>2. PICK f \in todo : RollbackOne(f) /\ todo' = todo \ {f}
    BY DEF Stick
<1>3. server' = [server EXCEPT ![f] = save[f]] /\ UNCHANGED park /\ f \in Paths
      /\ server \in [Paths -> Content]
    BY <1>2 DEF RollbackOne, TypeInv, TypeOK
<1>4. save[f] = before.server[f]
    BY <1>1 DEF IRollback, WithPlan, Revertible
<1>5. \A g \in Paths \ todo' : server'[g] = before'.server[g]
    BY <1>1, <1>2, <1>3, <1>4 DEF IRollback
<1>6. IWant' /\ IRollback'
    <2>1. IWant'
        BY <1>1, ScopeStands
    <2>2. CASE outcome = "failed"
        <3>1. Backed' /\ WithPlan' /\ NewRows' /\ park' = before'.park /\ InstallEntries' = InstallEntries
            BY <2>2, <1>1, <1>3, BackedStands, NewRowsStand DEF IRollback
        <3>2. QED
            BY <2>1, <2>2, <3>1, <1>1, <1>2, <1>5 DEF IRollback
    <2>3. CASE outcome # "failed"
        <3>1. Revertible' /\ SweepEntries' = SweepEntries
            BY <2>3, <1>1, <1>3, SweepStands DEF IRollback
        <3>2. QED
            BY <2>1, <2>3, <3>1, <1>1, <1>2, <1>5 DEF IRollback
    <2>4. QED
        BY <2>2, <2>3
<1>7. InstallAt'
    BY <1>1, <1>6 DEF InstallAt
<1>8. QED
    BY <1>1, <1>7, InstallCarries

(* The server tree as the job found it, once nothing is left to restore. *)
LEMMA SameTree ==
    ASSUME TypeInv, \A f \in Paths : server[f] = before.server[f]
    PROVE  server = before.server
BY DEF TypeInv, TypeOK

(* RollbackInstanceMods: the rows are those the job found. *)
LEMMA InstallRowsReturn ==
    ASSUME TypeInv, ModInv, QuietInv, RollbackRows, job.kind = "install", hit = {}, hit' = {}
    PROVE  QuietInv'
<1> USE DEF RollbackRows
<1>1. pc = "rollback" /\ pc # "idle" /\ IRollback /\ IWant /\ todo = {}
    BY DEF QuietInv, InstallAt
<1>2. server = before.server
    BY <1>1, SameTree DEF IRollback
<1>3. rows' = [p \in Packages |-> IF p \in RolledBack THEN prev[p].row ELSE rows[p]]
    OBVIOUS
<1>4. stuck = {} /\ Scope \subseteq Packages
    BY DEF ModInv, ModShape, Scope
<1>5. \A p \in Packages : rows'[p] = before.rows[p]
    <2> TAKE p \in Packages
    <2>1. CASE outcome = "failed"
        <3>1. Backed /\ NewRows /\ RolledBack = Scope
            BY <2>1, <1>1, <1>4 DEF IRollback, RolledBack
        <3>2. CASE p \in Scope
            BY <3>1, <3>2, <1>3 DEF Backed
        <3>3. CASE p \notin Scope
            BY <3>1, <3>3, <1>3 DEF NewRows
        <3>4. QED
            BY <3>2, <3>3
    <2>2. CASE outcome # "failed"
        <3>1. Revertible /\ RolledBack = Rewritten
            BY <2>2, <1>1, <1>4 DEF IRollback, RolledBack
        <3>2. CASE p \in Rewritten
            <4>1. p \in Scope
                BY <3>1, <3>2 DEF Rewritten, Revertible, Backed
            <4>2. QED
                BY <3>1, <3>2, <4>1, <1>3 DEF Revertible, Backed
        <3>3. CASE p \notin Rewritten
            BY <3>1, <3>3, <1>3 DEF Revertible
        <3>4. QED
            BY <3>2, <3>3
    <2>3. QED
        BY <2>1, <2>2
<1>6. rows' = before.rows
    BY <1>3, <1>5 DEF TypeInv, TypeOK
<1>7. park = before.park
    BY <1>1 DEF IRollback, Revertible
<1>8. Same'
    BY <1>2, <1>6, <1>7 DEF Same
<1>9. pc' = "cleanup" /\ outcome' \in {"failed", "interrupted"}
    BY DEF Returns
<1>10. IDone' /\ IWant'
    BY <1>1, <1>8, <1>9, ScopeStands DEF IDone
<1>11. InstallAt'
    BY <1>9, <1>10 DEF InstallAt
<1>12. QED
    BY <1>1, <1>9, <1>11, InstallCarries

(* From the checkpoint on, the sweep can undo whatever has been done: the  *)
(* rows that differ from those the job found are the ones it takes for     *)
(* rewritten, and their manifests name every file that may differ.         *)
LEMMA InstallReverts ==
    ASSUME TypeInv, QuietInv, IWant,
           \/ IWrite \/ IWritten \/ IPlace
           \/ IRollback /\ outcome = "failed"
    PROVE  /\ Revertible /\ mark = "saved"
           /\ \A f \in Paths \ SweepEntries : server[f] = before.server[f]
<1>b. Backed /\ WithPlan /\ PlanOk /\ park = before.park /\ mark = "saved" /\ staged = Scope
      /\ Scope \subseteq Packages
    BY DEF IWrite, IWritten, IPlace, IRollback, Same, WithPlan, Backed, Scope
<1>1. CASE IWrite
    <2>1. rows = before.rows /\ server = before.server
        BY <1>1 DEF IWrite, Same
    <2>2. Rewritten = {}
        <3> SUFFICES ASSUME NEW p \in staged, rows[p].ver # "-"
                     PROVE  prev[p] # NoPrev /\ rows[p] = prev[p].row
            BY DEF Rewritten, Installed
        <3>1. prev[p].row = rows[p]
            BY <1>b, <2>1 DEF Backed
        <3>2. NoPrev.row.ver = "-"
            BY DEF NoPrev, NoRow
        <3>3. QED
            BY <3>1, <3>2
    <2>3. SweepEntries = {}
        BY <2>2 DEF SweepEntries
    <2>4. QED
        BY <1>b, <2>1, <2>3 DEF Revertible
<1>2. CASE ~IWrite
    <2>1. NewRows /\ \A f \in Paths \ InstallEntries : server[f] = before.server[f]
        BY <1>2 DEF IWritten, IPlace, IRollback
    <2>2. ASSUME NEW p \in Scope
          PROVE  \/ p \in Rewritten
                 \/ rows[p] = before.rows[p] /\ plan[p].man = {} /\ plan[p].stale = {}
        <3>1. rows[p] = [ver |-> IF p \in Placed THEN job.want[p] ELSE before.rows[p].ver,
                         man |-> plan[p].man, parked |-> {}, enabled |-> "yes"]
            BY <2>1, <1>b DEF NewRows
        <3>2. prev[p].row = before.rows[p] /\ p \in staged
            BY <1>b DEF Backed
        <3>3. CASE p \in Placed
            <4>1. job.want[p] \in Versions /\ p \in Packages
                BY <3>3 DEF Placed
            <4>2. job.want[p] # "-" /\ job.want[p] # before.rows[p].ver
                BY <4>1, ModAssumption DEF IWant
            <4>3. rows[p].ver = job.want[p]
                BY <3>1, <3>3
            <4>4. QED
                BY <3>2, <4>2, <4>3 DEF Rewritten, Installed
        <3>4. CASE p \notin Placed
            <4>1. job.want[p] = "remove"
                <5>1. job.want[p] \in Versions \cup {"-", "remove"} /\ p \in Packages
                    BY <1>b DEF IWant
                <5>2. job.want[p] # "-"
                    BY DEF Scope
                <5>3. QED
                    BY <5>1, <5>2, <3>4 DEF Placed
            <4>2. before.rows[p].ver # "-" /\ rows[p].ver = before.rows[p].ver
                BY <4>1, <3>1, <3>4, <1>b DEF IWant
            <4>3. plan[p].man = {}
                BY <3>4, <1>b DEF PlanOk
            <4>4. CASE rows[p] = before.rows[p]
                <5>1. before.rows[p].man = {}
                    BY <4>3, <4>4, <3>1
                <5>2. plan[p].stale = {}
                    BY <5>1, <1>b DEF PlanOk
                <5>3. QED
                    BY <4>3, <4>4, <5>2
            <4>5. CASE rows[p] # before.rows[p]
                BY <4>2, <4>5, <3>2 DEF Rewritten, Installed
            <4>6. QED
                BY <4>4, <4>5
        <3>5. QED
            BY <3>3, <3>4
    <2>3. \A p \in Packages : rows[p] = before.rows[p] \/ p \in Rewritten
        BY <2>1, <2>2 DEF NewRows
    <2>4. \A p \in Scope : rows[p].man = plan[p].man /\ prev[p].stale = plan[p].stale
        <3> TAKE p \in Scope
        <3>1. rows[p] = [ver |-> IF p \in Placed THEN job.want[p] ELSE before.rows[p].ver,
                         man |-> plan[p].man, parked |-> {}, enabled |-> "yes"]
            BY <2>1, <1>b DEF NewRows
        <3>2. QED
            BY <3>1, <1>b DEF WithPlan
    <2>5. Rewritten \subseteq Scope
        BY <1>b DEF Rewritten
    <2>6. SweepEntries = InstallEntries
        BY <2>2, <2>4, <2>5 DEF SweepEntries, InstallEntries
    <2>7. QED
        BY <1>b, <2>1, <2>3, <2>6 DEF Revertible, WithPlan
<1>3. QED
    BY <1>1, <1>2

(* A kill in an install, wherever it is an ordinary one. *)
LEMMA InstallKilled ==
    ASSUME TypeInv, ModInv, QuietInv, Kill, job.kind = "install", hit = {}, hit' = {}
    PROVE  QuietInv'
<1> USE DEF Kill
<1>0. Moment = {}
    OBVIOUS
<1>1. outcome # "interrupted" /\ pc \notin {"cleanup", "finish", "idle", "down"}
    BY <1>0 DEF Moment
<1>2. pc' = "down" /\ UNCHANGED <<job, before, rows, server, park, save, staged, prev, mark>>
    BY <1>1
<1>3. InstallAt /\ IWant
    BY <1>1 DEF QuietInv, InstallAt
<1>4. CASE pc \in {"prepare", "save"}
    <2>1. Same /\ mark = "none"
        BY <1>3, <1>4 DEF InstallAt, IPrepare, ISave
    <2>2. IDown'
        BY <2>1, <1>2 DEF IDown, Same
    <2>3. InstallAt'
        BY <2>2, <1>2, <1>3, ScopeStands DEF InstallAt
    <2>4. QED
        BY <2>3, <1>1, <1>2, InstallCarries
<1>5. CASE pc \notin {"prepare", "save"}
    <2>1. \/ IWrite \/ IWritten \/ IPlace
          \/ IRollback /\ outcome = "failed"
        BY <1>1, <1>3, <1>5 DEF InstallAt, IRollback
    <2>2. Revertible /\ mark = "saved" /\ \A f \in Paths \ SweepEntries : server[f] = before.server[f]
        BY <2>1, <1>3, InstallReverts
    <2>3. Revertible' /\ SweepEntries' = SweepEntries
        BY <2>2, <1>2, SweepStands
    <2>4. IDown'
        BY <2>2, <2>3, <1>2 DEF IDown
    <2>5. InstallAt'
        BY <2>4, <1>2, <1>3, ScopeStands DEF InstallAt
    <2>6. QED
        BY <2>5, <1>1, <1>2, InstallCarries
<1>6. QED
    BY <1>4, <1>5

(* SweepModInstall. *)
LEMMA InstallSwept ==
    ASSUME TypeInv, ModInv, QuietInv, Boot, job.kind = "install"
    PROVE  QuietInv'
<1> USE DEF Boot
<1>1. pc = "down" /\ pc # "idle" /\ IDown /\ IWant /\ IWant'
    BY ScopeStands DEF QuietInv, InstallAt
<1>2. CASE mark # "none" /\ pc' = "rollback" /\ todo' = SweepEntries
    <2>1. Revertible' /\ SweepEntries' = SweepEntries
        BY <1>1, <1>2, SweepStands DEF IDown
    <2>2. IRollback'
        BY <1>1, <1>2, <2>1 DEF IRollback, IDown
    <2>3. InstallAt'
        BY <1>1, <1>2, <2>2 DEF InstallAt
    <2>4. QED
        BY <1>1, <1>2, <2>3, InstallCarries
<1>3. CASE mark = "none" /\ pc' = "cleanup"
    <2>1. IDone'
        BY <1>1, <1>3 DEF IDone, IDown, Same
    <2>2. InstallAt'
        BY <1>1, <1>3, <2>1 DEF InstallAt
    <2>3. QED
        BY <1>1, <1>3, <2>2, InstallCarries
<1>4. QED
    BY <1>2, <1>3 DEF SweepEntries

(* The staging directory goes; an interrupted job is over with it. *)
LEMMA InstallCleansUp ==
    ASSUME TypeInv, ModInv, QuietInv, Cleanup, job.kind = "install"
    PROVE  QuietInv'
<1> USE DEF Cleanup
<1>1. pc = "cleanup" /\ pc # "idle" /\ IDone /\ IWant
    BY DEF QuietInv, InstallAt
<1>2. UNCHANGED <<rows, server, park, outcome, before>>
    OBVIOUS
<1>3. CASE outcome = "interrupted"
    <2>1. pc' = "idle" /\ Same' /\ Same
        BY <1>1, <1>2, <1>3 DEF IDone, Same
    <2>2. AtRest(before.rows, before.server, before.park)'
        BY BeforeRests DEF QuietInv
    <2>3. AtRest(rows, server, park)
        BY <2>1 DEF QuietInv, Same
    <2>4. AtRest(rows, server, park)'
        BY <2>3, RestStands
    <2>5. QED
        BY <1>2, <1>3, <2>1, <2>2, <2>4 DEF QuietInv, IdleOk
<1>4. CASE outcome # "interrupted"
    <2>1. pc' = "finish" /\ UNCHANGED job
        BY <1>4
    <2>2. (Same => Same') /\ (UserKept => UserKept') /\ IWant'
        BY <2>1, <1>1, <1>2, UserKeptStands, ScopeStands DEF Same
    <2>3. AtRest(rows, server, park) => AtRest(rows, server, park)'
        BY <1>2, RestStands
    <2>4. IDone'
        BY <1>1, <1>2, <2>1, <2>2, <2>3 DEF IDone
    <2>5. InstallAt'
        BY <2>1, <2>2, <2>4 DEF InstallAt
    <2>6. QED
        BY <1>1, <2>1, <2>5, InstallCarries
<1>5. QED
    BY <1>3, <1>4

(* finishInstall: the rows of the removed packages, which own nothing any  *)
(* more, are deleted.                                                      *)
LEMMA InstallFinishes ==
    ASSUME TypeInv, ModInv, QuietInv, Finish, job.kind = "install"
    PROVE  QuietInv'
<1> USE DEF Finish
<1>1. pc = "finish" /\ pc # "idle" /\ IDone /\ IWant /\ pc' = "idle"
    BY DEF QuietInv, InstallAt
<1>b. AtRest(before.rows, before.server, before.park)'
    BY BeforeRests DEF QuietInv
<1>2. CASE outcome # "ok"
    <2>1. Same' /\ Same /\ UNCHANGED <<rows, server, park>>
        BY <1>1, <1>2 DEF IDone, Same
    <2>2. AtRest(rows, server, park)
        BY <2>1 DEF QuietInv, Same
    <2>3. AtRest(rows, server, park)'
        BY <2>1, <2>2, RestStands
    <2>4. QED
        BY <1>1, <1>2, <1>b, <2>1, <2>3 DEF QuietInv, IdleOk
<1>3. CASE outcome = "ok"
    <2>1. /\ AtRest(rows, server, park) /\ UserKept
          /\ \A p \in Packages : job.want[p] = "remove" => rows[p].man = {} /\ rows[p].parked = {}
        BY <1>1, <1>3 DEF IDone
    <2>2. \A p \in Packages :
            \/ rows'[p] = rows[p]
            \/ rows'[p] = NoRow /\ rows[p].man = {} /\ rows[p].parked = {}
        BY <1>3, <2>1 DEF FinishedRow
    <2>3. \A p \in Packages : park'[p] = park[p]
        BY <1>3 DEF EmptiesPark
    <2>4. UserKept'
        BY <2>1, UserKeptStands
    <2>n. NoRow.man = {} /\ NoRow.parked = {} /\ NoRow.ver = "-"
        BY DEF NoRow
    <2>5. AtRest(rows, server, park)'
        <3>1. \A p \in Packages : rows'[p].man = rows[p].man /\ rows'[p].parked = rows[p].parked
            BY <2>2, <2>n
        <3>2. \A p \in Packages : rows[p].man # {} => rows'[p].ver = rows[p].ver
            BY <2>2
        <3>3. \A p \in Packages :
                /\ rows'[p].ver = "-" => rows'[p] = NoRow
                /\ rows'[p].parked \subseteq rows'[p].man \ ConfigPaths
                /\ rows'[p].enabled = "yes" => rows'[p].parked = {}
            BY <2>1, <2>2, <2>n DEF AtRest
        <3>4. Disjoint(rows)'
            BY <2>1, <3>1 DEF AtRest, Disjoint
        <3>5. \A p \in Packages, f \in Paths :
                park'[p][f] = IF f \in rows'[p].parked THEN <<p, rows'[p].ver>> ELSE Absent
            <4> TAKE p \in Packages, f \in Paths
            <4>1. park[p][f] = IF f \in rows[p].parked THEN <<p, rows[p].ver>> ELSE Absent
                BY <2>1 DEF AtRest
            <4>2. f \in rows[p].parked => rows'[p].ver = rows[p].ver
                BY <2>2
            <4>3. QED
                BY <4>1, <4>2, <2>3, <3>1
        <3>6. \A p \in Packages : \A f \in (rows'[p].man \ rows'[p].parked) \ ConfigPaths :
                server'[f] = <<p, rows'[p].ver>>
            BY <2>1, <3>1, <3>2 DEF AtRest
        <3>7. \A p \in Packages, f \in Paths \ ConfigPaths, v \in Versions \cup {"-"} :
                server'[f] = <<p, v>> => f \in rows'[p].man \ rows'[p].parked /\ v = rows'[p].ver
            BY <2>1, <3>1, <3>2 DEF AtRest
        <3>8. QED
            BY <3>3, <3>4, <3>5, <3>6, <3>7 DEF AtRest
    <2>6. QED
        BY <1>1, <1>3, <1>b, <2>4, <2>5 DEF QuietInv, IdleOk
<1>4. QED
    BY <1>2, <1>3

(* The stage of an uninstall, once reached, is all there is to show. *)
LEMMA UninstallCarries ==
    ASSUME QuietInv, UNCHANGED <<before, job>>, job.kind = "uninstall", pc # "idle", pc' # "idle",
           UWant' => UninstallAt'
    PROVE  QuietInv'
<1>1. UWant
    BY DEF QuietInv, UninstallAt, UWant
<1>2. UWant'
    BY <1>1 DEF UWant
<1>3. AtRest(before.rows, before.server, before.park)'
    BY BeforeRests DEF QuietInv
<1>4. QED
    BY <1>2, <1>3 DEF QuietInv

(* What an uninstall removes and from which tree, while its row stands. *)
LEMMA RemovalStands ==
    ASSUME UNCHANGED <<job, before>>
    PROVE  Removal' = Removal /\ \A f : (ParkedIn(f)' = ParkedIn(f))
<1>1. Scope' = Scope
    BY ScopeStands
<1>2. QED
    BY <1>1 DEF Removal, ParkedIn

(* A parked path has one owner, and is no config file. *)
LEMMA ParkedOnce ==
    ASSUME AtRest(before.rows, before.server, before.park), NEW f
    PROVE  /\ \A p, q \in ParkedIn(f) : p = q
           /\ f \in ConfigPaths => ParkedIn(f) = {}
           /\ ParkedIn(f) \subseteq Scope /\ ParkedIn(f) \subseteq Packages
<1>1. ParkedIn(f) \subseteq Scope /\ ParkedIn(f) \subseteq Packages
    BY DEF ParkedIn, Scope
<1>2. \A p \in ParkedIn(f) : f \in before.rows[p].man \ ConfigPaths
    BY <1>1 DEF ParkedIn, AtRest
<1>3. QED
    BY <1>1, <1>2 DEF AtRest, Disjoint

(* The rows of an uninstall do not change until it finishes, and so the    *)
(* code's owners and paths are those of the tables it found.               *)
LEMMA RemovalIs ==
    ASSUME QuietInv, job.kind = "uninstall", pc # "idle", rows = before.rows
    PROVE  /\ \A f : ParkedOwner(f) = ParkedIn(f)
           /\ RemovalPaths(job.want, job.configs) = Removal
           /\ UninstallEntries = SavedConfigs \cup UNION {before.rows[p].man \ ConfigPaths : p \in Scope}
           /\ UninstallEntries \subseteq Removal
<1>1. UWant
    BY DEF QuietInv, UninstallAt, UWant
<1>2. {q \in Packages : job.want[q] = "remove"} = Scope
    BY <1>1 DEF UWant, Scope
<1>3. \A f : ParkedOwner(f) = ParkedIn(f)
    BY DEF ParkedOwner, ParkedIn
<1>4. RemovalPaths(job.want, job.configs) = Removal
    BY <1>2 DEF RemovalPaths, Removal
<1>5. QED
    BY <1>3, <1>4 DEF UninstallEntries, SavedConfigs, Removal

(* A job that ends having touched nothing. *)
LEMMA UninstallEnds ==
    ASSUME QuietInv, job.kind = "uninstall", pc # "idle", Same',
           outcome \in {"running", "failed", "interrupted"},
           Returns("failed"), UNCHANGED <<before, job>>
    PROVE  QuietInv'
<1>1. pc' = "cleanup" /\ outcome' \in {"failed", "interrupted"}
    BY DEF Returns
<1>2. UDone'
    BY <1>1 DEF UDone
<1>3. UWant' => UninstallAt'
    BY <1>1, <1>2 DEF UninstallAt, UWant
<1>4. QED
    BY <1>1, <1>3, UninstallCarries

(* BackupPaths of an uninstall, from the tree each path is in. *)
LEMMA UninstallSaves ==
    ASSUME TypeInv, ModInv, QuietInv, SaveOne, job.kind = "uninstall"
    PROVE  QuietInv'
<1> USE DEF SaveOne
<1>1. pc = "save" /\ pc # "idle" /\ USave
    BY DEF QuietInv, UninstallAt
<1>2. rows = before.rows /\ server = before.server /\ park = before.park
    BY <1>1 DEF USave, Same
<1>3. Same'
    BY <1>2 DEF Same
<1>4. CASE Returns("failed") /\ UNCHANGED save
    BY <1>1, <1>3, <1>4, UninstallEnds DEF USave
<1>5. CASE \E f \in todo : /\ save' = [save EXCEPT ![f] = Source(f)]
                           /\ todo' = todo \ {f} /\ UNCHANGED <<pc, outcome>>
    <2>1. PICK f \in todo : /\ save' = [save EXCEPT ![f] = Source(f)]
                            /\ todo' = todo \ {f} /\ UNCHANGED <<pc, outcome>>
        BY <1>5
    <2>2. ParkedOwner(f) = ParkedIn(f)
        BY <1>1, <1>2, RemovalIs
    <2>3. ParkedIn(f) = {} => Source(f) = before.server[f]
        BY <1>2, <2>2 DEF Source
    <2>4. \A p \in ParkedIn(f) : Source(f) = before.park[p][f]
        <3> TAKE p \in ParkedIn(f)
        <3>1. (CHOOSE q \in ParkedOwner(f) : TRUE) \in ParkedIn(f)
            BY <2>2
        <3>2. (CHOOSE q \in ParkedOwner(f) : TRUE) = p
            BY <3>1, ParkedOnce DEF QuietInv
        <3>3. Source(f) = park[CHOOSE q \in ParkedOwner(f) : TRUE][f]
            BY <2>2 DEF Source
        <3>4. QED
            BY <3>2, <3>3, <1>2
    <2>5. Removal' = Removal /\ \A g : ParkedIn(g)' = ParkedIn(g)
        BY RemovalStands
    <2>6. f \in Paths /\ save \in [Paths -> Content]
        BY DEF TypeInv, TypeOK
    <2>7. \A g \in Removal \ (todo \ {f}) :
            /\ ParkedIn(g) = {} => save'[g] = before.server[g]
            /\ \A p \in ParkedIn(g) : save'[g] = before.park[p][g]
        <3> TAKE g \in Removal \ (todo \ {f})
        <3>1. CASE g = f
            BY <3>1, <2>1, <2>3, <2>4, <2>6
        <3>2. CASE g # f
            <4>1. save'[g] = save[g]
                BY <3>2, <2>1, <2>6
            <4>2. QED
                BY <3>2, <4>1, <1>1 DEF USave
        <3>3. QED
            BY <3>1, <3>2
    <2>8. USave'
        BY <1>1, <1>3, <2>1, <2>5, <2>7 DEF USave
    <2>9. UWant' => UninstallAt'
        BY <1>1, <2>1, <2>8 DEF UninstallAt, UWant
    <2>10. QED
        BY <1>1, <2>1, <2>9, UninstallCarries
<1>6. QED
    BY <1>4, <1>5

(* The saved checkpoint: every file to be removed has its copy. *)
LEMMA UninstallSaved ==
    ASSUME TypeInv, ModInv, QuietInv, MarkSaved, job.kind = "uninstall"
    PROVE  QuietInv'
<1> USE DEF MarkSaved
<1>1. pc = "save" /\ pc # "idle" /\ USave
    BY DEF QuietInv, UninstallAt
<1>2. rows = before.rows /\ server = before.server /\ park = before.park
    BY <1>1 DEF USave, Same
<1>3. Removal' = Removal /\ \A g : ParkedIn(g)' = ParkedIn(g)
    BY RemovalStands
<1>4. RemovalPaths(job.want, job.configs) = Removal
    BY <1>1, <1>2, RemovalIs
<1>5. Apart'
    BY <1>2 DEF Apart
<1>6. Kept'
    BY <1>1, <1>2, <1>3, <1>5 DEF Kept, USave
<1>7. UPlace'
    BY <1>1, <1>3, <1>4, <1>6 DEF UPlace, USave, Gone
<1>8. UWant' => UninstallAt'
    BY <1>1, <1>7 DEF UninstallAt, UWant
<1>9. QED
    BY <1>1, <1>8, UninstallCarries

(* What a rollback may leave out: a ticked config file there was not. *)
LEMMA RollbackCovers ==
    ASSUME QuietInv, job.kind = "uninstall", pc # "idle", Kept
    PROVE  /\ UninstallEntries \subseteq Removal
           /\ \A f \in Paths \ UninstallEntries :
                server[f] = before.server[f] /\ \A p \in Packages : park[p][f] = before.park[p][f]
<1>1. UninstallEntries \subseteq Removal
      /\ UninstallEntries = SavedConfigs \cup UNION {before.rows[p].man \ ConfigPaths : p \in Scope}
    BY RemovalIs DEF Kept, Apart
<1>2. ASSUME NEW f \in Paths \ UninstallEntries
      PROVE  server[f] = before.server[f] /\ \A p \in Packages : park[p][f] = before.park[p][f]
    <2>1. CASE f \notin Removal
        BY <2>1 DEF Kept, Apart
    <2>2. CASE f \in Removal
        <3>1. f \in job.configs /\ save[f] = Absent
            BY <2>2, <1>1, <1>2 DEF Removal, SavedConfigs
        <3>2. \A p \in Scope : f \notin before.rows[p].man \ ConfigPaths
            BY <1>1, <1>2
        <3>3. ParkedIn(f) = {}
            <4>1. \A p \in ParkedIn(f) : p \in Scope /\ f \in before.rows[p].parked /\ p \in Packages
                BY DEF ParkedIn, Scope
            <4>2. \A p \in Packages : before.rows[p].parked \subseteq before.rows[p].man \ ConfigPaths
                BY DEF QuietInv, AtRest
            <4>3. QED
                BY <4>1, <4>2, <3>2
        <3>4. server[f] = before.server[f]
            BY <2>2, <3>1, <3>3 DEF Kept
        <3>5. \A p \in Packages : park[p][f] = before.park[p][f]
            BY <3>3, <1>2 DEF Kept, Apart
        <3>6. QED
            BY <3>4, <3>5
    <2>3. QED
        BY <2>1, <2>2
<1>3. QED
    BY <1>1, <1>2

(* What stands of Kept while neither trees nor staging directory change. *)
LEMMA KeptStands ==
    ASSUME UNCHANGED <<job, before, rows, server, park, save>>, Kept
    PROVE  Kept'
<1>1. Removal' = Removal /\ \A g : ParkedIn(g)' = ParkedIn(g)
    BY RemovalStands
<1>2. Apart'
    BY <1>1 DEF Kept, Apart
<1>3. QED
    BY <1>1, <1>2 DEF Kept

(* The uninstall's rollback begins, in the job or in the sweep. *)
LEMMA UninstallRollbackBegins ==
    ASSUME QuietInv, job.kind = "uninstall", pc # "idle", Kept, mark = "saved",
           UNCHANGED <<job, before, rows, server, park, save, mark>>,
           pc' = "rollback", outcome' \in {"failed", "interrupted"}, todo' = UninstallEntries
    PROVE  QuietInv'
<1>1. Kept' /\ Removal' = Removal
    BY KeptStands, RemovalStands
<1>2. URollback'
    BY <1>1, RollbackCovers DEF URollback
<1>3. UWant' => UninstallAt'
    BY <1>2 DEF UninstallAt, UWant
<1>4. QED
    BY <1>3, UninstallCarries

(* removePackage on one path. *)
LEMMA UninstallPlaces ==
    ASSUME TypeInv, ModInv, QuietInv, Place, job.kind = "uninstall"
    PROVE  QuietInv'
<1> USE DEF Place
<1>1. pc = "place" /\ pc # "idle" /\ UPlace
    BY DEF QuietInv, UninstallAt
<1>2. CASE EntersRollback /\ UNCHANGED <<server, park>>
    BY <1>1, <1>2, UninstallRollbackBegins DEF EntersRollback, UPlace
<1>3. CASE \E f \in todo : PlaceOne(f) /\ todo' = todo \ {f} /\ UNCHANGED <<pc, outcome>>
    <2>1. PICK f \in todo : PlaceOne(f) /\ todo' = todo \ {f} /\ UNCHANGED <<pc, outcome>>
        BY <1>3
    <2>2. Kept /\ rows = before.rows /\ f \in Removal /\ f \in Paths
        BY <1>1 DEF UPlace, Kept, Apart, TypeInv, TypeOK
    <2>3. Removal' = Removal /\ \A g : ParkedIn(g)' = ParkedIn(g)
        BY RemovalStands
    <2>4. ParkedOwner(f) = ParkedIn(f)
        BY <1>1, <2>2, RemovalIs
    <2>5. CASE ParkedIn(f) # {}
        <3>1. UNCHANGED server
            BY <2>1, <2>4, <2>5 DEF PlaceOne
        <3>2. \A p \in Packages, g \in Paths :
                park'[p][g] = IF g = f /\ p \in ParkedIn(f) THEN Absent ELSE park[p][g]
            BY <2>1, <2>2, <2>4, <2>5 DEF PlaceOne, TypeInv, TypeOK
        <3>3. Apart'
            BY <3>1, <3>2, <2>2, <2>3 DEF Kept, Apart
        <3>4. ParkedIn(f) \subseteq Packages
            BY DEF ParkedIn, Scope
        <3>5. \A g \in Removal : \A p \in ParkedIn(g) :
                park'[p][g] \in {before.park[p][g], Absent} /\ save'[g] = before.park[p][g]
            <4> TAKE g \in Removal
            <4> TAKE p \in ParkedIn(g)
            <4>1. p \in Packages /\ g \in Paths
                <5>1. p \in Packages /\ g \in before.rows[p].parked
                    BY DEF ParkedIn, Scope
                <5>2. before.rows[p].parked \subseteq Paths
                    BY <5>1 DEF TypeInv, TypeOK, Rows
                <5>3. QED
                    BY <5>1, <5>2
            <4>2. park[p][g] \in {before.park[p][g], Absent} /\ save[g] = before.park[p][g]
                BY <2>2 DEF Kept
            <4>3. QED
                BY <4>1, <4>2, <3>2
        <3>6. Kept'
            BY <3>1, <3>3, <3>5, <2>2, <2>3 DEF Kept
        <3>7. Gone(Removal \ todo)'
            BY <1>1, <2>1, <2>3, <2>5, <3>1 DEF Gone, UPlace
        <3>8. UPlace'
            BY <1>1, <2>1, <2>3, <3>6, <3>7 DEF UPlace
        <3>9. UWant' => UninstallAt'
            BY <1>1, <2>1, <3>8 DEF UninstallAt, UWant
        <3>10. QED
            BY <1>1, <2>1, <3>9, UninstallCarries
    <2>6. CASE ParkedIn(f) = {}
        <3>1. UNCHANGED park /\ server' = [server EXCEPT ![f] = Absent]
            BY <2>1, <2>4, <2>6 DEF PlaceOne
        <3>2. \A g \in Paths : server'[g] = IF g = f THEN Absent ELSE server[g]
            BY <3>1, <2>2 DEF TypeInv, TypeOK
        <3>3. Apart'
            BY <3>1, <3>2, <2>2, <2>3, <2>6 DEF Kept, Apart
        <3>r. Removal \subseteq Paths
            <4>1. job.configs \subseteq Paths
                BY ModAssumption DEF TypeInv, TypeOK
            <4>2. \A p \in Scope : before.rows[p].man \subseteq Paths
                BY DEF TypeInv, TypeOK, Rows, Scope
            <4>3. QED
                BY <4>1, <4>2 DEF Removal
        <3>4. \A g \in Removal : ParkedIn(g) = {} =>
                server'[g] \in {before.server[g], Absent} /\ save'[g] = before.server[g]
            BY <3>2, <3>r, <2>2 DEF Kept
        <3>5. Kept'
            BY <3>1, <3>3, <3>4, <2>2, <2>3 DEF Kept
        <3>6. Gone(Removal \ todo)'
            BY <1>1, <2>1, <2>3, <3>2, <3>r DEF Gone, UPlace
        <3>7. UPlace'
            BY <1>1, <2>1, <2>3, <3>5, <3>6 DEF UPlace
        <3>8. UWant' => UninstallAt'
            BY <1>1, <2>1, <3>7 DEF UninstallAt, UWant
        <3>9. QED
            BY <1>1, <2>1, <3>8, UninstallCarries
    <2>7. QED
        BY <2>5, <2>6
<1>4. QED
    BY <1>2, <1>3

(* Apart stands while rows and trees do. *)
LEMMA ApartStands ==
    ASSUME UNCHANGED <<job, before, rows, server, park>>
    PROVE  (Apart => Apart') /\ (Gone(Removal) => Gone(Removal)')
<1>1. Removal' = Removal /\ \A g : ParkedIn(g)' = ParkedIn(g)
    BY RemovalStands
<1>2. QED
    BY <1>1 DEF Apart, Gone

(* Everything to be removed is gone, and nothing of the operator's but     *)
(* what was ticked.                                                        *)
LEMMA UninstallApplied ==
    ASSUME TypeInv, ModInv, QuietInv, MarkApplied, job.kind = "uninstall"
    PROVE  QuietInv'
<1> USE DEF MarkApplied
<1>1. pc = "place" /\ pc # "idle" /\ UPlace /\ todo = {}
    BY DEF QuietInv, UninstallAt
<1>2. Apart /\ Gone(Removal)
    BY <1>1 DEF UPlace, Kept
<1>3. UserKept
    <2> SUFFICES ASSUME NEW f \in Paths, before.server[f] = User, f \notin job.configs
                 PROVE  server[f] = User
        BY DEF UserKept
    <2>1. CASE ParkedIn(f) # {} \/ f \notin Removal
        BY <2>1, <1>2 DEF Apart
    <2>2. CASE ParkedIn(f) = {} /\ f \in Removal
        <3>1. PICK p \in Scope : f \in before.rows[p].man \ ConfigPaths
            BY <2>2 DEF Removal
        <3>2. f \in (before.rows[p].man \ before.rows[p].parked) \ ConfigPaths /\ p \in Packages
            BY <2>2, <3>1 DEF ParkedIn, Scope
        <3>3. before.server[f] = <<p, before.rows[p].ver>>
            BY <3>2 DEF QuietInv, AtRest
        <3>4. QED
            BY <3>2, <3>3, ModAssumption DEF User
    <2>3. QED
        BY <2>1, <2>2
<1>4. pc' = "cleanup" /\ outcome' = "ok"
    BY <1>1 DEF Returns, UPlace
<1>5. Apart' /\ Gone(Removal)' /\ UserKept'
    BY <1>2, <1>3, ApartStands, UserKeptStands
<1>6. UDone'
    BY <1>4, <1>5 DEF UDone
<1>7. UWant' => UninstallAt'
    BY <1>4, <1>6 DEF UninstallAt, UWant
<1>8. QED
    BY <1>1, <1>4, <1>7, UninstallCarries

(* The saved copy of one path goes back to the tree it came from. *)
LEMMA UninstallRollsBack ==
    ASSUME TypeInv, ModInv, QuietInv, Rollback, job.kind = "uninstall", hit = {}, hit' = {}
    PROVE  QuietInv'
<1> USE DEF Rollback
<1>1. pc = "rollback" /\ pc # "idle" /\ URollback
    BY DEF QuietInv, UninstallAt
<1>2. PICK f \in todo : RollbackOne(f) /\ todo' = todo \ {f}
    BY DEF Stick
<1>3. Kept /\ rows = before.rows /\ f \in Removal /\ f \in Paths
    BY <1>1 DEF URollback, Kept, Apart, TypeInv, TypeOK
<1>4. Removal' = Removal /\ \A g : ParkedIn(g)' = ParkedIn(g)
    BY RemovalStands
<1>5. ParkedOwner(f) = ParkedIn(f)
    BY <1>1, <1>3, RemovalIs
<1>6. \A g \in Paths : server'[g] = IF g = f /\ ParkedIn(f) = {} THEN save[f] ELSE server[g]
    BY <1>2, <1>3, <1>5 DEF RollbackOne, TypeInv, TypeOK
<1>7. \A p \in Packages, g \in Paths :
        park'[p][g] = IF g = f /\ p \in ParkedIn(f) THEN save[f] ELSE park[p][g]
    BY <1>2, <1>3, <1>5 DEF RollbackOne, TypeInv, TypeOK
<1>8. ParkedIn(f) = {} => save[f] = before.server[f]
    BY <1>3 DEF Kept
<1>9. \A p \in ParkedIn(f) : save[f] = before.park[p][f]
    BY <1>3 DEF Kept
<1>10. Apart'
    BY <1>3, <1>4, <1>6, <1>7 DEF Kept, Apart
<1>r. Removal \subseteq Paths /\ \A g : ParkedIn(g) \subseteq Packages
    <2>1. job.configs \subseteq Paths
        BY ModAssumption DEF TypeInv, TypeOK
    <2>2. \A p \in Scope : before.rows[p].man \subseteq Paths
        BY DEF TypeInv, TypeOK, Rows, Scope
    <2>3. QED
        BY <2>1, <2>2 DEF Removal, ParkedIn, Scope
<1>11. \A g \in Removal : ParkedIn(g) = {} =>
         server'[g] \in {before.server[g], Absent} /\ save'[g] = before.server[g]
    BY <1>3, <1>6, <1>8, <1>r DEF Kept
<1>12. \A g \in Removal : \A p \in ParkedIn(g) :
         park'[p][g] \in {before.park[p][g], Absent} /\ save'[g] = before.park[p][g]
    BY <1>3, <1>7, <1>9, <1>r DEF Kept
<1>13. Kept'
    BY <1>4, <1>10, <1>11, <1>12 DEF Kept
<1>14. ASSUME NEW g \in Paths \ todo'
       PROVE  server'[g] = before.server[g] /\ \A p \in Packages : park'[p][g] = before.park[p][g]
    <2>1. CASE g # f
        BY <2>1, <1>1, <1>2, <1>6, <1>7, <1>14 DEF URollback
    <2>2. CASE g = f
        <3>1. server'[g] = before.server[g]
            BY <2>2, <1>3, <1>6, <1>8 DEF Kept, Apart
        <3>2. \A p \in Packages : park'[p][g] = before.park[p][g]
            BY <2>2, <1>3, <1>7, <1>9 DEF Kept, Apart
        <3>3. QED
            BY <3>1, <3>2
    <2>3. QED
        BY <2>1, <2>2
<1>15. URollback'
    BY <1>1, <1>2, <1>4, <1>13, <1>14 DEF URollback
<1>16. UWant' => UninstallAt'
    BY <1>1, <1>15 DEF UninstallAt, UWant
<1>17. QED
    BY <1>1, <1>16, UninstallCarries

(* The parking tree as the job found it, cell by cell. *)
LEMMA SamePark ==
    ASSUME TypeInv, \A p \in Packages, f \in Paths : park[p][f] = before.park[p][f]
    PROVE  park = before.park
<1>1. park \in [Packages -> [Paths -> Content]] /\ before.park \in [Packages -> [Paths -> Content]]
    BY DEF TypeInv, TypeOK
<1>2. ASSUME NEW p \in Packages PROVE park[p] = before.park[p]
    <2>1. park[p] \in [Paths -> Content] /\ before.park[p] \in [Paths -> Content]
        BY <1>1
    <2>2. QED
        BY <2>1
<1>3. QED
    BY <1>1, <1>2

(* An uninstall's rows were never touched; with its last file it is undone. *)
LEMMA UninstallRowsReturn ==
    ASSUME TypeInv, ModInv, QuietInv, RollbackRows, job.kind = "uninstall", hit = {}, hit' = {}
    PROVE  QuietInv'
<1> USE DEF RollbackRows
<1>1. pc = "rollback" /\ pc # "idle" /\ URollback /\ todo = {}
    BY DEF QuietInv, UninstallAt
<1>2. server = before.server
    BY <1>1, SameTree DEF URollback
<1>3. park = before.park
    BY <1>1, SamePark DEF URollback
<1>4. rows' = rows
    BY DEF TypeInv, TypeOK
<1>5. Same'
    BY <1>1, <1>2, <1>3, <1>4 DEF Same, URollback, Kept, Apart
<1>6. QED
    BY <1>1, <1>5, UninstallEnds DEF URollback

(* A kill in an uninstall after its saved checkpoint. *)
LEMMA UninstallKilled ==
    ASSUME TypeInv, ModInv, QuietInv, Kill, job.kind = "uninstall", hit = {}, hit' = {}
    PROVE  QuietInv'
<1> USE DEF Kill
<1>0. Moment = {}
    OBVIOUS
<1>1. outcome # "interrupted" /\ pc \notin {"cleanup", "finish", "idle", "down"} /\ mark # "none"
    BY <1>0 DEF Moment
<1>2. pc' = "down" /\ UNCHANGED <<job, before, rows, server, park, save, mark>>
    BY <1>1
<1>3. Kept /\ mark = "saved"
    BY <1>1 DEF QuietInv, UninstallAt, USave, UPlace, URollback
<1>4. UDown'
    BY <1>2, <1>3, KeptStands DEF UDown
<1>5. UWant' => UninstallAt'
    BY <1>2, <1>4 DEF UninstallAt, UWant
<1>6. QED
    BY <1>1, <1>2, <1>5, UninstallCarries

(* SweepModUninstall. *)
LEMMA UninstallSwept ==
    ASSUME TypeInv, ModInv, QuietInv, Boot, job.kind = "uninstall"
    PROVE  QuietInv'
<1>1. pc = "down" /\ pc # "idle" /\ UDown
    BY DEF Boot, QuietInv, UninstallAt
<1>2. QED
    BY <1>1, UninstallRollbackBegins DEF Boot, UDown

(* The staging directory goes; an interrupted job is over with it. *)
LEMMA UninstallCleansUp ==
    ASSUME TypeInv, ModInv, QuietInv, Cleanup, job.kind = "uninstall"
    PROVE  QuietInv'
<1> USE DEF Cleanup
<1>1. pc = "cleanup" /\ pc # "idle" /\ UDone
    BY DEF QuietInv, UninstallAt
<1>2. UNCHANGED <<rows, server, park, outcome, before>>
    OBVIOUS
<1>3. CASE outcome = "interrupted"
    <2>1. pc' = "idle" /\ Same' /\ Same
        BY <1>1, <1>2, <1>3 DEF UDone, Same
    <2>2. AtRest(before.rows, before.server, before.park)'
        BY BeforeRests DEF QuietInv
    <2>3. AtRest(rows, server, park)
        BY <2>1 DEF QuietInv, Same
    <2>4. AtRest(rows, server, park)'
        BY <2>3, RestStands
    <2>5. QED
        BY <1>2, <1>3, <2>1, <2>2, <2>4 DEF QuietInv, IdleOk
<1>4. CASE outcome # "interrupted"
    <2>1. pc' = "finish" /\ UNCHANGED job
        BY <1>4
    <2>2. (Same => Same') /\ (UserKept => UserKept')
        BY <2>1, <1>2, UserKeptStands DEF Same
    <2>3. (Apart => Apart') /\ (Gone(Removal) => Gone(Removal)')
        BY <2>1, <1>2, ApartStands
    <2>4. UDone'
        BY <1>1, <1>2, <2>2, <2>3 DEF UDone
    <2>5. UWant' => UninstallAt'
        BY <2>1, <2>4 DEF UninstallAt, UWant
    <2>6. QED
        BY <1>1, <2>1, <2>5, UninstallCarries
<1>5. QED
    BY <1>3, <1>4

(* finishUninstall: the rows go, and the parking directories with them. *)
LEMMA UninstallFinishes ==
    ASSUME TypeInv, ModInv, QuietInv, Finish, job.kind = "uninstall"
    PROVE  QuietInv'
<1> USE DEF Finish
<1>1. pc = "finish" /\ pc # "idle" /\ UDone /\ UWant /\ pc' = "idle"
    BY DEF QuietInv, UninstallAt, UWant
<1>b. AtRest(before.rows, before.server, before.park)'
    BY BeforeRests DEF QuietInv
<1>r. AtRest(before.rows, before.server, before.park)
    BY DEF QuietInv
<1>2. CASE outcome # "ok"
    <2>1. Same' /\ Same /\ UNCHANGED <<rows, server, park>>
        BY <1>1, <1>2 DEF UDone, Same
    <2>2. AtRest(rows, server, park)
        BY <2>1 DEF QuietInv, Same
    <2>3. AtRest(rows, server, park)'
        BY <2>1, <2>2, RestStands
    <2>4. QED
        BY <1>1, <1>2, <1>b, <2>1, <2>3 DEF QuietInv, IdleOk
<1>3. CASE outcome = "ok"
    <2>1. Apart /\ Gone(Removal) /\ UserKept /\ rows = before.rows
        BY <1>1, <1>3 DEF UDone, Apart
    <2>2. UserKept'
        BY <2>1, UserKeptStands
    <2>s. Scope \subseteq Packages /\ \A p \in Scope : job.want[p] = "remove"
        BY <1>1 DEF Scope, UWant
    <2>3. \A p \in Packages : rows'[p] = IF p \in Scope THEN NoRow ELSE before.rows[p]
        BY <1>3, <2>1, <2>s DEF FinishedRow
    <2>4. \A p \in Packages, f \in Paths :
            park'[p][f] = IF p \in Scope THEN Absent ELSE before.park[p][f]
        <3> TAKE p \in Packages, f \in Paths
        <3>1. CASE p \in Scope
            BY <1>3, <3>1 DEF EmptiesPark, NoFiles
        <3>2. CASE p \notin Scope
            <4>1. p \notin ParkedIn(f)
                BY <3>2 DEF ParkedIn
            <4>2. QED
                BY <1>3, <3>2, <4>1, <2>1 DEF Apart
        <3>3. QED
            BY <3>1, <3>2
    <2>n. NoRow.man = {} /\ NoRow.parked = {} /\ NoRow.ver = "-" /\ NoRow.enabled = "no"
        BY DEF NoRow
    <2>5. AtRest(rows, server, park)'
        <3>1. \A p \in Packages :
                /\ rows'[p].ver = "-" => rows'[p] = NoRow
                /\ rows'[p].parked \subseteq rows'[p].man \ ConfigPaths
                /\ rows'[p].enabled = "yes" => rows'[p].parked = {}
            BY <2>3, <2>n, <1>r DEF AtRest
        <3>2. Disjoint(rows)'
            BY <2>3, <2>n, <1>r DEF AtRest, Disjoint
        <3>3. \A p \in Packages, f \in Paths :
                park'[p][f] = IF f \in rows'[p].parked THEN <<p, rows'[p].ver>> ELSE Absent
            BY <2>3, <2>4, <2>n, <1>r DEF AtRest
        <3>4. ASSUME NEW p \in Packages, NEW f \in (rows'[p].man \ rows'[p].parked) \ ConfigPaths
              PROVE  server'[f] = <<p, rows'[p].ver>>
            <4>1. p \notin Scope /\ rows'[p] = before.rows[p]
                BY <3>4, <2>3, <2>n
            <4>2. f \in Paths
                BY <3>4, <4>1 DEF TypeInv, TypeOK, Rows
            <4>3. f \notin job.configs
                BY <3>4 DEF TypeInv, TypeOK
            <4>4. \A q \in Scope : f \notin before.rows[q].man
                BY <3>4, <4>1, <2>s, <1>r DEF AtRest, Disjoint
            <4>5. f \notin Removal
                BY <4>3, <4>4 DEF Removal
            <4>6. server[f] = before.server[f]
                BY <4>2, <4>5, <2>1 DEF Apart
            <4>7. QED
                BY <3>4, <4>1, <4>6, <1>r DEF AtRest
        <3>5. ASSUME NEW p \in Packages, NEW f \in Paths \ ConfigPaths, NEW v \in Versions \cup {"-"},
                     server[f] = <<p, v>>
              PROVE  f \in rows'[p].man \ rows'[p].parked /\ v = rows'[p].ver
            <4>1. ParkedIn(f) # {} \/ f \notin Removal
                <5>1. server[f] # Absent
                    BY <3>5, ModAssumption DEF Absent
                <5>2. QED
                    BY <5>1, <2>1 DEF Gone
            <4>2. before.server[f] = <<p, v>>
                BY <4>1, <3>5, <2>1 DEF Apart
            <4>3. f \in before.rows[p].man \ before.rows[p].parked /\ v = before.rows[p].ver
                BY <4>2, <3>5, <1>r DEF AtRest
            <4>4. p \notin Scope
                <5> SUFFICES ASSUME p \in Scope PROVE FALSE
                    OBVIOUS
                <5>1. f \in Removal
                    BY <4>3, <3>5 DEF Removal
                <5>2. PICK q \in ParkedIn(f) : TRUE
                    BY <4>1, <5>1
                <5>3. q \in Packages /\ f \in before.rows[q].parked
                    BY <5>2 DEF ParkedIn, Scope
                <5>4. f \in before.rows[q].man
                    BY <5>3, <1>r DEF AtRest
                <5>5. q = p
                    BY <5>3, <5>4, <4>3, <1>r DEF AtRest, Disjoint
                <5>6. QED
                    BY <5>3, <5>5, <4>3
            <4>5. QED
                BY <4>3, <4>4, <2>3
        <3>6. server' = server
            OBVIOUS
        <3>7. QED
            BY <3>1, <3>2, <3>3, <3>4, <3>5, <3>6 DEF AtRest
    <2>6. QED
        BY <1>1, <1>3, <1>b, <2>2, <2>5 DEF QuietInv, IdleOk
<1>4. QED
    BY <1>2, <1>3

(* The package of a toggle and its direction, while the job row stands. *)
LEMMA ToggledStands ==
    ASSUME UNCHANGED job
    PROVE  Toggled' = Toggled /\ Way' = Way
<1>1. Toggled' = Toggled
    BY DEF Toggled
<1>2. QED
    BY <1>1 DEF Way

(* The stage of a toggle, once reached, is all there is to show. *)
LEMMA ToggleCarries ==
    ASSUME QuietInv, UNCHANGED <<before, job>>, job.kind = "toggle", pc # "idle", pc' # "idle",
           ToggleOk' => ToggleAt'
    PROVE  QuietInv'
<1>1. ToggleOk
    BY DEF QuietInv, ToggleAt, ToggleOk
<1>2. ToggleOk'
    BY <1>1, ToggledStands, ScopeStands DEF ToggleOk
<1>3. AtRest(before.rows, before.server, before.park)'
    BY BeforeRests DEF QuietInv
<1>4. QED
    BY <1>2, <1>3 DEF QuietInv

(* The names of a toggle's stages, while its row stands. *)
LEMMA ToggleNames ==
    ASSUME UNCHANGED <<job, before>>
    PROVE  /\ Toggled' = Toggled /\ Way' = Way /\ Movable' = Movable /\ Own' = Own /\ ToMove' = ToMove
           /\ before' = before
<1>1. Toggled' = Toggled /\ Way' = Way
    BY ToggledStands
<1>2. QED
    BY <1>1 DEF Movable, Own, ToMove

(* What a toggle found at the paths it may move: its own bytes in the tree *)
(* the row names, and nothing of them in the other.                        *)
LEMMA Found ==
    ASSUME TypeInv, QuietInv, Toggled \in Packages, before.rows[Toggled].ver # "-",
           NEW f \in Movable
    PROVE  /\ f \in Paths \ ConfigPaths
           /\ Own # Absent
           /\ f \in before.rows[Toggled].parked =>
                before.park[Toggled][f] = Own /\ before.server[f] # Own
           /\ f \notin before.rows[Toggled].parked =>
                before.park[Toggled][f] = Absent /\ before.server[f] = Own
<1>r. AtRest(before.rows, before.server, before.park)
    BY DEF QuietInv
<1>1. f \in Paths \ ConfigPaths /\ f \in before.rows[Toggled].man
    BY DEF Movable, TypeInv, TypeOK, Rows
<1>2. Own # Absent
    BY ModAssumption DEF Own, Absent
<1>3. f \in before.rows[Toggled].parked => before.park[Toggled][f] = Own
    BY <1>1, <1>r DEF AtRest, Own
<1>4. before.rows[Toggled].ver \in Versions \cup {"-"}
    BY DEF TypeInv, TypeOK, Rows
<1>5. f \in before.rows[Toggled].parked => before.server[f] # Own
    BY <1>1, <1>4, <1>r DEF AtRest, Own
<1>6. f \notin before.rows[Toggled].parked =>
        before.park[Toggled][f] = Absent /\ before.server[f] = Own
    BY <1>1, <1>r DEF AtRest, Own
<1>7. QED
    BY <1>1, <1>2, <1>3, <1>5, <1>6

(* One cell of the two trees changes, all others stay. *)
Cell(f) ==
    /\ UNCHANGED <<rows, before, job>>
    /\ \A g \in Paths \ {f} : server'[g] = server[g] /\ park'[Toggled][g] = park[Toggled][g]
    /\ \A p \in Packages : p # Toggled => park'[p] = park[p]

(* What a step on one movable path must leave there. *)
LEMMA TreesStep ==
    ASSUME TypeInv, QuietInv, Trees, NEW f \in Movable, Toggled \in Packages, Cell(f),
           \/ Unmoved(f)'
           \/ /\ f \in before.rows[Toggled].parked => before.server[f] = Absent
              /\ InBoth(f)' \/ Over(f)'
    PROVE  Trees'
<1>1. /\ Toggled' = Toggled /\ Movable' = Movable /\ Own' = Own /\ before' = before
    BY ToggleNames DEF Cell
<1>m. Movable \subseteq Paths
    BY DEF Movable, TypeInv, TypeOK, Rows
<1>2. ASSUME NEW g \in Paths \ {f}
      PROVE  /\ Unmoved(g) => Unmoved(g)'
             /\ InBoth(g) => InBoth(g)'
             /\ Over(g) => Over(g)'
    BY <1>1, <1>2 DEF Cell, Unmoved, InBoth, Over
<1>3. \A g \in Paths \ Movable' : Unmoved(g)'
    BY <1>1, <1>2 DEF Trees
<1>4. \A g \in Movable' :
         \/ Unmoved(g)'
         \/ (g \in before'.rows[Toggled'].parked => before'.server[g] = Absent) /\ (InBoth(g)' \/ Over(g)')
    <2> SUFFICES ASSUME NEW g \in Movable
                 PROVE  \/ Unmoved(g)'
                        \/ (g \in before.rows[Toggled].parked => before.server[g] = Absent) /\ (InBoth(g)' \/ Over(g)')
        BY <1>1
    <2>1. CASE g = f
        BY <2>1
    <2>2. CASE g # f
        BY <2>2, <1>2, <1>m DEF Trees
    <2>3. QED
        BY <2>1, <2>2
<1>5. rows' = before'.rows /\ \A p \in Packages : p # Toggled' => park'[p] = before'.park[p]
    BY <1>1 DEF Trees, Cell
<1>6. QED
    BY <1>3, <1>4, <1>5 DEF Trees

(* parkOne and unparkOne, half by half. *)
LEMMA ToggleMoves ==
    ASSUME TypeInv, ModInv, QuietInv, Move
    PROVE  QuietInv'
<1> USE DEF Move
<1>1. job.kind = "toggle" /\ pc = "move" /\ pc # "idle"
    BY DEF ModInv, Spent
<1>2. TMove /\ ToggleOk /\ Trees
    BY <1>1 DEF QuietInv, ToggleAt, ToggleOk, TMove
<1>n. /\ Toggled' = Toggled /\ Way' = Way /\ Movable' = Movable /\ Own' = Own /\ ToMove' = ToMove
      /\ before' = before /\ job' = job
    BY ToggleNames
<1>r. AtRest(before.rows, before.server, before.park)
    BY DEF QuietInv
<1>t. Toggled \in Packages /\ before.rows[Toggled].ver # "-" /\ Way \in {"enable", "disable"}
    BY <1>2 DEF ToggleOk
<1>3. CASE /\ pc' = "settle" /\ outcome' = "failed"
           /\ todo' = Settleable(Toggled) /\ UNCHANGED <<server, park, moved>>
    <2>1. Trees'
        BY <1>2, <1>3, <1>n DEF Trees, Unmoved, InBoth, Over
    <2>2. todo' = Movable
        BY <1>2, <1>3 DEF Settleable, Movable, Trees
    <2>3. TSettle'
        BY <1>3, <1>n, <2>1, <2>2 DEF TSettle
    <2>4. ToggleOk' => ToggleAt'
        BY <1>3, <2>3 DEF ToggleAt, ToggleOk
    <2>5. QED
        BY <1>1, <1>3, <2>4, ToggleCarries
<1>4. CASE \E f \in todo :
             /\ \/ MoveCopy(f) /\ UNCHANGED moved
                \/ MoveDrop(f) /\ moved' = moved \cup {f}
             /\ UNCHANGED <<pc, outcome>>
    <2>1. PICK f \in todo :
             /\ \/ MoveCopy(f) /\ UNCHANGED moved
                \/ MoveDrop(f) /\ moved' = moved \cup {f}
             /\ UNCHANGED <<pc, outcome>>
        BY <1>4
    <2>2. f \in ToMove /\ ~Over(f)
        BY <1>2 DEF TMove
    <2>3. ToMove \subseteq Movable
        BY <1>t, <1>r DEF ToMove, Movable, AtRest
    <2>4. f \in Movable /\ f \in Paths
        BY <2>2, <2>3, Found, <1>t
    <2>5. IF Way = "enable" THEN f \in before.rows[Toggled].parked ELSE f \notin before.rows[Toggled].parked
        BY <2>2 DEF ToMove
    <2>6. /\ Own # Absent
          /\ f \in before.rows[Toggled].parked =>
               before.park[Toggled][f] = Own /\ before.server[f] # Own
          /\ f \notin before.rows[Toggled].parked =>
               before.park[Toggled][f] = Absent /\ before.server[f] = Own
        BY <2>4, <1>t, Found
    <2>7. Unmoved(f) \/ (InBoth(f) /\ (f \in before.rows[Toggled].parked => before.server[f] = Absent))
        BY <1>2, <2>2, <2>4 DEF Trees
    <2>ty. server \in [Paths -> Content] /\ park \in [Packages -> [Paths -> Content]]
           /\ park[Toggled] \in [Paths -> Content]
        BY <1>t DEF TypeInv, TypeOK
    <2>8. \/ /\ InBoth(f)' /\ todo' = todo /\ moved' = moved /\ Cell(f)
             /\ (f \in before.rows[Toggled].parked => before.server[f] = Absent)
          \/ /\ Over(f)' /\ todo' = todo \ {f} /\ moved' = moved \cup {f} /\ Cell(f)
             /\ (f \in before.rows[Toggled].parked => before.server[f] = Absent)
        <3>1. CASE Way = "disable"
            <4>1. f \notin before.rows[Toggled].parked /\ server[f] = Own
                BY <3>1, <2>5, <2>6, <2>7 DEF Unmoved, InBoth
            <4>2. CASE MoveCopy(f) /\ UNCHANGED moved
                <5>1. park' = [park EXCEPT ![Toggled][f] = server[f]] /\ UNCHANGED <<server, todo>>
                    BY <3>1, <4>1, <4>2, <2>6 DEF MoveCopy
                <5>2. park'[Toggled][f] = Own /\ Cell(f)
                    BY <5>1, <4>1, <2>ty, <2>4, <1>t DEF Cell
                <5>3. InBoth(f)'
                    BY <5>1, <5>2, <4>1, <1>n DEF InBoth
                <5>4. QED
                    BY <4>1, <4>2, <5>1, <5>2, <5>3
            <4>3. CASE MoveDrop(f) /\ moved' = moved \cup {f}
                <5>1. /\ server[f] = park[Toggled][f] /\ server' = [server EXCEPT ![f] = Absent]
                      /\ UNCHANGED park /\ todo' = todo \ {f}
                    BY <3>1, <4>3 DEF MoveDrop
                <5>2. server'[f] = Absent /\ park'[Toggled][f] = Own /\ Cell(f)
                    BY <5>1, <4>1, <2>ty, <2>4 DEF Cell
                <5>3. Over(f)'
                    BY <5>2, <4>1, <1>n DEF Over
                <5>4. QED
                    BY <4>1, <4>3, <5>1, <5>2, <5>3
            <4>4. QED
                BY <4>2, <4>3, <2>1
        <3>2. CASE Way = "enable"
            <4>1. f \in before.rows[Toggled].parked /\ park[Toggled][f] = Own /\ Way # "disable"
                BY <3>2, <2>5, <2>6, <2>7 DEF Unmoved, InBoth
            <4>2. CASE MoveCopy(f) /\ UNCHANGED moved
                <5>1. /\ server[f] = Absent /\ server' = [server EXCEPT ![f] = park[Toggled][f]]
                      /\ UNCHANGED <<park, todo>>
                    BY <4>1, <4>2 DEF MoveCopy
                <5>2. server'[f] = Own /\ park'[Toggled][f] = Own /\ Cell(f)
                    BY <5>1, <4>1, <2>ty, <2>4 DEF Cell
                <5>3. InBoth(f)'
                    BY <5>2, <1>n DEF InBoth
                <5>4. before.server[f] = Absent
                    BY <5>1, <2>6, <2>7 DEF Unmoved, InBoth
                <5>5. QED
                    BY <4>2, <5>1, <5>2, <5>3, <5>4
            <4>3. CASE MoveDrop(f) /\ moved' = moved \cup {f}
                <5>1. /\ server[f] = park[Toggled][f] /\ park' = [park EXCEPT ![Toggled][f] = Absent]
                      /\ UNCHANGED server /\ todo' = todo \ {f}
                    BY <4>1, <4>3 DEF MoveDrop
                <5>2. InBoth(f) /\ before.server[f] = Absent
                    BY <5>1, <4>1, <2>6, <2>7 DEF Unmoved
                <5>3. server'[f] = Own /\ park'[Toggled][f] = Absent /\ Cell(f)
                    BY <5>1, <4>1, <2>ty, <2>4, <1>t DEF Cell
                <5>4. Over(f)'
                    BY <5>3, <4>1, <1>n DEF Over
                <5>5. QED
                    BY <4>3, <5>1, <5>2, <5>3, <5>4
            <4>4. QED
                BY <4>2, <4>3, <2>1
        <3>3. QED
            BY <3>1, <3>2, <1>t
    <2>9. Trees' /\ Cell(f)
        BY <2>8, <2>4, <1>2, <1>t, TreesStep
    <2>10. \A g \in Paths \ {f} : (Unmoved(g) => Unmoved(g)') /\ (Over(g) <=> Over(g)')
        BY <2>9, <1>n DEF Cell, Unmoved, Over
    <2>11. todo \subseteq ToMove /\ moved = ToMove \ todo /\ ToMove \subseteq Paths
        <3>1. Movable \subseteq Paths
            BY <1>t, Found
        <3>2. QED
            BY <3>1, <2>3, <1>2 DEF TMove
    <2>12. \A g \in Paths \ ToMove : Unmoved(g)'
        BY <2>2, <2>10, <1>2 DEF TMove
    <2>13. \A g \in moved' : Over(g)'
        BY <2>8, <2>10, <2>11, <1>2 DEF TMove
    <2>14. \A g \in todo' : ~Over(g)'
        <3>1. InBoth(f)' => ~Over(f)'
            BY <2>6, <1>n DEF InBoth, Over
        <3>2. QED
            BY <3>1, <2>8, <2>10, <2>11, <1>2 DEF TMove
    <2>15. todo' \subseteq ToMove /\ moved' = ToMove \ todo'
        BY <2>2, <2>8, <2>11
    <2>16. TMove'
        BY <2>1, <2>9, <2>12, <2>13, <2>14, <2>15, <1>2, <1>n DEF TMove
    <2>17. ToggleOk' => ToggleAt'
        BY <1>1, <2>1, <2>16 DEF ToggleAt, ToggleOk
    <2>18. QED
        BY <1>1, <2>1, <2>17, ToggleCarries
<1>5. QED
    BY <1>3, <1>4

(* Two trees that do not change are still on the same way. *)
LEMMA TreesStand ==
    ASSUME UNCHANGED <<job, before, rows, server, park>>
    PROVE  /\ Trees => Trees'
           /\ \A f : Unmoved(f)' = Unmoved(f) /\ Over(f)' = Over(f)
<1>1. /\ Toggled' = Toggled /\ Movable' = Movable /\ Own' = Own /\ before' = before
    BY ToggleNames
<1>2. \A f : Unmoved(f)' = Unmoved(f) /\ Over(f)' = Over(f) /\ InBoth(f)' = InBoth(f)
    BY <1>1 DEF Unmoved, Over, InBoth
<1>3. QED
    BY <1>1, <1>2 DEF Trees

(* Every file has gone over. *)
LEMMA ToggleMoved ==
    ASSUME TypeInv, ModInv, QuietInv, MoveDone
    PROVE  QuietInv'
<1> USE DEF MoveDone
<1>1. job.kind = "toggle" /\ pc = "move" /\ pc # "idle"
    BY DEF ModInv, Spent
<1>2. TMove /\ todo = {}
    BY <1>1 DEF QuietInv, ToggleAt, ToggleOk
<1>3. pc' = "finish" /\ outcome' = "ok"
    BY <1>1, <1>2 DEF Returns, TMove
<1>4. Trees' /\ (\A f : Unmoved(f)' = Unmoved(f) /\ Over(f)' = Over(f)) /\ ToMove' = ToMove
    BY <1>2, TreesStand, ToggleNames DEF TMove
<1>5. moved' = ToMove
    <2>1. todo = {} /\ moved' = moved /\ moved = ToMove \ todo
        BY <1>2 DEF TMove
    <2>2. QED
        BY <2>1
<1>6. TFinish'
    BY <1>2, <1>3, <1>4, <1>5 DEF TFinish, TMove
<1>7. ToggleOk' => ToggleAt'
    BY <1>3, <1>6 DEF ToggleAt, ToggleOk
<1>8. QED
    BY <1>1, <1>3, <1>7, ToggleCarries

(* settleOne: one file nearer to where the unchanged row says. *)
LEMMA ToggleSettles ==
    ASSUME TypeInv, ModInv, QuietInv, Settle
    PROVE  QuietInv'
<1> USE DEF Settle
<1>1. job.kind = "toggle" /\ pc = "settle" /\ pc # "idle"
    BY DEF ModInv, Spent
<1>2. TSettle /\ ToggleOk /\ Trees
    BY <1>1 DEF QuietInv, ToggleAt, ToggleOk, TSettle
<1>n. /\ Toggled' = Toggled /\ Way' = Way /\ Movable' = Movable /\ Own' = Own /\ ToMove' = ToMove
      /\ before' = before /\ job' = job
    BY ToggleNames
<1>t. Toggled \in Packages /\ before.rows[Toggled].ver # "-" /\ rows = before.rows
    BY <1>2 DEF ToggleOk, Trees
<1>3. PICK f \in todo : SettleOne(f)
    OBVIOUS
<1>4. f \in Movable /\ f \in Paths
    BY <1>2, <1>t, Found DEF TSettle
<1>5. /\ Own # Absent
      /\ f \in before.rows[Toggled].parked =>
           before.park[Toggled][f] = Own /\ before.server[f] # Own
      /\ f \notin before.rows[Toggled].parked =>
           before.park[Toggled][f] = Absent /\ before.server[f] = Own
    BY <1>4, <1>t, Found
<1>6. \/ Unmoved(f)
      \/ (f \in before.rows[Toggled].parked => before.server[f] = Absent) /\ (InBoth(f) \/ Over(f))
    BY <1>2, <1>4 DEF Trees
<1>ty. server \in [Paths -> Content] /\ park \in [Packages -> [Paths -> Content]]
       /\ park[Toggled] \in [Paths -> Content]
    BY <1>t DEF TypeInv, TypeOK
<1>7. /\ Cell(f)
      /\ \/ Unmoved(f)' /\ todo' = todo \ {f}
         \/ /\ InBoth(f)' /\ todo' = todo
            /\ f \in before.rows[Toggled].parked => before.server[f] = Absent
    <2>1. CASE f \in before.rows[Toggled].parked
        <3>1. CASE Unmoved(f)
            <4>1. todo' = todo \ {f} /\ UNCHANGED <<server, park>>
                BY <2>1, <3>1, <1>3, <1>5, <1>t DEF SettleOne, Unmoved
            <4>2. QED
                BY <4>1, <3>1, <1>n DEF Cell, Unmoved
        <3>2. CASE InBoth(f) /\ before.server[f] = Absent
            <4>1. todo' = todo \ {f} /\ server' = [server EXCEPT ![f] = Absent] /\ UNCHANGED park
                BY <2>1, <3>2, <1>3, <1>5, <1>t DEF SettleOne, InBoth
            <4>2. Cell(f) /\ server'[f] = Absent /\ park'[Toggled][f] = Own
                BY <4>1, <3>2, <1>4, <1>ty DEF Cell, InBoth
            <4>3. QED
                BY <4>1, <4>2, <2>1, <3>2, <1>5, <1>n DEF Unmoved
        <3>3. CASE Over(f) /\ before.server[f] = Absent
            <4>1. todo' = todo /\ park' = [park EXCEPT ![Toggled][f] = server[f]] /\ UNCHANGED server
                BY <2>1, <3>3, <1>3, <1>5, <1>t DEF SettleOne, Over
            <4>2. Cell(f) /\ server'[f] = Own /\ park'[Toggled][f] = Own
                BY <4>1, <2>1, <3>3, <1>4, <1>ty, <1>t DEF Cell, Over
            <4>3. QED
                BY <4>1, <4>2, <3>3, <1>n DEF InBoth
        <3>4. QED
            BY <3>1, <3>2, <3>3, <2>1, <1>6
    <2>2. CASE f \notin before.rows[Toggled].parked
        <3>1. CASE Unmoved(f)
            <4>1. todo' = todo \ {f} /\ UNCHANGED <<server, park>>
                BY <2>2, <3>1, <1>3, <1>5, <1>t DEF SettleOne, Unmoved
            <4>2. QED
                BY <4>1, <3>1, <1>n DEF Cell, Unmoved
        <3>2. CASE InBoth(f)
            <4>1. todo' = todo \ {f} /\ park' = [park EXCEPT ![Toggled][f] = Absent] /\ UNCHANGED server
                BY <2>2, <3>2, <1>3, <1>5, <1>t DEF SettleOne, InBoth
            <4>2. Cell(f) /\ server'[f] = Own /\ park'[Toggled][f] = Absent
                BY <4>1, <3>2, <1>4, <1>ty, <1>t DEF Cell, InBoth
            <4>3. QED
                BY <4>1, <4>2, <2>2, <1>5, <1>n DEF Unmoved
        <3>3. CASE Over(f)
            <4>1. todo' = todo /\ server' = [server EXCEPT ![f] = park[Toggled][f]] /\ UNCHANGED park
                BY <2>2, <3>3, <1>3, <1>5, <1>t DEF SettleOne, Over
            <4>2. Cell(f) /\ server'[f] = Own /\ park'[Toggled][f] = Own
                BY <4>1, <2>2, <3>3, <1>4, <1>ty DEF Cell, Over
            <4>3. QED
                BY <4>1, <4>2, <2>2, <1>n DEF InBoth
        <3>4. QED
            BY <3>1, <3>2, <3>3, <1>6
    <2>3. QED
        BY <2>1, <2>2
<1>8. Trees'
    BY <1>2, <1>4, <1>t, <1>7, TreesStep
<1>9. \A g \in Paths \ {f} : Unmoved(g) => Unmoved(g)'
    BY <1>7, <1>n DEF Cell, Unmoved
<1>10. Movable \subseteq Paths
    BY <1>t, Found
<1>11. \A g \in Movable \ todo' : Unmoved(g)'
    BY <1>2, <1>7, <1>9, <1>10 DEF TSettle
<1>12. TSettle'
    BY <1>2, <1>7, <1>8, <1>11, <1>n DEF TSettle
<1>13. ToggleOk' => ToggleAt'
    BY <1>1, <1>12 DEF ToggleAt, ToggleOk
<1>14. QED
    BY <1>1, <1>13, ToggleCarries

(* All files where the row says: the toggle never happened. *)
LEMMA SettledIsSame ==
    ASSUME TypeInv, QuietInv, Toggled \in Packages, before.rows[Toggled].ver # "-", Trees,
           \A f \in Movable : Unmoved(f)
    PROVE  Same
<1>1. \A f \in Paths : Unmoved(f)
    BY DEF Trees
<1>2. server = before.server
    BY <1>1, SameTree DEF Unmoved
<1>3. \A p \in Packages, f \in Paths : park[p][f] = before.park[p][f]
    BY <1>1 DEF Trees, Unmoved
<1>4. park = before.park
    BY <1>3, SamePark
<1>5. QED
    BY <1>2, <1>4 DEF Trees, Same

(* The settling is over, for the runner or for the sweep. *)
LEMMA ToggleSettled ==
    ASSUME TypeInv, ModInv, QuietInv, SettleDone
    PROVE  QuietInv'
<1> USE DEF SettleDone
<1>1. job.kind = "toggle" /\ pc = "settle" /\ pc # "idle" /\ todo = {}
    BY DEF ModInv, Spent
<1>2. TSettle /\ ToggleOk
    BY <1>1 DEF QuietInv, ToggleAt, ToggleOk
<1>3. Same
    <2>1. \A f \in Movable : Unmoved(f)
        BY <1>1, <1>2 DEF TSettle
    <2>2. QED
        BY <2>1, <1>2, SettledIsSame DEF TSettle, ToggleOk
<1>4. Same'
    BY <1>3 DEF Same
<1>5. CASE outcome = "interrupted"
    <2>1. pc' = "idle" /\ outcome' = "interrupted"
        BY <1>5
    <2>2. AtRest(before.rows, before.server, before.park)'
        BY BeforeRests DEF QuietInv
    <2>3. AtRest(rows, server, park)
        BY <1>3 DEF QuietInv, Same
    <2>4. AtRest(rows, server, park)'
        BY <2>3, RestStands
    <2>5. QED
        BY <1>4, <2>1, <2>2, <2>4 DEF QuietInv, IdleOk
<1>6. CASE outcome # "interrupted"
    <2>1. pc' = "finish" /\ UNCHANGED job /\ outcome' = "failed"
        BY <1>2, <1>6 DEF TSettle
    <2>2. Trees'
        BY <2>1, <1>2, TreesStand DEF TSettle
    <2>3. TFinish'
        BY <2>1, <2>2, <1>4 DEF TFinish
    <2>4. ToggleOk' => ToggleAt'
        BY <2>1, <2>3 DEF ToggleAt, ToggleOk
    <2>5. QED
        BY <1>1, <2>1, <2>4, ToggleCarries
<1>7. QED
    BY <1>5, <1>6

(* A kill anywhere in a toggle. *)
LEMMA ToggleKilled ==
    ASSUME TypeInv, ModInv, QuietInv, Kill, job.kind = "toggle", hit = {}, hit' = {}
    PROVE  QuietInv'
<1> USE DEF Kill
<1>0. Moment = {}
    OBVIOUS
<1>1. outcome # "interrupted" /\ pc # "idle" /\ pc # "down"
    BY <1>0 DEF Moment
<1>2. pc' = "down" /\ UNCHANGED <<job, before, rows, server, park>>
    BY <1>1
<1>3. Trees
    BY <1>1 DEF QuietInv, ToggleAt, TMove, TSettle, TFinish
<1>4. Trees'
    BY <1>2, <1>3, TreesStand
<1>5. ToggleOk' => ToggleAt'
    BY <1>2, <1>4 DEF ToggleAt, ToggleOk
<1>6. QED
    BY <1>1, <1>2, <1>5, ToggleCarries

(* SweepModToggle. *)
LEMMA ToggleSwept ==
    ASSUME TypeInv, ModInv, QuietInv, Boot, job.kind = "toggle"
    PROVE  QuietInv'
<1> USE DEF Boot
<1>1. pc = "down" /\ pc # "idle" /\ Trees
    BY DEF QuietInv, ToggleAt, ToggleOk
<1>2. pc' = "settle" /\ outcome' = "interrupted" /\ todo' = Settleable(Toggled)
    OBVIOUS
<1>3. Trees' /\ Movable' = Movable
    BY <1>1, TreesStand, ToggleNames
<1>4. todo' = Movable
    BY <1>1, <1>2 DEF Settleable, Movable, Trees
<1>5. TSettle'
    BY <1>2, <1>3, <1>4 DEF TSettle
<1>6. ToggleOk' => ToggleAt'
    BY <1>2, <1>5 DEF ToggleAt, ToggleOk
<1>7. QED
    BY <1>1, <1>2, <1>6, ToggleCarries

(* finishToggle: the row follows the files. *)
LEMMA ToggleFinishes ==
    ASSUME TypeInv, ModInv, QuietInv, Finish, job.kind = "toggle"
    PROVE  QuietInv'
<1> USE DEF Finish
<1>1. pc = "finish" /\ pc # "idle" /\ TFinish /\ ToggleOk /\ pc' = "idle"
    BY DEF QuietInv, ToggleAt, ToggleOk
<1>b. AtRest(before.rows, before.server, before.park)'
    BY BeforeRests DEF QuietInv
<1>r. AtRest(before.rows, before.server, before.park)
    BY DEF QuietInv
<1>2. CASE outcome # "ok"
    <2>1. Same' /\ Same /\ UNCHANGED <<rows, server, park>>
        BY <1>1, <1>2 DEF TFinish, Same
    <2>2. AtRest(rows, server, park)
        BY <2>1 DEF QuietInv, Same
    <2>3. AtRest(rows, server, park)'
        BY <2>1, <2>2, RestStands
    <2>4. QED
        BY <1>1, <1>2, <1>b, <2>1, <2>3 DEF QuietInv, IdleOk
<1>3. CASE outcome = "ok"
    <2>d. PICK t \in Packages : t = Toggled
        BY <1>1 DEF ToggleOk
    <2>t. /\ Scope = {t} /\ job.want[t] = Way /\ Way \in {"enable", "disable"} /\ job.want[t] # "remove"
          /\ before.rows[t].ver # "-"
          /\ before.rows[t].enabled = (IF Way = "enable" THEN "no" ELSE "yes")
        BY <1>1, <2>d DEF ToggleOk, Way
    <2>1. /\ Trees /\ rows = before.rows /\ moved = ToMove
          /\ \A f \in Paths \ ToMove : server[f] = before.server[f] /\ park[t][f] = before.park[t][f]
          /\ \A f \in ToMove : Over(f)
        BY <1>1, <1>3, <2>d DEF TFinish, Trees, Unmoved
    <2>2. ToMove \subseteq Movable /\ Movable = before.rows[t].man \ ConfigPaths /\ Movable \subseteq Paths
        <3>1. before.rows[t].parked \subseteq before.rows[t].man \ ConfigPaths
            BY <1>r DEF AtRest
        <3>2. before.rows[t].man \subseteq Paths
            BY DEF TypeInv, TypeOK, Rows
        <3>3. QED
            BY <3>1, <3>2, <2>d DEF ToMove, Movable
    <2>own. Own = <<t, before.rows[t].ver>> /\ Own # Absent /\ Own # User /\ User # Absent
        BY <2>d, ModAssumption DEF Own, Absent, User
    <2>f. \A f \in ToMove :
            /\ f \in before.rows[t].parked =>
                 before.park[t][f] = Own /\ before.server[f] # Own
            /\ f \notin before.rows[t].parked =>
                 before.park[t][f] = Absent /\ before.server[f] = Own
        BY <2>2, <2>d, <2>t, Found
    <2>3. \A p \in Packages \ {t} : rows'[p] = before.rows[p] /\ park'[p] = before.park[p]
        <3>1. \A p \in Packages \ {t} : park[p] = before.park[p]
            BY <2>1, <2>d DEF Trees
        <3>2. QED
            BY <1>3, <2>1, <2>t, <3>1
    <2>4. UserKept'
        <3>1. UserKept
            <4> SUFFICES ASSUME NEW f \in Paths, before.server[f] = User PROVE server[f] = User
                BY DEF UserKept
            <4>1. f \notin ToMove
                <5> SUFFICES ASSUME f \in ToMove PROVE FALSE
                    OBVIOUS
                <5>1. f \in before.rows[t].parked
                    BY <2>f, <2>own
                <5>2. Over(f) /\ before.park[t][f] = Own
                    BY <2>1, <2>f, <5>1
                <5>3. ~Unmoved(f)
                    BY <5>1, <5>2, <2>d, <2>own DEF Over, Unmoved
                <5>4. before.server[f] = Absent
                    BY <5>1, <5>3, <2>1, <2>2, <2>d DEF Trees
                <5>5. QED
                    BY <5>4, <2>own
            <4>2. QED
                BY <4>1, <2>1
        <3>2. QED
            BY <3>1, UserKeptStands
    <2>v. before.rows[t].ver \in Versions \cup {"-"}
        BY DEF TypeInv, TypeOK, Rows
    <2>5. CASE Way = "enable"
        <3>1. rows'[t] = [ver |-> before.rows[t].ver, man |-> before.rows[t].man,
                          parked |-> {}, enabled |-> "yes"]
            BY <1>3, <2>1, <2>t, <2>5 DEF FinishedRow
        <3>2. rows'[t].ver = before.rows[t].ver /\ rows'[t].man = before.rows[t].man
              /\ rows'[t].parked = {} /\ rows'[t].enabled = "yes"
            BY <3>1
        <3>3. \A f \in Paths : park'[t][f] = Absent
            BY <1>3, <2>t, <2>5 DEF EmptiesPark, NoFiles
        <3>4. ToMove = before.rows[t].parked
            BY <2>5, <2>d DEF ToMove
        <3>5. \A f \in ToMove : server[f] = Own
            BY <2>1, <2>d, <3>4 DEF Over
        <3>6. AtRest(rows, server, park)'
            <4>1. \A p \in Packages :
                    /\ rows'[p].ver = "-" => rows'[p] = NoRow
                    /\ rows'[p].parked \subseteq rows'[p].man \ ConfigPaths
                    /\ rows'[p].enabled = "yes" => rows'[p].parked = {}
                BY <2>3, <2>t, <3>2, <1>r DEF AtRest
            <4>2. Disjoint(rows)'
                <5>1. \A p \in Packages : rows'[p].man = before.rows[p].man
                    BY <2>3, <3>2
                <5>2. QED
                    BY <5>1, <1>r DEF AtRest, Disjoint
            <4>3. \A p \in Packages, f \in Paths :
                    park'[p][f] = IF f \in rows'[p].parked THEN <<p, rows'[p].ver>> ELSE Absent
                BY <2>3, <3>2, <3>3, <1>r DEF AtRest
            <4>4. ASSUME NEW p \in Packages, NEW f \in (rows'[p].man \ rows'[p].parked) \ ConfigPaths
                  PROVE  server[f] = <<p, rows'[p].ver>>
                <5>1. CASE p = t
                    <6>1. f \in Movable /\ f \in Paths
                        BY <5>1, <4>4, <3>2, <2>2
                    <6>2. CASE f \in ToMove
                        BY <5>1, <6>2, <3>2, <3>5, <2>own
                    <6>3. CASE f \notin ToMove
                        <7>1. f \in (before.rows[t].man \ before.rows[t].parked) \ ConfigPaths
                            BY <6>1, <6>3, <2>2, <3>4
                        <7>2. before.server[f] = <<t, before.rows[t].ver>>
                            BY <7>1, <1>r DEF AtRest
                        <7>3. QED
                            BY <5>1, <6>1, <6>3, <7>2, <2>1, <3>2
                    <6>4. QED
                        BY <6>2, <6>3
                <5>2. CASE p # t
                    <6>1. rows'[p] = before.rows[p]
                        BY <5>2, <2>3
                    <6>2. before.server[f] = <<p, before.rows[p].ver>> /\ f \in Paths
                        BY <6>1, <4>4, <1>r DEF AtRest, TypeInv, TypeOK, Rows
                    <6>3. f \notin ToMove
                        <7>1. f \notin before.rows[t].man
                            BY <5>2, <6>1, <4>4, <1>r DEF AtRest, Disjoint
                        <7>2. QED
                            BY <7>1, <2>2
                    <6>4. QED
                        BY <6>1, <6>2, <6>3, <2>1
                <5>3. QED
                    BY <5>1, <5>2
            <4>5. ASSUME NEW p \in Packages, NEW f \in Paths \ ConfigPaths, NEW v \in Versions \cup {"-"},
                         server[f] = <<p, v>>
                  PROVE  f \in rows'[p].man \ rows'[p].parked /\ v = rows'[p].ver
                <5>1. CASE f \in ToMove
                    <6>1. p = t /\ v = before.rows[t].ver
                        BY <5>1, <4>5, <3>5, <2>own
                    <6>2. QED
                        BY <5>1, <6>1, <2>2, <3>2
                <5>2. CASE f \notin ToMove
                    <6>1. f \in before.rows[p].man \ before.rows[p].parked /\ v = before.rows[p].ver
                        BY <5>2, <4>5, <2>1, <1>r DEF AtRest
                    <6>2. QED
                        BY <6>1, <2>3, <3>2
                <5>3. QED
                    BY <5>1, <5>2
            <4>6. server' = server
                OBVIOUS
            <4>7. QED
                BY <4>1, <4>2, <4>3, <4>4, <4>5, <4>6 DEF AtRest
        <3>7. QED
            BY <1>1, <1>3, <1>b, <2>4, <3>6 DEF QuietInv, IdleOk
    <2>6. CASE Way = "disable"
        <3>0. before.rows[t].parked = {} /\ Way # "enable"
            BY <2>6, <2>t, <1>r DEF AtRest
        <3>1. rows'[t] = [ver |-> before.rows[t].ver, man |-> before.rows[t].man,
                          parked |-> ToMove, enabled |-> "no"]
            BY <1>3, <2>1, <2>t, <2>6, <3>0 DEF FinishedRow
        <3>2. rows'[t].ver = before.rows[t].ver /\ rows'[t].man = before.rows[t].man
              /\ rows'[t].parked = ToMove /\ rows'[t].enabled = "no"
            BY <3>1
        <3>3. park'[t] = park[t]
            BY <1>3, <2>t, <3>0 DEF EmptiesPark
        <3>4. ToMove = Movable
            BY <3>0, <2>d, <2>2 DEF ToMove, Movable
        <3>5. \A f \in ToMove : server[f] = Absent /\ park[t][f] = Own
            BY <2>1, <2>d, <3>0 DEF Over
        <3>6. AtRest(rows, server, park)'
            <4>1. \A p \in Packages :
                    /\ rows'[p].ver = "-" => rows'[p] = NoRow
                    /\ rows'[p].parked \subseteq rows'[p].man \ ConfigPaths
                    /\ rows'[p].enabled = "yes" => rows'[p].parked = {}
                BY <2>2, <2>3, <2>t, <3>2, <1>r DEF AtRest
            <4>2. Disjoint(rows)'
                <5>1. \A p \in Packages : rows'[p].man = before.rows[p].man
                    BY <2>3, <3>2
                <5>2. QED
                    BY <5>1, <1>r DEF AtRest, Disjoint
            <4>3. ASSUME NEW p \in Packages, NEW f \in Paths
                  PROVE  park'[p][f] = IF f \in rows'[p].parked THEN <<p, rows'[p].ver>> ELSE Absent
                <5>1. CASE p # t
                    BY <5>1, <2>3, <1>r DEF AtRest
                <5>2. CASE p = t /\ f \in ToMove
                    BY <5>2, <3>2, <3>3, <3>5, <2>own
                <5>3. CASE p = t /\ f \notin ToMove
                    <6>1. before.park[t][f] = Absent
                        BY <3>0, <1>r DEF AtRest
                    <6>2. QED
                        BY <5>3, <6>1, <2>1, <3>2, <3>3
                <5>4. QED
                    BY <5>1, <5>2, <5>3
            <4>4. ASSUME NEW p \in Packages, NEW f \in (rows'[p].man \ rows'[p].parked) \ ConfigPaths
                  PROVE  server[f] = <<p, rows'[p].ver>>
                <5>1. p # t
                    BY <4>4, <3>2, <3>4, <2>2
                <5>2. rows'[p] = before.rows[p]
                    BY <5>1, <2>3
                <5>3. before.server[f] = <<p, before.rows[p].ver>> /\ f \in Paths
                    BY <5>2, <4>4, <1>r DEF AtRest, TypeInv, TypeOK, Rows
                <5>4. f \notin ToMove
                    <6>1. f \notin before.rows[t].man
                        BY <5>1, <5>2, <4>4, <1>r DEF AtRest, Disjoint
                    <6>2. QED
                        BY <6>1, <2>2
                <5>5. QED
                    BY <5>2, <5>3, <5>4, <2>1
            <4>5. ASSUME NEW p \in Packages, NEW f \in Paths \ ConfigPaths, NEW v \in Versions \cup {"-"},
                         server[f] = <<p, v>>
                  PROVE  f \in rows'[p].man \ rows'[p].parked /\ v = rows'[p].ver
                <5>1. f \notin ToMove
                    BY <4>5, <3>5, ModAssumption DEF Absent
                <5>2. f \in before.rows[p].man \ before.rows[p].parked /\ v = before.rows[p].ver
                    BY <5>1, <4>5, <2>1, <1>r DEF AtRest
                <5>3. p # t
                    BY <5>1, <5>2, <4>5, <3>4, <2>2
                <5>4. QED
                    BY <5>2, <5>3, <2>3
            <4>6. server' = server
                OBVIOUS
            <4>7. QED
                BY <4>1, <4>2, <4>3, <4>4, <4>5, <4>6 DEF AtRest
        <3>7. QED
            BY <1>1, <1>3, <1>b, <2>4, <3>6 DEF QuietInv, IdleOk
    <2>7. QED
        BY <2>5, <2>6, <2>t
<1>4. QED
    BY <1>2, <1>3

(* A claim finds the stores at rest and remembers them. *)
LEMMA ClaimRemembers ==
    ASSUME QuietInv, NEW kind, NEW want, NEW answer, NEW configs, NEW first,
           Claim(kind, want, answer, configs, first)
    PROVE  /\ Same' /\ before'.rows = rows /\ before'.server = server /\ before'.park = park
           /\ UNCHANGED <<rows, server, park>>
           /\ AtRest(rows, server, park)
           /\ AtRest(before.rows, before.server, before.park)'
           /\ job' = [kind |-> kind, want |-> want, answer |-> answer, configs |-> configs]
           /\ pc' = first /\ outcome' = "running" /\ mark' = "none" /\ moved' = {}
           /\ \A p \in Packages : prev'[p] = NoPrev
<1> USE DEF Claim, EmptyStaging
<1>1. before'.rows = rows /\ before'.server = server /\ before'.park = park
    BY DEF Snapshot
<1>2. Same'
    BY <1>1 DEF Same
<1>3. AtRest(rows, server, park)
    BY DEF QuietInv, IdleOk
<1>4. AtRest(before.rows, before.server, before.park)'
    BY <1>1, <1>3 DEF AtRest, Disjoint
<1>5. QED
    BY <1>1, <1>2, <1>3, <1>4

(* An install is claimed. *)
LEMMA SubmitRests ==
    ASSUME QuietInv, Submit
    PROVE  QuietInv'
<1>1. PICK want \in [Packages -> Versions \cup {"-", "remove"}], answer \in {"ask", "keep", "replace"} :
        /\ \A p \in Packages :
              /\ want[p] # rows[p].ver \/ want[p] = "-"
              /\ want[p] = "remove" => Installed(p) /\ rows[p].enabled = "yes"
        /\ Claim("install", want, answer, {}, "prepare")
    BY DEF Submit
<1>2. /\ Same' /\ before'.rows = rows
      /\ AtRest(before.rows, before.server, before.park)'
      /\ job' = [kind |-> "install", want |-> want, answer |-> answer, configs |-> {}]
      /\ pc' = "prepare" /\ outcome' = "running" /\ mark' = "none"
      /\ \A p \in Packages : prev'[p] = NoPrev
    BY <1>1, ClaimRemembers
<1>3. job'.want = want /\ job'.kind = "install"
    BY <1>2
<1>4. IWant'
    <2> SUFFICES ASSUME NEW p \in Packages
                 PROVE  /\ want[p] \in Versions \cup {"-", "remove"}
                        /\ want[p] \in Versions => want[p] # rows[p].ver
                        /\ want[p] = "remove" => rows[p].ver # "-"
        BY <1>2, <1>3 DEF IWant
    <2>1. "-" \notin Versions
        BY ModAssumption
    <2>2. QED
        BY <1>1, <2>1 DEF Installed
<1>5. IPrepare'
    BY <1>2 DEF IPrepare
<1>6. InstallAt'
    BY <1>2, <1>4, <1>5 DEF InstallAt
<1>7. QED
    BY <1>2, <1>3, <1>6 DEF QuietInv

(* An uninstall is claimed. *)
LEMMA SubmitUninstallRests ==
    ASSUME QuietInv, SubmitUninstall
    PROVE  QuietInv'
<1>1. PICK want \in [Packages -> {"-", "remove"}], configs \in SUBSET ConfigPaths :
        /\ \A p \in Packages : want[p] = "remove" => Installed(p)
        /\ Claim("uninstall", want, "ask", configs, "save")
        /\ todo' = RemovalPaths(want, configs)
    BY DEF SubmitUninstall
<1>2. /\ Same' /\ before'.rows = rows
      /\ AtRest(before.rows, before.server, before.park)'
      /\ job' = [kind |-> "uninstall", want |-> want, answer |-> "ask", configs |-> configs]
      /\ pc' = "save" /\ outcome' = "running" /\ mark' = "none"
    BY <1>1, ClaimRemembers
<1>3. job'.want = want /\ job'.kind = "uninstall" /\ job'.configs = configs
    BY <1>2
<1>4. {q \in Packages : want[q] = "remove"} = Scope'
    BY <1>1, <1>3 DEF Scope
<1>5. todo' = Removal'
    BY <1>1, <1>2, <1>3, <1>4 DEF RemovalPaths, Removal
<1>6. USave'
    BY <1>2, <1>5 DEF USave
<1>7. \A p \in Packages : job'.want[p] \in {"-", "remove"} /\ (job'.want[p] = "remove" => before'.rows[p].ver # "-")
    BY <1>1, <1>2, <1>3 DEF Installed
<1>8. UninstallAt'
    BY <1>2, <1>6, <1>7 DEF UninstallAt, UWant
<1>9. QED
    BY <1>2, <1>3, <1>8 DEF QuietInv

(* A disable or an enable is claimed. *)
LEMMA SubmitToggleRests ==
    ASSUME TypeInv, QuietInv, SubmitToggle
    PROVE  QuietInv'
<1>1. PICK p \in Packages, way \in {"enable", "disable"} :
        /\ Installed(p)
        /\ rows[p].enabled # (IF way = "enable" THEN "yes" ELSE "no")
        /\ Claim("toggle", [NoJob.want EXCEPT ![p] = way], "ask", {}, "move")
        /\ todo' = MovePaths(p, way)
    BY DEF SubmitToggle
<1> DEFINE w == [NoJob.want EXCEPT ![p] = way]
<1>2. /\ Same' /\ before'.rows = rows /\ before'.server = server /\ before'.park = park
      /\ UNCHANGED <<rows, server, park>>
      /\ AtRest(rows, server, park)
      /\ AtRest(before.rows, before.server, before.park)'
      /\ job' = [kind |-> "toggle", want |-> w, answer |-> "ask", configs |-> {}]
      /\ pc' = "move" /\ outcome' = "running" /\ moved' = {}
    BY <1>1, ClaimRemembers
<1>3. job'.want = w /\ job'.kind = "toggle"
    BY <1>2
<1>4. \A q \in Packages : w[q] = IF q = p THEN way ELSE "-"
    BY Shapes
<1> HIDE DEF w
<1>5. Toggled' = p /\ Way' = way /\ Scope' = {p}
    <2>1. job'.want[p] # "-"
        BY <1>3, <1>4
    <2>2. Toggled' \in Packages /\ job'.want[Toggled'] # "-"
        BY <2>1 DEF Toggled
    <2>3. Toggled' = p
        BY <2>2, <1>3, <1>4
    <2>4. QED
        BY <2>3, <1>3, <1>4 DEF Way, Scope
<1>6. rows[p].enabled = (IF way = "enable" THEN "no" ELSE "yes") /\ rows[p].ver # "-"
    <2>1. rows[p].enabled \in {"yes", "no"}
        BY DEF TypeInv, TypeOK, Rows
    <2>2. QED
        BY <1>1, <2>1 DEF Installed
<1>7. ToMove' = MovePaths(p, way) /\ Movable' = rows[p].man \ ConfigPaths /\ Own' = <<p, rows[p].ver>>
    BY <1>2, <1>5 DEF ToMove, MovePaths, Movable, Own
<1>8. \A f \in Paths : Unmoved(f)'
    BY <1>2, <1>5 DEF Unmoved
<1>m. rows[p].man \subseteq Paths /\ rows[p].parked \subseteq rows[p].man \ ConfigPaths
    BY <1>2 DEF AtRest, TypeInv, TypeOK, Rows
<1>9. Trees'
    BY <1>2, <1>5, <1>7, <1>8, <1>m DEF Trees
<1>10. \A f \in todo' : ~Over(f)'
    <2> SUFFICES ASSUME NEW f \in MovePaths(p, way) PROVE ~Over(f)'
        BY <1>1
    <2>0. <<p, rows[p].ver>> # Absent
        BY ModAssumption DEF Absent
    <2>1. CASE way = "enable"
        <3>1. f \in rows[p].parked /\ f \in Paths
            BY <2>1, <1>m DEF MovePaths
        <3>2. park[p][f] = <<p, rows[p].ver>>
            BY <3>1, <1>2 DEF AtRest
        <3>3. QED
            BY <3>1, <3>2, <2>0, <1>2, <1>5 DEF Over
    <2>2. CASE way = "disable"
        <3>1. f \in (rows[p].man \ rows[p].parked) \ ConfigPaths
            BY <2>2 DEF MovePaths
        <3>2. server[f] = <<p, rows[p].ver>>
            BY <3>1, <1>2 DEF AtRest
        <3>3. QED
            BY <3>1, <3>2, <2>0, <1>2, <1>5 DEF Over
    <2>3. QED
        BY <2>1, <2>2
<1>11. TMove'
    BY <1>1, <1>2, <1>7, <1>8, <1>9, <1>10 DEF TMove
<1>12. ToggleAt'
    BY <1>2, <1>5, <1>6, <1>11 DEF ToggleAt, ToggleOk
<1>13. QED
    BY <1>2, <1>3, <1>12 DEF QuietInv

(* The operator's hand spoils nothing a row speaks of. *)
LEMMA PutRests ==
    ASSUME TypeInv, QuietInv, Put
    PROVE  QuietInv'
<1> USE DEF Put
<1>1. PICK f \in Paths : /\ server[f] = Absent \/ f \in ConfigPaths
                         /\ server' = [server EXCEPT ![f] = User]
    OBVIOUS
<1>2. \A g \in Paths : server'[g] = IF g = f THEN User ELSE server[g]
    BY <1>1 DEF TypeInv, TypeOK
<1>3. AtRest(rows, server, park)
    BY DEF QuietInv, IdleOk
<1>4. AtRest(before.rows, before.server, before.park)'
    BY BeforeRests DEF QuietInv
<1>5. AtRest(rows, server, park)'
    <2>1. \A p \in Packages : rows[p].man \subseteq Paths /\ rows[p].ver \in Versions \cup {"-"}
        BY DEF TypeInv, TypeOK, Rows
    <2>2. ASSUME NEW p \in Packages, NEW g \in (rows[p].man \ rows[p].parked) \ ConfigPaths
          PROVE  server'[g] = <<p, rows[p].ver>>
        <3>1. server[g] = <<p, rows[p].ver>> /\ g \in Paths
            BY <2>1, <2>2, <1>3 DEF AtRest
        <3>2. <<p, rows[p].ver>> # Absent
            BY ModAssumption DEF Absent
        <3>3. g # f
            BY <3>1, <3>2, <2>2, <1>1
        <3>4. QED
            BY <3>1, <3>3, <1>2
    <2>3. ASSUME NEW p \in Packages, NEW g \in Paths \ ConfigPaths, NEW v \in Versions \cup {"-"},
                 server'[g] = <<p, v>>
          PROVE  g \in rows[p].man \ rows[p].parked /\ v = rows[p].ver
        <3>1. <<p, v>> # User
            BY ModAssumption DEF User
        <3>2. server[g] = <<p, v>>
            BY <3>1, <2>3, <1>2
        <3>3. QED
            BY <3>2, <2>3, <1>3 DEF AtRest
    <2>4. rows' = rows /\ park' = park
        OBVIOUS
    <2>5. /\ \A p \in Packages :
               /\ rows'[p].ver = "-" => rows'[p] = NoRow
               /\ rows'[p].parked \subseteq rows'[p].man \ ConfigPaths
               /\ rows'[p].enabled = "yes" => rows'[p].parked = {}
          /\ Disjoint(rows)'
          /\ \A p \in Packages, g \in Paths :
               park'[p][g] = IF g \in rows'[p].parked THEN <<p, rows'[p].ver>> ELSE Absent
        BY <2>4, <1>3 DEF AtRest, Disjoint
    <2>6. QED
        BY <2>2, <2>3, <2>4, <2>5 DEF AtRest
<1>6. QED
    BY <1>4, <1>5 DEF QuietInv, IdleOk

(* The starting tables and trees agree. *)
LEMMA StoresInit == Init => StoresInv
<1> SUFFICES ASSUME Init PROVE QuietInv
    BY DEF StoresInv
<1> USE DEF Init
<1>1. rows \in Starts /\ rows \in [Packages -> Rows]
    BY StartsAssumption
<1>2. \A p \in Packages :
        /\ rows[p].ver = "-" => rows[p] = NoRow
        /\ rows[p].parked = IF rows[p].enabled = "no" THEN rows[p].man \ ConfigPaths ELSE {}
        /\ \A q \in Packages \ {p} : rows[p].man \cap rows[q].man = {}
    BY <1>1, StartsAssumption
<1>3. Disjoint(rows)
    BY <1>2 DEF Disjoint
<1>4. \A p \in Packages : rows[p].man \subseteq Paths /\ rows[p].ver \in Versions \cup {"-"}
    BY <1>1 DEF Rows
<1>5. ASSUME NEW p \in Packages, NEW f \in rows[p].man \ rows[p].parked
      PROVE  server[f] = <<p, rows[p].ver>>
    <2> DEFINE owners == {q \in Packages : f \in rows[q].man \ rows[q].parked}
    <2>1. owners = {p}
        BY <1>3, <1>5 DEF Disjoint
    <2>2. (CHOOSE q \in owners : TRUE) = p
        BY <2>1
    <2>3. FilesOf(rows, f) = <<p, rows[p].ver>>
        BY <2>1, <2>2 DEF FilesOf
    <2>4. QED
        BY <2>3, <1>4, <1>5
<1>6. ASSUME NEW p \in Packages, NEW f \in Paths \ ConfigPaths, NEW v \in Versions \cup {"-"},
             server[f] = <<p, v>>
      PROVE  f \in rows[p].man \ rows[p].parked /\ v = rows[p].ver
    <2> DEFINE owners == {q \in Packages : f \in rows[q].man \ rows[q].parked}
    <2>1. server[f] = FilesOf(rows, f)
        OBVIOUS
    <2>2. owners # {}
        <3> SUFFICES ASSUME owners = {} PROVE FALSE
            OBVIOUS
        <3>1. server[f] = Absent
            BY <2>1 DEF FilesOf
        <3>2. QED
            BY <3>1, <1>6, ModAssumption DEF Absent
    <2>3. PICK q \in owners : q = CHOOSE x \in owners : TRUE
        BY <2>2, SMTT(20)
    <2>4. server[f] = <<q, rows[q].ver>>
        BY <2>1, <2>2, <2>3 DEF FilesOf
    <2>5. q \in Packages /\ f \in rows[q].man \ rows[q].parked
        BY <2>3
    <2>6. q = p /\ v = rows[q].ver
        BY <2>4, <1>6
    <2>7. QED
        BY <2>5, <2>6
<1>7. \A p \in Packages, f \in Paths : park[p][f] = IF f \in rows[p].parked THEN <<p, rows[p].ver>> ELSE Absent
    OBVIOUS
<1>8. AtRest(rows, server, park)
    <2> HIDE DEF Init
    <2>1. \A p \in Packages :
            /\ rows[p].ver = "-" => rows[p] = NoRow
            /\ rows[p].parked \subseteq rows[p].man \ ConfigPaths
            /\ rows[p].enabled = "yes" => rows[p].parked = {}
        BY <1>2
    <2>2. QED
        BY <2>1, <1>3, <1>5, <1>6, <1>7 DEF AtRest
<1>9. AtRest(before.rows, before.server, before.park)
    BY <1>8 DEF Snapshot
<1>10. QED
    BY <1>8, <1>9 DEF QuietInv, IdleOk

(* Nothing at all happens. *)
LEMMA StillRests ==
    ASSUME QuietInv, UNCHANGED vars
    PROVE  QuietInv'
<1> USE DEF vars
<1>1. AtRest(before.rows, before.server, before.park)'
    BY BeforeRests DEF QuietInv
<1>2. CASE pc = "idle"
    <2>1. AtRest(rows, server, park)'
        BY <1>2, RestStands DEF QuietInv, IdleOk
    <2>2. (Same => Same') /\ (UserKept => UserKept')
        BY UserKeptStands DEF Same
    <2>3. QED
        BY <1>1, <1>2, <2>1, <2>2 DEF QuietInv, IdleOk
<1>s. Scope' = Scope /\ (Same => Same') /\ (UserKept => UserKept')
      /\ (AtRest(rows, server, park) => AtRest(rows, server, park)')
    BY ScopeStands, UserKeptStands, RestStands DEF Same
<1>3. CASE pc # "idle" /\ job.kind = "install"
    <2>1. (PlanOk => PlanOk' /\ InstallEntries' = InstallEntries) /\ (IWant => IWant')
        BY PlanStands, ScopeStands
    <2>2. Backed /\ WithPlan => Backed' /\ WithPlan' /\ InstallEntries' = InstallEntries
        BY BackedStands
    <2>3. SweepEntries' = SweepEntries /\ (Revertible => Revertible') /\ (NewRows => NewRows')
        BY SweepStands, NewRowsStand
    <2>4. \A f : PlacedAt(f)' = PlacedAt(f)
        BY <1>s DEF PlacedAt
    <2>5. (IPrepare => IPrepare') /\ (ISave => ISave')
        BY <1>s, <2>1 DEF IPrepare, ISave
    <2>6. (IWrite => IWrite') /\ (IWritten => IWritten')
        BY <1>s, <2>2, <2>3 DEF IWrite, IWritten
    <2>7. IPlace => IPlace'
        BY <2>2, <2>3, <2>4 DEF IPlace
    <2>8. IRollback => IRollback'
        BY <2>2, <2>3 DEF IRollback
    <2>9. (IDown => IDown') /\ (IDone => IDone')
        BY <1>s, <2>3 DEF IDown, IDone
    <2>10. InstallAt'
        BY <1>3, <2>1, <2>5, <2>6, <2>7, <2>8, <2>9 DEF QuietInv, InstallAt
    <2>11. QED
        BY <1>1, <1>3, <2>10 DEF QuietInv
<1>4. CASE pc # "idle" /\ job.kind = "uninstall"
    <2>1. Removal' = Removal /\ \A f : (ParkedIn(f)' = ParkedIn(f))
        BY RemovalStands
    <2>2. (Kept => Kept') /\ (Apart => Apart') /\ (Gone(Removal) => Gone(Removal)')
        BY KeptStands, ApartStands
    <2>3. Gone(Removal \ todo) => Gone(Removal \ todo)'
        BY <2>1 DEF Gone
    <2>4. (USave => USave') /\ (UPlace => UPlace') /\ (URollback => URollback') /\ (UDown => UDown')
          /\ (UDone => UDone')
        BY <1>s, <2>1, <2>2, <2>3 DEF USave, UPlace, URollback, UDown, UDone
    <2>5. UninstallAt'
        BY <1>4, <2>4 DEF QuietInv, UninstallAt, UWant
    <2>6. QED
        BY <1>1, <1>4, <2>5 DEF QuietInv
<1>5. CASE pc # "idle" /\ job.kind = "toggle"
    <2>1. (Trees => Trees') /\ \A f : Unmoved(f)' = Unmoved(f) /\ Over(f)' = Over(f)
        BY TreesStand
    <2>2. Toggled' = Toggled /\ Way' = Way /\ Movable' = Movable /\ ToMove' = ToMove
        BY ToggleNames
    <2>3. (TMove => TMove') /\ (TSettle => TSettle') /\ (TFinish => TFinish')
        BY <1>s, <2>1, <2>2 DEF TMove, TSettle, TFinish
    <2>4. ToggleAt'
        BY <1>5, <1>s, <2>1, <2>2, <2>3 DEF QuietInv, ToggleAt, ToggleOk
    <2>5. QED
        BY <1>1, <1>5, <2>4 DEF QuietInv
<1>6. QED
    BY <1>2, <1>3, <1>4, <1>5 DEF QuietInv

(* Every step keeps the stores' invariant, as long as no mishap falls. *)
LEMMA StoresStep == TypeInv /\ ModInv /\ StoresInv /\ [Next]_vars => StoresInv'
<1> SUFFICES ASSUME TypeInv, ModInv, StoresInv, [Next]_vars, hit' = {} PROVE QuietInv'
    BY DEF StoresInv
<1>h. hit = {}
    <2>1. hit \subseteq hit'
        BY DEF Next, vars, Submit, SubmitUninstall, SubmitToggle, Claim, Prepare, SaveOne, MarkSaved,
               WriteManifests, MarkWritten, Place, MarkApplied, Rollback, Stick, RollbackRows, Move,
               MoveDone, Settle, SettleDone, Cleanup, Finish, Kill, Boot, Put, Rest
    <2>2. QED
        BY <2>1
<1>q. QuietInv
    BY <1>h DEF StoresInv
<1>k. pc # "idle" => job.kind \in {"install", "uninstall", "toggle"}
    BY <1>q DEF QuietInv
<1>1. CASE Submit
    BY <1>1, <1>q, SubmitRests
<1>2. CASE SubmitUninstall
    BY <1>2, <1>q, SubmitUninstallRests
<1>3. CASE SubmitToggle
    BY <1>3, <1>q, SubmitToggleRests
<1>4. CASE Prepare
    BY <1>4, <1>q, PrepareStands
<1>5. CASE SaveOne
    <2>1. job.kind \in {"install", "uninstall"}
        BY <1>5, <1>k DEF SaveOne, ModInv, Spent
    <2>2. QED
        BY <2>1, <1>5, <1>q, InstallSaves, UninstallSaves
<1>6. CASE MarkSaved
    <2>1. job.kind \in {"install", "uninstall"}
        BY <1>6, <1>k DEF MarkSaved, ModInv, Spent
    <2>2. QED
        BY <2>1, <1>6, <1>q, InstallBacksUp, UninstallSaved
<1>7. CASE WriteManifests
    BY <1>7, <1>q, InstallWrites
<1>8. CASE MarkWritten
    BY <1>8, <1>q, InstallWritten
<1>9. CASE Place
    <2>1. job.kind \in {"install", "uninstall"}
        BY <1>9, <1>k DEF Place, ModInv, Spent
    <2>2. QED
        BY <2>1, <1>9, <1>q, InstallPlaces, UninstallPlaces
<1>10. CASE MarkApplied
    <2>1. job.kind \in {"install", "uninstall"}
        BY <1>10, <1>k DEF MarkApplied, ModInv, Spent
    <2>2. QED
        BY <2>1, <1>10, <1>q, InstallApplied, UninstallApplied
<1>11. CASE Rollback
    <2>1. job.kind \in {"install", "uninstall"}
        BY <1>11, <1>k DEF Rollback, ModInv, Spent
    <2>2. QED
        BY <2>1, <1>11, <1>h, <1>q, InstallRollsBack, UninstallRollsBack
<1>12. CASE RollbackRows
    <2>1. job.kind \in {"install", "uninstall"}
        BY <1>12, <1>k DEF RollbackRows, ModInv, Spent
    <2>2. QED
        BY <2>1, <1>12, <1>h, <1>q, InstallRowsReturn, UninstallRowsReturn
<1>13. CASE Move
    BY <1>13, <1>q, ToggleMoves
<1>14. CASE MoveDone
    BY <1>14, <1>q, ToggleMoved
<1>15. CASE Settle
    BY <1>15, <1>q, ToggleSettles
<1>16. CASE SettleDone
    BY <1>16, <1>q, ToggleSettled
<1>17. CASE Cleanup
    <2>1. job.kind \in {"install", "uninstall"}
        BY <1>17, <1>q DEF Cleanup, QuietInv, ToggleAt
    <2>2. QED
        BY <2>1, <1>17, <1>q, InstallCleansUp, UninstallCleansUp
<1>18. CASE Finish
    <2>1. job.kind \in {"install", "uninstall", "toggle"}
        BY <1>18, <1>k DEF Finish
    <2>2. QED
        BY <2>1, <1>18, <1>q, InstallFinishes, UninstallFinishes, ToggleFinishes
<1>19. CASE Kill
    <2>1. job.kind \in {"install", "uninstall", "toggle"}
        BY <1>19, <1>k DEF Kill
    <2>2. QED
        BY <2>1, <1>19, <1>h, <1>q, InstallKilled, UninstallKilled, ToggleKilled
<1>20. CASE Boot
    <2>1. job.kind \in {"install", "uninstall", "toggle"}
        BY <1>20, <1>k DEF Boot
    <2>2. QED
        BY <2>1, <1>20, <1>q, InstallSwept, UninstallSwept, ToggleSwept
<1>21. CASE Put
    BY <1>21, <1>q, PutRests
<1>22. CASE Rest \/ UNCHANGED vars
    BY <1>22, <1>q, StillRests DEF Rest
<1>23. QED
    BY <1>1, <1>2, <1>3, <1>4, <1>5, <1>6, <1>7, <1>8, <1>9, <1>10, <1>11, <1>12,
       <1>13, <1>14, <1>15, <1>16, <1>17, <1>18, <1>19, <1>20, <1>21, <1>22
       DEF Next

(* The variables of ModTransaction keep their shapes. *)
THEOREM ModTypeCorrect == Spec => []TypeOK
<1>1. TypeInv => TypeOK
    BY DEF TypeInv
<1>2. QED
    BY ModInit, ModStep, TypeInit, TypeStep, <1>1, PTL DEF Spec

(* AllOrNothing of ModTransaction: whatever an install, an uninstall or a  *)
(* toggle had done when it failed, was refused, was cancelled or was       *)
(* killed, the rollback or the boot sweep leaves rows, server tree and     *)
(* parking tree exactly as the job found them.                             *)
THEOREM JobsAreAllOrNothing == Spec => []AllOrNothing
<1>1. TypeInv /\ StoresInv => AllOrNothing
    <2> SUFFICES ASSUME TypeInv, StoresInv, pc = "idle", outcome \in {"failed", "interrupted"}, hit = {}
                 PROVE  Snapshot = before
        BY DEF AllOrNothing
    <2>1. Same
        BY DEF StoresInv, QuietInv, IdleOk
    <2>2. before \in [rows : [Packages -> Rows], server : [Paths -> Content],
                      park : [Packages -> [Paths -> Content]]]
        BY DEF TypeInv, TypeOK
    <2>3. QED
        BY <2>1, <2>2 DEF Same, Snapshot
<1>2. QED
    BY ModInit, ModStep, TypeInit, TypeStep, StoresInit, StoresStep, <1>1, PTL DEF Spec

(* RowsDescribeFiles of ModTransaction: between jobs each manifest path    *)
(* outside BepInEx/config/ holds its package's bytes at the recorded       *)
(* version in the tree the row names, and no such file is unaccounted for. *)
THEOREM RowsTellTheFiles == Spec => []RowsDescribeFiles
<1>1. TypeInv /\ StoresInv => RowsDescribeFiles
    <2> SUFFICES ASSUME TypeInv, StoresInv, pc = "idle", hit = {},
                        NEW p \in Packages, NEW f \in Paths \ ConfigPaths
                 PROVE  /\ (f \in rows[p].man \ rows[p].parked) <=> (server[f] = <<p, rows[p].ver>>)
                        /\ (f \in rows[p].parked) <=> (park[p][f] = <<p, rows[p].ver>>)
                        /\ \A v \in Versions \ {rows[p].ver} :
                              server[f] # <<p, v>> /\ park[p][f] # <<p, v>>
        BY DEF RowsDescribeFiles
    <2>1. AtRest(rows, server, park)
        BY DEF StoresInv, QuietInv, IdleOk
    <2>2. rows[p].ver \in Versions \cup {"-"}
        BY DEF TypeInv, TypeOK, Rows
    <2>3. \A v : <<p, v>> # Absent
        BY ModAssumption DEF Absent
    <2>4. park[p][f] = IF f \in rows[p].parked THEN <<p, rows[p].ver>> ELSE Absent
        BY <2>1 DEF AtRest
    <2>5. (f \in rows[p].man \ rows[p].parked) <=> (server[f] = <<p, rows[p].ver>>)
        BY <2>1, <2>2 DEF AtRest
    <2>6. (f \in rows[p].parked) <=> (park[p][f] = <<p, rows[p].ver>>)
        BY <2>3, <2>4
    <2>7. ASSUME NEW v \in Versions \ {rows[p].ver} PROVE server[f] # <<p, v>> /\ park[p][f] # <<p, v>>
        <3>1. server[f] # <<p, v>>
            BY <2>1, <2>7 DEF AtRest
        <3>2. park[p][f] # <<p, v>>
            BY <2>3, <2>4, <2>7
        <3>3. QED
            BY <3>1, <3>2
    <2>8. QED
        BY <2>5, <2>6, <2>7
<1>2. QED
    BY ModInit, ModStep, TypeInit, TypeStep, StoresInit, StoresStep, <1>1, PTL DEF Spec

(* UserFilesKept of ModTransaction: a file the operator wrote by hand      *)
(* outlives every mod job that succeeds, unless it was ticked for removal  *)
(* or answered "replace" to.                                               *)
THEOREM OperatorFilesAreKept == Spec => []UserFilesKept
<1>1. StoresInv => UserFilesKept
    BY DEF StoresInv, QuietInv, IdleOk, UserKept, UserFilesKept
<1>2. QED
    BY ModInit, ModStep, TypeInit, TypeStep, StoresInit, StoresStep, <1>1, PTL DEF Spec

=============================================================================
