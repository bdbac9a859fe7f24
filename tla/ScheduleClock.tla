---------------------------- MODULE ScheduleClock ----------------------------
(***************************************************************************)
(* One row of scheduled_jobs, the scheduler's tick over it, the edits of   *)
(* the schedules API that meet the tick, and the power-cut clock that      *)
(* stops the same server (internal/scheduler, internal/store/schedules.go, *)
(* internal/store/shutdowns.go, internal/api/schedules.go).                *)
(*                                                                         *)
(* Time is counted in ticks of the two clocks.  A wall clock is an offset  *)
(* per instant, and a cron expression is the set of wall readings that it  *)
(* matches.  The tick and an edit each read the row first and write it     *)
(* later; a PATCH decodes its body in between, so time may pass there.     *)
(***************************************************************************)
EXTENDS Integers, FiniteSets

CONSTANTS
    Crons,        \* the expressions an operator may store
    Matches,      \* the wall readings each expression matches
    Offset,       \* the zone's offset at each instant
    Span,         \* the last instant the cron parser looks at
    Horizon,      \* the last instant of the run
    MaxDeferral,  \* max_deferral_seconds
    MaxRun,       \* how long a scheduled run or a start may take
    StopTimeout,  \* how long a stop may take
    MinStopLead,  \* ShutdownStopLead
    QuietLead,    \* ShutdownQuietLead
    Claimable,    \* the states the schedule's kind may be claimed from
    CutTimes,     \* the instants at which a power cut may be planned
    MaxEdits,     \* edits of the schedule
    MaxCuts       \* power cuts on the books at once

None == -1

Instants == 0..Span

\* What the zone's clock shows at instant t.
Wall(t) == t + Offset[t]

Least(S) == CHOOSE x \in S : \A y \in S : x <= y

Ahead(c, t) == {u \in Instants : u > t /\ Wall(u) \in Matches[c]}

ASSUME ClockAssumption ==
    /\ Span \in Nat /\ Horizon \in 0..Span
    /\ Crons # {} /\ Matches \in [Crons -> SUBSET Int]
    /\ Offset \in [Instants -> Int]
    \* No stored expression runs dry, even when one match is passed over.
    /\ \A c \in Crons, t \in 0..Horizon :
          Ahead(c, t) # {} /\ Ahead(c, Least(Ahead(c, t))) # {}

ASSUME LeadAssumption ==
    /\ MaxDeferral \in Nat /\ MaxRun \in Nat /\ StopTimeout \in Nat
    /\ MinStopLead \in Nat /\ QuietLead \in Nat
    /\ Claimable \subseteq {"running", "stopped"}
    /\ CutTimes \subseteq Nat
    /\ MaxEdits \in Nat /\ MaxCuts \in Nat

VARIABLES
    now,      \* the instant
    up,       \* is the panel running
    row,      \* the scheduled_jobs row; .from is history: what .next was computed after
    tick,     \* the scheduler's tick: the last one, and its copy of the row
    patch,    \* a PATCH that has read the row
    edits,    \* edits made
    cuts,     \* planned_shutdowns
    cutTick,  \* the last tick of the power-cut clock
    inst,     \* the instance: running or stopped
    job,      \* the job that holds its lock
    ran,      \* history: wall readings run since the schedule was last timed
    hit       \* history: accidents that happened

vars == <<now, up, row, tick, patch, edits, cuts, cutTick, inst, job, ran, hit>>

(* The accidents: an edit written over a row that moved since it was read, *)
(* a hold stamped on a row that moved, a run made from a row edited after  *)
(* the last look, a run whose row was not advanced, a kill, a power cut    *)
(* planned inside its quiet time, a start by hand in it.                   *)
Accidents == {"stalePatch", "staleStamp", "lateEdit", "unmarked", "kill", "lateCut", "lateStart"}

Clean(these) == hit \cap these = {}

Note(what, happened) == hit' = IF happened THEN hit \cup {what} ELSE hit

-----------------------------------------------------------------------------
(* The calendar. *)

\* Next and NextIn: the first instant after t whose reading matches.
NextIn(c, t) == Least(Ahead(c, t))

\* The instants at which the old offset would have shown a matching reading.
AheadFixed(c, t) == {u \in Instants : u > t /\ u + Offset[t] \in Matches[c]}

Shown == {Wall(t) : t \in Instants}

\* Takes the second showing of a reading for a new occurrence.
NextRunTwice(c, after, last) ==
    LET fixed == AheadFixed(c, after) IN
    IF fixed # {} /\ Least(fixed) < NextIn(c, after) /\ Least(fixed) + Offset[after] \notin Shown
    THEN Least(fixed) ELSE NextIn(c, after)

\* Loses the readings that are jumped over.
NextRunGap(c, after, last) ==
    LET shown == NextIn(c, after) IN
    IF last # None /\ Wall(shown) = Wall(last) THEN NextIn(c, shown) ELSE shown

\* The second showing of the reading just run is passed over; a reading the
\* clock jumped over runs at the instant the old offset names.
NextRun(c, after, last) ==
    LET shown == NextIn(c, after)
        again == last # None /\ Wall(shown) = Wall(last)
        next  == IF again THEN NextIn(c, shown) ELSE shown
        fixed == AheadFixed(c, after)
        early == Least(fixed)
    IN  IF fixed # {} /\ early < next /\ early + Offset[after] \notin Shown
        THEN early ELSE next

-----------------------------------------------------------------------------
(* Rows. *)

Row(state, cron, wait, next, held, from) ==
    [state |-> state, cron |-> cron, wait |-> wait, next |-> next, held |-> held, from |-> from]

Gone == Row("gone", CHOOSE c \in Crons : TRUE, "no", None, None, None)

Idle(at) == [pc |-> "idle", at |-> at, copy |-> Gone, crowd |-> "no"]

Closed == [pc |-> "idle", copy |-> Gone]

Free == [kind |-> "none", end |-> None]

copy == tick.copy

\* A schedule just created, or one stored without a next_run_at by an older build.
Init ==
    /\ now = 0
    /\ up = TRUE
    /\ \E c \in Crons, w \in {"yes", "no"} : \E n \in {None, NextIn(c, 0)} :
          row = Row("on", c, w, n, None, None)
    /\ tick = Idle(None)
    /\ patch = Closed
    /\ edits = 0
    /\ cuts = {}
    /\ cutTick = None
    /\ inst \in {"running", "stopped"}
    /\ job = Free
    /\ ran = {}
    /\ hit = {}

-----------------------------------------------------------------------------
(* The scheduler's tick. *)

Due == row.state = "on" /\ row.next <= now

TickRead ==
    /\ up /\ tick.pc = "idle" /\ tick.at < now
    /\ tick' = IF Due THEN [pc |-> "due", at |-> now, copy |-> row, crowd |-> "no"]
               ELSE Idle(now)
    /\ UNCHANGED <<now, up, row, patch, edits, cuts, cutTick, inst, job, ran, hit>>

\* Ends the occurrence and keeps the hold.
KeepHold(next) ==
    row' = IF row.state # "gone" /\ row.next = copy.next
           THEN Row(row.state, row.cron, row.wait, next, row.held, tick.at)
           ELSE row

\* The row moves only if it still holds the next_run_at that was read.
MarkScheduleRun(next) ==
    row' = IF row.state # "gone" /\ row.next = copy.next
           THEN Row(row.state, row.cron, row.wait, next, None, tick.at)
           ELSE row

\* A row without a next run is given one and does not fire.
TickFirst ==
    /\ tick.pc = "due" /\ copy.next = None
    /\ MarkScheduleRun(NextRun(copy.cron, tick.at, None))
    /\ tick' = Idle(tick.at)
    /\ UNCHANGED <<now, up, patch, edits, cuts, cutTick, inst, job, ran, hit>>

\* Players may be connected only to a running server.
MayBeOccupied(crowd) == crowd = "no" \/ inst = "running"

Overdue == copy.held # None /\ now >= copy.held + MaxDeferral

DeferSchedule ==
    row' = IF copy.held = None /\ row.held = None /\ row.state # "gone"
           THEN Row(row.state, row.cron, row.wait, row.next, now, row.from)
           ELSE row

\* hold: the run waits for players to leave and the row stays due.
TickHold ==
    /\ tick.pc = "due" /\ copy.next # None
    /\ copy.wait = "yes" /\ ~Overdue /\ MayBeOccupied("yes")
    /\ DeferSchedule
    /\ tick' = Idle(tick.at)
    /\ Note("staleStamp", copy.held = None
               /\ (row.state # "on" \/ row.wait # "yes" \/ row.next # copy.next))
    /\ UNCHANGED <<now, up, patch, edits, cuts, cutTick, inst, job, ran>>

\* Nobody waits, nobody is there, or the wait is over.
TickGo(crowd) ==
    /\ tick.pc = "due" /\ copy.next # None
    /\ MayBeOccupied(crowd)
    /\ copy.wait = "no" \/ Overdue \/ crowd = "no"
    /\ tick' = [pc |-> "go", at |-> tick.at, copy |-> copy, crowd |-> crowd]
    /\ UNCHANGED <<now, up, row, patch, edits, cuts, cutTick, inst, job, ran, hit>>

\* The second look, just before the run.
StillDue == row.state = "on" /\ row.cron = copy.cron /\ row.next = copy.next

TickStillDue ==
    /\ tick.pc = "go"
    /\ tick' = IF StillDue
               THEN [pc |-> "fire", at |-> tick.at, copy |-> copy, crowd |-> tick.crowd]
               ELSE Idle(tick.at)
    /\ UNCHANGED <<now, up, row, patch, edits, cuts, cutTick, inst, job, ran, hit>>

PowerCutWithin(window) == \E c \in cuts : c > now /\ c <= now + window

\* Looks for a power cut no further ahead than the stops begin.
AdmitsLate == ~PowerCutWithin(MinStopLead) /\ inst \in Claimable /\ job.kind = "none"

\* What Enqueue asks before it submits: no power cut soon, a state the kind
\* may be claimed from, the instance's lock.
Admits == ~PowerCutWithin(QuietLead) /\ inst \in Claimable /\ job.kind = "none"

ToMark == tick' = [pc |-> "mark", at |-> tick.at, copy |-> copy, crowd |-> "no"]

TickEnqueue ==
    /\ tick.pc = "fire"
    /\ row.state # "gone" /\ Admits
    /\ job' = [kind |-> "run", end |-> now + MaxRun]
    /\ ran' = IF StillDue THEN ran \cup {Wall(copy.next)} ELSE ran
    /\ Note("lateEdit", ~StillDue)
    /\ ToMark
    /\ UNCHANGED <<now, up, row, patch, edits, cuts, cutTick, inst>>

\* A run that may not start is recorded as skipped, and the row moves on all the same.
TickSkip ==
    /\ tick.pc = "fire"
    /\ row.state = "gone" \/ ~Admits
    /\ ToMark
    /\ UNCHANGED <<now, up, row, patch, edits, cuts, cutTick, inst, job, ran, hit>>

TickMark ==
    /\ tick.pc = "mark"
    /\ MarkScheduleRun(NextRun(copy.cron, tick.at, copy.next))
    /\ tick' = Idle(tick.at)
    /\ UNCHANGED <<now, up, patch, edits, cuts, cutTick, inst, job, ran, hit>>

\* The write fails and is logged; the row is still due.
TickMarkFails ==
    /\ tick.pc = "mark"
    /\ tick' = Idle(tick.at)
    /\ Note("unmarked", TRUE)
    /\ UNCHANGED <<now, up, row, patch, edits, cuts, cutTick, inst, job, ran>>

-----------------------------------------------------------------------------
(* The schedules API. *)

PatchRead ==
    /\ up /\ patch.pc = "idle" /\ edits < MaxEdits /\ row.state # "gone"
    /\ patch' = [pc |-> "open", copy |-> row]
    /\ edits' = edits + 1
    /\ UNCHANGED <<now, up, row, tick, cuts, cutTick, inst, job, ran, hit>>

\* applyEdit on the row that was read, and UpdateSchedule on the row that is there.
PatchWrite(c, s, w) ==
    LET was      == patch.copy
        timed    == c # was.cron
        fresh    == timed \/ (s = "on" /\ was.state = "off")
        released == was.held # None /\ (s = "off" \/ timed \/ w = "no")
    IN
    /\ patch.pc = "open"
    /\ row' = IF row.state = "gone" THEN row
              ELSE Row(s, c, w,
                       IF fresh THEN NextIn(c, now) ELSE was.next,
                       IF released THEN None ELSE row.held,
                       IF fresh THEN None ELSE was.from)
    /\ ran' = IF fresh THEN {} ELSE ran
    /\ Note("stalePatch", row # was)
    /\ patch' = Closed
    /\ UNCHANGED <<now, up, tick, edits, cuts, cutTick, inst, job>>

\* The body is refused (422): a bad expression or zone, a stopping kind more
\* often than hourly, a policy the kind cannot have.
PatchRefused ==
    /\ patch.pc = "open"
    /\ patch' = Closed
    /\ UNCHANGED <<now, up, row, tick, edits, cuts, cutTick, inst, job, ran, hit>>

DeleteSchedule ==
    /\ up /\ edits < MaxEdits /\ row.state # "gone"
    /\ row' = Gone
    /\ edits' = edits + 1
    /\ UNCHANGED <<now, up, tick, patch, cuts, cutTick, inst, job, ran, hit>>

-----------------------------------------------------------------------------
(* Power cuts. *)

\* Planning one prunes those that have passed.
CreatePlannedShutdown(t) ==
    LET kept == {c \in cuts : c > now} IN
    /\ up /\ t > now /\ t \notin cuts
    /\ Cardinality(kept) < MaxCuts
    /\ cuts' = kept \cup {t}
    /\ Note("lateCut", t <= now + QuietLead)
    /\ UNCHANGED <<now, up, row, tick, patch, edits, cutTick, inst, job, ran>>

DeletePlannedShutdown(t) ==
    /\ up /\ t \in cuts
    /\ cuts' = cuts \ {t}
    /\ UNCHANGED <<now, up, row, tick, patch, edits, cutTick, inst, job, ran, hit>>

\* Long enough for a stop submitted one tick into the window.
StopLead == IF StopTimeout + 1 > MinStopLead THEN StopTimeout + 1 ELSE MinStopLead

\* The soonest power cut decides; a server busy with another job is tried again.
CutTick ==
    LET planned == {c \in cuts : c > now}
        stops   == /\ planned # {} /\ now >= Least(planned) - StopLead
                   /\ inst = "running" /\ job.kind = "none"
    IN
    /\ up /\ cutTick < now
    /\ cutTick' = now
    /\ job' = IF stops THEN [kind |-> "stop", end |-> now + StopTimeout] ELSE job
    /\ UNCHANGED <<now, up, row, tick, patch, edits, cuts, inst, ran, hit>>

-----------------------------------------------------------------------------
(* The instance, the panel and time. *)

\* Every job may leave the server down; a run may leave it as it was.
JobEnds ==
    /\ job.kind # "none"
    /\ \/ inst' = "stopped"
       \/ job.kind = "run" /\ inst' = inst
       \/ job.kind = "start" /\ inst' = "running"
    /\ job' = Free
    /\ UNCHANGED <<now, up, row, tick, patch, edits, cuts, cutTick, ran, hit>>

OperatorStarts ==
    /\ up /\ inst = "stopped" /\ job.kind = "none"
    /\ job' = [kind |-> "start", end |-> now + MaxRun]
    /\ Note("lateStart", PowerCutWithin(QuietLead))
    /\ UNCHANGED <<now, up, row, tick, patch, edits, cuts, cutTick, inst, ran>>

\* The panel dies, once in a run; its jobs and requests die with it.
Kill ==
    /\ up /\ "kill" \notin hit
    /\ up' = FALSE
    /\ tick' = Idle(None)
    /\ patch' = Closed
    /\ cutTick' = None
    /\ job' = Free
    /\ hit' = hit \cup {"kill"} \cup (IF tick.pc = "mark" THEN {"unmarked"} ELSE {})
    /\ UNCHANGED <<now, row, edits, cuts, inst, ran>>

\* Both clocks tick at once after a boot.
Boot ==
    /\ ~up
    /\ up' = TRUE
    /\ UNCHANGED <<now, row, tick, patch, edits, cuts, cutTick, inst, job, ran, hit>>

\* A panel that is up ticks every interval, a tick is shorter than that, and a
\* job keeps its deadline.
Clock ==
    /\ now < Horizon
    /\ up => tick.pc = "idle" /\ tick.at = now /\ cutTick = now
    /\ job.kind # "none" => now < job.end
    /\ now' = now + 1
    /\ UNCHANGED <<up, row, tick, patch, edits, cuts, cutTick, inst, job, ran, hit>>

Next ==
    \/ TickRead \/ TickFirst \/ TickHold \/ TickStillDue
    \/ \E crowd \in {"yes", "no"} : TickGo(crowd)
    \/ TickEnqueue \/ TickSkip \/ TickMark \/ TickMarkFails
    \/ PatchRead \/ PatchRefused
    \/ \E c \in Crons, s \in {"on", "off"}, w \in {"yes", "no"} : PatchWrite(c, s, w)
    \/ DeleteSchedule
    \/ \E t \in CutTimes : CreatePlannedShutdown(t) \/ DeletePlannedShutdown(t)
    \/ CutTick \/ JobEnds \/ OperatorStarts \/ Kill \/ Boot \/ Clock

Spec == Init /\ [][Next]_vars

-----------------------------------------------------------------------------
(* Properties. *)

Times == Instants \cup {None}

Rows == [state : {"on", "off", "gone"}, cron : Crons, wait : {"yes", "no"},
         next : Times, held : Times, from : Times]

TypeOK ==
    /\ now \in 0..Horizon /\ up \in BOOLEAN
    /\ row \in Rows
    /\ tick \in [pc : {"idle", "due", "go", "fire", "mark"}, at : Times,
                 copy : Rows, crowd : {"yes", "no"}]
    /\ patch \in [pc : {"idle", "open"}, copy : Rows]
    /\ edits \in 0..MaxEdits /\ cuts \in SUBSET CutTimes
    /\ cutTick \in Times
    /\ inst \in {"running", "stopped"}
    /\ job \in [kind : {"none", "run", "start", "stop"}, end : Int]
    /\ ran \in SUBSET Int /\ hit \in SUBSET Accidents

(* What the leads have to cover: a run that began just before the quiet    *)
(* time, and the stop after it.                                            *)
TimingFits == MaxRun + StopTimeout < QuietLead

(* Every occurrence of an expression, written down without NextRun, as the *)
(* instant at which the clock shows or jumps past its reading and the      *)
(* instant at which it runs: at once when the reading is shown for the     *)
(* first time; for one jumped over, where the old offset would have it.    *)
Occurrences == [c \in Crons |->
    {[passed |-> t, runs |-> t] :
        t \in {u \in Instants : /\ Wall(u) \in Matches[c]
                                /\ \A v \in 0..(u - 1) : Wall(v) # Wall(u)}}
    \cup
    UNION {{[passed |-> j, runs |-> t] :
        t \in {u \in j..Span : /\ u + Offset[j - 1] \in Matches[c]
                               /\ u + Offset[j - 1] < Wall(j)}} : j \in 1..Span}]

(* The calendars NextRun is written for.  A jump forward starts from the   *)
(* lowest offset so far and parts the readings: all that came before it    *)
(* are behind, all that follow are ahead.                                  *)
JumpsSeparate ==
    \A j \in 1..Span : Wall(j) > Wall(j - 1) + 1 =>
        /\ \A v \in 0..(j - 1) : Wall(v) <= Wall(j - 1) /\ Offset[j - 1] <= Offset[v]
        /\ \A v \in j..Span : Wall(j) <= Wall(v)

(* Between a repeated match and an occurrence behind it there is a match.  *)
RepeatsFollowed ==
    \A c \in Crons : \A t \in Instants : \A o \in Occurrences[c] :
        /\ Wall(t) \in Matches[c] /\ t < o.passed
        /\ \E v \in 0..(t - 1) : Wall(v) = Wall(t)
        => \E w \in Ahead(c, t) : w <= o.runs

(* The instants at which some earlier offset would show a match that is    *)
(* never shown, and with them every instant NextRun can return.            *)
Erased(c) == {u \in Instants : \E a \in 0..(u - 1) : u + Offset[a] \in Matches[c] \ Shown}

Candidates(c) == {u \in Instants : Wall(u) \in Matches[c]} \cup Erased(c)

(* A reading is repeated before the expression matches again: the schedule *)
(* is no more frequent than the repeated hour is long.                     *)
RepeatsApart ==
    \A c \in Crons : \A t1, t2 \in Candidates(c) :
        t1 < t2 /\ Wall(t1) = Wall(t2) =>
            t2 \notin Erased(c) /\ \A m \in Candidates(c) : ~(t1 < m /\ m < t2)

(* NextRun passes over nothing: between the tick that last advanced the    *)
(* row and the next run it stored there lies no occurrence, on either side *)
(* of a clock change, however late that tick came and whatever was held,   *)
(* skipped or edited since.                                                *)
NoOccurrenceSkipped ==
    row.from # None =>
        \A o \in Occurrences[row.cron] : ~(row.from < o.passed /\ o.runs < row.next)

(* A wall reading runs once: the tick never fires a reading that already   *)
(* ran since the schedule was last given a time, also in a repeated hour,  *)
(* after a hold that outlasted it and after a kill.  Excepted are an edit  *)
(* written over a newer row, and a run whose row was not advanced.         *)
OncePerReading ==
    tick.pc = "fire" /\ Clean({"stalePatch", "unmarked"}) => Wall(copy.next) \notin ran

(* A run that waits for an empty server goes ahead with players connected  *)
(* only when MaxDeferral has passed since it came due, across edits, later *)
(* occurrences and kills.  Excepted are the two writes that meet a row     *)
(* which moved since it was read.                                          *)
HoldHonoured ==
    /\ tick.pc \in {"go", "fire"} /\ tick.crowd = "yes" /\ copy.wait = "yes"
    /\ Clean({"stalePatch", "staleStamp"})
    => now >= copy.next + MaxDeferral

(* The power goes off on a server that is down and on no job: neither a    *)
(* scheduled run that began before the quiet time nor one that wanted to   *)
(* begin in it is cut off, when the cut was planned before its quiet time, *)
(* nobody starts the server in it and the panel stays up.                  *)
DownAtCut ==
    [][now' # now /\ now' \in cuts /\ Clean({"lateCut", "lateStart", "kill"})
          => inst = "stopped" /\ job.kind = "none"]_vars

=============================================================================
