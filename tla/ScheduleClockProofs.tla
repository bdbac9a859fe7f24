------------------------- MODULE ScheduleClockProofs -------------------------
(***************************************************************************)
(* For every calendar, deferral and number of edits and power cuts: a hold *)
(* is honoured, and, when the leads cover a run and a stop, the power goes *)
(* off on a server that is down. For every calendar whose clock changes    *)
(* lie apart, no occurrence is passed over when the offset jumps, and a    *)
(* wall-clock reading that the clock shows twice runs the schedule once.   *)
(***************************************************************************)
EXTENDS ScheduleClock, TLAPS, WellFoundedInduction

-----------------------------------------------------------------------------
(* The calendar. *)

\* A set of instants that is not empty has a least member, and Least is it.
LEMMA LeastIsLeast ==
  ASSUME NEW S \in SUBSET Nat, S # {}
  PROVE  Least(S) \in S /\ \A y \in S : Least(S) <= y
<1>1. \E x \in S : \A y \in S : ~(<<y, x>> \in OpToRel(<, Nat))
  BY NatLessThanWellFounded, WFMin
<1>2. PICK x \in S : \A y \in S : ~(<<y, x>> \in OpToRel(<, Nat))
  BY <1>1
<1>3. \A y \in S : x <= y
  <2> TAKE y \in S
  <2>1. x \in Nat /\ y \in Nat
    OBVIOUS
  <2>2. ~(y < x)
    BY <1>2, <2>1 DEF OpToRel
  <2> QED
    BY <2>1, <2>2
<1> QED
  BY <1>2, <1>3 DEF Least

\* Instants are natural numbers and cover the horizon.
LEMMA InstantsAreNat == Instants \subseteq Nat /\ 0..Horizon \subseteq Instants /\ None \notin Nat
  BY ClockAssumption DEF Instants, None

\* A time column holds an instant or None, both integers.
LEMMA TimesAreInt == Times \subseteq Int /\ None \in Times /\ None \in Int
  BY InstantsAreNat DEF Times, None

\* Wall-clock readings are integers.
LEMMA WallIsInt ==
  ASSUME NEW t \in Instants
  PROVE  Wall(t) \in Int
<1>1. t \in Int /\ Offset[t] \in Int
  BY InstantsAreNat, ClockAssumption
<1> QED
  BY <1>1 DEF Wall

\* A stored expression always has a next run, and it is an instant.
LEMMA NextInIsInstant ==
  ASSUME NEW c \in Crons, NEW t \in 0..Horizon
  PROVE  NextIn(c, t) \in Instants
<1>1. Ahead(c, t) \in SUBSET Nat /\ Ahead(c, t) # {} /\ Ahead(c, t) \subseteq Instants
  BY ClockAssumption, InstantsAreNat DEF Ahead
<1> QED
  BY <1>1, LeastIsLeast DEF NextIn

\* NextRun finds an instant for every cron, moment and last run.
LEMMA NextRunIsInstant ==
  ASSUME NEW c \in Crons, NEW t \in 0..Horizon, NEW last
  PROVE  NextRun(c, t, last) \in Instants
<1>1. NextIn(c, t) \in Instants
  BY NextInIsInstant
<1>2. NextIn(c, NextIn(c, t)) \in Instants
  <2>1. /\ Ahead(c, NextIn(c, t)) \in SUBSET Nat
        /\ Ahead(c, NextIn(c, t)) # {}
        /\ Ahead(c, NextIn(c, t)) \subseteq Instants
    BY ClockAssumption, InstantsAreNat DEF Ahead, NextIn
  <2> QED
    BY <2>1, LeastIsLeast DEF NextIn
<1>3. AheadFixed(c, t) # {} => Least(AheadFixed(c, t)) \in Instants
  <2>1. AheadFixed(c, t) \in SUBSET Nat /\ AheadFixed(c, t) \subseteq Instants
    BY InstantsAreNat DEF AheadFixed
  <2> QED
    BY <2>1, LeastIsLeast
<1> QED
  BY <1>1, <1>2, <1>3 DEF NextRun

-----------------------------------------------------------------------------
(* Types. *)

\* A tick at work has begun at an instant of the run, on a row that was due.
TickAtWork ==
  /\ tick.pc # "idle" => tick.at \in 0..Horizon /\ copy.next <= now
  /\ tick.pc \notin {"idle", "due"} => copy.next # None

TInv == TypeOK /\ TickAtWork

\* A deleted schedule is a row like another.
LEMMA GoneIsRow == Gone \in Rows
  BY ClockAssumption DEF Gone, Row, Rows, Times

\* Building a row from typed columns gives a row.
LEMMA RowIsRow ==
  ASSUME NEW s \in {"on", "off", "gone"}, NEW c \in Crons, NEW w \in {"yes", "no"},
         NEW n \in Times, NEW h \in Times, NEW f \in Times
  PROVE  Row(s, c, w, n, h, f) \in Rows
  BY DEF Row, Rows

\* The row a tick writes back.
LEMMA MarkIsTyped ==
  ASSUME TInv, NEW n \in Times, tick.at \in 0..Horizon, MarkScheduleRun(n)
  PROVE  row' \in Rows
<1>1. row \in Rows /\ tick.at \in Times /\ None \in Times
  BY InstantsAreNat DEF TInv, TypeOK, Times
<1>2. Row(row.state, row.cron, row.wait, n, None, tick.at) \in Rows
  BY <1>1, RowIsRow DEF Rows
<1> QED
  BY <1>1, <1>2 DEF MarkScheduleRun

\* Every step keeps the types.
LEMMA TypeStep == TInv /\ [Next]_vars => TInv'
<1> SUFFICES ASSUME TInv, [Next]_vars PROVE TInv'
  OBVIOUS
<1> USE InstantsAreNat, ClockAssumption, LeadAssumption, GoneIsRow
<1>0. /\ row \in Rows /\ copy \in Rows /\ patch.copy \in Rows /\ None \in Times
      /\ now \in Times /\ now \in Nat
  BY DEF TInv, TypeOK, Times, copy
<1>1. CASE TickRead
  BY <1>0, <1>1 DEF TInv, TypeOK, TickAtWork, TickRead, Due, Idle, copy, Rows
<1>2. CASE TickFirst
  <2>1. NextRun(copy.cron, tick.at, None) \in Times
    BY <1>0, <1>2, NextRunIsInstant DEF TickFirst, TInv, TickAtWork, Times, Rows
  <2>2. row' \in Rows
    BY <1>2, <2>1, MarkIsTyped DEF TickFirst, TInv, TickAtWork
  <2> QED
    BY <1>0, <1>2, <2>2 DEF TInv, TypeOK, TickAtWork, TickFirst, Idle, copy
<1>3. CASE TickHold
  <2>1. Row(row.state, row.cron, row.wait, row.next, now, row.from) \in Rows
    <3>1. /\ row.state \in {"on", "off", "gone"} /\ row.cron \in Crons
          /\ row.wait \in {"yes", "no"} /\ row.next \in Times /\ row.from \in Times
      BY <1>0 DEF Rows
    <3> QED
      BY <1>0, <3>1, RowIsRow
  <2>2. row' \in Rows
    BY <1>0, <1>3, <2>1 DEF TickHold, DeferSchedule
  <2> QED
    BY <1>0, <1>3, <2>2 DEF TInv, TypeOK, TickAtWork, TickHold, Idle, Note, Accidents, copy
<1>4. ASSUME NEW crowd \in {"yes", "no"}, TickGo(crowd) PROVE TInv'
  BY <1>0, <1>4 DEF TInv, TypeOK, TickAtWork, TickGo, copy
<1>5. CASE TickStillDue
  BY <1>0, <1>5 DEF TInv, TypeOK, TickAtWork, TickStillDue, Idle, copy
<1>6. CASE TickEnqueue
  <2>1. copy.next \in Instants
    BY <1>0, <1>6 DEF TInv, TickAtWork, TickEnqueue, Rows, Times
  <2>2. Wall(copy.next) \in Int
    BY <2>1, WallIsInt
  <2>3. ran' \in SUBSET Int
    BY <1>6, <2>2 DEF TInv, TypeOK, TickEnqueue
  <2> QED
    BY <1>0, <1>6, <2>3 DEF TInv, TypeOK, TickAtWork, TickEnqueue, ToMark, Note, Accidents, copy
<1>7. CASE TickSkip
  BY <1>0, <1>7 DEF TInv, TypeOK, TickAtWork, TickSkip, ToMark, copy
<1>8. CASE TickMark
  <2>1. NextRun(copy.cron, tick.at, copy.next) \in Times
    BY <1>0, <1>8, NextRunIsInstant DEF TickMark, TInv, TickAtWork, Times, Rows
  <2>2. row' \in Rows
    BY <1>8, <2>1, MarkIsTyped DEF TickMark, TInv, TickAtWork
  <2> QED
    BY <1>0, <1>8, <2>2 DEF TInv, TypeOK, TickAtWork, TickMark, Idle, copy
<1>9. CASE TickMarkFails
  BY <1>0, <1>9 DEF TInv, TypeOK, TickAtWork, TickMarkFails, Idle, Note, Accidents, copy
<1>10. CASE PatchRead
  BY <1>0, <1>10 DEF TInv, TypeOK, TickAtWork, PatchRead, copy
<1>22. CASE PatchRefused
  BY <1>0, <1>22 DEF TInv, TypeOK, TickAtWork, PatchRefused, Closed, copy
<1>11. ASSUME NEW c \in Crons, NEW s \in {"on", "off"}, NEW w \in {"yes", "no"},
              PatchWrite(c, s, w)
       PROVE  TInv'
  <2>1. NextIn(c, now) \in Times
    BY NextInIsInstant DEF TInv, TypeOK, Times
  <2> DEFINE was      == patch.copy
             timed    == c # was.cron
             fresh    == timed \/ (s = "on" /\ was.state = "off")
             released == was.held # None /\ (s = "off" \/ timed \/ w = "no")
             n        == IF fresh THEN NextIn(c, now) ELSE was.next
             h        == IF released THEN None ELSE row.held
             f        == IF fresh THEN None ELSE was.from
  <2>3. n \in Times /\ h \in Times /\ f \in Times
    BY <1>0, <2>1 DEF Rows
  <2>4. Row(s, c, w, n, h, f) \in Rows
    <3> HIDE DEF n, h, f
    <3> QED BY <2>3, RowIsRow
  <2>2. row' \in Rows
    BY <1>0, <1>11, <2>4 DEF PatchWrite
  <2> QED
    BY <1>0, <1>11, <2>2 DEF TInv, TypeOK, TickAtWork, PatchWrite, Closed, Note, Accidents, copy
<1>12. CASE DeleteSchedule
  BY <1>0, <1>12 DEF TInv, TypeOK, TickAtWork, DeleteSchedule, copy
<1>13. ASSUME NEW t \in CutTimes, CreatePlannedShutdown(t) PROVE TInv'
  BY <1>0, <1>13 DEF TInv, TypeOK, TickAtWork, CreatePlannedShutdown, Note, Accidents, copy
<1>14. ASSUME NEW t \in CutTimes, DeletePlannedShutdown(t) PROVE TInv'
  BY <1>0, <1>14 DEF TInv, TypeOK, TickAtWork, DeletePlannedShutdown, copy
<1>15. CASE CutTick
  BY <1>0, <1>15 DEF TInv, TypeOK, TickAtWork, CutTick, copy
<1>16. CASE JobEnds
  BY <1>0, <1>16 DEF TInv, TypeOK, TickAtWork, JobEnds, Free, None, copy
<1>17. CASE OperatorStarts
  BY <1>0, <1>17 DEF TInv, TypeOK, TickAtWork, OperatorStarts, Note, Accidents, copy
<1>18. CASE Kill
  <2>1. hit' \in SUBSET Accidents
    BY <1>18 DEF TInv, TypeOK, Kill, Accidents
  <2> QED
    BY <1>0, <1>18, <2>1, TimesAreInt DEF TInv, TypeOK, TickAtWork, Kill, Idle, Closed, Free, copy
<1>19. CASE Boot
  BY <1>0, <1>19 DEF TInv, TypeOK, TickAtWork, Boot, copy
<1>20. CASE Clock
  <2>1. now' \in 0..Horizon /\ now' = now + 1
    BY <1>20 DEF TInv, TypeOK, Clock
  <2>2. copy.next \in Int
    BY <1>0, TimesAreInt DEF Rows
  <2>3. TickAtWork'
    BY <1>0, <1>20, <2>1, <2>2 DEF TInv, TickAtWork, Clock, copy
  <2> QED
    BY <1>0, <1>20, <2>1, <2>3 DEF TInv, TypeOK, Clock
<1>21. CASE UNCHANGED vars
  BY <1>0, <1>21 DEF TInv, TypeOK, TickAtWork, vars, copy
<1> QED
  BY <1>1, <1>2, <1>3, <1>4, <1>5, <1>6, <1>7, <1>8, <1>9, <1>10, <1>11, <1>12, <1>13,
     <1>14, <1>15, <1>16, <1>17, <1>18, <1>19, <1>20, <1>21, <1>22 DEF Next

\* The first state is typed.
LEMMA InitIsTyped == Init => TInv
<1> SUFFICES ASSUME Init PROVE TInv
  OBVIOUS
<1>1. row \in Rows
  <2>1. PICK c \in Crons, w \in {"yes", "no"} : \E n \in {None, NextIn(c, 0)} :
           row = Row("on", c, w, n, None, None)
    BY DEF Init
  <2>2. PICK n \in {None, NextIn(c, 0)} : row = Row("on", c, w, n, None, None)
    BY <2>1
  <2>3. n \in Times /\ None \in Times
    BY NextInIsInstant, ClockAssumption DEF Times
  <2> QED
    BY <2>2, <2>3, RowIsRow
<1> QED
  BY <1>1, GoneIsRow, InstantsAreNat, ClockAssumption, LeadAssumption
  DEF Init, TInv, TypeOK, TickAtWork, Idle, Closed, Free, Times, None, copy

(* Every column, time and job of the model has its type; in particular     *)
(* NextRun always finds an instant to store in next_run_at.                *)
THEOREM TypeCorrect == Spec => []TypeOK
<1>1. TInv => TypeOK
  BY DEF TInv
<1> QED
  BY <1>1, InitIsTyped, TypeStep, PTL DEF Spec

-----------------------------------------------------------------------------
(* Holds. *)

(* While no write met a row that moved: only an enabled row is held, a hold *)
(* began when its run was due, in the row and in the tick's copy of it.     *)
HoldOk ==
  Clean({"stalePatch", "staleStamp"}) =>
    /\ row.held # None => row.state = "on" /\ row.held >= row.next
    /\ tick.pc # "idle" /\ copy.held # None => copy.held >= copy.next

HInv == TInv /\ HoldOk /\ HoldHonoured

\* Every step keeps what the hold promises.
LEMMA HoldStep == HInv /\ [Next]_vars => HInv'
<1> SUFFICES ASSUME HInv, [Next]_vars PROVE HoldOk' /\ HoldHonoured'
  BY TypeStep DEF HInv
<1> DEFINE Fine == Clean({"stalePatch", "staleStamp"})
<1> USE DEF HInv
<1>0. /\ row \in Rows /\ copy \in Rows /\ now \in Int /\ None \in Times
      /\ row.next \in Int /\ row.held \in Int /\ copy.next \in Int /\ copy.held \in Int
      /\ MaxDeferral \in Int
  <2>1. row \in Rows /\ copy \in Rows
    BY DEF TInv, TypeOK, copy
  <2>2. now \in Int /\ MaxDeferral \in Int
    BY LeadAssumption, ClockAssumption DEF TInv, TypeOK
  <2>3. /\ row.next \in Times /\ row.held \in Times
        /\ copy.next \in Times /\ copy.held \in Times
    BY <2>1 DEF Rows
  <2> QED
    BY <2>1, <2>2, <2>3, TimesAreInt
<1>1. CASE TickRead
  BY <1>0, <1>1 DEF HoldOk, HoldHonoured, TickRead, Due, Idle, Gone, Row, Clean, copy
<1>2. CASE TickFirst
  BY <1>0, <1>2 DEF HoldOk, HoldHonoured, TickFirst, MarkScheduleRun, Idle, Gone, Row, Clean, copy
<1>3. CASE TickHold
  <2>1. copy.next <= now
    BY <1>3 DEF TickHold, TInv, TickAtWork
  <2>2. Fine' => Fine /\ (copy.held = None => row.state = "on" /\ row.next = copy.next)
    BY <1>3 DEF TickHold, Note, Clean
  <2> QED
    BY <1>0, <1>3, <2>1, <2>2 DEF HoldOk, HoldHonoured, TickHold, DeferSchedule, Idle, Row, copy
<1>4. ASSUME NEW crowd \in {"yes", "no"}, TickGo(crowd) PROVE HoldOk' /\ HoldHonoured'
  BY <1>0, <1>4 DEF HoldOk, HoldHonoured, TickGo, Overdue, Clean, copy
<1>5. CASE TickStillDue
  BY <1>0, <1>5 DEF HoldOk, HoldHonoured, TickStillDue, Idle, Clean, copy
<1>6. CASE TickEnqueue
  BY <1>0, <1>6 DEF HoldOk, HoldHonoured, TickEnqueue, ToMark, Note, Clean, copy
<1>7. CASE TickSkip
  BY <1>0, <1>7 DEF HoldOk, HoldHonoured, TickSkip, ToMark, Clean, copy
<1>8. CASE TickMark
  BY <1>0, <1>8 DEF HoldOk, HoldHonoured, TickMark, MarkScheduleRun, Idle, Row, Clean, copy
<1>9. CASE TickMarkFails
  BY <1>0, <1>9 DEF HoldOk, HoldHonoured, TickMarkFails, Idle, Note, Clean, copy
<1>10. CASE PatchRead
  BY <1>0, <1>10 DEF HoldOk, HoldHonoured, PatchRead, Clean, copy
<1>22. CASE PatchRefused
  BY <1>0, <1>22 DEF HoldOk, HoldHonoured, PatchRefused, Clean, copy
<1>11. ASSUME NEW c \in Crons, NEW s \in {"on", "off"}, NEW w \in {"yes", "no"},
              PatchWrite(c, s, w)
       PROVE  HoldOk' /\ HoldHonoured'
  <2>1. Fine' => Fine /\ row = patch.copy
    BY <1>11 DEF PatchWrite, Note, Clean
  <2>2. UNCHANGED <<tick, now>>
    BY <1>11 DEF PatchWrite
  <2>3. Fine' => (row'.held # None => row'.state = "on" /\ row'.held >= row'.next)
    <3> SUFFICES ASSUME Fine', row'.held # None PROVE row'.state = "on" /\ row'.held >= row'.next
      OBVIOUS
    <3>1. row.state # "gone"
      BY <1>11, <2>1 DEF PatchWrite, HoldOk
    <3>2. /\ row'.held = (IF row.held # None /\ (s = "off" \/ c # row.cron \/ w = "no")
                          THEN None ELSE row.held)
          /\ row'.state = s
          /\ row'.next = (IF c # row.cron \/ (s = "on" /\ row.state = "off")
                          THEN NextIn(c, now) ELSE row.next)
      BY <1>11, <2>1, <3>1 DEF PatchWrite, Row
    <3>3. row.held # None /\ s = "on" /\ c = row.cron
      BY <3>2
    <3> QED
      BY <2>1, <3>2, <3>3 DEF HoldOk
  <2> QED
    BY <1>0, <2>1, <2>2, <2>3 DEF HoldOk, HoldHonoured, copy
<1>12. CASE DeleteSchedule
  BY <1>0, <1>12 DEF HoldOk, HoldHonoured, DeleteSchedule, Gone, Row, Clean, copy
<1>13. ASSUME NEW t \in CutTimes, CreatePlannedShutdown(t) PROVE HoldOk' /\ HoldHonoured'
  BY <1>0, <1>13 DEF HoldOk, HoldHonoured, CreatePlannedShutdown, Note, Clean, copy
<1>14. ASSUME NEW t \in CutTimes, DeletePlannedShutdown(t) PROVE HoldOk' /\ HoldHonoured'
  BY <1>0, <1>14 DEF HoldOk, HoldHonoured, DeletePlannedShutdown, Clean, copy
<1>15. CASE CutTick
  BY <1>0, <1>15 DEF HoldOk, HoldHonoured, CutTick, Clean, copy
<1>16. CASE JobEnds
  BY <1>0, <1>16 DEF HoldOk, HoldHonoured, JobEnds, Clean, copy
<1>17. CASE OperatorStarts
  BY <1>0, <1>17 DEF HoldOk, HoldHonoured, OperatorStarts, Note, Clean, copy
<1>18. CASE Kill
  BY <1>0, <1>18 DEF HoldOk, HoldHonoured, Kill, Idle, Clean, copy
<1>19. CASE Boot
  BY <1>0, <1>19 DEF HoldOk, HoldHonoured, Boot, Clean, copy
<1>20. CASE Clock
  BY <1>0, <1>20 DEF HoldOk, HoldHonoured, Clock, Clean, copy
<1>21. CASE UNCHANGED vars
  BY <1>0, <1>21 DEF HoldOk, HoldHonoured, vars, Clean, copy
<1> QED
  BY <1>1, <1>2, <1>3, <1>4, <1>5, <1>6, <1>7, <1>8, <1>9, <1>10, <1>11, <1>12, <1>13,
     <1>14, <1>15, <1>16, <1>17, <1>18, <1>19, <1>20, <1>21, <1>22 DEF Next

(* A scheduled run that waits for an empty server goes ahead with players  *)
(* connected only MaxDeferral after it came due, whatever is edited, held  *)
(* or killed, as long as no write met a row that moved since it was read.  *)
THEOREM HoldIsHonoured == Spec => []HoldHonoured
<1>1. Init => HInv
  BY InitIsTyped DEF Init, HInv, HoldOk, HoldHonoured, Row, Idle
<1>2. HInv => HoldHonoured
  BY DEF HInv
<1> QED
  BY <1>1, <1>2, HoldStep, PTL DEF Spec

-----------------------------------------------------------------------------
(* Power cuts. *)

(* What each kind of job, and a server that runs without one, still owes   *)
(* before the power cut c: a run ends early enough for a stop after the    *)
(* next tick, a stop before the cut, and an idle server is stopped by this *)
(* tick or the next.                                                       *)
InTime(c) ==
  /\ job.kind \in {"run", "start"} => job.end + StopTimeout + 2 <= c
  /\ job.kind = "stop" => job.end < c
  /\ inst = "running" /\ job.kind = "none" =>
        /\ now + StopTimeout + 1 <= c
        /\ cutTick = now => now + StopTimeout + 2 <= c

CutOk ==
  Clean({"lateCut", "lateStart", "kill"}) =>
    /\ up = TRUE /\ cutTick <= now
    /\ job.kind \in {"run", "start"} => job.end <= now + MaxRun
    /\ job.kind = "stop" => job.end <= now + StopTimeout
    /\ job.kind # "none" => now <= job.end
    /\ \A c \in cuts : c > now => InTime(c)

CInv == TInv /\ CutOk

\* Every step keeps the count back from the power cuts.
LEMMA CutStep == TimingFits /\ CInv /\ [Next]_vars => CInv'
<1> SUFFICES ASSUME TimingFits, CInv, [Next]_vars PROVE CutOk'
  BY TypeStep DEF CInv
<1> USE DEF CInv
<1> DEFINE Fine == Clean({"lateCut", "lateStart", "kill"})
<1>0. /\ now \in Int /\ cutTick \in Int /\ job.end \in Int /\ cuts \subseteq Nat
      /\ MaxRun \in Nat /\ StopTimeout \in Nat /\ QuietLead \in Nat /\ MinStopLead \in Nat
      /\ MaxRun + StopTimeout < QuietLead
  BY LeadAssumption, TimesAreInt, ClockAssumption DEF TInv, TypeOK, TimingFits
<1>1. CASE UNCHANGED <<now, up, cuts, cutTick, inst, job>> /\ hit \subseteq hit'
  BY <1>1 DEF CutOk, InTime, Clean
<1>2. CASE TickEnqueue
  <2>1. Fine' => Fine
    BY <1>2 DEF TickEnqueue, Note, Clean
  <2>2. \A c \in cuts : c > now => c > now + QuietLead
    BY <1>0, <1>2 DEF TickEnqueue, Admits, PowerCutWithin
  <2>3. /\ job'.kind = "run" /\ job'.end = now + MaxRun
        /\ UNCHANGED <<now, up, cuts, cutTick, inst>>
    BY <1>2 DEF TickEnqueue
  <2> QED
    BY <1>0, <2>1, <2>2, <2>3 DEF CutOk, InTime
<1>3. ASSUME NEW t \in CutTimes, CreatePlannedShutdown(t) PROVE CutOk'
  <2>1. Fine' => Fine /\ t > now + QuietLead
    BY <1>0, <1>3, LeadAssumption DEF CreatePlannedShutdown, Note, Clean
  <2>2. cuts' \subseteq cuts \cup {t} /\ UNCHANGED <<now, up, cutTick, inst, job>>
    BY <1>3 DEF CreatePlannedShutdown
  <2>3. t \in Nat
    BY LeadAssumption
  <2>4. Fine' => InTime(t)
    BY <1>0, <2>1, <2>3 DEF CutOk, InTime, TInv, TypeOK
  <2>5. Fine' => \A c \in cuts' : c > now => InTime(c)
    BY <2>1, <2>2, <2>4 DEF CutOk
  <2> QED
    BY <1>0, <2>1, <2>2, <2>5 DEF CutOk, InTime
<1>4. ASSUME NEW t \in CutTimes, DeletePlannedShutdown(t) PROVE CutOk'
  BY <1>4 DEF CutOk, InTime, DeletePlannedShutdown, Clean
<1>5. CASE CutTick
  <2> DEFINE planned == {c \in cuts : c > now}
             stops   == /\ planned # {} /\ now >= Least(planned) - StopLead
                        /\ inst = "running" /\ job.kind = "none"
  <2>1. /\ cutTick < now /\ cutTick' = now
        /\ UNCHANGED <<now, up, cuts, inst, hit>>
        /\ job' = IF stops THEN [kind |-> "stop", end |-> now + StopTimeout] ELSE job
    BY <1>5 DEF CutTick
  <2>2. StopLead \in Int /\ StopLead >= StopTimeout + 1
    BY <1>0 DEF StopLead
  <2>3. CASE stops
    BY <1>0, <2>1, <2>3 DEF CutOk, InTime, Clean
  <2>4. CASE ~stops
    <3>1. \A c \in planned : Least(planned) \in Nat /\ Least(planned) <= c
      <4>1. planned \in SUBSET Nat
        BY <1>0
      <4> QED
        BY <4>1, LeastIsLeast
    <3>2. inst = "running" /\ job.kind = "none" =>
             \A c \in planned : now + StopTimeout + 2 <= c
      <4> SUFFICES ASSUME inst = "running", job.kind = "none", NEW c \in planned
                   PROVE  now + StopTimeout + 2 <= c
        OBVIOUS
      <4>1. now < Least(planned) - StopLead
        BY <1>0, <2>2, <2>4, <3>1
      <4>2. c \in Nat
        BY <1>0
      <4> QED
        BY <1>0, <2>2, <3>1, <4>1, <4>2
    <3>3. job' = job
      BY <2>1, <2>4
    <3> QED
      BY <1>0, <2>1, <3>2, <3>3 DEF CutOk, InTime, Clean
  <2> QED
    BY <2>3, <2>4
<1>6. CASE JobEnds
  <2>1. /\ job'.kind = "none" /\ UNCHANGED <<now, up, cuts, cutTick, hit>>
    BY <1>6 DEF JobEnds, Free
  <2>2. inst' = "running" => job.kind \in {"run", "start"}
    BY <1>6 DEF JobEnds
  <2> QED
    BY <1>0, <2>1, <2>2 DEF CutOk, InTime, Clean
<1>7. CASE OperatorStarts
  <2>1. Fine' => Fine /\ ~PowerCutWithin(QuietLead)
    BY <1>7 DEF OperatorStarts, Note, Clean
  <2>2. Fine' => \A c \in cuts : c > now => c > now + QuietLead
    BY <1>0, <2>1 DEF PowerCutWithin
  <2>3. /\ job'.kind = "start" /\ job'.end = now + MaxRun
        /\ UNCHANGED <<now, up, cuts, cutTick, inst>>
    BY <1>7 DEF OperatorStarts
  <2> QED
    BY <1>0, <2>1, <2>2, <2>3 DEF CutOk, InTime
<1>8. CASE Kill
  BY <1>8 DEF CutOk, Kill, Clean
<1>9. CASE Boot
  BY <1>9 DEF CutOk, Boot, Clean
<1>10. CASE Clock
  <2>1. /\ now' = now + 1 /\ UNCHANGED <<up, cuts, cutTick, inst, job, hit>>
        /\ up = TRUE => cutTick = now
        /\ job.kind # "none" => now < job.end
    BY <1>10 DEF Clock
  <2> QED
    BY <1>0, <2>1 DEF CutOk, InTime, Clean
<1>11. CASE UNCHANGED vars
  BY <1>1, <1>11 DEF vars
<1>12. ASSUME TickRead \/ TickFirst \/ TickHold \/ TickStillDue \/ TickSkip \/ TickMark
              \/ TickMarkFails \/ PatchRead \/ PatchRefused \/ DeleteSchedule
       PROVE  CutOk'
  BY <1>1, <1>12 DEF TickRead, TickFirst, TickHold, TickStillDue, TickSkip, TickMark,
     TickMarkFails, PatchRead, PatchRefused, DeleteSchedule, Note
<1>13. ASSUME NEW crowd \in {"yes", "no"}, TickGo(crowd) PROVE CutOk'
  BY <1>1, <1>13 DEF TickGo
<1>14. ASSUME NEW c \in Crons, NEW s \in {"on", "off"}, NEW w \in {"yes", "no"},
              PatchWrite(c, s, w)
       PROVE  CutOk'
  BY <1>1, <1>14 DEF PatchWrite, Note
<1> QED
  BY <1>2, <1>3, <1>4, <1>5, <1>6, <1>7, <1>8, <1>9, <1>10, <1>11, <1>12, <1>13, <1>14 DEF Next

(* When MaxRun and StopTimeout fit into the quiet lead, the power goes off *)
(* on a stopped server and on no job: Enqueue's quiet time and the stop    *)
(* window of the power-cut clock leave room for whatever was under way.    *)
THEOREM ServerIsDownAtCut == ASSUME TimingFits PROVE Spec => DownAtCut
<1>1. Init => CInv
  BY InitIsTyped DEF Init, CInv, CutOk, Free, None
<1>2. TInv /\ CutOk /\ [Next]_vars =>
        (now' # now /\ now' \in cuts /\ Clean({"lateCut", "lateStart", "kill"})
           => inst = "stopped" /\ job.kind = "none")
  <2> SUFFICES ASSUME TInv, CutOk, [Next]_vars, now' # now, now' \in cuts,
                      Clean({"lateCut", "lateStart", "kill"})
               PROVE  inst = "stopped" /\ job.kind = "none"
    OBVIOUS
  <2>1. Clock
    BY DEF Next, vars, TickRead, TickFirst, TickHold, TickGo, TickStillDue, TickEnqueue, TickSkip,
       TickMark, TickMarkFails, PatchRead, PatchRefused, PatchWrite, DeleteSchedule, CreatePlannedShutdown,
       DeletePlannedShutdown, CutTick, JobEnds, OperatorStarts, Kill, Boot
  <2>2. /\ now \in Int /\ job.end \in Int /\ StopTimeout \in Nat
        /\ job.kind \in {"none", "run", "start", "stop"} /\ inst \in {"running", "stopped"}
    BY LeadAssumption, ClockAssumption DEF TInv, TypeOK
  <2>3. /\ now' = now + 1 /\ cutTick = now /\ (job.kind # "none" => now < job.end)
    BY <2>1 DEF Clock, CutOk
  <2>4. InTime(now + 1)
    BY <2>2, <2>3 DEF CutOk
  <2> QED
    BY <2>2, <2>3, <2>4 DEF InTime
<1>3. CInv /\ [Next]_vars => CInv'
  BY CutStep
<1> QED
  BY <1>1, <1>2, <1>3, PTL DEF Spec, DownAtCut, CInv

-----------------------------------------------------------------------------
(* What NextRun returns. *)

\* The parser finds the first match after t.
LEMMA NextInIsFirst ==
  ASSUME NEW c \in Crons, NEW t, Ahead(c, t) # {}
  PROVE  /\ NextIn(c, t) \in Ahead(c, t)
         /\ \A u \in Ahead(c, t) : NextIn(c, t) <= u
<1>1. Ahead(c, t) \in SUBSET Nat
  BY InstantsAreNat DEF Ahead
<1> QED
  BY <1>1, LeastIsLeast DEF NextIn

\* With one match passed over it is the first match after that one.
LEMMA NextInTwice ==
  ASSUME NEW c \in Crons, NEW t \in 0..Horizon
  PROVE  /\ NextIn(c, t) \in Ahead(c, t) /\ NextIn(c, NextIn(c, t)) \in Ahead(c, t)
         /\ NextIn(c, t) < NextIn(c, NextIn(c, t))
         /\ \A u \in Ahead(c, t) : u < NextIn(c, NextIn(c, t)) => u = NextIn(c, t)
<1> DEFINE n == NextIn(c, t)
<1>1. n \in Ahead(c, t) /\ \A u \in Ahead(c, t) : n <= u
  BY ClockAssumption, NextInIsFirst
<1>2. Ahead(c, n) # {}
  BY ClockAssumption DEF NextIn
<1>3. NextIn(c, n) \in Ahead(c, n) /\ \A u \in Ahead(c, n) : NextIn(c, n) <= u
  BY <1>2, NextInIsFirst
<1>4. t \in Int /\ Ahead(c, t) \subseteq Int /\ Ahead(c, n) \subseteq Int
  <2>1. Ahead(c, t) \subseteq Instants /\ Ahead(c, n) \subseteq Instants /\ t \in Instants
    BY InstantsAreNat DEF Ahead
  <2>2. Instants \subseteq Int
    BY InstantsAreNat
  <2> HIDE DEF n
  <2> QED BY <2>1, <2>2
<1>5. NextIn(c, n) \in Ahead(c, t) /\ n < NextIn(c, n)
  BY <1>1, <1>3, <1>4 DEF Ahead
<1>6. ASSUME NEW u \in Ahead(c, t), u < NextIn(c, n) PROVE u = n
  <2>1. u \notin Ahead(c, n)
    BY <1>3, <1>4, <1>6
  <2>2. ~(u > n)
    BY <2>1 DEF Ahead
  <2> QED BY <1>1, <1>4, <2>2
<1> QED BY <1>1, <1>5, <1>6

\* NextRun returns a match after t, or an erased one before every match it would
\* have returned otherwise; the match it returns is not the last one repeated.
LEMMA NextRunCases ==
  ASSUME NEW c \in Crons, NEW t \in 0..Horizon, NEW last \in Times
  PROVE  LET n == NextRun(c, t, last) IN
         /\ n \in Instants /\ n > t
         /\ \/ n \in Ahead(c, t) /\ (last = None \/ Wall(n) # Wall(last) \/ (NextIn(c, t) < n /\ Wall(NextIn(c, t)) = Wall(last)))
            \/ n \in AheadFixed(c, t) /\ n + Offset[t] \notin Shown
<1> DEFINE shown == NextIn(c, t)
           twice == NextIn(c, shown)
           again == last # None /\ Wall(shown) = Wall(last)
           next0 == IF again THEN twice ELSE shown
           early == Least(AheadFixed(c, t))
           n     == NextRun(c, t, last)
<1>1. shown \in Ahead(c, t) /\ twice \in Ahead(c, t) /\ shown < twice
  BY NextInTwice
<1>2. AheadFixed(c, t) # {} => early \in AheadFixed(c, t)
  <2>1. AheadFixed(c, t) \in SUBSET Nat
    BY InstantsAreNat DEF AheadFixed
  <2> QED BY <2>1, LeastIsLeast
<1>3. \/ n = next0
      \/ AheadFixed(c, t) # {} /\ n = early /\ early + Offset[t] \notin Shown
  BY DEF NextRun
<1>4. CASE n = next0
  <2>1. n \in Ahead(c, t) /\ (last = None \/ Wall(n) # Wall(last) \/ (shown < n /\ Wall(shown) = Wall(last)))
    BY <1>1, <1>4
  <2>2. n \in Instants /\ n > t
    BY <2>1 DEF Ahead
  <2> QED BY <2>1, <2>2
<1>5. CASE AheadFixed(c, t) # {} /\ n = early /\ early + Offset[t] \notin Shown
  BY <1>2, <1>5 DEF AheadFixed
<1> QED BY <1>3, <1>4, <1>5

\* A run is never of a reading that ran before: the last one is passed over
\* when it is shown again, and an older one cannot come back behind it.
LEMMA NextRunIsNew ==
  ASSUME RepeatsApart, NEW c \in Crons, NEW t \in 0..Horizon, NEW last \in Times, last <= t,
         last # None => last \in Candidates(c),
         NEW s \in Candidates(c), s <= last
  PROVE  Wall(NextRun(c, t, last)) # Wall(s)
<1> DEFINE n == NextRun(c, t, last)
<1>1. /\ n \in Instants /\ n > t
      /\ \/ n \in Ahead(c, t) /\ (last = None \/ Wall(n) # Wall(last) \/ (NextIn(c, t) < n /\ Wall(NextIn(c, t)) = Wall(last)))
         \/ n \in AheadFixed(c, t) /\ n + Offset[t] \notin Shown
  BY NextRunCases
<1>2. NextIn(c, t) \in Ahead(c, t)
  BY NextInTwice
<1>3. Ahead(c, t) \subseteq Candidates(c)
  BY DEF Ahead, Candidates
<1> HIDE DEF n
<1>4. Candidates(c) \subseteq Nat /\ t \in Int /\ last \in Int /\ n \in Int
  <2>1. Candidates(c) \subseteq Instants /\ n \in Instants /\ t \in Instants
    BY <1>1, InstantsAreNat DEF Candidates, Erased
  <2>2. Instants \subseteq Nat /\ last \in Int
    BY InstantsAreNat, TimesAreInt
  <2>3. Candidates(c) \subseteq Nat
    BY <2>1, <2>2
  <2>4. n \in Int /\ t \in Int
    BY <2>1, <2>2
  <2> QED BY <2>2, <2>3, <2>4
<1>5. last # None /\ last \in Candidates(c)
  BY <1>4, InstantsAreNat DEF None
<1>6. n \in AheadFixed(c, t) /\ n + Offset[t] \notin Shown => n \in Erased(c)
  <2> SUFFICES ASSUME n \in AheadFixed(c, t), n + Offset[t] \notin Shown PROVE n \in Erased(c)
    OBVIOUS
  <2>1. n \in Instants /\ n + Offset[t] \in Matches[c] \ Shown
    BY DEF AheadFixed
  <2>2. t \in 0..(n - 1)
    BY <1>1, <1>4, ClockAssumption
  <2> QED BY <2>1, <2>2 DEF Erased
<1>7. n \in Candidates(c)
  BY <1>1, <1>3, <1>6 DEF Candidates
<1> SUFFICES ASSUME Wall(n) = Wall(s) PROVE FALSE
  BY DEF n
<1>8. n \notin Erased(c) /\ \A m \in Candidates(c) : ~(s < m /\ m < n)
  BY <1>1, <1>4, <1>7 DEF RepeatsApart
<1>9. s = last
  BY <1>1, <1>4, <1>5, <1>8
<1>10. NextIn(c, t) < n /\ NextIn(c, t) \in Candidates(c) /\ s < NextIn(c, t)
  <2>1. NextIn(c, t) < n
    BY <1>1, <1>5, <1>6, <1>8, <1>9
  <2>2. NextIn(c, t) > t /\ NextIn(c, t) \in Candidates(c)
    BY <1>2, <1>3 DEF Ahead
  <2> QED BY <1>4, <1>9, <2>1, <2>2
<1> QED BY <1>8, <1>10

\* What an occurrence is: a match shown for the first time, or a reading
\* between what the clock shows before and after a jump.
LEMMA OccurrenceCases ==
  ASSUME NEW c \in Crons, NEW o \in Occurrences[c]
  PROVE  \/ /\ o.passed \in Instants /\ o.runs = o.passed /\ Wall(o.runs) \in Matches[c]
            /\ \A v \in 0..(o.runs - 1) : Wall(v) # Wall(o.runs)
         \/ /\ o.passed \in 1..Span /\ o.runs \in o.passed..Span
            /\ o.runs + Offset[o.passed - 1] \in Matches[c]
            /\ o.runs + Offset[o.passed - 1] < Wall(o.passed)
<1> DEFINE First == {u \in Instants : Wall(u) \in Matches[c] /\ \A v \in 0..(u - 1) : Wall(v) # Wall(u)}
           Gap(j) == {u \in j..Span : u + Offset[j - 1] \in Matches[c] /\ u + Offset[j - 1] < Wall(j)}
<1>1. o \in {[passed |-> t, runs |-> t] : t \in First}
           \cup UNION {{[passed |-> j, runs |-> t] : t \in Gap(j)} : j \in 1..Span}
  BY DEF Occurrences
<1>2. CASE o \in {[passed |-> t, runs |-> t] : t \in First}
  BY <1>2
<1>3. CASE o \in UNION {{[passed |-> j, runs |-> t] : t \in Gap(j)} : j \in 1..Span}
  <2>1. PICK j \in 1..Span : o \in {[passed |-> j, runs |-> t] : t \in Gap(j)}
    BY <1>3
  <2>2. PICK t \in Gap(j) : o = [passed |-> j, runs |-> t]
    BY <2>1
  <2> QED BY <2>2
<1> QED BY <1>1, <1>2, <1>3

\* A reading the clock left behind when it was put back, and passes before the
\* jump j, is shown again on the way there: no other jump can erase it.
LEMMA ShownAgain ==
  ASSUME JumpsSeparate, NEW j \in 1..Span, NEW v \in 0..(j - 1), NEW t \in 0..(j - 1),
         Wall(t) < Wall(v), Wall(v) <= Wall(j - 1)
  PROVE  \E w \in (t + 1)..(j - 1) : Wall(w) = Wall(v)
<1> DEFINE S == {w \in (t + 1)..(j - 1) : Wall(v) <= Wall(w)}
           w == Least(S)
<1>1. Span \in Nat /\ j \in Int /\ t \in Nat /\ v \in Nat /\ j - 1 \in 0..Span
  BY ClockAssumption
<1>2. \A u \in 0..Span : Wall(u) \in Int
  BY WallIsInt DEF Instants
<1>3. t # j - 1
  BY <1>1, <1>2
<1>4. j - 1 \in S /\ S \in SUBSET Nat
  BY <1>1, <1>3
<1>5. w \in S /\ \A y \in S : w <= y
  BY <1>4, LeastIsLeast
<1> HIDE DEF w
<1>6. w \in (t + 1)..(j - 1) /\ w - 1 \in t..(j - 1) /\ w \in 1..Span /\ w - 1 \in 0..Span
  BY <1>1, <1>5
<1>7. Wall(w - 1) < Wall(v)
  <2>1. w - 1 \notin S
    BY <1>1, <1>5, <1>6
  <2>2. w - 1 = t \/ w - 1 \in (t + 1)..(j - 1)
    BY <1>1, <1>6
  <2>3. w - 1 \in (t + 1)..(j - 1) => ~(Wall(v) <= Wall(w - 1))
    BY <2>1
  <2> QED BY <1>1, <1>2, <1>6, <2>2, <2>3
<1>8. Wall(w) = Wall(v)
  <2> SUFFICES ASSUME Wall(v) < Wall(w) PROVE FALSE
    BY <1>1, <1>2, <1>5, <1>6
  <2>1. Wall(w) > Wall(w - 1) + 1
    BY <1>1, <1>2, <1>6, <1>7
  <2>2. Wall(w) <= Wall(v) \/ Wall(v) <= Wall(w - 1)
    <3>1. v \in 0..(w - 1) \/ v \in w..Span
      BY <1>1, <1>6
    <3> QED BY <1>6, <2>1, <3>1 DEF JumpsSeparate
  <2> QED BY <1>1, <1>2, <1>6, <1>7, <2>2
<1> QED BY <1>6, <1>8

\* NextRun passes over no occurrence: a match shown for the first time is not
\* the repeated one it drops, and an erased reading is before it unless the
\* clock still shows an earlier match, which it then returns instead.
LEMMA NextRunSkipsNothing ==
  ASSUME JumpsSeparate, RepeatsFollowed,
         NEW c \in Crons, NEW t \in 0..Horizon, NEW last \in Times, last <= t,
         NEW o \in Occurrences[c], t < o.passed, o.runs < NextRun(c, t, last)
  PROVE  FALSE
<1> DEFINE shown == NextIn(c, t)
           twice == NextIn(c, shown)
           again == last # None /\ Wall(shown) = Wall(last)
           next0 == IF again THEN twice ELSE shown
           fixed == AheadFixed(c, t)
           early == Least(fixed)
           n     == NextRun(c, t, last)
<1>1. /\ shown \in Ahead(c, t) /\ twice \in Ahead(c, t) /\ shown < twice
      /\ \A u \in Ahead(c, t) : u < twice => u = shown
      /\ \A u \in Ahead(c, t) : shown <= u
      /\ \A u \in Ahead(c, shown) : twice <= u
  <2>1. Ahead(c, t) # {} /\ Ahead(c, shown) # {}
    BY ClockAssumption DEF NextIn
  <2> QED BY <2>1, NextInTwice, NextInIsFirst
<1>2. n = IF fixed # {} /\ early < next0 /\ early + Offset[t] \notin Shown THEN early ELSE next0
  BY DEF NextRun
<1>3. /\ Span \in Nat /\ Instants = 0..Span /\ t \in 0..Span /\ shown \in 0..Span /\ twice \in 0..Span
      /\ \A u \in 0..Span : Wall(u) \in Int /\ Offset[u] \in Int /\ Wall(u) = u + Offset[u]
  <2>1. Span \in Nat /\ Instants = 0..Span /\ t \in 0..Span
    BY ClockAssumption DEF Instants
  <2>2. shown \in 0..Span /\ twice \in 0..Span
    BY <1>1, <2>1 DEF Ahead
  <2>3. \A u \in 0..Span : Wall(u) \in Int /\ Offset[u] \in Int /\ Wall(u) = u + Offset[u]
    BY <2>1, WallIsInt, ClockAssumption DEF Wall
  <2> QED BY <2>1, <2>2, <2>3
<1>4. again => last \in 0..t
  BY <1>3, TimesAreInt DEF Times
<1>5. fixed # {} => early \in fixed /\ \A u \in fixed : early <= u
  <2>1. fixed \in SUBSET Nat
    BY InstantsAreNat DEF AheadFixed
  <2> QED BY <2>1, LeastIsLeast
<1>6. fixed \subseteq 0..Span /\ \A u \in fixed : u > t /\ u + Offset[t] \in Matches[c]
  BY <1>3 DEF AheadFixed
<1>7. \A u \in Ahead(c, t) : u \in 0..Span /\ u > t
  BY <1>3 DEF Ahead
<1> HIDE DEF shown, twice, fixed, early, n
<1>8. PICK p \in 0..Span, q \in 0..Span :
        /\ p = o.passed /\ q = o.runs /\ t < p /\ q < n
        /\ \/ /\ q = p /\ Wall(q) \in Matches[c]
              /\ \A v \in 0..(q - 1) : Wall(v) # Wall(q)
           \/ /\ p \in 1..Span /\ q \in p..Span
              /\ q + Offset[p - 1] \in Matches[c] /\ q + Offset[p - 1] < Wall(p)
  <2>1. o.runs \in 0..Span /\ o.passed \in 0..Span
    <3>1. o.passed \in 1..Span /\ o.runs \in o.passed..Span => o.runs \in 0..Span /\ o.passed \in 0..Span
      BY <1>3
    <3> QED BY <1>3, <3>1, OccurrenceCases
  <2> QED BY <2>1, OccurrenceCases DEF n
<1>9. q < next0
  <2>1. next0 \in 0..Span
    BY <1>3
  <2>2. fixed # {} => early \in 0..Span
    BY <1>5, <1>6
  <2> HIDE DEF next0
  <2>3. n \in 0..Span /\ n <= next0
    BY <1>2, <1>3, <2>1, <2>2
  <2> QED BY <1>3, <1>8, <2>1, <2>3
<1>10. CASE /\ q = p /\ Wall(q) \in Matches[c]
            /\ \A v \in 0..(q - 1) : Wall(v) # Wall(q)
  <2>1. q \in Ahead(c, t)
    BY <1>3, <1>8, <1>10 DEF Ahead
  <2>2. again /\ q = shown
    BY <1>1, <1>3, <1>8, <1>9, <2>1
  <2>3. last \in 0..(q - 1)
    BY <1>3, <1>4, <1>8, <1>10, <2>2
  <2> QED BY <1>10, <2>2, <2>3
<1>11. CASE /\ p \in 1..Span /\ q \in p..Span
            /\ q + Offset[p - 1] \in Matches[c]
            /\ q + Offset[p - 1] < Wall(p)
  <2> DEFINE r == q + Offset[p - 1]
             u == r - Offset[t]
  <2>0. /\ p \in 1..Span /\ p - 1 \in 0..Span /\ t \in 0..(p - 1) /\ q \in p..Span
        /\ p \in Int /\ q \in Int /\ t \in Int
    <3>1. p \in 1..Span /\ q \in p..Span /\ t < p
      BY <1>8, <1>11
    <3>2. Span \in Nat /\ t \in 0..Span
      BY <1>3
    <3> QED BY ONLY <3>1, <3>2
  <2>1. /\ Offset[p - 1] \in Int /\ Offset[t] \in Int /\ r \in Int /\ u \in Int
        /\ r \in Matches[c] /\ r < Wall(p) /\ Wall(p) \in Int /\ Wall(p - 1) \in Int /\ Wall(t) \in Int
        /\ Wall(p - 1) = p - 1 + Offset[p - 1] /\ Wall(t) = t + Offset[t]
    <3>1. /\ Offset[p - 1] \in Int /\ Wall(p - 1) \in Int /\ Wall(p - 1) = p - 1 + Offset[p - 1]
      BY <1>3, <2>0
    <3>2. Offset[t] \in Int /\ Wall(t) \in Int /\ Wall(t) = t + Offset[t] /\ Wall(p) \in Int
      BY <1>3, <1>8
    <3> QED BY <1>11, <2>0, <3>1, <3>2
  <2> HIDE DEF r, u
  <2>2. r = q + Offset[p - 1] /\ r = u + Offset[t] /\ Wall(p - 1) < r
    BY <2>0, <2>1 DEF r, u
  <2>3. Wall(p) > Wall(p - 1) + 1
    BY <2>0, <2>1, <2>2
  <2>4. /\ \A v \in 0..(p - 1) : Wall(v) <= Wall(p - 1)
        /\ Offset[p - 1] <= Offset[t]
        /\ \A v \in p..Span : Wall(p) <= Wall(v)
    BY <2>0, <2>3 DEF JumpsSeparate
  <2>5. u > t /\ u <= q
    <3>1. Wall(t) <= Wall(p - 1) /\ Offset[p - 1] <= Offset[t]
      BY <2>0, <2>4
    <3> QED BY <2>0, <2>1, <2>2, <3>1
  <2>6. u \in fixed
    <3>1. u \in Instants
      BY <1>3, <1>8, <2>0, <2>1, <2>5
    <3> QED BY <2>1, <2>2, <2>5, <3>1 DEF fixed, AheadFixed
  <2>7. early \in fixed /\ early <= u /\ early < next0 /\ early \in 0..Span
    <3>1. early \in fixed /\ early <= u /\ early \in 0..Span
      BY <1>5, <1>6, <2>6
    <3>2. next0 \in Int
      BY <1>3
    <3> HIDE DEF next0
    <3> QED BY <1>3, <1>9, <2>0, <2>1, <2>5, <3>1, <3>2
  <2>8. early + Offset[t] \in Shown
    <3> SUFFICES ASSUME early + Offset[t] \notin Shown PROVE FALSE
      OBVIOUS
    <3>1. n = early
      BY <1>2, <2>7
    <3> QED BY <1>3, <1>8, <2>0, <2>1, <2>5, <2>7, <3>1
  <2>9. PICK v \in 0..Span : Wall(v) = early + Offset[t]
    BY <1>3, <2>8 DEF Shown
  <2>10. Wall(v) \in Matches[c] /\ Wall(v) <= r /\ Wall(t) < Wall(v)
    <3>1. early + Offset[t] \in Matches[c] /\ early > t /\ early \in Int
      BY <1>3, <1>6, <2>7
    <3> QED BY <2>0, <2>1, <2>2, <2>7, <2>9, <3>1
  <2>11. v \in 0..(p - 1) /\ Wall(v) <= Wall(p - 1)
    <3>1. v \notin p..Span
      BY <1>3, <2>1, <2>4, <2>10
    <3>2. v \in 0..(p - 1)
      BY <1>3, <2>0, <3>1
    <3> QED BY <2>4, <3>2
  <2>12. \E w \in (t + 1)..(p - 1) : Wall(w) = Wall(v)
    <3>1. CASE v > t
      BY <1>3, <2>0, <2>11, <3>1
    <3>2. CASE ~(v > t)
      BY <2>0, <2>10, <2>11, ShownAgain
    <3> QED BY <3>1, <3>2
  <2>13. PICK w \in (t + 1)..(p - 1) : Wall(w) = Wall(v)
    BY <2>12
  <2>14. w \in Ahead(c, t) /\ w < q /\ w < next0 /\ w \in 0..Span
    <3>1. w \in 0..Span /\ w > t /\ w < q
      BY <1>3, <2>0, <2>13
    <3>2. next0 \in Int
      BY <1>3
    <3>3. w \in Ahead(c, t)
      BY <1>3, <2>10, <2>13, <3>1 DEF Ahead
    <3> HIDE DEF next0
    <3> QED BY <1>3, <1>9, <2>0, <3>1, <3>2, <3>3
  <2>15. again /\ w = shown
    BY <1>1, <1>3, <2>14
  <2>16. last \in 0..(shown - 1) /\ Wall(last) = Wall(shown)
    BY <1>1, <1>3, <1>4, <1>7, <2>15
  <2>17. \E x \in Ahead(c, shown) : x <= q
    <3>1. shown \in Instants /\ Wall(shown) \in Matches[c] /\ shown < p
      BY <1>3, <2>0, <2>10, <2>13, <2>15
    <3> QED BY <1>8, <2>16, <3>1 DEF RepeatsFollowed
  <2>18. PICK x \in Ahead(c, shown) : x <= q
    BY <2>17
  <2>19. twice <= x /\ x \in 0..Span
    BY <1>1, <1>3, <2>18 DEF Ahead
  <2> QED BY <1>3, <1>8, <1>9, <2>15, <2>18, <2>19
<1> QED BY <1>8, <1>10, <1>11

-----------------------------------------------------------------------------
(* The row between the tick and an edit. *)

\* A tick is over within its instant, and dies with the panel.
AtNow == tick.pc # "idle" => up = TRUE /\ tick.at = now

\* Whoever would overwrite next_run_at on the strength of the value it read is
\* still speaking of the same expression.
CronOk ==
  /\ patch.pc = "open" => row.state = "gone" \/ patch.copy.cron = row.cron
  /\ tick.pc # "idle" =>
       /\ row.state # "gone" /\ row.next = copy.next => row.cron = copy.cron
       /\ patch.pc = "open" /\ patch.copy.next = copy.next => patch.copy.cron = copy.cron

EInv == TInv /\ AtNow /\ CronOk

\* Only a PATCH changes the expression, and it then stores a next run that no
\* tick at work has read.
LEMMA EditStep == EInv /\ [Next]_vars => EInv'
<1> SUFFICES ASSUME EInv, [Next]_vars PROVE AtNow' /\ CronOk'
  BY TypeStep DEF EInv
<1> USE DEF EInv
<1>0. row \in Rows /\ copy \in Rows /\ patch.copy \in Rows /\ up \in BOOLEAN
  BY DEF TInv, TypeOK, copy
<1>1. CASE UNCHANGED <<now, up, row, tick, patch>>
  BY <1>1 DEF AtNow, CronOk, copy
<1>2. CASE TickRead
  <2>1. UNCHANGED <<now, up, row, patch>> /\ up = TRUE
    BY <1>0, <1>2 DEF TickRead
  <2>2. tick'.pc = "idle" \/ (tick'.at = now /\ tick'.copy = row /\ row.state = "on")
    BY <1>2 DEF TickRead, Due, Idle
  <2> QED BY <2>1, <2>2 DEF AtNow, CronOk, copy
<1>3. CASE TickFirst \/ TickMark \/ TickHold
  <2>1. tick'.pc = "idle" /\ patch' = patch
    BY <1>3 DEF TickFirst, TickMark, TickHold, Idle
  <2>2. row'.state = row.state /\ row'.cron = row.cron
    BY <1>3 DEF TickFirst, TickMark, TickHold, MarkScheduleRun, DeferSchedule, Row
  <2> QED BY <2>1, <2>2 DEF AtNow, CronOk
<1>4. ASSUME NEW crowd \in {"yes", "no"}, TickGo(crowd) PROVE AtNow' /\ CronOk'
  BY <1>4 DEF TickGo, AtNow, CronOk, copy
<1>5. CASE TickStillDue \/ TickEnqueue \/ TickSkip \/ TickMarkFails
  <2>1. UNCHANGED <<now, up, row, patch>> /\ tick.pc # "idle"
    BY <1>5 DEF TickStillDue, TickEnqueue, TickSkip, TickMarkFails
  <2>2. tick'.pc = "idle" \/ (tick'.at = tick.at /\ tick'.copy = tick.copy)
    <3>1. CASE TickStillDue
      BY <3>1 DEF TickStillDue, Idle, copy
    <3>2. CASE TickEnqueue \/ TickSkip
      <4>1. ToMark
        BY <3>2 DEF TickEnqueue, TickSkip
      <4> QED BY <4>1 DEF ToMark, copy
    <3>3. CASE TickMarkFails
      BY <3>3 DEF TickMarkFails, Idle
    <3> QED BY <1>5, <3>1, <3>2, <3>3
  <2> QED BY <2>1, <2>2 DEF AtNow, CronOk, copy
<1>6. CASE PatchRead \/ PatchRefused
  BY <1>6 DEF PatchRead, PatchRefused, Closed, AtNow, CronOk, copy
<1>7. ASSUME NEW c \in Crons, NEW s \in {"on", "off"}, NEW w \in {"yes", "no"}, PatchWrite(c, s, w)
      PROVE  AtNow' /\ CronOk'
  <2> DEFINE was   == patch.copy
             fresh == c # was.cron \/ (s = "on" /\ was.state = "off")
  <2>1. /\ UNCHANGED <<now, up, tick>> /\ patch.pc = "open" /\ patch'.pc = "idle"
        /\ \/ row.state = "gone" /\ row' = row
           \/ /\ row'.state = s /\ row'.cron = c
              /\ row'.next = IF fresh THEN NextIn(c, now) ELSE was.next
    BY <1>7 DEF PatchWrite, Closed, Row
  <2>2. NextIn(c, now) \in Int /\ NextIn(c, now) > now
    <3>1. now \in 0..Horizon
      BY DEF TInv, TypeOK
    <3>2. NextIn(c, now) \in Ahead(c, now)
      BY <3>1, NextInTwice
    <3>3. NextIn(c, now) \in Instants /\ NextIn(c, now) > now
      BY <3>2 DEF Ahead
    <3>4. Instants \subseteq Int
      BY InstantsAreNat
    <3> QED BY <3>3, <3>4
  <2>3. tick.pc # "idle" => copy.next <= now /\ copy.next \in Int /\ now \in Int
    <3>1. now \in Int
      BY ClockAssumption DEF TInv, TypeOK
    <3>2. copy.next \in Int
      BY <1>0, TimesAreInt DEF Rows
    <3> QED BY <3>1, <3>2 DEF TInv, TickAtWork
  <2>4. tick.pc # "idle" /\ row'.state # "gone" /\ row'.next = copy.next => row'.cron = copy.cron
    BY <2>1, <2>2, <2>3 DEF CronOk
  <2> QED BY <2>1, <2>4 DEF AtNow, CronOk, copy
<1>8. CASE DeleteSchedule
  BY <1>8 DEF DeleteSchedule, Gone, Row, AtNow, CronOk, copy
<1>9. ASSUME NEW t \in CutTimes, CreatePlannedShutdown(t) \/ DeletePlannedShutdown(t)
      PROVE  AtNow' /\ CronOk'
  BY <1>1, <1>9 DEF CreatePlannedShutdown, DeletePlannedShutdown
<1>10. CASE CutTick \/ JobEnds \/ OperatorStarts
  BY <1>1, <1>10 DEF CutTick, JobEnds, OperatorStarts
<1>11. CASE Kill
  BY <1>11 DEF Kill, Idle, Closed, AtNow, CronOk
<1>12. CASE Boot
  BY <1>12 DEF Boot, AtNow, CronOk, copy
<1>13. CASE Clock
  BY <1>13 DEF Clock, AtNow, CronOk, copy
<1>14. CASE UNCHANGED vars
  BY <1>1, <1>14 DEF vars
<1> QED
  BY <1>2, <1>3, <1>4, <1>5, <1>6, <1>7, <1>8, <1>9, <1>10, <1>11, <1>12, <1>13, <1>14 DEF Next

\* The tick, the edits and the clock keep the row, its copies and time in step.
LEMMA EditsInStep == Spec => []EInv
<1>1. Init => EInv
  BY InitIsTyped DEF Init, EInv, AtNow, CronOk, Idle, Closed
<1> QED BY <1>1, EditStep, PTL DEF Spec

-----------------------------------------------------------------------------
(* No occurrence is skipped. *)

SkipsNothing(r) ==
  r.from # None => \A o \in Occurrences[r.cron] : ~(r.from < o.passed /\ o.runs < r.next)

SkipOk == SkipsNothing(row) /\ (patch.pc = "open" => SkipsNothing(patch.copy))

\* A tick that advances the row stores the NextRun of its own instant.
LEMMA SkipStep ==
  ASSUME JumpsSeparate, RepeatsFollowed, EInv, SkipOk, [Next]_vars
  PROVE  SkipOk'
<1> USE DEF EInv
<1>0. row \in Rows /\ copy \in Rows /\ patch.copy \in Rows
  BY DEF TInv, TypeOK, copy
<1>1. CASE UNCHANGED row /\ (patch'.pc = "open" => patch' = patch \/ patch'.copy = row)
  BY <1>1 DEF SkipOk, SkipsNothing
<1>2. ASSUME TickFirst \/ TickMark PROVE SkipOk'
  <2>1. PICK last \in Times : tick.pc # "idle" /\ last <= tick.at /\ MarkScheduleRun(NextRun(copy.cron, tick.at, last))
    <3>1. CASE TickFirst
      <4>1. tick.at \in 0..Horizon /\ None \in Times /\ None <= tick.at
        BY <3>1, ClockAssumption, TimesAreInt DEF TickFirst, TInv, TickAtWork, None
      <4> QED BY <3>1, <4>1 DEF TickFirst
    <3>2. CASE TickMark
      <4>1. copy.next \in Times /\ copy.next <= tick.at
        BY <1>0, <3>2 DEF TickMark, TInv, TickAtWork, AtNow, Rows
      <4> QED BY <3>2, <4>1 DEF TickMark
    <3> QED BY <1>2, <3>1, <3>2
  <2>2. patch' = patch /\ tick.at \in 0..Horizon /\ copy.cron \in Crons
    BY <1>0, <1>2, <2>1 DEF TickFirst, TickMark, TInv, TickAtWork, Rows
  <2>3. CASE row' = row
    BY <2>2, <2>3 DEF SkipOk, SkipsNothing
  <2>4. CASE row' # row
    <3>1. row.cron = copy.cron
      BY <2>1, <2>4 DEF MarkScheduleRun, CronOk
    <3>2. row'.cron = copy.cron /\ row'.from = tick.at /\ row'.next = NextRun(copy.cron, tick.at, last)
      BY <2>1, <2>4, <3>1 DEF MarkScheduleRun, Row
    <3>3. SkipsNothing(row)'
      BY <2>1, <2>2, <3>2, NextRunSkipsNothing DEF SkipsNothing
    <3> QED BY <2>2, <3>3 DEF SkipOk, SkipsNothing
  <2> QED BY <2>3, <2>4
<1>3. CASE TickHold
  <2>1. row'.cron = row.cron /\ row'.from = row.from /\ row'.next = row.next /\ patch' = patch
    BY <1>3 DEF TickHold, DeferSchedule, Row
  <2> QED BY <2>1 DEF SkipOk, SkipsNothing
<1>4. ASSUME NEW c \in Crons, NEW s \in {"on", "off"}, NEW w \in {"yes", "no"}, PatchWrite(c, s, w)
      PROVE  SkipOk'
  <2>1. patch.pc = "open" /\ patch'.pc = "idle"
    BY <1>4 DEF PatchWrite, Closed
  <2>2. \/ row' = row
        \/ row'.from = None
        \/ row'.cron = patch.copy.cron /\ row'.from = patch.copy.from /\ row'.next = patch.copy.next
    BY <1>4 DEF PatchWrite, Row
  <2> QED BY <2>1, <2>2 DEF SkipOk, SkipsNothing
<1>5. CASE DeleteSchedule
  BY <1>5 DEF DeleteSchedule, Gone, Row, SkipOk, SkipsNothing
<1>6. ASSUME TickRead \/ TickStillDue \/ TickEnqueue \/ TickSkip \/ TickMarkFails
             \/ CutTick \/ JobEnds \/ OperatorStarts \/ Boot \/ Clock \/ UNCHANGED vars
      PROVE  SkipOk'
  <2>1. UNCHANGED <<row, patch>>
    BY <1>6 DEF TickRead, TickStillDue, TickEnqueue, TickSkip, TickMarkFails,
       CutTick, JobEnds, OperatorStarts, Boot, Clock, vars
  <2> QED BY <1>1, <2>1
<1>9. CASE PatchRead \/ PatchRefused \/ Kill
  BY <1>1, <1>9 DEF PatchRead, PatchRefused, Kill, Closed
<1>7. ASSUME NEW crowd \in {"yes", "no"}, TickGo(crowd) PROVE SkipOk'
  BY <1>1, <1>7 DEF TickGo
<1>8. ASSUME NEW t \in CutTimes, CreatePlannedShutdown(t) \/ DeletePlannedShutdown(t) PROVE SkipOk'
  BY <1>1, <1>8 DEF CreatePlannedShutdown, DeletePlannedShutdown
<1> QED BY <1>2, <1>3, <1>4, <1>5, <1>6, <1>7, <1>8, <1>9 DEF Next

(* For every expression, every calendar whose jumps part its readings and  *)
(* every interleaving of ticks, edits, holds and kills: the next_run_at a  *)
(* tick stores passes over no occurrence (NextRun, MarkScheduleRun).       *)
THEOREM NothingIsSkipped ==
  ASSUME JumpsSeparate, RepeatsFollowed
  PROVE  Spec => []NoOccurrenceSkipped
<1>1. Init => SkipOk
  BY DEF Init, SkipOk, SkipsNothing, Row, Closed
<1>2. EInv /\ SkipOk /\ [Next]_vars => SkipOk'
  BY SkipStep
<1>3. SkipOk => NoOccurrenceSkipped
  BY DEF SkipOk, SkipsNothing, NoOccurrenceSkipped
<1> QED BY <1>1, <1>2, <1>3, EditsInStep, PTL DEF Spec

-----------------------------------------------------------------------------
(* A reading runs once. *)

\* The readings that ran are those of runs before the one stored next, or of
\* the one the tick has just run and not yet marked; the next one is not among
\* them until then.
RanOk ==
  Clean({"stalePatch", "unmarked"}) =>
    /\ row.state # "gone" =>
         /\ row.next # None => row.next \in Candidates(row.cron)
         /\ \A r \in ran : \E s \in Candidates(row.cron) : Wall(s) = r /\ s <= row.next
         /\ ~(tick.pc = "mark" /\ row.next = copy.next) /\ row.next # None => Wall(row.next) \notin ran
    /\ tick.pc \in {"due", "go", "fire"} /\ copy.next # None => Wall(copy.next) \notin ran

\* Marking a run stores a reading that never ran.
LEMMA MarkIsNew ==
  ASSUME RepeatsApart, EInv, RanOk, Clean({"stalePatch", "unmarked"}), NEW last,
         tick.pc # "idle", last = copy.next, row.state # "gone", row.next = copy.next
  PROVE  LET n == NextRun(copy.cron, tick.at, last) IN
         /\ n \in Candidates(row.cron) /\ row.next <= n /\ n \in Instants
         /\ Wall(n) \notin ran
<1> DEFINE n == NextRun(copy.cron, tick.at, last)
<1> USE DEF EInv
<1>1. /\ row.cron = copy.cron /\ copy.cron \in Crons /\ copy.next \in Times /\ copy.next <= tick.at
      /\ tick.at \in 0..Horizon
  <2>1. copy \in Rows
    BY DEF TInv, TypeOK, copy
  <2> QED BY <2>1 DEF CronOk, AtNow, TInv, TickAtWork, Rows
<1>2. /\ n \in Instants /\ n > tick.at
      /\ n \in Ahead(copy.cron, tick.at)
         \/ (n \in AheadFixed(copy.cron, tick.at) /\ n + Offset[tick.at] \notin Shown)
  BY <1>1, NextRunCases
<1> HIDE DEF n
<1>3. tick.at \in Nat /\ n \in Nat /\ copy.next \in Int /\ Instants \subseteq Nat
  BY <1>1, <1>2, InstantsAreNat, TimesAreInt, ClockAssumption
<1>4. n \in Candidates(copy.cron)
  <2>1. CASE n \in Ahead(copy.cron, tick.at)
    BY <2>1 DEF Ahead, Candidates
  <2>2. CASE n \in AheadFixed(copy.cron, tick.at) /\ n + Offset[tick.at] \notin Shown
    <3>1. tick.at \in 0..(n - 1)
      BY <1>2, <1>3
    <3>2. n + Offset[tick.at] \in Matches[copy.cron] \ Shown
      BY <2>2 DEF AheadFixed
    <3> QED BY <1>2, <3>1, <3>2 DEF Candidates, Erased
  <2> QED BY <1>2, <2>1, <2>2
<1>5. row.next <= n
  BY <1>1, <1>2, <1>3
<1>6. ASSUME NEW r \in ran, Wall(n) = r PROVE FALSE
  <2>1. PICK s \in Candidates(copy.cron) : Wall(s) = r /\ s <= copy.next
    BY <1>1 DEF RanOk
  <2>2. copy.next # None => copy.next \in Candidates(copy.cron)
    BY <1>1 DEF RanOk
  <2>3. Wall(n) # Wall(s)
    BY <1>1, <2>1, <2>2, NextRunIsNew DEF n
  <2> QED BY <1>6, <2>1, <2>3
<1> QED BY <1>1, <1>2, <1>4, <1>5, <1>6 DEF n

\* Every step keeps what the marks say of the readings that ran.
LEMMA OnceStep ==
  ASSUME RepeatsApart, EInv, RanOk, [Next]_vars
  PROVE  RanOk'
<1> USE DEF EInv
<1> DEFINE Fine == Clean({"stalePatch", "unmarked"})
<1>0. row \in Rows /\ copy \in Rows /\ patch.copy \in Rows
  BY DEF TInv, TypeOK, copy
<1>1. CASE UNCHANGED <<row, tick, ran>> /\ hit \subseteq hit'
  BY <1>1 DEF RanOk, Clean, copy
<1>2. CASE TickRead
  <2>1. UNCHANGED <<row, ran, hit>> /\ tick.pc = "idle"
    BY <1>2 DEF TickRead
  <2>2. tick'.pc = "idle" \/ (tick'.pc = "due" /\ tick'.copy = row /\ row.state = "on")
    BY <1>2 DEF TickRead, Due, Idle
  <2> QED BY <2>1, <2>2 DEF RanOk, Clean, copy
<1>3. CASE TickFirst \/ TickMark
  <2> SUFFICES ASSUME Fine' PROVE RanOk'
    BY DEF RanOk
  <2>1. /\ tick.pc # "idle" /\ tick'.pc = "idle" /\ UNCHANGED <<ran, hit>>
        /\ MarkScheduleRun(NextRun(copy.cron, tick.at, copy.next))
    BY <1>3 DEF TickFirst, TickMark, Idle
  <2>2. Fine
    BY <2>1 DEF Clean
  <2>3. CASE row.state = "gone" \/ row.next # copy.next
    BY <2>1, <2>2, <2>3 DEF MarkScheduleRun, RanOk
  <2>4. CASE row.state # "gone" /\ row.next = copy.next
    <3> DEFINE n == NextRun(copy.cron, tick.at, copy.next)
    <3>1. /\ n \in Candidates(row.cron) /\ row.next <= n /\ n \in Instants
          /\ Wall(n) \notin ran
      BY <2>1, <2>2, <2>4, MarkIsNew
    <3>2. row'.next = n /\ row'.cron = row.cron
      BY <2>1, <2>4 DEF MarkScheduleRun, Row
    <3> HIDE DEF n
    <3>3. \A r \in ran : \E s \in Candidates(row.cron) : Wall(s) = r /\ s <= n
      <4> TAKE r \in ran
      <4>1. PICK s \in Candidates(row.cron) : Wall(s) = r /\ s <= row.next
        BY <2>2, <2>4 DEF RanOk
      <4>2. s \in Instants
        BY DEF Candidates, Erased
      <4>3. s \in Int /\ row.next \in Int /\ n \in Int
        <5>1. row.next \in Times
          BY <1>0 DEF Rows
        <5>2. Instants \subseteq Int /\ Times \subseteq Int
          BY InstantsAreNat, TimesAreInt
        <5> QED BY <3>1, <4>2, <5>1, <5>2
      <4>4. s <= n
        BY <3>1, <4>1, <4>3
      <4> QED BY <4>1, <4>4
    <3> QED BY <2>1, <3>1, <3>2, <3>3 DEF RanOk
  <2> QED BY <2>3, <2>4
<1>4. CASE TickHold
  <2>1. /\ row'.state = row.state /\ row'.cron = row.cron /\ row'.next = row.next
        /\ ran' = ran /\ hit \subseteq hit' /\ tick'.pc = "idle" /\ tick.pc = "due"
    BY <1>4 DEF TickHold, DeferSchedule, Note, Row, Idle
  <2> QED BY <2>1 DEF RanOk, Clean
<1>5. ASSUME NEW crowd \in {"yes", "no"}, TickGo(crowd) PROVE RanOk'
  BY <1>5 DEF TickGo, RanOk, Clean, copy
<1>6. CASE TickStillDue
  BY <1>6 DEF TickStillDue, Idle, RanOk, Clean, copy
<1>7. CASE TickEnqueue
  <2> SUFFICES ASSUME Fine' PROVE RanOk'
    BY DEF RanOk
  <2>1. /\ tick.pc = "fire" /\ tick'.pc = "mark" /\ tick'.copy = copy /\ row' = row
        /\ hit \subseteq hit' /\ ran' = IF StillDue THEN ran \cup {Wall(copy.next)} ELSE ran
    BY <1>7 DEF TickEnqueue, ToMark, Note
  <2>2. Fine
    BY <2>1 DEF Clean
  <2>3. CASE ~StillDue
    BY <2>1, <2>2, <2>3 DEF RanOk, copy
  <2>4. CASE StillDue
    <3>1. row.state = "on" /\ row.next = copy.next /\ copy.next # None
      BY <2>1, <2>4 DEF StillDue, TInv, TickAtWork
    <3>2. row.next \in Candidates(row.cron) /\ row.next <= row.next
      <4>1. row.next \in Int
        BY <1>0, TimesAreInt DEF Rows
      <4>2. row.next \in Candidates(row.cron)
        BY <2>2, <3>1 DEF RanOk
      <4> QED BY <4>1, <4>2
    <3>3. \A r \in ran' : \E s \in Candidates(row.cron) : Wall(s) = r /\ s <= row.next
      BY <2>1, <2>2, <2>4, <3>1, <3>2 DEF RanOk
    <3> QED BY <2>1, <3>1, <3>2, <3>3 DEF RanOk, copy
  <2> QED BY <2>3, <2>4
<1>8. CASE TickSkip
  <2>1. tick.pc = "fire" /\ tick'.pc = "mark" /\ UNCHANGED <<row, ran, hit>>
    BY <1>8 DEF TickSkip, ToMark
  <2> QED BY <2>1 DEF RanOk, Clean
<1>9. CASE TickMarkFails
  BY <1>9 DEF TickMarkFails, Note, RanOk, Clean
<1>10. ASSUME NEW c \in Crons, NEW s \in {"on", "off"}, NEW w \in {"yes", "no"}, PatchWrite(c, s, w)
       PROVE  RanOk'
  <2> SUFFICES ASSUME Fine' PROVE RanOk'
    BY DEF RanOk
  <2> DEFINE fresh == c # row.cron \/ (s = "on" /\ row.state = "off")
  <2>1. Fine /\ row = patch.copy /\ tick' = tick
    BY <1>10 DEF PatchWrite, Note, Clean
  <2>2. CASE row.state = "gone"
    <3>1. row' = row /\ ran' \subseteq ran
      BY <1>10, <2>2 DEF PatchWrite
    <3> QED BY <2>1, <2>2, <3>1 DEF RanOk, copy
  <2>3. CASE row.state # "gone" /\ ~fresh
    <3>1. row'.next = row.next /\ row'.cron = row.cron /\ ran' = ran
      BY <1>10, <2>1, <2>3 DEF PatchWrite, Row
    <3> QED BY <2>1, <2>3, <3>1 DEF RanOk, copy
  <2>4. CASE row.state # "gone" /\ fresh
    <3>1. row'.next = NextIn(c, now) /\ row'.cron = c /\ ran' = {}
      BY <1>10, <2>1, <2>4 DEF PatchWrite, Row
    <3>2. now \in 0..Horizon
      BY DEF TInv, TypeOK
    <3>3. NextIn(c, now) \in Candidates(c)
      BY <3>2, NextInTwice DEF Ahead, Candidates
    <3> QED BY <3>1, <3>3 DEF RanOk
  <2> QED BY <2>2, <2>3, <2>4
<1>11. CASE DeleteSchedule
  BY <1>11 DEF DeleteSchedule, Gone, Row, RanOk, Clean, copy
<1>12. CASE Kill
  <2>1. tick'.pc = "idle" /\ UNCHANGED <<row, ran>> /\ hit \subseteq hit'
    BY <1>12 DEF Kill, Idle
  <2>2. tick.pc = "mark" => ~Fine'
    BY <1>12 DEF Kill, Clean
  <2> QED BY <2>1, <2>2 DEF RanOk, Clean
<1>13. ASSUME PatchRead \/ PatchRefused \/ CutTick \/ JobEnds \/ OperatorStarts \/ Boot \/ Clock \/ UNCHANGED vars
       PROVE  RanOk'
  <2>1. UNCHANGED <<row, tick, ran>> /\ hit \subseteq hit'
    BY <1>13 DEF PatchRead, PatchRefused, CutTick, JobEnds, OperatorStarts, Boot, Clock, Note, vars
  <2> QED BY <1>1, <2>1
<1>14. ASSUME NEW t \in CutTimes, CreatePlannedShutdown(t) \/ DeletePlannedShutdown(t) PROVE RanOk'
  BY <1>1, <1>14 DEF CreatePlannedShutdown, DeletePlannedShutdown, Note
<1> QED
  BY <1>2, <1>3, <1>4, <1>5, <1>6, <1>7, <1>8, <1>9, <1>10, <1>11, <1>12, <1>13, <1>14 DEF Next

(* For every expression no more frequent than a repeated hour is long, a   *)
(* reading of the wall clock runs once (NextRun's sameWallClock), whatever *)
(* is held, skipped, edited or killed, unless an edit is written over a    *)
(* newer row or a run is not marked.                                       *)
THEOREM ReadingRunsOnce ==
  ASSUME RepeatsApart
  PROVE  Spec => []OncePerReading
<1>1. Init => RanOk
  <2> SUFFICES ASSUME Init PROVE RanOk
    OBVIOUS
  <2>1. PICK c \in Crons, w \in {"yes", "no"} : \E n \in {None, NextIn(c, 0)} : row = Row("on", c, w, n, None, None)
    BY DEF Init
  <2>2. 0 \in 0..Horizon
    BY ClockAssumption
  <2>3. NextIn(c, 0) \in Candidates(c)
    BY <2>2, NextInTwice DEF Ahead, Candidates
  <2>4. row.cron = c /\ (row.next = None \/ row.next = NextIn(c, 0))
    BY <2>1 DEF Row
  <2> QED BY <2>3, <2>4 DEF Init, RanOk, Idle
<1>2. EInv /\ RanOk /\ [Next]_vars => RanOk'
  BY OnceStep
<1>3. EInv /\ RanOk => OncePerReading
  BY DEF EInv, TInv, TickAtWork, RanOk, OncePerReading
<1> QED BY <1>1, <1>2, <1>3, EditsInStep, PTL DEF Spec

=============================================================================
