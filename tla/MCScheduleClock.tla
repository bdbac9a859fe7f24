--------------------------- MODULE MCScheduleClock ---------------------------
(* A day on which the clock goes forward by two ticks at instant 3, so     *)
(* that the readings 3 and 4 are never shown, and back at instant 7, so    *)
(* that 7 and 8 are shown twice.                                           *)
EXTENDS ScheduleClock, TLC

MCOffset == [t \in Instants |-> IF t \in 3..6 THEN 2 ELSE 0]

\* One expression with a match in each hour that a change touches, and one
\* that matches every hour.
MCMatches == "daily" :> {1, 4, 8, 11, 14} @@ "hourly" :> {n \in 0..16 : n % 2 = 1}

\* One accident is enough for every exception the properties make.
OneAccident == Cardinality(hit) <= 1

\* This day is one of the calendars the theorems are about.
ASSUME MCCalendar == JumpsSeparate /\ RepeatsFollowed /\ RepeatsApart /\ TimingFits
=============================================================================
