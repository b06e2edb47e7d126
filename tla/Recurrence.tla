----------------------------- MODULE Recurrence ------------------------------
(***************************************************************************)
(* When a cron schedule fires next: the search of nextCronOccurrence       *)
(* (broker/src/scheduling/schedule-store.ts), one iteration of its loop a  *)
(* step.  Time is counted in minutes.  An hour, a day, a month and a year  *)
(* have as many parts as the constants say.  The zone has one offset until *)
(* the minute Change, and Shift more from then on.                         *)
(***************************************************************************)
EXTENDS Integers

CONSTANTS MinutesPerHour, HoursPerDay, DaysPerMonth, MonthsPerYear, DaysPerWeek,
          Offset, Change, Shift,  \* the zone
          Minutes, Hours, Months,  \* the values a field may be given
          MonthDays, WeekDays,    \* the same for the day, and whether it is a wildcard
          Starts,                 \* the minutes a search may start from
          Horizon                 \* how far a search looks: five years in the code

MinutesPerDay == MinutesPerHour * HoursPerDay

ASSUME RecurrenceAssumption ==
    /\ {MinutesPerHour, HoursPerDay, DaysPerMonth, MonthsPerYear, DaysPerWeek}
          \subseteq Nat \ {0}
    /\ {Offset, Change, Horizon} \subseteq Nat /\ Shift \in Int
    /\ Minutes \subseteq SUBSET (0..MinutesPerHour - 1)
    /\ Hours \subseteq SUBSET (0..HoursPerDay - 1)
    /\ MonthDays \subseteq [values : SUBSET (0..DaysPerMonth - 1), wildcard : BOOLEAN]
    /\ WeekDays \subseteq [values : SUBSET (0..DaysPerWeek - 1), wildcard : BOOLEAN]
    /\ Months \subseteq SUBSET (0..MonthsPerYear - 1)
    /\ {} \notin Minutes \cup Hours \cup Months
    /\ Starts \subseteq Nat

VARIABLES cron,       \* the parsed expression: the values of each field
          after,      \* search strictly after this minute
          candidate, found

cronVars == <<cron, after, candidate, found>>

-----------------------------------------------------------------------------
\* wallParts: what a clock in the zone shows at a minute.
Wall(t)   == t + Offset + IF t < Change THEN 0 ELSE Shift
Minute(t) == Wall(t) % MinutesPerHour
Hour(t)   == (Wall(t) \div MinutesPerHour) % HoursPerDay
Day(t)    == Wall(t) \div MinutesPerDay
Weekday(t)  == Day(t) % DaysPerWeek
Monthday(t) == Day(t) % DaysPerMonth
Month(t)  == (Day(t) \div DaysPerMonth) % MonthsPerYear

\* The two fields for the day: the one that is no wildcard decides; if neither
\* is, either may match.  A field with a step, "*/2", counts as a wildcard: its
\* values count for a day of the week, and for a day of the month they do not.
DayMatches(t) ==
    \/ Weekday(t) \in cron.weekday.values /\ (cron.monthday.wildcard \/ ~cron.weekday.wildcard)
    \/ Monthday(t) \in cron.monthday.values /\ ~cron.monthday.wildcard

\* What the expression says, field by field.
Matches(t) ==
    /\ Minute(t) \in cron.minute
    /\ Hour(t) \in cron.hour
    /\ Month(t) \in cron.month
    /\ DayMatches(t)

Deadline == after + 1 + Horizon

CronInit ==
    /\ cron \in [minute : Minutes, hour : Hours, month : Months,
                monthday : MonthDays, weekday : WeekDays]
    /\ after \in Starts
    /\ candidate = after + 1
    /\ found = FALSE

Searching == ~found /\ candidate <= Deadline

Skip(minutes) == candidate' = candidate + minutes /\ UNCHANGED <<cron, after, found>>

\* Forward to the next minute of the hour that the expression lists.
SkipMinutes ==
    /\ Searching /\ Minute(candidate) \notin cron.minute
    /\ \E delta \in 1..MinutesPerHour :
          /\ (Minute(candidate) + delta) % MinutesPerHour \in cron.minute
          /\ \A d \in 1..delta - 1 : (Minute(candidate) + d) % MinutesPerHour \notin cron.minute
          /\ Skip(delta)

\* Mutants: the rest of the day is skipped; the clock is put back to the full hour.
SkipDayForHour ==
    /\ Searching /\ Minute(candidate) \in cron.minute /\ Hour(candidate) \notin cron.hour
    /\ Skip(MinutesPerDay)
SkipToFullHour ==
    /\ Searching /\ Minute(candidate) \in cron.minute /\ Hour(candidate) \notin cron.hour
    /\ Skip(-Minute(candidate))

\* Forward by one hour, to the same minute.
SkipHour ==
    /\ Searching /\ Minute(candidate) \in cron.minute /\ Hour(candidate) \notin cron.hour
    /\ Skip(MinutesPerHour)

\* The month or the day is wrong: the same time of the next day.
SkipDay ==
    /\ Searching /\ Minute(candidate) \in cron.minute /\ Hour(candidate) \in cron.hour
    /\ Month(candidate) \notin cron.month \/ ~DayMatches(candidate)
    /\ Skip(MinutesPerDay)

Find ==
    /\ Searching /\ Matches(candidate)
    /\ found' = TRUE
    /\ UNCHANGED <<cron, after, candidate>>

CronNext == SkipMinutes \/ SkipHour \/ SkipDay \/ Find

CronSpec == CronInit /\ [][CronNext]_cronVars

-----------------------------------------------------------------------------
\* "Next matching minute strictly after afterMs" (schedule-store.ts:245): the
\* search passes over no minute that matches.
PassesOverNoMatch == \A t \in after + 1 .. candidate - 1 : ~Matches(t)

\* A row that fired on time fires next at the very next minute its expression
\* names: from a minute that matches, the search passes over no other.
NextAfterAnOccurrence == Matches(after) => PassesOverNoMatch

\* A search ends: with a minute that matches, or beyond the horizon.
SearchEnds == []<>(found \/ candidate > Deadline)
=============================================================================
