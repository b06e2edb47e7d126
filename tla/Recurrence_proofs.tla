-------------------------- MODULE Recurrence_proofs --------------------------
(***************************************************************************)
(* Where the search of Recurrence is right, for any expression and any     *)
(* clock: from a minute that matches, and as long as the zone does not     *)
(* change its offset.  The search then stands in the hour it started from, *)
(* or at a minute no later than any that is listed; and from the next day  *)
(* on, at an hour no later than any that is listed (Placed).               *)
(***************************************************************************)
EXTENDS Recurrence, TLAPS

\* The zone has one offset from where the search started to where it is.
ClockSteady == Shift = 0 \/ candidate < Change \/ after >= Change

HourNo(t) == Wall(t) \div MinutesPerHour

CronTypes ==
    /\ cron \in [minute : Minutes, hour : Hours, month : Months,
                monthday : MonthDays, weekday : WeekDays]
    /\ after \in Nat /\ candidate \in Nat /\ after < candidate

FirstMinute == \A x \in cron.minute : Minute(candidate) <= x
FirstHour   == \A h \in cron.hour : Hour(candidate) <= h

Placed ==
    \/ HourNo(candidate) = HourNo(after)
    \/ Day(candidate) = Day(after) /\ FirstMinute
    \/ FirstMinute /\ FirstHour

SearchInv ==
    /\ CronTypes
    /\ ClockSteady /\ Matches(after) => Placed /\ PassesOverNoMatch

-----------------------------------------------------------------------------
(* Division.                                                               *)

\* A number is its quotient and its remainder.
LEMMA DivMod ==
    ASSUME NEW m \in Nat \ {0}, NEW x \in Int
    PROVE  /\ x \div m \in Int /\ x % m \in 0..m - 1
           /\ x = m * (x \div m) + (x % m)
OBVIOUS

\* And no others.
LEMMA DivModUnique ==
    ASSUME NEW m \in Nat \ {0}, NEW x \in Int, NEW q \in Int, NEW r \in 0..m - 1,
           x = m * q + r
    PROVE  x \div m = q /\ x % m = r
OBVIOUS

\* A remainder, and one part more.
LEMMA ModIs ==
    ASSUME NEW m \in Nat \ {0}, NEW x \in Int, NEW r \in 0..m - 1, x = r \/ x = r + m
    PROVE  x % m = r
<1>1. CASE x = r
    <2>1. x = m * 0 + r
        BY <1>1
    <2> QED
        BY <2>1, DivModUnique
<1>2. CASE x = r + m
    <2>1. x = m * 1 + r
        BY <1>2
    <2> QED
        BY <2>1, DivModUnique
<1> QED
    BY <1>1, <1>2

\* A step that stays within the part, and one that leaves it for the next.
LEMMA DivModAdd ==
    ASSUME NEW m \in Nat \ {0}, NEW x \in Int, NEW d \in Nat
    PROVE  /\ (x % m) + d < m => (x + d) \div m = x \div m /\ (x + d) % m = (x % m) + d
           /\ m <= (x % m) + d /\ (x % m) + d < m + m =>
                 (x + d) \div m = (x \div m) + 1 /\ (x + d) % m = (x % m) + d - m
<1> DEFINE q == x \div m
           r == x % m
<1>1. q \in Int /\ r \in 0..m - 1 /\ x = m * q + r
    BY DivMod
<1> SUFFICES /\ r + d < m => (x + d) \div m = q /\ (x + d) % m = r + d
             /\ m <= r + d /\ r + d < m + m =>
                   (x + d) \div m = q + 1 /\ (x + d) % m = r + d - m
    OBVIOUS
<1> HIDE DEF q, r
<1>2. x + d \in Int
    OBVIOUS
<1>3. ASSUME r + d < m
      PROVE  (x + d) \div m = q /\ (x + d) % m = r + d
    <2>1. r + d \in 0..m - 1 /\ x + d = m * q + (r + d)
        BY <1>1, <1>3
    <2> QED
        BY <1>1, <1>2, <2>1, DivModUnique
<1>4. ASSUME m <= r + d, r + d < m + m
      PROVE  (x + d) \div m = q + 1 /\ (x + d) % m = r + d - m
    <2>1. r + d - m \in 0..m - 1 /\ q + 1 \in Int
        BY <1>1, <1>4
    <2>2. m * (q + 1) = m * q + m
        BY <1>1
    <2>3. x + d = m * (q + 1) + (r + d - m)
        BY <1>1, <2>2
    <2> QED
        BY <1>2, <2>1, <2>3, DivModUnique
<1> QED
    BY <1>3, <1>4

\* The remainder is all that counts.
LEMMA ModAdd ==
    ASSUME NEW m \in Nat \ {0}, NEW x \in Int, NEW d \in 0..m
    PROVE  ((x % m) + d) % m = (x + d) % m
<1> DEFINE r == x % m
<1>1. r \in 0..m - 1 /\ d \in Nat
    BY DivMod
<1>2. /\ r + d < m => (x + d) % m = r + d
      /\ m <= r + d /\ r + d < m + m => (x + d) % m = r + d - m
    BY <1>1, DivModAdd
<1> SUFFICES (r + d) % m = (x + d) % m
    OBVIOUS
<1> HIDE DEF r
<1>3. r \in Int /\ r % m = r
    <2>1. r \in Int /\ r = m * 0 + r
        BY <1>1
    <2> QED
        BY <1>1, <2>1, DivModUnique
<1>4. /\ r + d < m => (r + d) % m = r + d
      /\ m <= r + d /\ r + d < m + m => (r + d) % m = r + d - m
    <2>1. /\ (r % m) + d < m => (r + d) % m = (r % m) + d
          /\ m <= (r % m) + d /\ (r % m) + d < m + m => (r + d) % m = (r % m) + d - m
        BY <1>1, <1>3, DivModAdd
    <2> QED
        BY <1>3, <2>1
<1>5. r + d < m + m /\ (r + d < m \/ m <= r + d)
    <2>1. r \in Int /\ r < m /\ d \in Int /\ d <= m /\ m \in Int
        BY <1>1
    <2> QED
        BY <2>1
<1> QED
    BY <1>2, <1>4, <1>5

\* Later is not in an earlier part.
LEMMA DivOrder ==
    ASSUME NEW m \in Nat \ {0}, NEW x \in Int, NEW y \in Int, x <= y
    PROVE  x \div m <= y \div m
OBVIOUS

\* Parts of parts.
LEMMA DivDiv ==
    ASSUME NEW m \in Nat \ {0}, NEW h \in Nat \ {0}, NEW x \in Int
    PROVE  (x \div m) \div h = x \div (m * h)
<1> DEFINE n == x \div m
           r == x % m
           q == n \div h
           p == n % h
<1>1. n \in Int /\ r \in 0..m - 1 /\ x = m * n + r
    BY DivMod
<1>2. q \in Int /\ p \in 0..h - 1 /\ n = h * q + p
    BY <1>1, DivMod
<1> HIDE DEF n, r, q, p
<1>3. m * h \in Nat \ {0}
    OBVIOUS
<1>4. m * (h * q + p) = (m * h) * q + m * p
    BY <1>2
<1>5. m * p + r \in 0..(m * h) - 1
    <2>1. m * p \in Nat /\ m * (p + 1) <= m * h /\ m * (p + 1) = m * p + m
        BY <1>2
    <2> QED
        BY <1>1, <1>3, <2>1
<1>6. x = (m * h) * q + (m * p + r)
    BY <1>1, <1>2, <1>4, <1>5
<1>7. x \div (m * h) = q
    BY <1>2, <1>3, <1>5, <1>6, DivModUnique
<1> QED
    BY <1>7 DEF n, q

-----------------------------------------------------------------------------
(* The clock.                                                              *)

LEMMA ClockSizes ==
    /\ MinutesPerHour \in Nat \ {0} /\ HoursPerDay \in Nat \ {0}
    /\ MinutesPerDay \in Nat \ {0} /\ MinutesPerDay = MinutesPerHour * HoursPerDay
    /\ Offset \in Int /\ Change \in Int /\ Shift \in Int
BY RecurrenceAssumption DEF MinutesPerDay

\* What a clock shows at a minute.
LEMMA ClockParts ==
    ASSUME NEW t \in Nat
    PROVE  /\ Wall(t) \in Int /\ HourNo(t) \in Int /\ Day(t) \in Int
           /\ Minute(t) \in 0..MinutesPerHour - 1
           /\ Hour(t) \in 0..HoursPerDay - 1
           /\ Wall(t) = MinutesPerHour * HourNo(t) + Minute(t)
           /\ Day(t) = HourNo(t) \div HoursPerDay
<1>1. Wall(t) \in Int
    BY ClockSizes DEF Wall
<1>2. HourNo(t) \in Int /\ Minute(t) \in 0..MinutesPerHour - 1
      /\ Wall(t) = MinutesPerHour * HourNo(t) + Minute(t)
    BY <1>1, ClockSizes, DivMod DEF HourNo, Minute
<1>3. Hour(t) = HourNo(t) % HoursPerDay
    BY DEF Hour, HourNo
<1>4. Day(t) = HourNo(t) \div HoursPerDay
    BY <1>1, ClockSizes, DivDiv DEF Day, HourNo
<1>5. HourNo(t) \div HoursPerDay \in Int /\ HourNo(t) % HoursPerDay \in 0..HoursPerDay - 1
    BY <1>2, ClockSizes, DivMod
<1> QED
    BY <1>1, <1>2, <1>3, <1>4, <1>5

\* Minutes go by.
LEMMA MinutesOn ==
    ASSUME NEW t \in Nat, NEW s \in Nat, NEW d \in Nat, Wall(s) = Wall(t) + d
    PROVE  /\ Minute(t) + d < MinutesPerHour =>
                 HourNo(s) = HourNo(t) /\ Minute(s) = Minute(t) + d
           /\ /\ MinutesPerHour <= Minute(t) + d
              /\ Minute(t) + d < MinutesPerHour + MinutesPerHour
              => HourNo(s) = HourNo(t) + 1 /\ Minute(s) = Minute(t) + d - MinutesPerHour
           /\ d <= MinutesPerHour => Minute(s) = (Minute(t) + d) % MinutesPerHour
<1>1. Wall(t) \in Int
    BY ClockParts
<1> DEFINE x == Wall(t)
           b == MinutesPerHour
<1>2. /\ HourNo(t) = x \div b /\ Minute(t) = x % b
      /\ HourNo(s) = (x + d) \div b /\ Minute(s) = (x + d) % b
    BY DEF HourNo, Minute
<1>3. x \in Int /\ b \in Nat \ {0}
    BY <1>1, ClockSizes
<1> HIDE DEF x, b
<1>4. /\ (x % b) + d < b => (x + d) \div b = x \div b /\ (x + d) % b = (x % b) + d
      /\ b <= (x % b) + d /\ (x % b) + d < b + b =>
            (x + d) \div b = (x \div b) + 1 /\ (x + d) % b = (x % b) + d - b
    BY <1>3, DivModAdd
<1>5. ASSUME d <= b PROVE (x + d) % b = ((x % b) + d) % b
    <2>1. d \in 0..b
        BY <1>3, <1>5
    <2> QED
        BY <1>3, <2>1, ModAdd
<1>6. /\ Minute(t) + d < b => HourNo(s) = HourNo(t) /\ Minute(s) = Minute(t) + d
      /\ b <= Minute(t) + d /\ Minute(t) + d < b + b =>
            HourNo(s) = HourNo(t) + 1 /\ Minute(s) = Minute(t) + d - b
    BY <1>2, <1>4
<1>7. d <= b => Minute(s) = (Minute(t) + d) % b
    BY <1>2, <1>5
<1> QED
    BY <1>6, <1>7 DEF b

\* Hours go by.
LEMMA HoursOn ==
    ASSUME NEW t \in Nat, NEW s \in Nat, NEW e \in Nat, HourNo(s) = HourNo(t) + e
    PROVE  /\ Hour(t) + e < HoursPerDay => Day(s) = Day(t) /\ Hour(s) = Hour(t) + e
           /\ /\ HoursPerDay <= Hour(t) + e /\ Hour(t) + e < HoursPerDay + HoursPerDay
              => Day(s) = Day(t) + 1 /\ Hour(s) = Hour(t) + e - HoursPerDay
<1>1. /\ HourNo(t) \in Int
      /\ Day(t) = HourNo(t) \div HoursPerDay /\ Day(s) = HourNo(s) \div HoursPerDay
      /\ Hour(t) = HourNo(t) % HoursPerDay /\ Hour(s) = HourNo(s) % HoursPerDay
    BY ClockParts DEF Hour, HourNo
<1> QED
    BY <1>1, ClockSizes, DivModAdd

\* Minutes of the same hour are of the same day, and have the same date.
LEMMA SameHour ==
    ASSUME NEW t \in Nat, NEW s \in Nat
    PROVE  /\ HourNo(s) = HourNo(t) => Hour(s) = Hour(t) /\ Day(s) = Day(t)
           /\ Day(s) = Day(t) => Month(s) = Month(t) /\ (DayMatches(s) <=> DayMatches(t))
BY ClockParts DEF Hour, HourNo, Month, DayMatches, Weekday, Monthday

\* A whole day goes by.
LEMMA DayOn ==
    ASSUME NEW t \in Nat, NEW s \in Nat, Wall(s) = Wall(t) + MinutesPerDay
    PROVE  /\ Minute(s) = Minute(t) /\ HourNo(s) = HourNo(t) + HoursPerDay
           /\ Hour(s) = Hour(t) /\ Day(s) = Day(t) + 1
<1> DEFINE n == HourNo(t)
           k == HoursPerDay
           b == MinutesPerHour
<1>1. /\ n \in Int /\ Minute(t) \in 0..b - 1 /\ Wall(t) = b * n + Minute(t)
      /\ Hour(t) \in 0..k - 1 /\ k \in Nat \ {0} /\ b \in Nat \ {0} /\ MinutesPerDay = b * k
      /\ Wall(s) \in Int
    BY ClockParts, ClockSizes
<1>2. HourNo(s) = Wall(s) \div b /\ Minute(s) = Wall(s) % b
    BY DEF HourNo, Minute
<1> HIDE DEF n, k, b
<1>3. b * (n + k) = b * n + b * k /\ n + k \in Int
    BY <1>1
<1>4. Wall(s) = b * (n + k) + Minute(t)
    BY <1>1, <1>3
<1>5. HourNo(s) = n + k /\ Minute(s) = Minute(t)
    <2>1. /\ b \in Nat \ {0} /\ Wall(s) \in Int /\ n + k \in Int
          /\ Minute(t) \in 0..b - 1
        BY <1>1, <1>3
    <2>2. Wall(s) \div b = n + k /\ Wall(s) % b = Minute(t)
        BY <1>4, <2>1, DivModUnique
    <2> QED
        BY <1>2, <2>2
<1>6. k \in Nat /\ k <= Hour(t) + k /\ Hour(t) + k < k + k /\ Hour(t) + k - k = Hour(t)
    BY <1>1
<1>7. Day(s) = Day(t) + 1 /\ Hour(s) = Hour(t) + k - k
    BY <1>5, <1>6, HoursOn DEF n, k
<1> QED
    BY <1>5, <1>6, <1>7 DEF n, k

\* As long as the zone keeps its offset, its clock runs as the time does.
LEMMA SteadyWall ==
    ASSUME CronTypes, NEW to \in Nat, candidate <= to, Shift = 0 \/ to < Change \/ after >= Change
    PROVE  \A t \in after..to : t \in Nat /\ Wall(t) = Wall(candidate) + (t - candidate)
BY ClockSizes DEF CronTypes, Wall

-----------------------------------------------------------------------------
(* The search.                                                             *)

\* The fields that an expression lists are values a clock can show.
LEMMA FieldShape ==
    ASSUME CronTypes
    PROVE  /\ cron.minute \subseteq 0..MinutesPerHour - 1 /\ cron.minute # {}
           /\ cron.hour \subseteq 0..HoursPerDay - 1
           /\ candidate \in Nat /\ after \in Nat /\ after < candidate
BY RecurrenceAssumption DEF CronTypes

\* A step of so many minutes over which the clock is steady, and none of which
\* matches.
LEMMA SkipKeeps ==
    ASSUME SearchInv, NEW n \in Nat \ {0}, Skip(n),
           ClockSteady' /\ Matches(after) =>
              /\ \A t \in candidate..candidate + n - 1 : ~Matches(t)
              /\ Placed'
    PROVE  SearchInv'
<1>1. cron' = cron /\ after' = after /\ candidate' = candidate + n
    BY DEF Skip
<1>2. CronTypes'
    BY <1>1 DEF SearchInv, CronTypes
<1>3. ASSUME ClockSteady', Matches(after)' PROVE Placed' /\ PassesOverNoMatch'
    <2>1. Matches(after) /\ \A t : Matches(t)' = Matches(t)
        BY <1>1, <1>3 DEF Matches, Minute, Hour, Month, DayMatches, Weekday, Monthday, Day, Wall
    <2>2. ClockSteady
        BY <1>1, <1>3, ClockSizes DEF ClockSteady, SearchInv, CronTypes
    <2>3. PassesOverNoMatch
        BY <2>1, <2>2 DEF SearchInv
    <2>4. ASSUME NEW t \in after' + 1 .. candidate' - 1 PROVE ~Matches(t)
        <3>1. t \in after + 1 .. candidate - 1 \/ t \in candidate..candidate + n - 1
            BY <1>1 DEF SearchInv, CronTypes
        <3> QED
            BY <1>3, <2>1, <2>3, <3>1 DEF PassesOverNoMatch
    <2> QED
        BY <1>3, <2>1, <2>4 DEF PassesOverNoMatch
<1> QED
    BY <1>2, <1>3 DEF SearchInv

\* Where the candidate stands after such a step, told by the minute s.
LEMMA PlacedThen ==
    ASSUME NEW n \in Nat, Skip(n), NEW s, s = candidate + n,
           \/ HourNo(s) = HourNo(after)
           \/ Day(s) = Day(after) /\ \A x \in cron.minute : Minute(s) <= x
           \/ /\ \A x \in cron.minute : Minute(s) <= x
              /\ \A h \in cron.hour : Hour(s) <= h
    PROVE  Placed'
<1>1. cron' = cron /\ after' = after /\ candidate' = s
    BY DEF Skip
<1>2. HourNo(candidate)' = HourNo(s) /\ HourNo(after)' = HourNo(after)
      /\ Day(candidate)' = Day(s) /\ Day(after)' = Day(after)
      /\ Minute(candidate)' = Minute(s) /\ Hour(candidate)' = Hour(s)
    BY <1>1 DEF HourNo, Day, Minute, Hour, Wall
<1> QED
    BY <1>1, <1>2 DEF Placed, FirstMinute, FirstHour

\* The clock is steady over a step.
LEMMA SteadyStep ==
    ASSUME CronTypes, NEW n \in Nat \ {0}, Skip(n), ClockSteady'
    PROVE  /\ \A d \in 0..n : candidate + d \in Nat
                              /\ Wall(candidate + d) = Wall(candidate) + d
           /\ ClockSteady
<1>1. after' = after /\ candidate' = candidate + n
    BY DEF Skip
<1>2. Shift = 0 \/ candidate + n < Change \/ after >= Change
    BY <1>1 DEF ClockSteady
<1>3. \A t \in after..candidate + n : t \in Nat /\ Wall(t) = Wall(candidate) + (t - candidate)
    BY <1>2, SteadyWall DEF CronTypes
<1>4. Wall(candidate) \in Int /\ candidate \in Nat /\ after \in Nat /\ after < candidate
    BY ClockParts DEF CronTypes
<1>5. ASSUME NEW d \in 0..n
      PROVE  candidate + d \in Nat /\ Wall(candidate + d) = Wall(candidate) + d
    <2>1. candidate + d \in after..candidate + n /\ (candidate + d) - candidate = d
        BY <1>4
    <2> QED
        BY <1>3, <2>1
<1>6. ClockSteady
    BY <1>2, <1>4, ClockSizes DEF ClockSteady
<1> QED
    BY <1>5, <1>6

\* In the hour it started from, a search stands on a minute of an hour and of a
\* day that match, and so it does on the day it started from.
LEMMA PlacedMatches ==
    ASSUME CronTypes, Placed, Matches(after)
    PROVE  /\ Hour(candidate) \notin cron.hour => FirstMinute
           /\ Month(candidate) \notin cron.month \/ ~DayMatches(candidate) =>
                 FirstMinute /\ FirstHour
<1>1. candidate \in Nat /\ after \in Nat
    BY DEF CronTypes
<1> QED
    BY <1>1, SameHour DEF Placed, Matches

\* The minutes up to the next that is listed do not match.
LEMMA SkipMinutesKeeps ==
    ASSUME SearchInv, SkipMinutes
    PROVE  SearchInv'
<1> DEFINE b == MinutesPerHour
           c == Minute(candidate)
<1>1. PICK delta \in 1..b :
         /\ (c + delta) % b \in cron.minute
         /\ \A d \in 1..delta - 1 : (c + d) % b \notin cron.minute
         /\ Skip(delta)
    BY DEF SkipMinutes
<1>2. c \notin cron.minute
    BY DEF SkipMinutes
<1>3. /\ b \in Nat \ {0} /\ c \in 0..b - 1 /\ HourNo(candidate) \in Int
      /\ cron.minute \subseteq 0..b - 1 /\ cron.minute # {}
      /\ cron.hour \subseteq 0..HoursPerDay - 1
      /\ CronTypes /\ delta \in Nat \ {0} /\ candidate \in Nat /\ after \in Nat
    BY ClockSizes, ClockParts, FieldShape DEF SearchInv
<1> SUFFICES ASSUME ClockSteady', Matches(after)
             PROVE  /\ \A t \in candidate..candidate + delta - 1 : ~Matches(t)
                    /\ Placed'
    BY <1>1, <1>3, SkipKeeps
<1>4. /\ Placed
      /\ \A d \in 0..delta : candidate + d \in Nat /\ Wall(candidate + d) = Wall(candidate) + d
    BY <1>1, <1>3, SteadyStep DEF SearchInv
<1> DEFINE s == candidate + delta
<1>5. /\ s \in Nat /\ Wall(s) = Wall(candidate) + delta
      /\ Minute(s) = (c + delta) % b /\ Minute(s) \in cron.minute
      /\ c + delta < b => HourNo(s) = HourNo(candidate) /\ Minute(s) = c + delta
      /\ b <= c + delta => HourNo(s) = HourNo(candidate) + 1 /\ Minute(s) = c + delta - b
    <2>1. s \in Nat /\ Wall(s) = Wall(candidate) + delta /\ delta <= b /\ c + delta < b + b
        BY <1>3, <1>4
    <2> QED
        BY <1>1, <1>3, <2>1, MinutesOn
<1>6. \A t \in candidate..candidate + delta - 1 : ~Matches(t)
    <2> SUFFICES ASSUME NEW d \in 0..delta - 1 PROVE Minute(candidate + d) \notin cron.minute
        <3>1. ASSUME NEW t \in candidate..candidate + delta - 1
              PROVE  t - candidate \in 0..delta - 1 /\ candidate + (t - candidate) = t
            BY <1>3
        <3> QED
            BY <3>1 DEF Matches
    <2>1. CASE d = 0
        BY <1>2, <1>3, <2>1
    <2>2. CASE d # 0
        <3>1. d \in 1..delta - 1 /\ d \in Nat /\ d <= b /\ d \in 0..delta
            BY <1>3, <2>2
        <3>2. candidate + d \in Nat /\ Wall(candidate + d) = Wall(candidate) + d
            BY <1>4, <3>1
        <3>3. Minute(candidate + d) = (c + d) % b
            BY <1>3, <3>1, <3>2, MinutesOn
        <3> QED
            BY <1>1, <3>1, <3>3
    <2> QED
        BY <2>1, <2>2
<1>7. ASSUME NEW d \in 1..delta - 1, NEW y \in cron.minute, c + d = y \/ c + d = y + b
      PROVE  FALSE
    <2>1. y \in 0..b - 1
        BY <1>3
    <2>2. (c + d) % b = y
        <3>1. c + d \in Int /\ b \in Nat \ {0}
            BY <1>3
        <3> HIDE DEF b, c
        <3> QED
            BY <1>7, <2>1, <3>1, ModIs
    <2> QED
        BY <1>1, <2>2
<1>8. \A x \in cron.minute : Minute(s) <= x \/ (c + delta < b /\ x < c)
    <2> SUFFICES ASSUME NEW x \in cron.minute, x < Minute(s), ~(c + delta < b /\ x < c)
                 PROVE  FALSE
        BY <1>3, <1>5
    <2>1. x \in 0..b - 1 /\ x # c
        BY <1>2, <1>3
    <2>2. CASE c + delta < b
        <3>1. x - c \in 1..delta - 1 /\ c + (x - c) = x
            BY <1>3, <1>5, <2>1, <2>2
        <3> QED
            BY <1>7, <3>1
    <2>3. CASE b <= c + delta
        <3>1. (x + b) - c \in 1..delta - 1 /\ c + ((x + b) - c) = x + b
            BY <1>3, <1>5, <2>1, <2>3
        <3> QED
            BY <1>7, <3>1
    <2> QED
        BY <1>3, <2>2, <2>3
<1> HIDE DEF b, c, s
<1>9. CASE c + delta < b
    <2>1. Hour(s) = Hour(candidate) /\ Day(s) = Day(candidate) /\ HourNo(s) = HourNo(candidate)
        BY <1>3, <1>5, <1>9, SameHour
    <2>2. FirstMinute => \A x \in cron.minute : Minute(s) <= x
        BY <1>3, <1>8 DEF FirstMinute, c
    <2>3. Placed'
        BY <1>1, <1>3, <1>4, <2>1, <2>2, PlacedThen DEF Placed, FirstHour, s
    <2> QED
        BY <1>6, <2>3
<1>10. CASE b <= c + delta
    <2>1. \A x \in cron.minute : Minute(s) <= x
        BY <1>3, <1>8, <1>10
    <2>2. HourNo(s) = HourNo(candidate) + 1 /\ Hour(candidate) \in 0..HoursPerDay - 1
        BY <1>3, <1>5, <1>10, ClockParts
    <2>3. \/ Day(s) = Day(candidate) /\ Hour(s) = Hour(candidate) + 1
          \/ Hour(s) = 0
        <3>1. \/ Hour(candidate) + 1 < HoursPerDay
              \/ /\ HoursPerDay <= Hour(candidate) + 1
                 /\ Hour(candidate) + 1 < HoursPerDay + HoursPerDay
                 /\ Hour(candidate) + 1 - HoursPerDay = 0
            BY <2>2, ClockSizes
        <3> QED
            BY <1>3, <1>5, <2>2, <3>1, HoursOn
    <2>4. ~FirstMinute
        <3> SUFFICES ASSUME FirstMinute PROVE FALSE
            OBVIOUS
        <3>1. PICK y \in cron.minute : TRUE
            BY <1>3
        <3>2. y \in 0..b - 1 /\ c <= y /\ y # c
            BY <1>2, <1>3 DEF FirstMinute, c
        <3>3. y - c \in 1..delta - 1 /\ c + (y - c) = y
            BY <1>3, <1>10, <3>2
        <3> QED
            BY <1>7, <3>3
    <2>5. HourNo(candidate) = HourNo(after)
        BY <1>4, <2>4 DEF Placed
    <2>6. Day(candidate) = Day(after)
        BY <1>3, <2>5, SameHour
    <2>7. Hour(s) = 0 => \A h \in cron.hour : Hour(s) <= h
        BY <1>3
    <2>8. Placed'
        BY <1>1, <1>3, <2>1, <2>3, <2>6, <2>7, PlacedThen DEF s
    <2> QED
        BY <1>6, <2>8
<1>11. c + delta < b \/ b <= c + delta
    BY <1>3
<1> QED
    BY <1>9, <1>10, <1>11

\* The minutes up to the same minute of the next hour do not match.
LEMMA SkipHourKeeps ==
    ASSUME SearchInv, SkipHour
    PROVE  SearchInv'
<1> DEFINE b == MinutesPerHour
           c == Minute(candidate)
<1>1. /\ c \in cron.minute /\ Hour(candidate) \notin cron.hour /\ Skip(b)
    BY DEF SkipHour
<1>2. /\ b \in Nat \ {0} /\ c \in 0..b - 1 /\ HourNo(candidate) \in Int
      /\ Hour(candidate) \in 0..HoursPerDay - 1 /\ HoursPerDay \in Nat \ {0}
      /\ cron.minute \subseteq 0..b - 1 /\ cron.hour \subseteq 0..HoursPerDay - 1
      /\ CronTypes /\ candidate \in Nat /\ after \in Nat
    BY ClockSizes, ClockParts, FieldShape DEF SearchInv
<1> SUFFICES ASSUME ClockSteady', Matches(after)
             PROVE  /\ \A t \in candidate..candidate + b - 1 : ~Matches(t)
                    /\ Placed'
    BY <1>1, <1>2, SkipKeeps
<1>3. /\ Placed
      /\ \A d \in 0..b : candidate + d \in Nat /\ Wall(candidate + d) = Wall(candidate) + d
    BY <1>1, <1>2, SteadyStep DEF SearchInv
<1>4. FirstMinute
    BY <1>1, <1>2, <1>3, PlacedMatches
<1>5. \A t \in candidate..candidate + b - 1 : ~Matches(t)
    <2> SUFFICES ASSUME NEW d \in 0..b - 1 PROVE ~Matches(candidate + d)
        <3>1. ASSUME NEW t \in candidate..candidate + b - 1
              PROVE  t - candidate \in 0..b - 1 /\ candidate + (t - candidate) = t
            BY <1>2
        <3> QED
            BY <3>1
    <2>1. d \in Nat /\ d \in 0..b /\ c + d < b + b
        BY <1>2
    <2>2. candidate + d \in Nat /\ Wall(candidate + d) = Wall(candidate) + d
        BY <1>3, <2>1
    <2>3. CASE c + d < b
        <3>1. HourNo(candidate + d) = HourNo(candidate)
            BY <1>2, <2>1, <2>2, <2>3, MinutesOn
        <3> QED
            BY <1>1, <1>2, <2>2, <3>1, SameHour DEF Matches
    <2>4. CASE b <= c + d
        <3>1. Minute(candidate + d) = c + d - b
            BY <1>2, <2>1, <2>2, <2>4, MinutesOn
        <3>2. c + d - b < c
            BY <1>2
        <3>3. Minute(candidate + d) \notin cron.minute
            BY <1>2, <1>4, <3>1, <3>2 DEF FirstMinute
        <3> QED
            BY <3>3 DEF Matches
    <2> QED
        BY <1>2, <2>1, <2>3, <2>4
<1> DEFINE s == candidate + b
<1>6. s \in Nat /\ Minute(s) = c /\ HourNo(s) = HourNo(candidate) + 1
    <2>1. s \in Nat /\ Wall(s) = Wall(candidate) + b
        BY <1>2, <1>3
    <2>2. b <= c + b /\ c + b < b + b /\ c + b - b = c /\ b \in Nat
        BY <1>2
    <2> QED
        BY <1>2, <2>1, <2>2, MinutesOn
<1>7. \A x \in cron.minute : Minute(s) <= x
    BY <1>4, <1>6 DEF FirstMinute
<1>8. \/ Day(s) = Day(candidate) /\ Hour(s) = Hour(candidate) + 1
      \/ Hour(s) = 0
    <2>1. \/ Hour(candidate) + 1 < HoursPerDay
          \/ /\ HoursPerDay <= Hour(candidate) + 1
             /\ Hour(candidate) + 1 < HoursPerDay + HoursPerDay
             /\ Hour(candidate) + 1 - HoursPerDay = 0
        BY <1>2
    <2> QED
        BY <1>2, <1>6, <2>1, HoursOn
<1> HIDE DEF b, c, s
<1>9. \/ HourNo(s) = HourNo(after)
      \/ Day(s) = Day(after) /\ \A x \in cron.minute : Minute(s) <= x
      \/ /\ \A x \in cron.minute : Minute(s) <= x
         /\ \A h \in cron.hour : Hour(s) <= h
    <2>1. CASE Hour(s) = 0
        BY <1>2, <1>7, <2>1
    <2>2. CASE Day(s) = Day(candidate) /\ Hour(s) = Hour(candidate) + 1
        <3>1. HourNo(candidate) = HourNo(after) => Day(candidate) = Day(after)
            BY <1>2, SameHour
        <3>2. FirstHour => \A h \in cron.hour : Hour(s) <= h
            BY <1>1, <1>2, <2>2 DEF FirstHour
        <3> QED
            BY <1>3, <1>7, <2>2, <3>1, <3>2 DEF Placed
    <2> QED
        BY <1>8, <2>1, <2>2
<1>10. Placed'
    BY <1>1, <1>2, <1>9, PlacedThen DEF s
<1> QED
    BY <1>5, <1>10

\* Nor do those up to the same time of the next day.
LEMMA SkipDayKeeps ==
    ASSUME SearchInv, SkipDay
    PROVE  SearchInv'
<1> DEFINE n == MinutesPerDay
           k == HoursPerDay
           c == Minute(candidate)
           g == HourNo(candidate)
<1>1. /\ c \in cron.minute /\ Hour(candidate) \in cron.hour
      /\ Month(candidate) \notin cron.month \/ ~DayMatches(candidate)
      /\ Skip(n)
    BY DEF SkipDay
<1>2. /\ n \in Nat \ {0} /\ c \in Int /\ g \in Int /\ k \in Nat \ {0}
      /\ Hour(candidate) \in 0..k - 1
      /\ cron.minute \subseteq Int /\ cron.hour \subseteq Int
      /\ CronTypes /\ candidate \in Nat /\ after \in Nat /\ Wall(candidate) \in Int
    BY ClockSizes, ClockParts, FieldShape DEF SearchInv
<1> SUFFICES ASSUME ClockSteady', Matches(after)
             PROVE  /\ \A t \in candidate..candidate + n - 1 : ~Matches(t)
                    /\ Placed'
    BY <1>1, <1>2, SkipKeeps
<1>3. /\ Placed
      /\ \A d \in 0..n : candidate + d \in Nat /\ Wall(candidate + d) = Wall(candidate) + d
    BY <1>1, <1>2, SteadyStep DEF SearchInv
<1>4. FirstMinute /\ FirstHour
    BY <1>1, <1>2, <1>3, PlacedMatches
<1> DEFINE s == candidate + n
<1>5. /\ s \in Nat /\ Wall(s) = Wall(candidate) + n
      /\ Minute(s) = c /\ HourNo(s) = g + k /\ Hour(s) = Hour(candidate)
    <2>1. s \in Nat /\ Wall(s) = Wall(candidate) + n
        BY <1>2, <1>3
    <2> QED
        BY <1>2, <2>1, DayOn
<1>6. \A t \in candidate..candidate + n - 1 : ~Matches(t)
    <2> SUFFICES ASSUME NEW d \in 0..n - 1, Matches(candidate + d) PROVE FALSE
        <3>1. ASSUME NEW t \in candidate..candidate + n - 1
              PROVE  t - candidate \in 0..n - 1 /\ candidate + (t - candidate) = t
            BY <1>2
        <3> QED
            BY <3>1
    <2> DEFINE t == candidate + d
    <2>1. d \in Int /\ d \in 0..n /\ 0 <= d /\ d < n
        BY <1>2
    <2>2. t \in Nat /\ Wall(t) = Wall(candidate) + d
        BY <1>3, <2>1
    <2>3. /\ HourNo(t) \in Int /\ Minute(t) \in Int /\ Hour(t) \in 0..k - 1
          /\ Minute(t) \in cron.minute /\ Hour(t) \in cron.hour
          /\ Month(t) \in cron.month /\ DayMatches(t)
        BY <1>2, <2>2, ClockParts, ClockSizes DEF Matches
    <2> HIDE DEF n, k, c, g, s, t
    <2>4. g <= HourNo(t) /\ HourNo(t) <= g + k
        <3>1. Wall(candidate) <= Wall(t) /\ Wall(t) <= Wall(s) /\ Wall(t) \in Int /\ Wall(s) \in Int
            BY <1>2, <1>5, <2>1, <2>2
        <3> QED
            BY <1>2, <1>5, <3>1, ClockSizes, DivOrder DEF HourNo, g
    <2>5. c <= Minute(t) /\ Hour(candidate) <= Hour(t)
        BY <1>4, <2>3 DEF FirstMinute, FirstHour, c
    <2>6. HourNo(t) # g + k
        <3> SUFFICES ASSUME HourNo(t) = g + k PROVE FALSE
            OBVIOUS
        <3>1. /\ Wall(t) = MinutesPerHour * HourNo(t) + Minute(t)
              /\ Wall(s) = MinutesPerHour * HourNo(t) + c
            BY <1>5, <2>2, ClockParts
        <3>2. MinutesPerHour * HourNo(t) \in Int
            BY <2>3, ClockSizes
        <3> QED
            BY <1>2, <1>5, <2>1, <2>2, <2>3, <2>5, <3>1, <3>2
    <2>7. PICK e \in 0..k - 1 : HourNo(t) = g + e
        <3>1. HourNo(t) - g \in 0..k - 1 /\ HourNo(t) = g + (HourNo(t) - g)
            BY <1>2, <2>3, <2>4, <2>6
        <3> QED
            BY <3>1
    <2>8. CASE Hour(candidate) + e < k
        <3>1. Day(t) = Day(candidate)
            BY <1>2, <2>2, <2>7, <2>8, HoursOn DEF g, k
        <3> QED
            BY <1>1, <1>2, <2>2, <2>3, <3>1, SameHour
    <2>9. CASE k <= Hour(candidate) + e
        <3>1. Hour(candidate) + e < k + k /\ e \in Nat
            BY <1>2, <2>7
        <3>2. Hour(t) = Hour(candidate) + e - k
            BY <1>2, <2>2, <2>7, <2>9, <3>1, HoursOn DEF g, k
        <3> QED
            BY <1>2, <2>5, <2>7, <3>2
    <2> QED
        BY <1>2, <2>7, <2>8, <2>9
<1>7. /\ \A x \in cron.minute : Minute(s) <= x
      /\ \A h \in cron.hour : Hour(s) <= h
    BY <1>4, <1>5 DEF FirstMinute, FirstHour
<1>8. Placed'
    <2> HIDE DEF n, k, c, g
    <2> QED
        BY <1>1, <1>2, <1>7, PlacedThen
<1> QED
    BY <1>6, <1>8

-----------------------------------------------------------------------------
(* The theorem.                                                            *)

LEMMA SearchInit ==
    ASSUME CronInit
    PROVE  SearchInv
<1>1. CronTypes /\ candidate = after + 1 /\ candidate \in Nat /\ after \in Nat
    BY RecurrenceAssumption DEF CronInit, CronTypes
<1>2. PassesOverNoMatch
    BY <1>1 DEF PassesOverNoMatch
<1>3. ASSUME ClockSteady, Matches(after) PROVE Placed
    <2>1. Wall(candidate) = Wall(after) + 1
        <3>1. after \in after..candidate /\ candidate - after = 1 /\ Wall(after) \in Int
            BY <1>1, ClockParts
        <3>2. Wall(candidate) \in Int /\ Wall(after) = Wall(candidate) + (after - candidate)
            BY <1>1, <1>3, <3>1, ClockParts, SteadyWall DEF ClockSteady
        <3> QED
            BY <1>1, <3>1, <3>2
    <2>2. /\ MinutesPerHour \in Nat \ {0} /\ Minute(after) \in 0..MinutesPerHour - 1
          /\ HoursPerDay \in Nat \ {0} /\ Hour(after) \in 0..HoursPerDay - 1
          /\ cron.minute \subseteq Nat /\ cron.hour \subseteq Nat /\ 1 \in Nat
        BY <1>1, ClockSizes, ClockParts, FieldShape
    <2>3. CASE Minute(after) + 1 < MinutesPerHour
        BY <1>1, <2>1, <2>2, <2>3, MinutesOn DEF Placed
    <2>4. CASE ~(Minute(after) + 1 < MinutesPerHour)
        <3>1. /\ MinutesPerHour <= Minute(after) + 1
              /\ Minute(after) + 1 < MinutesPerHour + MinutesPerHour
              /\ Minute(after) + 1 - MinutesPerHour = 0
            BY <2>2, <2>4
        <3>2. HourNo(candidate) = HourNo(after) + 1 /\ Minute(candidate) = 0
            BY <1>1, <2>1, <2>2, <3>1, MinutesOn
        <3>3. FirstMinute
            BY <2>2, <3>2 DEF FirstMinute
        <3>4. \/ Hour(after) + 1 < HoursPerDay
              \/ /\ HoursPerDay <= Hour(after) + 1
                 /\ Hour(after) + 1 < HoursPerDay + HoursPerDay
                 /\ Hour(after) + 1 - HoursPerDay = 0
            BY <2>2
        <3>5. Day(candidate) = Day(after) \/ Hour(candidate) = 0
            BY <1>1, <2>2, <3>2, <3>4, HoursOn
        <3> QED
            BY <2>2, <3>3, <3>5 DEF Placed, FirstHour
    <2> QED
        BY <2>3, <2>4
<1> QED
    BY <1>1, <1>2, <1>3 DEF SearchInv

LEMMA SearchStep ==
    ASSUME SearchInv, [CronNext]_cronVars
    PROVE  SearchInv'
<1>1. CASE UNCHANGED <<cron, after, candidate>>
    BY <1>1 DEF SearchInv, CronTypes, ClockSteady, Matches, Placed, FirstMinute, FirstHour,
                PassesOverNoMatch, HourNo, Minute, Hour, Day, DayMatches, Weekday, Monthday,
                Month, Wall
<1> QED
    BY <1>1, SkipMinutesKeeps, SkipHourKeeps, SkipDayKeeps DEF CronNext, Find, cronVars

\* As long as the zone keeps its offset, a search that starts from a minute that
\* matches passes over no other: a row that fired on time fires next at the very
\* next minute its expression names (nextCronOccurrence, schedule-store.ts).
THEOREM NextWhileClockIsSteady ==
    CronSpec => [](ClockSteady => NextAfterAnOccurrence)
<1>1. SearchInv => (ClockSteady => NextAfterAnOccurrence)
    BY DEF SearchInv, NextAfterAnOccurrence
<1> QED
    BY <1>1, SearchInit, SearchStep, PTL DEF CronSpec
=============================================================================
