---------------------------- MODULE CronCalendar -----------------------------
(***************************************************************************)
(* Cron.next: ahdCronParse reads a schedule of five fields, and            *)
(* schedule.next searches the calendar for its first occurrence after an   *)
(* instant (ahdruntime/cron.go). CronScheduler uses the result of both.    *)
(*                                                                         *)
(* The calendar is any: MinutesPerHour, HoursPerDay, DaysPerWeek and the   *)
(* days on which its months begin stand for 60, 24, 7 and the Gregorian    *)
(* months, and its end for the year 9999. An instant is a minute. The zone *)
(* changes its offset once, at the instant change, by shift minutes.       *)
(***************************************************************************)
EXTENDS Integers, Sequences, Functions, FiniteSetsExt

CONSTANTS
    MinutesPerHour, HoursPerDay, DaysPerWeek,
    MonthStarts,    \* the days on which the months begin, and the day after the last
    MonthsPerYear,
    Expressions,    \* schedules: five sequences of items
    Afters,         \* instants at which next is called
    Changes         \* pairs: change and shift

DayLength == MinutesPerHour * HoursPerDay
CalendarEnd == MonthStarts[Len(MonthStarts)] * DayLength

Items == [kind : {"star", "number", "range"}, low : Int, high : Int, step : Int]

\* The changes are at full hours and by at most one hour; a field has an item.
ASSUME CalendarAssumption ==
    /\ {MinutesPerHour, HoursPerDay, DaysPerWeek, MonthsPerYear} \subseteq Nat \ {0}
    /\ MonthStarts \in Seq(Nat) /\ Len(MonthStarts) > MonthsPerYear /\ MonthStarts[1] = 0
    /\ \A i, j \in DOMAIN MonthStarts : i < j => MonthStarts[i] < MonthStarts[j]
    /\ \A e \in Expressions : \A f \in 1..5 : e[f] \in Seq(Items) /\ e[f] # <<>>
    /\ Afters \subseteq 0..(CalendarEnd - 1)
    /\ \A c \in Changes : /\ c[1] \in MinutesPerHour..CalendarEnd /\ c[1] % MinutesPerHour = 0
                          /\ c[2] \in (-MinutesPerHour)..MinutesPerHour

\* the months, and their numbers in the year, from 1
Months == 1..(Len(MonthStarts) - 1)
MonthLength(i) == MonthStarts[i + 1] - MonthStarts[i]
MonthNumber(i) == ((i - 1) % MonthsPerYear) + 1

\* ahdCronMonthDays
LongestMonth == [m \in 1..MonthsPerYear |->
                    Max({MonthLength(i) : i \in {j \in Months : MonthNumber(j) = m}})]

VARIABLES
    search,     \* "parse", "search", "found", "exhausted", "invalid" or "impossible"
    expression, after, change, shift,
    schedule, candidate

calendarVars == <<search, expression, after, change, shift, schedule, candidate>>

CalendarInit ==
    /\ search = "parse"
    /\ expression \in Expressions /\ after \in Afters
    /\ \E c \in Changes : change = c[1] /\ shift = c[2]
    /\ schedule = <<>> /\ candidate = after

-----------------------------------------------------------------------------
(* ahdCronParse. An item is "star", a "number" or a "range", with a step or *)
(* NoStep; a field is the sequence of its items.                            *)

NoStep == -1
Weekday == 5

\* ahdCronFields
Low == <<0, 0, 1, 1, 0>>
High == <<MinutesPerHour - 1, HoursPerDay - 1, Max(Range(LongestMonth)), MonthsPerYear, DaysPerWeek>>

LowOf(f, item) == IF item.kind = "star" THEN Low[f] ELSE item.low
HighOf(f, item) ==
    IF item.kind # "star" THEN item.high
    ELSE IF f = Weekday THEN DaysPerWeek - 1 ELSE High[f]

ValidItem(f, item) ==
    /\ LowOf(f, item) >= Low[f] /\ HighOf(f, item) <= High[f]
    /\ LowOf(f, item) <= HighOf(f, item)
    /\ item.step # NoStep =>
          item.kind # "number" /\ item.step \in 1..(HighOf(f, item) - LowOf(f, item))

Values(f, item) ==
    LET values == {v \in LowOf(f, item)..HighOf(f, item) :
                      item.step = NoStep \/ (v - LowOf(f, item)) % item.step = 0}
    IN IF f = Weekday THEN {v % DaysPerWeek : v \in values} ELSE values

ParseField(f) == UNION {Values(f, item) : item \in Range(expression[f])}

Star(f) == expression[f][1].kind = "star"

Parsed ==
    [minutes |-> ParseField(1), hours |-> ParseField(2), days |-> ParseField(3),
     months |-> ParseField(4), weekdays |-> ParseField(Weekday),
     daysStar |-> Star(3), weekdaysStar |-> Star(Weekday)]

\* "can never run: none of its day-of-month values occurs in its months"
Possible(s) ==
    ~s.daysStar /\ s.weekdaysStar =>
        \E month \in s.months : \E day \in s.days : day <= LongestMonth[month]

Valid == \A f \in 1..5 : \A item \in Range(expression[f]) : ValidItem(f, item)

\* CronError, before anything is searched.
ParseRaises ==
    /\ search = "parse"
    /\ \/ ~Valid /\ search' = "invalid" /\ UNCHANGED schedule
       \/ Valid /\ ~Possible(Parsed) /\ search' = "impossible" /\ schedule' = Parsed
    /\ UNCHANGED <<expression, after, change, shift, candidate>>

\* The search begins at the first full minute after the instant.
ParseSucceeds ==
    /\ search = "parse" /\ Valid /\ Possible(Parsed)
    /\ search' = "search" /\ schedule' = Parsed
    /\ candidate' = after + 1
    /\ UNCHANGED <<expression, after, change, shift>>

-----------------------------------------------------------------------------
(* The calendar and Go's time package. *)

\* what a clock in the zone shows, in minutes since the calendar began
Shown(t) == IF t >= change THEN t + shift ELSE t

\* time.Date: the instant at which the zone shows this. Where none does, or
\* two do, it is "correct in one of the two zones involved in the transition,
\* but it does not guarantee which".
Date(shown) ==
    LET both == {shown, shown - shift}
        right == {t \in both : Shown(t) = shown}
    IN IF right = {} THEN both ELSE right

\* the parts of what it shows: the day, counted from 0, the month it is in, and so on
DayOf(shown) == shown \div DayLength
MonthOf(shown) ==
    CHOOSE i \in Months : MonthStarts[i] <= DayOf(shown) /\ DayOf(shown) < MonthStarts[i + 1]
DayInMonth(shown) == DayOf(shown) - MonthStarts[MonthOf(shown)] + 1
HourOf(shown) == (shown \div MinutesPerHour) % HoursPerDay
MinuteOf(shown) == shown % MinutesPerHour

dayMatches(s, shown) ==
    LET day == DayInMonth(shown) \in s.days
        weekday == DayOf(shown) % DaysPerWeek \in s.weekdays
    IN IF s.daysStar \/ s.weekdaysStar THEN day /\ weekday ELSE day \/ weekday

\* ahdCronAdvance
Advance(target) == IF target > candidate THEN target ELSE candidate + 1

-----------------------------------------------------------------------------
(* schedule.next, one round of its loop at a time. *)

Reading == Shown(candidate)
Searching == search = "search" /\ Reading < CalendarEnd
GoesOnAt(t) ==
    candidate' = t /\ UNCHANGED <<search, expression, after, change, shift, schedule>>

RightMonth == MonthNumber(MonthOf(Reading)) \in schedule.months
RightDay == dayMatches(schedule, Reading)
RightHour == HourOf(Reading) \in schedule.hours
RightMinute == MinuteOf(Reading) \in schedule.minutes

NextMonth ==
    /\ Searching /\ ~RightMonth
    /\ \E target \in Date(MonthStarts[MonthOf(Reading) + 1] * DayLength) :
          GoesOnAt(Advance(target))

NextDay ==
    /\ Searching /\ RightMonth /\ ~RightDay
    /\ \E target \in Date((DayOf(Reading) + 1) * DayLength) : GoesOnAt(Advance(target))

\* Mutant: an hour is added, whatever the minute.
WholeHour == candidate + MinutesPerHour

EndOfHour == candidate + MinutesPerHour - MinuteOf(Reading)

NextHour ==
    /\ Searching /\ RightMonth /\ RightDay /\ ~RightHour
    /\ GoesOnAt(EndOfHour)

NextMinute ==
    /\ Searching /\ RightMonth /\ RightDay /\ RightHour /\ ~RightMinute
    /\ GoesOnAt(candidate + 1)

Found ==
    /\ Searching /\ RightMonth /\ RightDay /\ RightHour /\ RightMinute
    /\ search' = "found"
    /\ UNCHANGED <<expression, after, change, shift, schedule, candidate>>

\* The candidate is in the year 10000: CronError.
Exhausted ==
    /\ search = "search" /\ Reading >= CalendarEnd
    /\ search' = "exhausted"
    /\ UNCHANGED <<expression, after, change, shift, schedule, candidate>>

CalendarNext ==
    \/ ParseRaises \/ ParseSucceeds
    \/ NextMonth \/ NextDay \/ NextHour \/ NextMinute \/ Found \/ Exhausted

CalendarSpec == CalendarInit /\ [][CalendarNext]_calendarVars

-----------------------------------------------------------------------------
(* Properties. *)

\* Type invariant.
CalendarTypes ==
    /\ search \in {"parse", "search", "found", "exhausted", "invalid", "impossible"}
    /\ candidate \in 0..(CalendarEnd + DayLength)
    /\ search \in {"search", "found"} => candidate > after

\* what the schedule says of a reading, and when it occurs, without a search
Matches(shown) ==
    /\ MonthNumber(MonthOf(shown)) \in schedule.months
    /\ dayMatches(schedule, shown)
    /\ HourOf(shown) \in schedule.hours /\ MinuteOf(shown) \in schedule.minutes

Occurrences ==
    {t \in 0..(CalendarEnd + MinutesPerHour) : Shown(t) < CalendarEnd /\ Matches(Shown(t))}

\* the zone shows the midnight of t's day twice and t lies between the two
BetweenMidnights(t) ==
    LET midnight == DayOf(Shown(t)) * DayLength
    IN shift < 0 /\ midnight <= t /\ t < change /\ change <= midnight - shift

\* next "returns the first minute boundary strictly after `after` whose civil
\* reading in location matches every field": the jumps over months, days and
\* hours pass over no occurrence, across changes of the clock too, and the
\* search fails only when none is left. The exception is a zone that shows a
\* midnight twice, where a jump to the next day may take the second. And a
\* schedule is refused as one that "can never run" exactly when no reading of
\* the calendar matches, whatever the weekdays.
OccurrencesRight ==
    /\ search = "found" => candidate > after /\ candidate \in Occurrences
    /\ search \in {"found", "exhausted"} =>
          \A t \in Occurrences :
             after < t /\ (t < candidate \/ search = "exhausted") => BetweenMidnights(t)
    /\ search = "impossible" => \A shown \in 0..(CalendarEnd - 1) : ~Matches(shown)
    /\ search = "search" /\ schedule.weekdays = 0..(DaysPerWeek - 1) =>
          \E shown \in 0..(CalendarEnd - 1) : Matches(shown)
=============================================================================
