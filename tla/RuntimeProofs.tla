--------------------------- MODULE RuntimeProofs ----------------------------
(***************************************************************************)
(* Proofs about the Cron scheduler, its search of the calendar, the        *)
(* PostgreSQL pool and the sessions of the HTTP server, for every number   *)
(* of jobs, instants, callers, transactions and visits, and every          *)
(* calendar.                                                               *)
(***************************************************************************)
EXTENDS CronScheduler, CronCalendar, PostgresPool, HttpSessions, TLAPS, WellFoundedInduction, SequenceTheorems

(* The Cron scheduler.                                                     *)

\* The variables that the invariant is about, and their types.
CronShape ==
    /\ clock \in Nat /\ latest \in Nat /\ count \in Nat /\ setBacks \in Nat
    /\ jobs \subseteq All
    /\ next \in [All -> Nat] /\ ended \in [All -> Nat]
    /\ ran \in [All -> SUBSET Nat]
    /\ pc \in {"pass", "task"} => cursor \in jobs
    /\ pc # "off" => count > 0

\* Nothing of an earlier run is left.
CleanOutside ==
    /\ pc = "off" => ended = Zero /\ ran = [j \in All |-> {}]
    /\ \A j \in All \ jobs : ran[j] = {} /\ ended[j] = 0

\* The jobs whose next occurrence has not been handed to a task.
Pending(j) == pc \in {"wait", "woken", "pass"} \/ (pc = "task" /\ j # cursor)

\* What a job waits for lies after the end of its last task.
AfterEnded == \A j \in jobs : pc # "off" => next[j] > ended[j]

\* While nobody has set the clock back, what a job has run for lies in the
\* past, and before what it waits for.
RanBefore ==
    setBacks = 0 =>
        /\ latest <= clock
        /\ \A j \in All : \A r \in ran[j] : r <= clock /\ (Pending(j) => r < next[j])

CronInv == CronShape /\ CleanOutside /\ AfterEnded /\ RanBefore

\* A set of natural numbers that is not empty has a smallest one.
LEMMA MinOfNat ==
    ASSUME NEW T \in SUBSET Nat, T # {} PROVE Min(T) \in T /\ \A y \in T : Min(T) <= y
  <1>1. PICK x \in T : \A y \in T : ~ (<<y, x>> \in OpToRel(<, Nat))
    BY NatLessThanWellFounded, WFMin
  <1>2. \A y \in T : ~(y < x)
    BY <1>1 DEF OpToRel
  <1>3. \A y \in T : x <= y
    BY <1>2
  <1>. QED BY <1>3 DEF Min

\* schedule.next answers with an occurrence strictly after the given time, or
\* not at all.
LEMMA NextIsLater ==
    ASSUME NEW j \in All, NEW since \in Nat
    PROVE  /\ NextOccurrence(j, since) \in Nat
           /\ NextOccurrence(j, since) # 0 => NextOccurrence(j, since) > since
  <1>1. Later(j, since) \in SUBSET Nat
    BY CronAssumption DEF CronAssumption, Later, Instants, All
  <1>2. CASE Later(j, since) = {}
    BY <1>2 DEF NextOccurrence
  <1>3. CASE Later(j, since) # {}
    <2>1. Min(Later(j, since)) \in Later(j, since)
      BY <1>1, <1>3, MinOfNat
    <2>. QED BY <1>1, <1>3, <2>1 DEF NextOccurrence, Later
  <1>. QED BY <1>2, <1>3

\* A scheduler without jobs.
LEMMA CronInvInit == ASSUME CronInit PROVE CronInv
  BY CronAssumption
     DEF CronAssumption, CronInit, CronInv, CronShape, CleanOutside, AfterEnded, RanBefore, Zero, jobs,
         All, Pending

\* Every step of the scheduler, of the program and of the clock.
LEMMA CronInvNext == ASSUME CronInv, [CronNext]_cronVars PROVE CronInv'
  <1>. USE DEF CronInv
  <1>1. CASE UNCHANGED cronVars
    BY <1>1 DEF cronVars, CronShape, CleanOutside, AfterEnded, RanBefore, Pending, jobs
  <1>2. CASE Add
    <2>1. jobs' = jobs \cup {count + 1} /\ jobs' \subseteq All
      BY <1>2 DEF Add, CronShape, jobs
    <2>. QED BY <1>2, <2>1 DEF Add, CronShape, CleanOutside, AfterEnded, RanBefore, Pending
  <1>3. CASE Run
    <2>1. \A j \in jobs : next'[j] = NextOccurrence(j, clock)
      BY <1>3 DEF Run, CronShape
    <2>2. next' \in [All -> Nat] /\ UNCHANGED jobs
      BY <1>3, NextIsLater DEF Run, CronShape, jobs
    <2>3. AfterEnded'
      BY <1>3, <2>1, <2>2, NextIsLater DEF Run, CronShape, CleanOutside, AfterEnded, Zero
    <2>4. CronShape' /\ CleanOutside'
      BY <1>3, <2>2 DEF Run, CronShape, CleanOutside
    <2>5. RanBefore'
      BY <1>3 DEF Run, CronShape, CleanOutside, RanBefore
    <2>. QED BY <2>3, <2>4, <2>5
  <1>4. CASE Stop \/ Wake
    BY <1>4 DEF Stop, Wake, CronShape, CleanOutside, AfterEnded, RanBefore, Pending, jobs
  <1>5. CASE BeginPass
    BY <1>5 DEF BeginPass, Seen, CronShape, CleanOutside, AfterEnded, RanBefore, Pending, jobs
  <1>6. CASE Returns /\ UNCHANGED <<clock, setBacks, count>>
    BY <1>6 DEF Returns, CronShape, CleanOutside, AfterEnded, RanBefore, Pending, jobs, Zero
  <1>7. CASE SkipJob
    BY <1>7 DEF SkipJob, Onward, CronShape, CleanOutside, AfterEnded, RanBefore, Pending, jobs
  <1>8. CASE StartTask
    BY <1>8 DEF StartTask, CronShape, CleanOutside, AfterEnded, RanBefore, Pending, jobs
  <1>9. CASE TaskReturns
    <2>. DEFINE n == NextOccurrence(cursor, clock)
    <2>1. cursor \in jobs /\ cursor \in All /\ n \in Nat /\ n > clock
      BY <1>9, NextIsLater DEF TaskReturns, From, Seen, CronShape
    <2>2. /\ next' = [next EXCEPT ![cursor] = n] /\ ended' = [ended EXCEPT ![cursor] = clock]
          /\ latest' = clock /\ UNCHANGED <<clock, setBacks, count, ran, jobs>>
      BY <1>9 DEF TaskReturns, From, Seen, jobs
    <2>3. pc' = "wait" \/ (pc' = "pass" /\ cursor' \in jobs)
      BY <1>9, <2>1 DEF TaskReturns, Onward, CronShape, jobs
    <2>. HIDE DEF n
    <2>4. CronShape'
      BY <1>9, <2>1, <2>2, <2>3 DEF TaskReturns, CronShape
    <2>5. CleanOutside' /\ AfterEnded'
      BY <1>9, <2>1, <2>2, <2>3 DEF TaskReturns, CronShape, CleanOutside, AfterEnded
    <2>6. ASSUME setBacks = 0, NEW j \in All, NEW r \in ran[j]
          PROVE  r <= clock /\ r < next'[j]
      <3>1. CASE j = cursor
        BY <2>1, <2>2, <2>6, <3>1 DEF RanBefore, CronShape
      <3>2. CASE j # cursor
        BY <1>9, <2>2, <2>6, <3>2 DEF TaskReturns, RanBefore, CronShape, Pending
      <3>. QED BY <3>1, <3>2
    <2>7. RanBefore'
      BY <2>2, <2>6 DEF RanBefore, CronShape
    <2>. QED BY <2>4, <2>5, <2>7
  <1>10. CASE ClockMoves
    BY <1>10, CronAssumption DEF CronAssumption, ClockMoves, Instants, CronShape, CleanOutside, AfterEnded, RanBefore, Pending, jobs
  <1>. QED
    BY <1>1, <1>2, <1>3, <1>4, <1>5, <1>6, <1>7, <1>8, <1>9, <1>10
       DEF CronNext, LoopStep, TaskStep, WaitStopped, StopBeforeTask, TaskEndsRun

\* While the wall clock is never set back, no occurrence runs twice
\* (OncePerOccurrence), for any jobs, schedules and task lengths.
THEOREM OncePerOccurrenceAlways == CronSpec => []OncePerOccurrence
  <1>1. CronInv => OncePerOccurrence
    <2>1. ASSUME CronInv, setBacks = 0, NEW j \in All, pc \in {"wait", "pass"},
                 next[j] \in ran[j]
          PROVE  FALSE
      BY <2>1 DEF CronInv, RanBefore, CronShape, Pending
    <2>. QED BY <2>1 DEF OncePerOccurrence, NeverTwice
  <1>. QED BY <1>1, CronInvInit, CronInvNext, PTL DEF CronSpec

\* A job never starts for an occurrence that had passed when its last task
\* returned (NotQueued), set the clock as you like.
THEOREM NotQueuedAlways == CronSpec => NotQueued
  <1>1. ASSUME CronInv
        PROVE  [\A j \in All : pc = "pass" /\ pc' = "task" /\ cursor = j
                                  => next[j] > ended[j]]_cronVars
    BY <1>1 DEF CronInv, AfterEnded, CronShape
  <1>. QED BY <1>1, CronInvInit, CronInvNext, PTL DEF CronSpec, NotQueued

-----------------------------------------------------------------------------
(* The search for the next occurrence.                                     *)

\* Quotient and remainder (/ and % of Go on what is not negative).
LEMMA DivMod ==
    ASSUME NEW a \in Int, NEW n \in Nat \ {0}
    PROVE  a \div n \in Int /\ a % n \in 0..(n - 1) /\ a = (a \div n) * n + (a % n)
  OBVIOUS

\* Multiples of a number are at least that number apart.
LEMMA TimesMonotone ==
    ASSUME NEW n \in Nat \ {0}, NEW p \in Int, NEW q \in Int
    PROVE  /\ p < q => p * n + n <= q * n
           /\ p * n < q * n => p < q
           /\ p * n + n = (p + 1) * n
  <1>1. p < q => p * n + n <= q * n
    <2>1. ASSUME p < q PROVE p * n + n <= q * n
      <3>1. PICK k \in Nat : q = p + 1 + k
        <4>1. q - p - 1 \in Nat /\ q = p + 1 + (q - p - 1) BY <2>1
        <4>. QED BY <4>1
      <3>2. q * n = p * n + n + k * n BY <3>1
      <3>3. k * n >= 0 BY <3>1
      <3>. QED BY <3>2, <3>3
    <2>. QED BY <2>1
  <1>2. p * n < q * n => p < q
    <2>1. ASSUME q < p PROVE q * n + n <= p * n
      <3>1. PICK k \in Nat : p = q + 1 + k
        <4>1. p - q - 1 \in Nat /\ p = q + 1 + (p - q - 1) BY <2>1
        <4>. QED BY <4>1
      <3>2. p * n = q * n + n + k * n BY <3>1
      <3>3. k * n >= 0 BY <3>1
      <3>. QED BY <3>2, <3>3
    <2>2. p * n \in Int /\ q * n \in Int OBVIOUS
    <2>. QED BY <2>1, <2>2
  <1>. QED BY <1>1, <1>2

\* A number between two neighbouring multiples has the lower one's quotient.
LEMMA DivUnique ==
    ASSUME NEW n \in Nat \ {0}, NEW a \in Int, NEW q \in Int, q * n <= a, a < q * n + n
    PROVE  a \div n = q /\ a % n = a - q * n
  <1>1. PICK d \in Int : d = a \div n BY DivMod
  <1>2. a % n \in 0..(n - 1) /\ a = d * n + (a % n) BY <1>1, DivMod
  <1>3. d * n \in Int /\ q * n \in Int OBVIOUS
  <1>4. ~(d < q)
    <2>1. d < q => d * n + n <= q * n BY TimesMonotone
    <2>. QED BY <2>1, <1>2, <1>3
  <1>5. ~(q < d)
    <2>1. q < d => q * n + n <= d * n BY TimesMonotone
    <2>. QED BY <2>1, <1>2, <1>3
  <1>6. d = q BY <1>4, <1>5
  <1>. QED BY <1>1, <1>2, <1>6

\* The units of the calendar, and the days on which its months begin.
LEMMA Units ==
    /\ MinutesPerHour \in Nat \ {0} /\ HoursPerDay \in Nat \ {0} /\ DaysPerWeek \in Nat \ {0}
    /\ MonthsPerYear \in Nat \ {0} /\ DayLength \in Nat \ {0} /\ MinutesPerHour <= DayLength
    /\ Len(MonthStarts) \in Nat /\ Len(MonthStarts) > MonthsPerYear /\ DOMAIN MonthStarts = 1..Len(MonthStarts)
    /\ \A i \in 1..Len(MonthStarts) : MonthStarts[i] \in Nat
    /\ MonthStarts[1] = 0
    /\ CalendarEnd \in Nat /\ CalendarEnd = MonthStarts[Len(MonthStarts)] * DayLength
  <1>1. /\ MinutesPerHour \in Nat \ {0} /\ HoursPerDay \in Nat \ {0} /\ DaysPerWeek \in Nat \ {0}
        /\ MonthsPerYear \in Nat \ {0} /\ MonthStarts \in Seq(Nat) /\ Len(MonthStarts) > MonthsPerYear
        /\ MonthStarts[1] = 0
    BY CalendarAssumption
  <1>2. /\ Len(MonthStarts) \in Nat /\ DOMAIN MonthStarts = 1..Len(MonthStarts)
        /\ \A i \in 1..Len(MonthStarts) : MonthStarts[i] \in Nat
    BY <1>1
  <1>3. DayLength \in Nat \ {0} /\ MinutesPerHour <= DayLength
    <2>1. DayLength = HoursPerDay * MinutesPerHour BY <1>1 DEF DayLength
    <2>2. 0 * MinutesPerHour + MinutesPerHour <= HoursPerDay * MinutesPerHour BY <1>1, TimesMonotone
    <2>. QED BY <2>1, <2>2, <1>1
  <1>4. MonthStarts[Len(MonthStarts)] \in Nat BY <1>1, <1>2
  <1>. QED BY <1>1, <1>2, <1>3, <1>4 DEF CalendarEnd

\* The day of a reading is the one that it lies in.
LEMMA DayIs ==
    ASSUME NEW r \in 0..(CalendarEnd - 1)
    PROVE  /\ DayOf(r) \in Nat /\ DayOf(r) < MonthStarts[Len(MonthStarts)]
           /\ DayOf(r) * DayLength <= r /\ r < DayOf(r) * DayLength + DayLength
  <1>1. PICK d \in Int : d = DayOf(r) /\ d * DayLength <= r /\ r < d * DayLength + DayLength
    <2>1. r \in Int /\ DayLength \in Nat \ {0} BY Units
    <2>2. PICK d \in Int : d = DayOf(r) BY <2>1, DivMod DEF DayOf
    <2>3. r % DayLength \in 0..(DayLength - 1) /\ r = (r \div DayLength) * DayLength + (r % DayLength)
      BY <2>1, DivMod
    <2>4. d = r \div DayLength BY <2>2 DEF DayOf
    <2>5. r = d * DayLength + (r % DayLength) BY <2>3, <2>4
    <2>6. d * DayLength \in Int BY <2>1
    <2>. QED BY <2>1, <2>2, <2>3, <2>5, <2>6
  <1>2. 0 <= d
    <2>1. 0 * DayLength < (d + 1) * DayLength BY <1>1, Units, TimesMonotone
    <2>2. 0 < d + 1 BY <2>1, Units, TimesMonotone
    <2>. QED BY <2>2
  <1>3. d < MonthStarts[Len(MonthStarts)]
    <2>1. d * DayLength < MonthStarts[Len(MonthStarts)] * DayLength BY <1>1, Units
    <2>2. MonthStarts[Len(MonthStarts)] \in Int BY Units
    <2>. QED BY <2>1, <2>2, Units, TimesMonotone
  <1>. QED BY <1>1, <1>2, <1>3

\* So is its month, and no other month has that day.
LEMMA MonthIs ==
    ASSUME NEW r \in 0..(CalendarEnd - 1)
    PROVE  /\ MonthOf(r) \in Months /\ MonthStarts[MonthOf(r)] <= DayOf(r) /\ DayOf(r) < MonthStarts[MonthOf(r) + 1]
           /\ \A i \in Months : MonthStarts[i] <= DayOf(r) /\ DayOf(r) < MonthStarts[i + 1] => MonthOf(r) = i
  <1>. DEFINE L == Len(MonthStarts)
              T == {j \in 1..L : DayOf(r) < MonthStarts[j]}
  <1>0. L \in Nat /\ L > 1 /\ MonthStarts[1] = 0 /\ \A i \in 1..L : MonthStarts[i] \in Nat
    BY Units
  <1>1. L \in T /\ T \in SUBSET Nat BY <1>0, DayIs
  <1>2. PICK j \in T : \A k \in T : j <= k BY <1>1, MinOfNat
  <1>3. j \in 2..L /\ DayOf(r) < MonthStarts[j] BY <1>0, <1>2, DayIs
  <1>4. j - 1 \in Months /\ (j - 1) + 1 = j BY <1>3 DEF Months
  <1>5. MonthStarts[j - 1] <= DayOf(r)
    <2>1. j - 1 \in 1..L /\ j - 1 \notin T BY <1>2, <1>3, <1>0
    <2>. QED BY <2>1, <1>0, DayIs
  <1>6. \E i \in Months : MonthStarts[i] <= DayOf(r) /\ DayOf(r) < MonthStarts[i + 1]
    BY <1>3, <1>4, <1>5
  <1>7. MonthOf(r) \in Months /\ MonthStarts[MonthOf(r)] <= DayOf(r) /\ DayOf(r) < MonthStarts[MonthOf(r) + 1]
    BY <1>6 DEF MonthOf
  <1>8. ASSUME NEW i \in Months, NEW k \in Months, i < k,
               MonthStarts[i] <= DayOf(r), DayOf(r) < MonthStarts[i + 1],
               MonthStarts[k] <= DayOf(r), DayOf(r) < MonthStarts[k + 1]
        PROVE  FALSE
    <2>1. i + 1 \in 1..L /\ k \in 1..L /\ i + 1 <= k BY <1>8, <1>0 DEF Months
    <2>2. MonthStarts[i + 1] <= MonthStarts[k]
      <3>1. i + 1 < k => MonthStarts[i + 1] < MonthStarts[k] BY <2>1, Units, CalendarAssumption
      <3>2. i + 1 = k \/ i + 1 < k BY <2>1
      <3>. QED BY <3>1, <3>2, <2>1, <1>0
    <2>. QED BY <1>8, <2>1, <2>2, <1>0, DayIs
  <1>9. \A i \in Months : MonthStarts[i] <= DayOf(r) /\ DayOf(r) < MonthStarts[i + 1] => MonthOf(r) = i
    <2>1. ASSUME NEW i \in Months, MonthStarts[i] <= DayOf(r), DayOf(r) < MonthStarts[i + 1] PROVE MonthOf(r) = i
      <3>1. i \in Int /\ MonthOf(r) \in Int BY <1>7, <1>0 DEF Months
      <3>. QED BY <2>1, <3>1, <1>7, <1>8
    <2>. QED BY <2>1
  <1>. QED BY <1>7, <1>9

\* Types, and the change of the clock at a full hour.
CalendarShape ==
    /\ change \in Nat /\ change <= CalendarEnd /\ (\E k \in Int : change = k * MinutesPerHour) /\ change >= MinutesPerHour
    /\ shift \in (-MinutesPerHour)..MinutesPerHour
    /\ candidate \in Nat /\ after \in Nat

\* Full hours are at least one hour apart.
LEMMA HoursApart ==
    ASSUME NEW j \in Int, NEW k \in Int, j * MinutesPerHour < k * MinutesPerHour
    PROVE  j * MinutesPerHour + MinutesPerHour <= k * MinutesPerHour
  BY Units, TimesMonotone

\* What the clock shows before the change and from it on.
LEMMA ShownIs ==
    ASSUME CalendarShape, NEW t \in Nat
    PROVE  /\ Shown(t) \in Nat
           /\ t < change => Shown(t) = t
           /\ t >= change => Shown(t) = t + shift
  BY Units DEF CalendarShape, Shown

\* A jump to a full hour that time.Date answers with: each instant that it passes
\* over shows something between the start and the target, but for a target that the
\* zone shows twice.
LEMMA JumpOver ==
    ASSUME CalendarShape, NEW a \in Int, NEW b \in Int, NEW A, A = a * MinutesPerHour, NEW B, B = b * MinutesPerHour,
           NEW c \in Nat, A <= Shown(c), Shown(c) < B, NEW target \in Date(B), NEW t \in Nat, c <= t, t < target, B >= 0
    PROVE  \/ A <= Shown(t) /\ Shown(t) < B
           \/ shift < 0 /\ B <= t /\ t < change /\ change <= B - shift
  <1>0. /\ MinutesPerHour \in Nat \ {0} /\ change \in Nat /\ shift \in Int /\ -MinutesPerHour <= shift /\ shift <= MinutesPerHour
        /\ A \in Int /\ B \in Nat
    BY Units DEF CalendarShape
  <1>1. PICK k \in Int : change = k * MinutesPerHour BY DEF CalendarShape
  <1>2. /\ A < change => A + MinutesPerHour <= change
        /\ change < B => change + MinutesPerHour <= B
    BY <1>1, HoursApart
  <1>3. Shown(t) >= A
    <2>1. CASE t < change BY <2>1, <1>0, ShownIs
    <2>2. CASE t >= change BY <2>2, <1>0, <1>2, ShownIs
    <2>. QED BY <2>1, <2>2, <1>0
  <1>4. ASSUME Shown(t) >= B PROVE shift < 0 /\ B <= t /\ t < change /\ change <= B - shift
    <2>1. target \in {B, B - shift} /\ (Shown(target) # B => Shown(B) # B /\ Shown(B - shift) # B)
      BY DEF Date
    <2>2. target \in Int /\ target > t BY <2>1, <1>0
    <2>3. Shown(target) = IF target >= change THEN target + shift ELSE target BY DEF Shown
    <2>4. CASE Shown(target) = B BY <2>1, <2>2, <2>3, <2>4, <1>0, <1>4, ShownIs
    <2>5. CASE Shown(target) # B
      <3>1. B >= change /\ B - shift < change
        <4>1. Shown(B) # B /\ Shown(B - shift) # B BY <2>1, <2>5
        <4>. QED BY <4>1, <1>0 DEF Shown
      <3>2. change = B BY <3>1, <1>0, <1>2
      <3>. QED BY <2>1, <2>2, <3>1, <3>2, <1>0, <1>4, ShownIs
    <2>. QED BY <2>4, <2>5
  <1>5. Shown(t) \in Nat BY ShownIs
  <1>. QED BY <1>0, <1>3, <1>4, <1>5

\* What the search has passed over.
Passed == \A t \in Occurrences : after < t /\ t < candidate => BetweenMidnights(t)

\* The inductive invariant: what the schedule is once it was parsed, and that no
\* occurrence was passed over so far.
SearchInv ==
    /\ CalendarShape /\ expression \in Expressions
    /\ search \notin {"parse", "invalid"} => schedule = Parsed
    /\ search = "search" => Valid /\ Possible(Parsed)
    /\ search \in {"search", "found"} => candidate > after /\ Passed
    /\ search = "found" => candidate \in Occurrences
    /\ search = "exhausted" => \A t \in Occurrences : after < t => BetweenMidnights(t)
    /\ search = "impossible" => ~Possible(Parsed)

\* A reading between two midnights is of that day.
LEMMA SameDay ==
    ASSUME NEW d \in Int, NEW r \in Int, d * DayLength <= r, r < d * DayLength + DayLength
    PROVE  DayOf(r) = d
  BY Units, DivUnique DEF DayOf

\* A reading between the beginnings of two months is of the first of them.
LEMMA SameMonth ==
    ASSUME NEW i \in Months, NEW r \in 0..(CalendarEnd - 1),
           MonthStarts[i] * DayLength <= r, r < MonthStarts[i + 1] * DayLength
    PROVE  MonthOf(r) = i
  <1>1. i \in 1..Len(MonthStarts) /\ i + 1 \in 1..Len(MonthStarts) BY Units DEF Months
  <1>2. PICK p \in Nat : p = MonthStarts[i] BY <1>1, Units
  <1>3. PICK q \in Nat : q = MonthStarts[i + 1] BY <1>1, Units
  <1>4. PICK d \in Nat : d = DayOf(r) /\ d * DayLength <= r /\ r < d * DayLength + DayLength BY DayIs
  <1>5. d * DayLength + DayLength = (d + 1) * DayLength BY Units
  <1>6. p * DayLength < (d + 1) * DayLength /\ d * DayLength < q * DayLength
    <2>1. p * DayLength \in Int /\ q * DayLength \in Int /\ d * DayLength \in Int /\ DayLength \in Int BY Units
    <2>. QED BY <2>1, <1>2, <1>3, <1>4, <1>5
  <1>7. p < d + 1 /\ d < q BY <1>6, Units, TimesMonotone
  <1>. QED BY <1>2, <1>3, <1>4, <1>7, MonthIs

\* Midnight is a full hour.
LEMMA MidnightIsHour == ASSUME NEW d \in Int PROVE d * DayLength = (d * HoursPerDay) * MinutesPerHour /\ d * HoursPerDay \in Int
  BY Units DEF DayLength

\* An occurrence shows a reading of the calendar that matches.
LEMMA OccurrenceIs ==
    ASSUME CalendarShape, NEW t \in Occurrences
    PROVE  t \in Nat /\ Shown(t) \in 0..(CalendarEnd - 1) /\ Matches(Shown(t))
  <1>1. t \in 0..(CalendarEnd + MinutesPerHour) /\ Shown(t) < CalendarEnd /\ Matches(Shown(t)) BY DEF Occurrences
  <1>2. t \in Nat BY <1>1, Units
  <1>. QED BY <1>1, <1>2, ShownIs, Units

\* A jump of ahdCronAdvance to the next midnight or month leaves out only readings
\* of the stretch that it is to leave.
LEMMA Advanced ==
    ASSUME CalendarShape, NEW j \in Int, NEW d \in Nat, NEW A, A = j * DayLength, NEW B, B = d * DayLength,
           A <= Reading, Reading < B, \A r \in 0..(CalendarEnd - 1) : A <= r /\ r < B => ~Matches(r),
           NEW target \in Date(B)
    PROVE  /\ Advance(target) \in Nat /\ Advance(target) > candidate
           /\ \A t \in Occurrences : candidate <= t /\ t < Advance(target) => BetweenMidnights(t)
  <1>0. B \in Nat /\ A \in Int /\ target \in Int /\ candidate \in Nat /\ shift \in Int
        /\ DayLength \in Nat /\ MinutesPerHour <= DayLength /\ -MinutesPerHour <= shift /\ MinutesPerHour \in Nat
    BY Units DEF CalendarShape, Date
  <1>1. Advance(target) \in Nat /\ Advance(target) > candidate BY <1>0 DEF Advance
  <1>2. ASSUME NEW t \in Occurrences, candidate <= t, t < Advance(target) PROVE BetweenMidnights(t)
    <2>1. t \in Nat /\ Shown(t) \in 0..(CalendarEnd - 1) /\ Matches(Shown(t)) BY OccurrenceIs
    <2>2. t # candidate BY <2>1, <1>2 DEF Reading
    <2>3. Advance(target) = target BY <1>0, <1>2, <2>1, <2>2 DEF Advance
    <2>4. \/ A <= Shown(t) /\ Shown(t) < B
          \/ shift < 0 /\ B <= t /\ t < change /\ change <= B - shift
      <3>1. PICK a \in Int : A = a * MinutesPerHour BY MidnightIsHour
      <3>3. PICK b \in Int : B = b * MinutesPerHour BY MidnightIsHour
      <3>2. A <= Shown(candidate) /\ Shown(candidate) < B /\ B >= 0 /\ t < target BY <1>0, <1>2, <2>3 DEF Reading
      <3>. QED BY <3>1, <3>2, <3>3, <1>0, <1>2, <2>1, JumpOver
    <2>5. shift < 0 /\ B <= t /\ t < change /\ change <= B - shift BY <2>1, <2>4
    <2>6. Shown(t) = t /\ change \in Nat BY <2>1, <2>5, ShownIs DEF CalendarShape
    <2>7. DayOf(t) = d BY <2>1, <2>5, <2>6, <1>0, SameDay
    <2>. QED BY <2>5, <2>6, <2>7 DEF BetweenMidnights
  <1>. QED BY <1>1, <1>2

\* A round of the loop that passes over no occurrence keeps the invariant.
LEMMA PassedOn ==
    ASSUME CalendarShape, SearchInv, search = "search", UNCHANGED <<search, expression, after, change, shift, schedule>>,
           candidate' \in Nat, candidate' > candidate,
           \A t \in Occurrences : candidate <= t /\ t < candidate' => BetweenMidnights(t)
    PROVE  SearchInv'
  <1>1. CalendarShape' BY DEF CalendarShape
  <1>2. /\ \A t : Shown(t)' = Shown(t)
        /\ \A r : Matches(r)' <=> Matches(r)
    BY DEF Shown, Matches, dayMatches
  <1>3. Occurrences' = Occurrences BY <1>2 DEF Occurrences
  <1>4. \A t : BetweenMidnights(t)' <=> BetweenMidnights(t) BY <1>2 DEF BetweenMidnights
  <1>5. after \in Nat /\ candidate \in Nat BY DEF CalendarShape
  <1>6. candidate' > after' /\ Passed'
    <2>1. ASSUME NEW t \in Occurrences, after < t, t < candidate' PROVE BetweenMidnights(t)
      <3>1. t \in Nat BY OccurrenceIs
      <3>2. t < candidate \/ candidate <= t BY <3>1, <1>5
      <3>. QED BY <2>1, <3>2 DEF SearchInv, Passed
    <2>2. candidate' > after BY <1>5 DEF SearchInv
    <2>. QED BY <2>1, <2>2, <1>3, <1>4 DEF Passed
  <1>7. Parsed' = Parsed /\ (Valid' <=> Valid) /\ (Possible(Parsed)' <=> Possible(Parsed))
    BY DEF Parsed, ParseField, Values, LowOf, HighOf, Star, Valid, ValidItem, Possible
  <1>. QED BY <1>1, <1>6, <1>7 DEF SearchInv

\* While the loop runs the candidate shows a reading of the calendar.
LEMMA ReadingIs ==
    ASSUME CalendarShape, Searching PROVE Reading \in 0..(CalendarEnd - 1) /\ Reading = Shown(candidate)
  <1>1. candidate \in Nat /\ CalendarEnd \in Nat BY Units DEF CalendarShape
  <1>2. Shown(candidate) \in Nat BY <1>1, ShownIs
  <1>. QED BY <1>1, <1>2 DEF Searching, Reading

\* The jump to the next month: no reading of a month that is not the schedule's
\* matches.
LEMMA NextMonthStep == ASSUME SearchInv, NextMonth PROVE SearchInv'
  <1>0. CalendarShape /\ Searching /\ search = "search" /\ Reading \in 0..(CalendarEnd - 1)
    BY ReadingIs DEF SearchInv, NextMonth, Searching
  <1>1. PICK i \in Months : i = MonthOf(Reading) BY <1>0, MonthIs
  <1>2. i \in 1..Len(MonthStarts) /\ i + 1 \in 1..Len(MonthStarts) /\ i + 1 \in Nat BY Units DEF Months
  <1>3. PICK p \in Nat : p = MonthStarts[i] BY <1>2, Units
  <1>4. PICK q \in Nat : q = MonthStarts[i + 1] BY <1>2, Units
  <1>5. PICK target \in Date(q * DayLength) :
           candidate' = Advance(target) /\ UNCHANGED <<search, expression, after, change, shift, schedule>>
    BY <1>1, <1>4 DEF NextMonth, GoesOnAt
  <1>6. p * DayLength <= Reading /\ Reading < q * DayLength
    <2>1. PICK d \in Nat : d = DayOf(Reading) /\ d * DayLength <= Reading /\ Reading < d * DayLength + DayLength
                           /\ p <= d /\ d < q
      BY <1>0, <1>1, <1>3, <1>4, DayIs, MonthIs
    <2>2. d * DayLength \in Int /\ p * DayLength \in Int /\ q * DayLength \in Int /\ DayLength \in Nat BY Units
    <2>3. p < d => p * DayLength + DayLength <= d * DayLength BY Units, TimesMonotone
    <2>4. d * DayLength + DayLength <= q * DayLength
      <3>1. d \in Int /\ q \in Int /\ d < q BY <2>1
      <3>. QED BY <3>1, Units, TimesMonotone
    <2>5. p = d \/ p < d BY <2>1
    <2>. QED BY <2>1, <2>2, <2>3, <2>4, <2>5, <1>0
  <1>7. ASSUME NEW r \in 0..(CalendarEnd - 1), p * DayLength <= r, r < q * DayLength PROVE ~Matches(r)
    <2>1. MonthOf(r) = i BY <1>3, <1>4, <1>7, SameMonth
    <2>. QED BY <2>1, <1>1 DEF Matches, NextMonth, RightMonth
  <1>. QED BY <1>0, <1>5, <1>6, <1>7, Advanced, PassedOn

\* The jump to the next day.
LEMMA NextDayStep == ASSUME SearchInv, NextDay PROVE SearchInv'
  <1>0. CalendarShape /\ Searching /\ search = "search" /\ Reading \in 0..(CalendarEnd - 1)
    BY ReadingIs DEF SearchInv, NextDay, Searching
  <1>1. PICK d \in Nat : d = DayOf(Reading) /\ d * DayLength <= Reading /\ Reading < d * DayLength + DayLength
    BY <1>0, DayIs
  <1>2. PICK target \in Date((d + 1) * DayLength) :
           candidate' = Advance(target) /\ UNCHANGED <<search, expression, after, change, shift, schedule>>
    BY <1>1 DEF NextDay, GoesOnAt
  <1>3. (d + 1) * DayLength = d * DayLength + DayLength /\ d + 1 \in Nat /\ d * DayLength \in Int BY Units
  <1>4. ASSUME NEW r \in 0..(CalendarEnd - 1), d * DayLength <= r, r < (d + 1) * DayLength PROVE ~Matches(r)
    <2>1. DayOf(r) = DayOf(Reading) BY <1>1, <1>3, <1>4, SameDay
    <2>2. MonthOf(r) = MonthOf(Reading) BY <2>1 DEF MonthOf
    <2>3. dayMatches(schedule, r) <=> dayMatches(schedule, Reading) BY <2>1, <2>2 DEF dayMatches, DayInMonth
    <2>. QED BY <2>3 DEF Matches, NextDay, RightDay
  <1>5. Reading < (d + 1) * DayLength BY <1>1, <1>3
  <1>. QED BY <1>0, <1>1, <1>2, <1>3, <1>4, <1>5, Advanced, PassedOn

\* The step to the end of the hour, which adds to the instant and not to what is
\* shown: the clock changes at full hours only, so it ends where the hour does.
LEMMA NextHourStep == ASSUME SearchInv, NextHour PROVE SearchInv'
  <1>0. CalendarShape /\ Searching /\ search = "search" /\ Reading \in 0..(CalendarEnd - 1) /\ Reading = Shown(candidate)
    BY ReadingIs DEF SearchInv, NextHour, Searching
  <1>1. /\ MinutesPerHour \in Nat \ {0} /\ candidate \in Nat /\ change \in Nat /\ shift \in Int /\ Reading \in Int
    BY <1>0, Units DEF CalendarShape
  <1>2. PICK h \in Int : h = Reading \div MinutesPerHour BY <1>1, DivMod
  <1>3. PICK m \in 0..(MinutesPerHour - 1) : m = Reading % MinutesPerHour /\ Reading = h * MinutesPerHour + m
    BY <1>1, <1>2, DivMod
  <1>4. candidate' = candidate + MinutesPerHour - m /\ UNCHANGED <<search, expression, after, change, shift, schedule>>
    BY <1>3 DEF NextHour, GoesOnAt, EndOfHour, MinuteOf
  <1>5. candidate' \in Nat /\ candidate' > candidate /\ h * MinutesPerHour \in Int BY <1>1, <1>3, <1>4
  <1>6. PICK k \in Int : change = k * MinutesPerHour BY <1>0 DEF CalendarShape
  <1>7. h * MinutesPerHour < change => h * MinutesPerHour + MinutesPerHour <= change BY <1>6, HoursApart
  <1>9. PICK p \in Int : p = h * MinutesPerHour BY <1>5
  <1>10. Reading = p + m /\ candidate' = candidate + MinutesPerHour - m /\ m \in Int /\ m >= 0 /\ m < MinutesPerHour
         /\ MinutesPerHour \in Int
    BY <1>1, <1>3, <1>4, <1>9
  <1>11. PICK e \in Nat : e = candidate' BY <1>5
  <1>12. Reading = candidate => p + m = candidate /\ e = p + MinutesPerHour BY <1>1, <1>10, <1>11
  <1>8. ASSUME NEW t \in Occurrences, candidate <= t, t < candidate' PROVE BetweenMidnights(t)
    <2>1. t \in Nat /\ Shown(t) \in 0..(CalendarEnd - 1) /\ Matches(Shown(t)) BY <1>0, OccurrenceIs
    <2>2. p <= Shown(t) /\ Shown(t) < p + MinutesPerHour
      <3>1. CASE t < change
        <4>1. Shown(t) = t /\ Reading = candidate BY <3>1, <2>1, <1>0, <1>1, <1>8, ShownIs
        <4>2. p + m <= t /\ t < p + MinutesPerHour BY <4>1, <1>8, <1>11, <1>12
        <4>. QED BY <4>1, <4>2, <1>1, <1>10, <2>1
      <3>2. CASE candidate >= change
        <4>1. Shown(t) = t + shift /\ Reading = candidate + shift BY <3>2, <2>1, <1>0, <1>1, <1>8, ShownIs
        <4>. QED BY <4>1, <1>1, <1>8, <1>10, <2>1
      <3>3. CASE candidate < change /\ t >= change
        <4>1. Reading = candidate BY <3>3, <1>0, <1>1, ShownIs
        <4>2. p + MinutesPerHour <= change BY <4>1, <3>3, <1>1, <1>7, <1>9, <1>10
        <4>3. t < p + MinutesPerHour BY <4>1, <1>8, <1>11, <1>12
        <4>. QED BY <4>2, <4>3, <3>3, <1>1, <2>1
      <3>. QED BY <3>1, <3>2, <3>3, <1>1, <2>1
    <2>3. Shown(t) \div MinutesPerHour = h
      <3>1. Shown(t) \in Int BY <2>1
      <3>. QED BY <3>1, <2>2, <1>1, <1>9, DivUnique
    <2>4. HourOf(Shown(t)) = HourOf(Reading) BY <2>3, <1>2 DEF HourOf
    <2>. QED BY <2>1, <2>4 DEF Matches, NextHour, RightHour
  <1>. QED BY <1>0, <1>4, <1>5, <1>8, PassedOn

\* The step to the next minute.
LEMMA NextMinuteStep == ASSUME SearchInv, NextMinute PROVE SearchInv'
  <1>0. CalendarShape /\ Searching /\ search = "search" /\ Reading = Shown(candidate) /\ candidate \in Nat
    BY ReadingIs DEF SearchInv, NextMinute, Searching, CalendarShape
  <1>1. candidate' = candidate + 1 /\ UNCHANGED <<search, expression, after, change, shift, schedule>>
    BY DEF NextMinute, GoesOnAt
  <1>2. ASSUME NEW t \in Occurrences, candidate <= t, t < candidate' PROVE BetweenMidnights(t)
    <2>1. t \in Nat /\ Matches(Shown(t)) BY <1>0, OccurrenceIs
    <2>2. t = candidate BY <2>1, <1>0, <1>1, <1>2
    <2>. QED BY <2>1, <2>2, <1>0 DEF Matches, NextMinute, RightMinute
  <1>3. candidate' \in Nat /\ candidate' > candidate BY <1>0, <1>1
  <1>. QED BY <1>0, <1>1, <1>2, <1>3, PassedOn

\* What does not depend on how far the search is.
LEMMA SameCalendar ==
    ASSUME UNCHANGED <<expression, after, change, shift, schedule>>
    PROVE  /\ Occurrences' = Occurrences
           /\ \A t : BetweenMidnights(t)' <=> BetweenMidnights(t)
           /\ Parsed' = Parsed /\ (Valid' <=> Valid) /\ (Possible(Parsed)' <=> Possible(Parsed))
           /\ \A r : Matches(r)' <=> Matches(r)
  <1>1. /\ \A t : Shown(t)' = Shown(t)
        /\ \A r : Matches(r)' <=> Matches(r)
    BY DEF Shown, Matches, dayMatches
  <1>2. Occurrences' = Occurrences BY <1>1 DEF Occurrences
  <1>3. \A t : BetweenMidnights(t)' <=> BetweenMidnights(t) BY <1>1 DEF BetweenMidnights
  <1>4. Parsed' = Parsed /\ (Valid' <=> Valid) /\ (Possible(Parsed)' <=> Possible(Parsed))
    BY DEF Parsed, ParseField, Values, LowOf, HighOf, Star, Valid, ValidItem, Possible
  <1>. QED BY <1>1, <1>2, <1>3, <1>4

\* The candidate that is returned matches.
LEMMA FoundStep == ASSUME SearchInv, Found PROVE SearchInv'
  <1>0. /\ CalendarShape /\ Searching /\ search = "search" /\ search' = "found" /\ candidate' = candidate
        /\ UNCHANGED <<expression, after, change, shift, schedule>>
        /\ Reading \in 0..(CalendarEnd - 1) /\ Reading = Shown(candidate)
    BY ReadingIs DEF SearchInv, Found, Searching
  <1>1. candidate \in Occurrences
    <2>1. Matches(Reading) BY DEF Found, RightMonth, RightDay, RightHour, RightMinute, Matches
    <2>2. candidate \in 0..(CalendarEnd + MinutesPerHour)
      <3>1. candidate \in Nat /\ shift \in Int /\ -MinutesPerHour <= shift /\ MinutesPerHour \in Nat /\ CalendarEnd \in Nat
            /\ change \in Nat
        BY <1>0, Units DEF CalendarShape
      <3>2. Reading = candidate \/ Reading = candidate + shift BY <1>0 DEF Shown
      <3>. QED BY <3>1, <3>2, <1>0
    <2>. QED BY <2>1, <2>2, <1>0, Units DEF Occurrences
  <1>2. CalendarShape' BY <1>0 DEF CalendarShape
  <1>. QED BY <1>0, <1>1, <1>2, SameCalendar DEF SearchInv, Passed

\* When the candidate is past the calendar no occurrence comes after it.
LEMMA ExhaustedStep == ASSUME SearchInv, Exhausted PROVE SearchInv'
  <1>0. /\ CalendarShape /\ search = "search" /\ search' = "exhausted" /\ candidate' = candidate
        /\ UNCHANGED <<expression, after, change, shift, schedule>>
        /\ Shown(candidate) >= CalendarEnd
    BY DEF SearchInv, Exhausted, Reading
  <1>1. ASSUME NEW t \in Occurrences, after < t PROVE BetweenMidnights(t)
    <2>1. t \in Nat /\ Shown(t) < CalendarEnd BY <1>0, OccurrenceIs DEF Occurrences
    <2>2. /\ candidate \in Nat /\ shift \in Int /\ CalendarEnd \in Nat /\ change \in Nat /\ change <= CalendarEnd
          /\ after \in Nat
      BY <1>0, Units DEF CalendarShape
    <2>3. t < candidate
      <3>1. CASE candidate < change BY <3>1, <2>1, <2>2, <1>0, ShownIs
      <3>2. CASE candidate >= change /\ t >= change BY <3>2, <2>1, <2>2, <1>0, ShownIs
      <3>. QED BY <3>1, <3>2, <2>1, <2>2
    <2>. QED BY <2>3, <1>0, <1>1 DEF SearchInv, Passed
  <1>2. CalendarShape' BY <1>0 DEF CalendarShape
  <1>. QED BY <1>0, <1>1, <1>2, SameCalendar DEF SearchInv

\* ahdCronParse refuses the schedule.
LEMMA ParseRaisesStep == ASSUME SearchInv, ParseRaises PROVE SearchInv'
  <1>0. /\ CalendarShape /\ search = "parse" /\ UNCHANGED <<expression, after, change, shift, candidate>>
        /\ search' = "invalid" \/ (search' = "impossible" /\ schedule' = Parsed /\ ~Possible(Parsed))
    BY DEF SearchInv, ParseRaises
  <1>1. Parsed' = Parsed /\ (Possible(Parsed)' <=> Possible(Parsed))
    BY <1>0 DEF Parsed, ParseField, Values, LowOf, HighOf, Star, Possible
  <1>2. CalendarShape' BY <1>0 DEF CalendarShape
  <1>. QED BY <1>0, <1>1, <1>2 DEF SearchInv

\* The search begins right after the instant, so nothing lies in between.
LEMMA ParseSucceedsStep == ASSUME SearchInv, ParseSucceeds PROVE SearchInv'
  <1>0. /\ CalendarShape /\ search = "parse" /\ UNCHANGED <<expression, after, change, shift>>
        /\ search' = "search" /\ schedule' = Parsed /\ candidate' = after + 1 /\ Valid /\ Possible(Parsed)
    BY DEF SearchInv, ParseSucceeds
  <1>1. Parsed' = Parsed /\ (Possible(Parsed)' <=> Possible(Parsed)) /\ (Valid' <=> Valid)
    BY <1>0 DEF Parsed, ParseField, Values, LowOf, HighOf, Star, Possible, Valid, ValidItem
  <1>2. CalendarShape' /\ candidate' > after' BY <1>0 DEF CalendarShape
  <1>3. Passed'
    <2>1. ASSUME NEW t \in Occurrences', after' < t, t < candidate' PROVE FALSE
      <3>1. t \in Nat BY <2>1, Units DEF Occurrences
      <3>. QED BY <2>1, <3>1, <1>0 DEF CalendarShape
    <2>. QED BY <2>1 DEF Passed
  <1>. QED BY <1>0, <1>1, <1>2, <1>3 DEF SearchInv

\* Before the expression is parsed.
LEMMA SearchInvInit == ASSUME CalendarInit PROVE SearchInv
  <1>1. after \in Nat /\ candidate = after BY CalendarAssumption, Units DEF CalendarInit
  <1>2. /\ change \in MinutesPerHour..CalendarEnd /\ change % MinutesPerHour = 0
        /\ shift \in (-MinutesPerHour)..MinutesPerHour
    BY CalendarAssumption DEF CalendarInit
  <1>3. \E k \in Int : change = k * MinutesPerHour
    <2>1. change \in Int /\ MinutesPerHour \in Nat \ {0} BY <1>2, Units
    <2>2. PICK k \in Int : k = change \div MinutesPerHour BY <2>1, DivMod
    <2>3. change = (change \div MinutesPerHour) * MinutesPerHour + (change % MinutesPerHour) BY <2>1, DivMod
    <2>4. change = k * MinutesPerHour + 0 BY <2>2, <2>3, <1>2
    <2>5. k * MinutesPerHour \in Int BY <2>1
    <2>. QED BY <2>4, <2>5
  <1>4. CalendarShape BY <1>1, <1>2, <1>3, Units DEF CalendarShape
  <1>. QED BY <1>4 DEF CalendarInit, SearchInv

\* Every step keeps the invariant.
LEMMA SearchInvNext == ASSUME SearchInv, [CalendarNext]_calendarVars PROVE SearchInv'
  <1>1. CASE UNCHANGED calendarVars
    <2>1. UNCHANGED <<expression, after, change, shift, schedule>> /\ search' = search /\ candidate' = candidate
      BY <1>1 DEF calendarVars
    <2>2. CalendarShape' BY <2>1 DEF SearchInv, CalendarShape
    <2>. QED BY <2>1, <2>2, SameCalendar DEF SearchInv, Passed
  <1>. QED BY <1>1, ParseRaisesStep, ParseSucceedsStep, NextMonthStep, NextDayStep, NextHourStep, NextMinuteStep,
              FoundStep, ExhaustedStep DEF CalendarNext

\* A bounded set of numbers has a greatest one.
LEMMA MaxOfNat ==
    ASSUME NEW T \in SUBSET Nat, T # {}, NEW b \in Nat, \A x \in T : x <= b
    PROVE  Max(T) \in T /\ \A y \in T : y <= Max(T)
  <1>. DEFINE U == {b - x : x \in T}
  <1>1. U \in SUBSET Nat /\ U # {}
    <2>1. ASSUME NEW x \in T PROVE b - x \in Nat
      <3>1. x \in Nat /\ x <= b OBVIOUS
      <3>. QED BY <3>1
    <2>. QED BY <2>1
  <1>2. PICK u \in U : \A y \in U : u <= y BY <1>1, MinOfNat
  <1>3. PICK x \in T : u = b - x BY <1>2
  <1>. HIDE DEF U
  <1>4. \A y \in T : x >= y
    <2>1. ASSUME NEW y \in T PROVE x >= y
      <3>1. u <= b - y BY <1>2 DEF U
      <3>2. b - x <= b - y /\ x \in Nat /\ y \in Nat BY <3>1, <1>3
      <3>. QED BY <3>2
    <2>. QED BY <2>1
  <1>5. \E z \in T : \A y \in T : z >= y BY <1>4
  <1>6. Max(T) \in T /\ \A y \in T : Max(T) >= y BY <1>5 DEF Max
  <1>. QED BY <1>6

\* The lengths of the months and their numbers in the year.
LEMMA MonthsAre ==
    ASSUME NEW i \in Months
    PROVE  /\ i \in 1..Len(MonthStarts) /\ i + 1 \in 1..Len(MonthStarts) /\ i \in Nat
           /\ MonthLength(i) \in Nat \ {0} /\ MonthStarts[i + 1] <= MonthStarts[Len(MonthStarts)]
           /\ MonthLength(i) <= MonthStarts[Len(MonthStarts)]
           /\ MonthNumber(i) \in 1..MonthsPerYear
  <1>1. i \in 1..Len(MonthStarts) /\ i + 1 \in 1..Len(MonthStarts) /\ i \in Nat BY Units DEF Months
  <1>2. PICK p \in Nat : p = MonthStarts[i] BY <1>1, Units
  <1>3. PICK q \in Nat : q = MonthStarts[i + 1] BY <1>1, Units
  <1>4. PICK n \in Nat : n = MonthStarts[Len(MonthStarts)] BY <1>1, Units
  <1>0. PICK L \in Nat : L = Len(MonthStarts) BY Units
  <1>10. \A j, k \in 1..L : j < k => MonthStarts[j] < MonthStarts[k] BY <1>0, Units, CalendarAssumption
  <1>11. i \in 1..L /\ i + 1 \in 1..L /\ i < i + 1 /\ L \in 1..L BY <1>0, <1>1
  <1>5. p < q BY <1>2, <1>3, <1>10, <1>11
  <1>6. q <= n
    <2>1. i + 1 < L \/ i + 1 = L BY <1>11
    <2>2. i + 1 < L => q < n BY <1>0, <1>3, <1>4, <1>10, <1>11
    <2>. QED BY <2>1, <2>2, <1>0, <1>3, <1>4
  <1>7. MonthLength(i) = q - p BY <1>2, <1>3 DEF MonthLength
  <1>8. (i - 1) % MonthsPerYear \in 0..(MonthsPerYear - 1)
    <2>1. i - 1 \in Int /\ MonthsPerYear \in Nat \ {0} BY <1>1, Units
    <2>. QED BY <2>1, DivMod
  <1>9. MonthNumber(i) \in 1..MonthsPerYear BY <1>8, Units DEF MonthNumber
  <1>. QED BY <1>1, <1>3, <1>4, <1>5, <1>6, <1>7, <1>9

\* ahdCronMonthDays: the number of a month occurs in the calendar, its entry is the
\* length of one such month, and no other is longer.
LEMMA LongestMonthIs ==
    ASSUME NEW m \in 1..MonthsPerYear
    PROVE  /\ LongestMonth[m] \in Nat \ {0} /\ LongestMonth[m] <= MonthStarts[Len(MonthStarts)]
           /\ \E i \in Months : MonthNumber(i) = m /\ MonthLength(i) = LongestMonth[m]
           /\ \A i \in Months : MonthNumber(i) = m => MonthLength(i) <= LongestMonth[m]
  <1>. DEFINE T == {MonthLength(i) : i \in {j \in Months : MonthNumber(j) = m}}
  <1>1. m \in Months /\ MonthNumber(m) = m
    <2>1. m \in Months BY Units DEF Months
    <2>2. /\ MonthsPerYear \in Nat \ {0} /\ m \in Nat /\ 0 \in Int /\ m - 1 \in Int
          /\ 0 * MonthsPerYear <= m - 1 /\ m - 1 < 0 * MonthsPerYear + MonthsPerYear
      BY Units
    <2>3. ((m - 1) % MonthsPerYear) = (m - 1) - 0 * MonthsPerYear BY <2>2, DivUnique
    <2>4. ((m - 1) % MonthsPerYear) = m - 1 BY <2>2, <2>3
    <2>5. m - 1 + 1 = m BY <2>2
    <2>. QED BY <2>1, <2>4, <2>5 DEF MonthNumber
  <1>2. T # {} BY <1>1
  <1>3. T \in SUBSET Nat /\ \A x \in T : x # 0 /\ x <= MonthStarts[Len(MonthStarts)] BY MonthsAre
  <1>4. Len(MonthStarts) \in 1..Len(MonthStarts) BY Units
  <1>5. MonthStarts[Len(MonthStarts)] \in Nat BY <1>4, Units
  <1>6. Max(T) \in T /\ \A y \in T : y <= Max(T) BY <1>2, <1>3, <1>5, MaxOfNat
  <1>7. LongestMonth[m] = Max(T) BY DEF LongestMonth
  <1>. QED BY <1>3, <1>6, <1>7

\* ahdCronParse refuses only what no reading of the calendar matches.
LEMMA ImpossibleNever ==
    ASSUME ~Possible(schedule), NEW r \in 0..(CalendarEnd - 1) PROVE ~Matches(r)
  <1>1. SUFFICES ASSUME Matches(r) PROVE FALSE OBVIOUS
  <1>2. ~schedule.daysStar /\ schedule.weekdaysStar
        /\ \A month \in schedule.months : \A day \in schedule.days : ~(day <= LongestMonth[month])
    BY DEF Possible
  <1>3. PICK i \in Months : i = MonthOf(r) /\ MonthStarts[i] <= DayOf(r) /\ DayOf(r) < MonthStarts[i + 1]
    BY MonthIs
  <1>4. MonthNumber(i) \in schedule.months /\ DayInMonth(r) \in schedule.days
    BY <1>1, <1>2, <1>3 DEF Matches, dayMatches
  <1>5. /\ MonthLength(i) <= LongestMonth[MonthNumber(i)]
        /\ LongestMonth[MonthNumber(i)] \in Nat /\ MonthLength(i) \in Nat
    BY MonthsAre, LongestMonthIs
  <1>6. DayInMonth(r) = DayOf(r) - MonthStarts[i] + 1 BY <1>3 DEF DayInMonth
  <1>7. MonthLength(i) = MonthStarts[i + 1] - MonthStarts[i] BY DEF MonthLength
  <1>8. DayOf(r) \in Nat /\ MonthStarts[i] \in Nat /\ MonthStarts[i + 1] \in Nat BY DayIs, MonthsAre, Units
  <1>9. DayInMonth(r) <= MonthLength(i) /\ DayInMonth(r) \in Int BY <1>3, <1>6, <1>7, <1>8
  <1>10. DayInMonth(r) <= LongestMonth[MonthNumber(i)] BY <1>5, <1>9
  <1>. QED BY <1>2, <1>4, <1>10

\* The limits of ahdCronFields.
LEMMA HighIs ==
    /\ Low[1] = 0 /\ Low[2] = 0 /\ Low[3] = 1 /\ Low[4] = 1
    /\ High[1] = MinutesPerHour - 1 /\ High[2] = HoursPerDay - 1 /\ High[3] \in Nat /\ High[4] = MonthsPerYear
  <1>1. High[3] \in Nat
    <2>. DEFINE T == Range(LongestMonth)
    <2>1. T = {LongestMonth[m] : m \in 1..MonthsPerYear} BY DEF Range, LongestMonth
    <2>2. 1 \in 1..MonthsPerYear BY Units
    <2>3. T \in SUBSET Nat /\ T # {} /\ \A x \in T : x <= MonthStarts[Len(MonthStarts)] BY <2>1, <2>2, LongestMonthIs
    <2>4. Len(MonthStarts) \in 1..Len(MonthStarts) BY Units
    <2>5. MonthStarts[Len(MonthStarts)] \in Nat BY <2>4, Units
    <2>6. Max(T) \in T BY <2>3, <2>5, MaxOfNat
    <2>7. High[3] = Max(T) BY DEF High
    <2>. QED BY <2>3, <2>6, <2>7
  <1>. QED BY <1>1 DEF Low, High

\* The items of a field.
LEMMA ItemsAre ==
    ASSUME expression \in Expressions, NEW f \in 1..5
    PROVE  /\ expression[f] \in Seq(Items) /\ expression[f][1] \in Range(expression[f])
           /\ \A item \in Range(expression[f]) : item \in Items
  <1>1. expression[f] \in Seq(Items) /\ expression[f] # <<>> BY CalendarAssumption
  <1>2. 1 \in DOMAIN expression[f] /\ \A j \in DOMAIN expression[f] : expression[f][j] \in Items BY <1>1
  <1>. QED BY <1>1, <1>2 DEF Range

\* A valid field has a value, all its values are within the limits, and a star's
\* have the lowest.
LEMMA FieldIs ==
    ASSUME expression \in Expressions, Valid, NEW f \in 1..4
    PROVE  /\ ParseField(f) # {} /\ \A v \in ParseField(f) : v \in Low[f]..High[f]
           /\ Star(f) => Low[f] \in ParseField(f)
  <1>1. f \in 1..5 /\ f # Weekday BY DEF Weekday
  <1>2. Low[f] \in Int /\ High[f] \in Int BY HighIs, Units
  <1>3. ASSUME NEW item \in Range(expression[f])
        PROVE  /\ LowOf(f, item) \in Values(f, item)
               /\ \A v \in Values(f, item) : v \in Low[f]..High[f]
    <2>1. item \in Items /\ ValidItem(f, item) BY <1>1, ItemsAre DEF Valid
    <2>2. item.low \in Int /\ item.high \in Int /\ item.step \in Int BY <2>1 DEF Items
    <2>3. PICK low \in Int : low = LowOf(f, item) BY <1>2, <2>2 DEF LowOf
    <2>4. PICK high \in Int : high = HighOf(f, item) BY <1>1, <1>2, <2>2 DEF HighOf
    <2>5. low >= Low[f] /\ high <= High[f] /\ low <= high /\ (item.step # NoStep => item.step \in 1..(high - low))
      BY <2>1, <2>3, <2>4 DEF ValidItem
    <2>6. Values(f, item) = {v \in low..high : item.step = NoStep \/ (v - low) % item.step = 0}
      BY <1>1, <2>3, <2>4 DEF Values
    <2>7. item.step # NoStep => ((low - low) % item.step) = 0
      <3>1. ASSUME item.step # NoStep PROVE ((low - low) % item.step) = 0
        <4>1. item.step \in Nat \ {0} BY <2>5, <3>1
        <4>2. 0 \in Int /\ 0 * item.step <= 0 /\ 0 < 0 * item.step + item.step /\ 0 * item.step = 0 BY <4>1
        <4>3. (0 % item.step) = 0 BY <4>1, <4>2, DivUnique
        <4>. QED BY <4>3
      <3>. QED BY <3>1
    <2>8. low \in low..high /\ \A v \in low..high : v \in Low[f]..High[f] BY <1>2, <2>5
    <2>. QED BY <2>3, <2>6, <2>7, <2>8
  <1>4. PICK first : first = expression[f][1] /\ first \in Range(expression[f]) BY <1>1, ItemsAre
  <1>5. Star(f) => LowOf(f, first) = Low[f] BY <1>4 DEF Star, LowOf
  <1>6. LowOf(f, first) \in ParseField(f) BY <1>3, <1>4 DEF ParseField
  <1>7. \A v \in ParseField(f) : v \in Low[f]..High[f] BY <1>3 DEF ParseField
  <1>. QED BY <1>5, <1>6, <1>7

\* Every day of a month, hour and minute make a reading that has them for its parts.
LEMMA ReadingMade ==
    ASSUME NEW i \in Months, NEW day \in 1..MonthLength(i), NEW h \in 0..(HoursPerDay - 1),
           NEW mi \in 0..(MinutesPerHour - 1)
    PROVE  \E r \in 0..(CalendarEnd - 1) :
              MonthOf(r) = i /\ DayInMonth(r) = day /\ HourOf(r) = h /\ MinuteOf(r) = mi
                             /\ DayOf(r) = MonthStarts[i] + day - 1
  <1>1. PICK p \in Nat : p = MonthStarts[i] BY MonthsAre, Units
  <1>2. PICK q \in Nat : q = MonthStarts[i + 1] BY MonthsAre, Units
  <1>0. Len(MonthStarts) \in 1..Len(MonthStarts) BY Units
  <1>3. PICK n \in Nat : n = MonthStarts[Len(MonthStarts)] BY <1>0, Units
  <1>4. q <= n BY <1>2, <1>3, MonthsAre
  <1>5. PICK d \in Nat : d = p + day - 1 BY <1>1, <1>2 DEF MonthLength
  <1>6. p <= d /\ d < q BY <1>1, <1>2, <1>5 DEF MonthLength
  <1>7. DayLength \in Nat \ {0} /\ MinutesPerHour \in Nat \ {0} /\ HoursPerDay \in Nat \ {0} BY Units
  <1>8. PICK D \in Nat : D = d * DayLength BY <1>7
  <1>9. PICK H \in Nat : H = h * MinutesPerHour BY <1>7
  <1>10. H + MinutesPerHour <= DayLength
    <2>1. h \in Int /\ HoursPerDay \in Int /\ h < HoursPerDay BY <1>7
    <2>2. h * MinutesPerHour + MinutesPerHour <= HoursPerDay * MinutesPerHour BY <2>1, <1>7, TimesMonotone
    <2>3. HoursPerDay * MinutesPerHour = DayLength BY <1>7 DEF DayLength
    <2>. QED BY <2>2, <2>3, <1>9
  <1>11. PICK r \in Nat : r = D + H + mi BY <1>7, <1>8, <1>9
  <1>12. D <= r /\ r < D + DayLength BY <1>7, <1>10, <1>11
  <1>13. r \in 0..(CalendarEnd - 1)
    <2>1. d \in Int /\ n \in Int /\ d < n BY <1>4, <1>6
    <2>2. d * DayLength + DayLength <= n * DayLength BY <2>1, <1>7, TimesMonotone
    <2>3. n * DayLength = CalendarEnd /\ CalendarEnd \in Nat BY <1>3, Units
    <2>. QED BY <2>2, <2>3, <1>7, <1>8, <1>12
  <1>14. DayOf(r) = d BY <1>8, <1>12, SameDay
  <1>15. MonthOf(r) = i BY <1>1, <1>2, <1>6, <1>13, <1>14, MonthIs
  <1>16. DayInMonth(r) = day BY <1>1, <1>5, <1>14, <1>15 DEF DayInMonth
  <1>17. PICK g \in Nat : g = d * HoursPerDay BY <1>7
  <1>18. (g + h) * MinutesPerHour = D + H
    <2>1. (g + h) * MinutesPerHour = g * MinutesPerHour + h * MinutesPerHour BY <1>7
    <2>2. g * MinutesPerHour = d * DayLength BY <1>17, MidnightIsHour
    <2>. QED BY <2>1, <2>2, <1>8, <1>9
  <1>19. (r \div MinutesPerHour) = g + h /\ (r % MinutesPerHour) = mi
    <2>1. g + h \in Int /\ r \in Int /\ mi \in Int /\ D + H \in Int /\ (g + h) * MinutesPerHour <= r
          /\ r < (g + h) * MinutesPerHour + MinutesPerHour
      BY <1>7, <1>11, <1>18
    <2>2. (r \div MinutesPerHour) = g + h /\ (r % MinutesPerHour) = r - (g + h) * MinutesPerHour
      BY <2>1, <1>7, DivUnique
    <2>3. r - (D + H) = mi BY <2>1, <1>11
    <2>. QED BY <2>2, <2>3, <1>18
  <1>20. ((g + h) % HoursPerDay) = h
    <2>1. d \in Int /\ g + h \in Int /\ h \in Int /\ d * HoursPerDay <= g + h /\ g + h < d * HoursPerDay + HoursPerDay
      BY <1>7, <1>17
    <2>2. ((g + h) % HoursPerDay) = (g + h) - d * HoursPerDay BY <2>1, <1>7, DivUnique
    <2>. QED BY <2>1, <2>2, <1>17
  <1>21. HourOf(r) = h /\ MinuteOf(r) = mi BY <1>19, <1>20 DEF HourOf, MinuteOf
  <1>. QED BY <1>1, <1>5, <1>13, <1>14, <1>15, <1>16, <1>21

\* A schedule that ahdCronParse accepts and that names every weekday matches a
\* reading.
LEMMA PossibleOnce ==
    ASSUME expression \in Expressions, Valid, schedule = Parsed, Possible(schedule),
           schedule.weekdays = 0..(DaysPerWeek - 1)
    PROVE  \E r \in 0..(CalendarEnd - 1) : Matches(r)
  <1>0. /\ schedule.minutes = ParseField(1) /\ schedule.hours = ParseField(2) /\ schedule.days = ParseField(3)
        /\ schedule.months = ParseField(4) /\ schedule.daysStar = Star(3)
    BY DEF Parsed
  <1>1. PICK mi \in 0..(MinutesPerHour - 1) : mi \in schedule.minutes BY <1>0, FieldIs, HighIs
  <1>2. PICK h \in 0..(HoursPerDay - 1) : h \in schedule.hours BY <1>0, FieldIs, HighIs
  <1>3. \A m \in schedule.months : m \in 1..MonthsPerYear BY <1>0, FieldIs, HighIs
  <1>4. \A d \in schedule.days : d \in Nat /\ d >= 1
    <2>1. \A d \in schedule.days : d \in 1..High[3] BY <1>0, FieldIs, HighIs
    <2>. QED BY <2>1, HighIs
  <1>5. PICK m \in schedule.months, day \in Nat :
           day >= 1 /\ day <= LongestMonth[m] /\ (schedule.daysStar \/ schedule.weekdaysStar => day \in schedule.days)
    <2>1. PICK m \in schedule.months : TRUE BY <1>0, FieldIs
    <2>2. LongestMonth[m] \in Nat \ {0} BY <1>3, LongestMonthIs
    <2>3. CASE schedule.daysStar
      <3>1. 1 \in schedule.days BY <2>3, <1>0, FieldIs, HighIs
      <3>. QED BY <3>1, <2>2
    <2>4. CASE ~schedule.daysStar /\ schedule.weekdaysStar
      <3>1. PICK month \in schedule.months, d \in schedule.days : d <= LongestMonth[month] BY <2>4 DEF Possible
      <3>. QED BY <3>1, <1>4
    <2>5. CASE ~schedule.daysStar /\ ~schedule.weekdaysStar BY <2>2, <2>5
    <2>. QED BY <2>3, <2>4, <2>5
  <1>6. PICK i \in Months : MonthNumber(i) = m /\ MonthLength(i) = LongestMonth[m] BY <1>3, LongestMonthIs
  <1>7. day \in 1..MonthLength(i) BY <1>5, <1>6, MonthsAre
  <1>8. PICK r \in 0..(CalendarEnd - 1) : MonthOf(r) = i /\ DayInMonth(r) = day /\ HourOf(r) = h /\ MinuteOf(r) = mi
    BY <1>7, ReadingMade
  <1>9. (DayOf(r) % DaysPerWeek) \in schedule.weekdays
    <2>1. DayOf(r) \in Int /\ DaysPerWeek \in Nat \ {0} BY DayIs, Units
    <2>. QED BY <2>1, DivMod
  <1>10. dayMatches(schedule, r) BY <1>5, <1>8, <1>9 DEF dayMatches
  <1>. QED BY <1>1, <1>2, <1>6, <1>8, <1>10 DEF Matches

\* The invariant is what the runs check, when the search has ended and before.
LEMMA SearchInvRight == ASSUME SearchInv PROVE OccurrencesRight
  <1>1. search = "found" => candidate > after /\ candidate \in Occurrences BY DEF SearchInv
  <1>2. ASSUME search \in {"found", "exhausted"}, NEW t \in Occurrences, after < t,
               t < candidate \/ search = "exhausted"
        PROVE  BetweenMidnights(t)
    BY <1>2 DEF SearchInv, Passed
  <1>3. search = "impossible" => \A shown \in 0..(CalendarEnd - 1) : ~Matches(shown)
    BY ImpossibleNever DEF SearchInv
  <1>4. search = "search" /\ schedule.weekdays = 0..(DaysPerWeek - 1) => \E shown \in 0..(CalendarEnd - 1) : Matches(shown)
    BY PossibleOnce DEF SearchInv
  <1>. QED BY <1>1, <1>2, <1>3, <1>4 DEF OccurrencesRight

\* schedule.next returns the first occurrence strictly after the instant, whatever
\* the calendar, the schedule and the change of the clock, but for the stretch of a
\* midnight shown twice; it fails only when none is left, and ahdCronParse refuses a
\* schedule as one that can never run only if no reading matches it.
THEOREM OccurrencesRightAlways == CalendarSpec => []OccurrencesRight
  <1>1. CalendarInit => SearchInv BY SearchInvInit
  <1>2. SearchInv /\ [CalendarNext]_calendarVars => SearchInv' BY SearchInvNext
  <1>3. SearchInv => OccurrencesRight BY SearchInvRight
  <1>. QED BY <1>1, <1>2, <1>3, PTL DEF CalendarSpec

\* Where no midnight comes twice the answer is the least of the occurrences after
\* the instant, which is how CronScheduler finds the next run of a job.
THEOREM FirstOccurrenceAlways ==
    CalendarSpec => [](search = "found" /\ shift >= 0 => candidate = Min({t \in Occurrences : after < t}))
  <1>1. CalendarInit => SearchInv BY SearchInvInit
  <1>2. SearchInv /\ [CalendarNext]_calendarVars => SearchInv' BY SearchInvNext
  <1>3. ASSUME SearchInv, search = "found", shift >= 0 PROVE candidate = Min({t \in Occurrences : after < t})
    <2>. DEFINE T == {t \in Occurrences : after < t}
    <2>1. candidate \in T BY <1>3 DEF SearchInv
    <2>2. T \in SUBSET Nat
      <3>1. CalendarShape BY <1>3 DEF SearchInv
      <3>. QED BY <3>1, OccurrenceIs
    <2>3. \A t \in T : ~(t < candidate)
      <3>1. ASSUME NEW t \in T, t < candidate PROVE FALSE
        <4>1. BetweenMidnights(t) BY <3>1, <1>3 DEF SearchInv, Passed
        <4>2. shift \in Int BY <1>3 DEF SearchInv, CalendarShape
        <4>. QED BY <4>1, <4>2, <1>3 DEF BetweenMidnights
      <3>. QED BY <3>1
    <2>4. Min(T) \in T /\ \A y \in T : Min(T) <= y BY <2>1, <2>2, MinOfNat
    <2>5. Min(T) <= candidate /\ ~(Min(T) < candidate) /\ Min(T) \in Nat /\ candidate \in Nat BY <2>1, <2>2, <2>3, <2>4
    <2>. QED BY <2>5
  <1>4. SearchInv => (search = "found" /\ shift >= 0 => candidate = Min({t \in Occurrences : after < t})) BY <1>3
  <1>. QED BY <1>1, <1>2, <1>4, PTL DEF CalendarSpec

-----------------------------------------------------------------------------
(* The PostgreSQL pool and its transactions.                               *)

\* The steps a caller takes with transaction.mu held.
Using  == {"running", "lookup", "category"}
Ending == {"committing", "undoing", "closingOne"}

\* A transaction that is being begun is nobody else's and not the program's yet.
Private(k) ==
    /\ call[k].tx \in Transactions \ handles
    /\ \A j \in Callers : j # k => call[j].tx # call[k].tx

\* What is true at each step of a call.
CallInv(k) ==
    /\ call[k].at = "begin" => Private(k) /\ remote[call[k].tx] = "unused"
    /\ call[k].at = "register" => Private(k) /\ remote[call[k].tx] = "open"
    /\ call[k].at \in {"commit", "rollback", "statement"} => call[k].tx \in handles
    /\ call[k].at \in Using \cup Ending =>
          /\ call[k].tx \in handles
          /\ holder[call[k].tx] = k
          /\ remote[call[k].tx] \in Live
          /\ done[call[k].tx] <=> call[k].at \in Ending

\* A transaction of the program is live until it is finished.
HandlesLive ==
    /\ \A t \in handles : remote[t] # "unused" /\ (done[t] \/ remote[t] \in Live)
    /\ ending \subseteq handles

\* The types of everything but the two flags of the database, which no step
\* of a transaction depends on.
PoolShape ==
    /\ listed \subseteq handles /\ handles \subseteq Transactions
    /\ done \in [Transactions -> BOOLEAN]
    /\ holder \in [Transactions -> Callers \cup {NoCaller}]
    /\ remote \in [Transactions -> {"unused", "committed", "undone"} \cup Live]
    /\ call \in [Callers -> [at : Steps, tx : Transactions \cup {NoTransaction}]]

PoolInv == PoolShape /\ HandlesLive /\ \A k \in Callers : CallInv(k)

\* No transaction has been begun.
LEMMA PoolInvInit == ASSUME PoolInit PROVE PoolInv
  <1>1. PoolShape
    BY DEF PoolInit, PoolShape, Live, Steps
  <1>2. HandlesLive /\ \A k \in Callers : CallInv(k)
    BY DEF PoolInit, HandlesLive, CallInv, Using, Ending
  <1>. QED BY <1>1, <1>2 DEF PoolInv

\* A step about t changes nothing of another transaction u, and nothing that
\* caller j depends on.
OnlyHere(u, t) ==
    u # t => remote'[u] = remote[u] /\ done'[u] = done[u] /\ holder'[u] = holder[u]
NotDisturbed(j, t) ==
    call[j].tx = t =>
        /\ call[j].at \notin {"begin", "register"}
        /\ call[j].at \in Using \cup Ending =>
              remote'[t] = remote[t] /\ done'[t] = done[t] /\ holder'[t] = holder[t]

\* A step that is about one transaction, with which no other caller is at work,
\* changes nothing for the other callers.
LEMMA OthersKept ==
    ASSUME PoolInv, NEW k \in Callers, NEW j \in Callers, j # k,
           NEW t,
           \A i \in Callers : i # k => call'[i] = call[i],
           call'[k].tx \in {t, NoTransaction},
           handles' = handles \/ handles' = handles \cup {t},
           \A u \in Transactions : OnlyHere(u, t),
           NotDisturbed(j, t)
    PROVE  CallInv(j)'
  <1>. USE DEF PoolInv
  <1>1. call'[j] = call[j] /\ CallInv(j)
    OBVIOUS
  <1>2. ASSUME call[j].at \in {"begin", "register"}
        PROVE  /\ Private(j)'
               /\ remote'[call[j].tx] = remote[call[j].tx]
    <2>1. Private(j) /\ call[j].tx # t /\ call[j].tx # NoTransaction
      BY <1>1, <1>2, PoolAssumption DEF CallInv, NotDisturbed, Private, PoolAssumption
    <2>2. call[j].tx \notin handles'
      BY <2>1 DEF Private
    <2>3. \A i \in Callers : i # j => call'[i].tx # call[j].tx
      BY <2>1 DEF Private
    <2>. QED BY <1>1, <2>1, <2>2, <2>3 DEF Private, OnlyHere
  <1>3. call[j].tx \in handles => call[j].tx \in handles'
    OBVIOUS
  <1>4. ASSUME call[j].at \in Using \cup Ending
        PROVE  LET u == call[j].tx
               IN remote'[u] = remote[u] /\ done'[u] = done[u] /\ holder'[u] = holder[u]
    BY <1>1, <1>4 DEF CallInv, NotDisturbed, OnlyHere, PoolShape
  <1>. QED BY <1>1, <1>2, <1>3, <1>4 DEF CallInv

\* BeginTx: a transaction that is open and still private, or none.
LEMMA PoolBeginTx ==
    ASSUME PoolInv, NEW k \in Callers, BeginTx(k)
    PROVE  PoolInv'
  <1>. USE DEF PoolInv, BeginTx, Moves, Returned, Locks, Unlocked, Becomes, dbVars, txState
  <1>1. PoolShape'
    BY DEF PoolShape, Live, Steps, HandlesLive, CallInv, Using, Ending, Private
  <1>2. HandlesLive'
    BY DEF PoolShape, Steps, HandlesLive, CallInv, Using, Ending, Live
  <1>0. \A j \in Callers : j # k => call'[j] = call[j]
    BY DEF PoolShape
  <1>a. /\ handles' = handles
        /\ call'[k].tx \in {call[k].tx, NoTransaction}
        /\ \A u \in Transactions : OnlyHere(u, call[k].tx)
        /\ \A j \in Callers : j # k => NotDisturbed(j, call[k].tx)
    BY PoolAssumption
       DEF PoolShape, HandlesLive, CallInv, Using, Ending, Private, PoolAssumption,
           OnlyHere, NotDisturbed
  <1>3. ASSUME NEW j \in Callers, j # k PROVE CallInv(j)'
    BY <1>0, <1>a, <1>3, OthersKept
  <1>4. CallInv(k)'
    BY <1>0 DEF PoolShape, Steps, HandlesLive, CallInv, Using, Ending, Private, Live
  <1>. QED BY <1>1, <1>2, <1>3, <1>4

\* The first to finish a transaction marks it and holds its mutex.
LEMMA PoolLockToEnd ==
    ASSUME PoolInv, NEW k \in Callers, LockToEnd(k)
    PROVE  PoolInv'
  <1>. USE DEF PoolInv, LockToEnd, Moves, Returned, Locks, Unlocked, Becomes, dbVars, txState
  <1>1. PoolShape'
    <2>. DEFINE t == call[k].tx
    <2>1. t \in Transactions
      BY DEF CallInv, PoolShape
    <2>2. CASE done[t]
      BY <2>2 DEF PoolShape, Steps
    <2>3. CASE ~done[t]
      <3>1. /\ listed' = listed \ {t} /\ UNCHANGED <<handles, remote>>
            /\ done' = [done EXCEPT ![t] = TRUE] /\ holder' = [holder EXCEPT ![t] = k]
            /\ \E where \in Steps : call' = [call EXCEPT ![k] = [at |-> where, tx |-> t]]
        BY <2>3 DEF Steps
      <3>. HIDE DEF t
      <3>. QED BY <2>1, <3>1 DEF PoolShape
    <2>. QED BY <2>2, <2>3
  <1>2. HandlesLive'
    BY DEF PoolShape, Steps, HandlesLive, CallInv, Using, Ending, Live
  <1>0. \A j \in Callers : j # k => call'[j] = call[j]
    BY DEF PoolShape
  <1>a. /\ handles' = handles
        /\ call'[k].tx \in {call[k].tx, NoTransaction}
        /\ \A u \in Transactions : OnlyHere(u, call[k].tx)
        /\ \A j \in Callers : j # k => NotDisturbed(j, call[k].tx)
    BY PoolAssumption
       DEF PoolShape, HandlesLive, CallInv, Using, Ending, Private, PoolAssumption,
           OnlyHere, NotDisturbed
  <1>3. ASSUME NEW j \in Callers, j # k PROVE CallInv(j)'
    BY <1>0, <1>a, <1>3, OthersKept
  <1>4. CallInv(k)'
    BY <1>0 DEF PoolShape, Steps, HandlesLive, CallInv, Using, Ending, Private, Live
  <1>. QED BY <1>1, <1>2, <1>3, <1>4

\* The commit ends what its caller alone was using.
LEMMA PoolPgCommit ==
    ASSUME PoolInv, NEW k \in Callers, PgCommit(k)
    PROVE  PoolInv'
  <1>. USE DEF PoolInv, PgCommit, Moves, Returned, Locks, Unlocked, Becomes, dbVars, txState
  <1>1. PoolShape'
    BY DEF PoolShape, Live, Steps, HandlesLive, CallInv, Using, Ending, Private
  <1>2. HandlesLive'
    BY DEF PoolShape, Steps, HandlesLive, CallInv, Using, Ending, Live
  <1>0. \A j \in Callers : j # k => call'[j] = call[j]
    BY DEF PoolShape
  <1>a. /\ handles' = handles
        /\ call'[k].tx \in {call[k].tx, NoTransaction}
        /\ \A u \in Transactions : OnlyHere(u, call[k].tx)
        /\ \A j \in Callers : j # k => NotDisturbed(j, call[k].tx)
    BY PoolAssumption
       DEF PoolShape, HandlesLive, CallInv, Using, Ending, Private, PoolAssumption,
           OnlyHere, NotDisturbed
  <1>3. ASSUME NEW j \in Callers, j # k PROVE CallInv(j)'
    BY <1>0, <1>a, <1>3, OthersKept
  <1>4. CallInv(k)'
    BY <1>0 DEF PoolShape, Steps, HandlesLive, CallInv, Using, Ending, Private, Live
  <1>. QED BY <1>1, <1>2, <1>3, <1>4

\* So does the rollback.
LEMMA PoolPgRollback ==
    ASSUME PoolInv, NEW k \in Callers, PgRollback(k)
    PROVE  PoolInv'
  <1>. USE DEF PoolInv, PgRollback, Moves, Returned, Locks, Unlocked, Becomes, dbVars, txState
  <1>1. PoolShape'
    BY DEF PoolShape, Live, Steps, HandlesLive, CallInv, Using, Ending, Private
  <1>2. HandlesLive'
    BY DEF PoolShape, Steps, HandlesLive, CallInv, Using, Ending, Live
  <1>0. \A j \in Callers : j # k => call'[j] = call[j]
    BY DEF PoolShape
  <1>a. /\ handles' = handles
        /\ call'[k].tx \in {call[k].tx, NoTransaction}
        /\ \A u \in Transactions : OnlyHere(u, call[k].tx)
        /\ \A j \in Callers : j # k => NotDisturbed(j, call[k].tx)
    BY PoolAssumption
       DEF PoolShape, HandlesLive, CallInv, Using, Ending, Private, PoolAssumption,
           OnlyHere, NotDisturbed
  <1>3. ASSUME NEW j \in Callers, j # k PROVE CallInv(j)'
    BY <1>0, <1>a, <1>3, OthersKept
  <1>4. CallInv(k)'
    BY <1>0 DEF PoolShape, Steps, HandlesLive, CallInv, Using, Ending, Private, Live
  <1>. QED BY <1>1, <1>2, <1>3, <1>4

\* A statement takes the mutex of an unfinished transaction, which is live.
LEMMA PoolLockToRun ==
    ASSUME PoolInv, NEW k \in Callers, LockToRun(k)
    PROVE  PoolInv'
  <1>. USE DEF PoolInv, LockToRun, Finished, Moves, Returned, Locks, Unlocked, Becomes, dbVars, txState
  <1>1. PoolShape'
    BY DEF PoolShape, Live, Steps, HandlesLive, CallInv, Using, Ending, Private
  <1>2. HandlesLive'
    BY DEF PoolShape, Steps, HandlesLive, CallInv, Using, Ending, Live
  <1>0. \A j \in Callers : j # k => call'[j] = call[j]
    BY DEF PoolShape
  <1>a. /\ handles' = handles
        /\ call'[k].tx \in {call[k].tx, NoTransaction}
        /\ \A u \in Transactions : OnlyHere(u, call[k].tx)
        /\ \A j \in Callers : j # k => NotDisturbed(j, call[k].tx)
    BY PoolAssumption
       DEF PoolShape, HandlesLive, CallInv, Using, Ending, Private, PoolAssumption,
           OnlyHere, NotDisturbed
  <1>3. ASSUME NEW j \in Callers, j # k PROVE CallInv(j)'
    BY <1>0, <1>a, <1>3, OthersKept
  <1>4. CallInv(k)'
    BY <1>0 DEF PoolShape, Steps, HandlesLive, CallInv, Using, Ending, Private, Live
  <1>. QED BY <1>1, <1>2, <1>3, <1>4

\* The statement leaves its transaction live.
LEMMA PoolRunStatement ==
    ASSUME PoolInv, NEW k \in Callers, RunStatement(k)
    PROVE  PoolInv'
  <1>. USE DEF PoolInv, RunStatement, Moves, Returned, Locks, Unlocked, Becomes, dbVars, txState
  <1>1. PoolShape'
    BY DEF PoolShape, Live, Steps, HandlesLive, CallInv, Using, Ending, Private
  <1>2. HandlesLive'
    BY DEF PoolShape, Steps, HandlesLive, CallInv, Using, Ending, Live
  <1>0. \A j \in Callers : j # k => call'[j] = call[j]
    BY DEF PoolShape
  <1>a. /\ handles' = handles
        /\ call'[k].tx \in {call[k].tx, NoTransaction}
        /\ \A u \in Transactions : OnlyHere(u, call[k].tx)
        /\ \A j \in Callers : j # k => NotDisturbed(j, call[k].tx)
    BY PoolAssumption
       DEF PoolShape, HandlesLive, CallInv, Using, Ending, Private, PoolAssumption,
           OnlyHere, NotDisturbed
  <1>3. ASSUME NEW j \in Callers, j # k PROVE CallInv(j)'
    BY <1>0, <1>a, <1>3, OthersKept
  <1>4. CallInv(k)'
    BY <1>0 DEF PoolShape, Steps, HandlesLive, CallInv, Using, Ending, Private, Live
  <1>. QED BY <1>1, <1>2, <1>3, <1>4

\* A category lookup goes on with the mutex held, or gives up and unlocks.
LEMMA PoolAcquire ==
    ASSUME PoolInv, NEW k \in Callers, Acquire(k)
    PROVE  PoolInv'
  <1>. USE DEF PoolInv, Acquire, Moves, Returned, Locks, Unlocked, Becomes, dbVars, txState
  <1>1. PoolShape'
    BY DEF PoolShape, Live, Steps, HandlesLive, CallInv, Using, Ending, Private
  <1>2. HandlesLive'
    BY DEF PoolShape, Steps, HandlesLive, CallInv, Using, Ending, Live
  <1>0. \A j \in Callers : j # k => call'[j] = call[j]
    BY DEF PoolShape
  <1>a. /\ handles' = handles
        /\ call'[k].tx \in {call[k].tx, NoTransaction}
        /\ \A u \in Transactions : OnlyHere(u, call[k].tx)
        /\ \A j \in Callers : j # k => NotDisturbed(j, call[k].tx)
    BY PoolAssumption
       DEF PoolShape, HandlesLive, CallInv, Using, Ending, Private, PoolAssumption,
           OnlyHere, NotDisturbed
  <1>3. ASSUME NEW j \in Callers, j # k PROVE CallInv(j)'
    BY <1>0, <1>a, <1>3, OthersKept
  <1>4. CallInv(k)'
    BY <1>0 DEF PoolShape, Steps, HandlesLive, CallInv, Using, Ending, Private, Live
  <1>. QED BY <1>1, <1>2, <1>3, <1>4

\* The connection comes back.
LEMMA PoolRelease ==
    ASSUME PoolInv, NEW k \in Callers, Release(k)
    PROVE  PoolInv'
  <1>. USE DEF PoolInv, Release, Moves, Returned, Locks, Unlocked, Becomes, dbVars, txState
  <1>1. PoolShape'
    BY DEF PoolShape, Live, Steps, HandlesLive, CallInv, Using, Ending, Private
  <1>2. HandlesLive'
    BY DEF PoolShape, Steps, HandlesLive, CallInv, Using, Ending, Live
  <1>0. \A j \in Callers : j # k => call'[j] = call[j]
    BY DEF PoolShape
  <1>a. /\ handles' = handles
        /\ call'[k].tx \in {call[k].tx, NoTransaction}
        /\ \A u \in Transactions : OnlyHere(u, call[k].tx)
        /\ \A j \in Callers : j # k => NotDisturbed(j, call[k].tx)
    BY PoolAssumption
       DEF PoolShape, HandlesLive, CallInv, Using, Ending, Private, PoolAssumption,
           OnlyHere, NotDisturbed
  <1>3. ASSUME NEW j \in Callers, j # k PROVE CallInv(j)'
    BY <1>0, <1>a, <1>3, OthersKept
  <1>4. CallInv(k)'
    BY <1>0 DEF PoolShape, Steps, HandlesLive, CallInv, Using, Ending, Private, Live
  <1>. QED BY <1>1, <1>2, <1>3, <1>4

\* PgBegin: the lookup refuses a closed database; the transaction is nobody's yet.
LEMMA PoolPgBegin == ASSUME PoolInv, NEW k \in Callers, PgBegin(k) PROVE PoolInv'
  <1>. USE DEF PoolInv
  <1>1. PICK t \in Transactions : /\ remote[t] = "unused"
                                  /\ \A j \in Callers : call[j].tx # t
                                  /\ Moves(k, "begin", t)
    BY DEF PgBegin
  <1>2. UNCHANGED <<listed, handles, done, holder, remote, ending>>
    BY DEF PgBegin, dbVars, txState
  <1>3. PoolShape' /\ HandlesLive'
    BY <1>1, <1>2 DEF Moves, PoolShape, Live, Steps, HandlesLive
  <1>4. /\ \A j \in Callers : j # k => call'[j] = call[j]
        /\ call'[k].at = "begin" /\ call'[k].tx = t
    BY <1>1 DEF Moves, PoolShape
  <1>5. ASSUME NEW j \in Callers, j # k PROVE CallInv(j)'
    <2>1. /\ \A u \in Transactions : OnlyHere(u, t)
          /\ NotDisturbed(j, t)
      BY <1>1, <1>2 DEF OnlyHere, NotDisturbed
    <2>. QED BY <1>2, <1>4, <1>5, <2>1, OthersKept
  <1>6. CallInv(k)'
    BY <1>1, <1>2, <1>4 DEF CallInv, Private, HandlesLive, Using, Ending
  <1>. QED BY <1>3, <1>5, <1>6

\* Register: the open transaction becomes the program's, or is rolled back.
LEMMA PoolRegister == ASSUME PoolInv, NEW k \in Callers, Register(k) PROVE PoolInv'
  <1>. DEFINE t == call[k].tx
  <1>. USE DEF PoolInv
  <1>1. /\ t \in Transactions \ handles /\ remote[t] = "open"
        /\ \A j \in Callers : j # k => call[j].tx # t
    BY DEF Register, CallInv, Private
  <1>2. \/ handles' = handles \cup {t} /\ listed' = listed \cup {t} /\ remote' = remote
        \/ handles' = handles /\ listed' = listed /\ remote' = [remote EXCEPT ![t] = "undone"]
    BY DEF Register, Becomes
  <1>3. UNCHANGED <<done, holder, ending>> /\ Moves(k, "idle", NoTransaction)
    BY DEF Register, Returned
  <1>4. /\ \A j \in Callers : j # k => call'[j] = call[j]
        /\ call'[k].at = "idle" /\ call'[k].tx = NoTransaction
    BY <1>3 DEF Moves, PoolShape
  <1>. HIDE DEF t
  <1>5. PoolShape'
    <2>1. call' \in [Callers -> [at : Steps, tx : Transactions \cup {NoTransaction}]]
      BY <1>3 DEF Moves, PoolShape, Steps
    <2>2. remote' \in [Transactions -> {"unused", "committed", "undone"} \cup Live]
      BY <1>2 DEF PoolShape
    <2>. QED BY <1>1, <1>2, <1>3, <2>1, <2>2 DEF PoolShape
  <1>6. HandlesLive'
    <2>1. \A u \in handles : remote'[u] = remote[u]
      BY <1>1, <1>2 DEF PoolShape
    <2>2. t \in handles' => remote'[t] = "open"
      BY <1>1, <1>2
    <2>. QED BY <1>2, <1>3, <2>1, <2>2 DEF HandlesLive, Live
  <1>7. ASSUME NEW j \in Callers, j # k PROVE CallInv(j)'
    <2>1. /\ \A u \in Transactions : OnlyHere(u, t)
          /\ NotDisturbed(j, t)
      BY <1>1, <1>2, <1>3, <1>7 DEF OnlyHere, NotDisturbed, PoolShape
    <2>. QED BY <1>2, <1>4, <1>7, <2>1, OthersKept
  <1>8. CallInv(k)'
    BY <1>4 DEF CallInv, Using, Ending
  <1>. QED BY <1>5, <1>6, <1>7, <1>8

\* Asks: the program asks for the end of a transaction, or for a statement in it.
LEMMA PoolAsks ==
    ASSUME PoolInv, NEW k \in Callers, NEW t \in Transactions,
           NEW what \in {"commit", "rollback", "statement"}, Asks(k, t, what)
    PROVE  PoolInv'
  <1>. USE DEF PoolInv
  <1>1. /\ UNCHANGED <<listed, handles, done, holder, remote, ending>>
        /\ t \in handles /\ Moves(k, what, t)
    BY DEF Asks, dbVars, txState
  <1>2. /\ \A j \in Callers : j # k => call'[j] = call[j]
        /\ call'[k].at = what /\ call'[k].tx = t
    BY <1>1 DEF Moves, PoolShape
  <1>3. PoolShape' /\ HandlesLive'
    BY <1>1 DEF Moves, PoolShape, Live, Steps, HandlesLive
  <1>4. ASSUME NEW j \in Callers, j # k PROVE CallInv(j)'
    <2>1. /\ \A u \in Transactions : OnlyHere(u, t)
          /\ NotDisturbed(j, t)
      BY <1>1 DEF OnlyHere, NotDisturbed, CallInv, Private
    <2>. QED BY <1>1, <1>2, <1>4, <2>1, OthersKept
  <1>5. CallInv(k)'
    BY <1>1, <1>2 DEF CallInv, Using, Ending
  <1>. QED BY <1>3, <1>4, <1>5

\* CloseOne: close finishes what nobody has finished.
LEMMA PoolCloseOne == ASSUME PoolInv, NEW k \in Callers, CloseOne(k) PROVE PoolInv'
  <1>. USE DEF PoolInv
  <1>1. PICK t \in ending :
           /\ ending' = ending \ {t}
           /\ \/ UNCHANGED <<done, holder, call>>
              \/ /\ ~done[t] /\ Locks(k, t)
                 /\ done' = [done EXCEPT ![t] = TRUE]
                 /\ Moves(k, "closingOne", t)
    BY DEF CloseOne
  <1>2. UNCHANGED <<listed, handles, remote>> /\ call[k].at = "closing"
    BY DEF CloseOne, dbVars
  <1>3. t \in handles /\ t \in Transactions
    BY DEF HandlesLive, PoolShape
  <1>4. CASE UNCHANGED <<done, holder, call>>
    BY <1>1, <1>2, <1>4 DEF PoolShape, HandlesLive, CallInv, Private
  <1>5. CASE /\ ~done[t] /\ Locks(k, t)
             /\ done' = [done EXCEPT ![t] = TRUE]
             /\ Moves(k, "closingOne", t)
    <2>1. /\ \A j \in Callers : j # k => call'[j] = call[j]
          /\ call'[k].at = "closingOne" /\ call'[k].tx = t
      BY <1>5 DEF Moves, PoolShape
    <2>2. PoolShape'
      BY <1>2, <1>3, <1>5 DEF Locks, Moves, PoolShape, Steps
    <2>3. HandlesLive'
      BY <1>1, <1>2, <1>5 DEF HandlesLive, PoolShape
    <2>4. ASSUME NEW j \in Callers, j # k PROVE CallInv(j)'
      <3>1. \A u \in Transactions : OnlyHere(u, t)
        BY <1>2, <1>5 DEF OnlyHere, Locks, PoolShape
      <3>2. NotDisturbed(j, t)
        BY <1>3, <1>5, PoolAssumption DEF NotDisturbed, CallInv, Private, Locks, PoolAssumption
      <3>. QED BY <1>2, <2>1, <2>4, <3>1, <3>2, OthersKept
    <2>5. CallInv(k)'
      BY <1>2, <1>3, <1>5, <2>1 DEF CallInv, HandlesLive, PoolShape, Locks, Using, Ending
    <2>. QED BY <2>2, <2>3, <2>4, <2>5
  <1>. QED BY <1>1, <1>4, <1>5

\* The other steps are about no transaction: queries on the pool and what close
\* does before and after the list.
LEMMA PoolElsewhere ==
    ASSUME PoolInv, NEW k \in Callers,
           PgQuery(k) \/ PgClose(k) \/ TakeList(k) \/ ClosePool(k) \/ Drained(k)
    PROVE  PoolInv'
  <1>. USE DEF PoolInv
  <1>1. /\ UNCHANGED <<handles, done, holder, remote>>
        /\ listed' \subseteq listed /\ ending' \subseteq ending \cup listed
    BY DEF PgQuery, PgClose, TakeList, ClosePool, Drained, dbVars, txState
  <1>2. PICK where \in {"acquire", "listing", "closing", "draining", "idle"} :
           Moves(k, where, NoTransaction)
    BY DEF PgQuery, PgClose, TakeList, ClosePool, Drained, Returned
  <1>3. /\ \A j \in Callers : j # k => call'[j] = call[j]
        /\ call'[k].at = where /\ call'[k].tx = NoTransaction
    BY <1>2 DEF Moves, PoolShape
  <1>4. PoolShape' /\ HandlesLive'
    BY <1>1, <1>2 DEF Moves, PoolShape, Live, Steps, HandlesLive
  <1>5. ASSUME NEW j \in Callers, j # k PROVE CallInv(j)'
    <2>1. /\ \A u \in Transactions : OnlyHere(u, NoTransaction)
          /\ NotDisturbed(j, NoTransaction)
      BY <1>1, PoolAssumption DEF OnlyHere, NotDisturbed, CallInv, Private, PoolAssumption
    <2>. QED BY <1>1, <1>3, <1>5, <2>1, OthersKept
  <1>6. CallInv(k)'
    BY <1>3 DEF CallInv, Using, Ending
  <1>. QED BY <1>4, <1>5, <1>6

\* Every call keeps the invariant, wherever the others are.
LEMMA PoolInvNext == ASSUME PoolInv, [PoolNext]_poolVars PROVE PoolInv'
  <1>1. CASE UNCHANGED poolVars
    BY <1>1 DEF poolVars, PoolInv, PoolShape, HandlesLive, CallInv, Private
  <1>2. CASE PoolNext
    <2>1. PICK k \in Callers : NewCall(k) \/ Continue(k) \/ TakeLock(k)
      BY <1>2 DEF PoolNext
    <2>2. CASE NewCall(k)
      BY <2>2, PoolPgBegin, PoolElsewhere, PoolAsks DEF NewCall
    <2>3. CASE Continue(k)
      BY <2>3, PoolBeginTx, PoolRegister, PoolPgCommit, PoolPgRollback, PoolRunStatement,
         PoolAcquire, PoolRelease, PoolElsewhere DEF Continue
    <2>4. CASE TakeLock(k)
      BY <2>4, PoolLockToEnd, PoolLockToRun, PoolCloseOne DEF TakeLock
    <2>. QED BY <2>1, <2>2, <2>3, <2>4
  <1>. QED BY <1>1, <1>2

\* A statement of a transaction runs inside it (StatementInside), for any
\* number of callers, transactions and connections.
THEOREM StatementInsideAlways == PoolSpec => []StatementInside
  <1>1. PoolInv => StatementInside
    BY DEF PoolInv, CallInv, StatementInside, Using, Ending
  <1>. QED BY <1>1, PoolInvInit, PoolInvNext, PTL DEF PoolSpec

-----------------------------------------------------------------------------
(* The sessions of the HTTP server.                                        *)

\* A Session object of a handler.
Objects == [id : Ids \cup {NoId}, values : SUBSET Visits, dirty : BOOLEAN,
            destroyed : BOOLEAN, removed : SUBSET Visits]

\* Types, with the objects of a visit as a sequence.
SessionsShape ==
    /\ SessionsTypes
    /\ objects \in [Visits -> Seq(Objects)]

\* Only the handler that holds the mutex has objects, and the bindings of the
\* module that handlers before it left some in.
OneHandler ==
    \A v \in Visits : /\ place[v] = "handling" => running = v
                      /\ objects[v] # <<>> => place[v] = "handling" \/ v \in kept

\* No identifier is known anywhere before it is made.
NoIdAhead ==
    /\ \A v \in Visits : \A k \in DOMAIN objects[v] : objects[v][k].id <= lastId
    /\ \A i \in DOMAIN store \cup dead : i <= lastId

\* Two objects of one session, wherever they are, are accounted for in doubled,
\* and so is an object that outlived the end of its identifier.
CopiesKnown ==
    /\ \A v, w \in Visits : \A k \in DOMAIN objects[v], l \in DOMAIN objects[w] :
          /\ v # w \/ k # l
          /\ objects[v][k].id = objects[w][l].id /\ objects[v][k].id # NoId
          => objects[v][k].id \in doubled
    /\ \A v \in Visits : \A k \in DOMAIN objects[v] :
          objects[v][k].id \in dead /\ ~objects[v][k].destroyed => objects[v][k].id \in doubled

\* A copy holds what is stored, except what its handler took away.
CopyCurrent ==
    \A v \in Visits : \A k \in DOMAIN objects[v] :
        LET o == objects[v][k]
        IN o.id \in DOMAIN store \ doubled /\ ~o.destroyed
              => store[o.id].values \subseteq o.values \cup o.removed

SessionsInv ==
    SessionsShape /\ OneHandler /\ NoIdAhead /\ CopiesKnown /\ CopyCurrent /\ DeadStaysDead

\* The first visit finds the session of an earlier one, and nothing else.
LEMMA SessionsInvInit == ASSUME SessionsInit PROVE SessionsInv
  <1>1. 1 \in Ids
    BY SessionsAssumption DEF SessionsAssumption, Ids, First
  <1>2. SessionsTypes
    BY <1>1, SessionsAssumption DEF SessionsInit, SessionsTypes, SessionsAssumption, NoId, First
  <1>3. SessionsShape
    BY <1>2 DEF SessionsInit, SessionsShape
  <1>4. OneHandler /\ NoIdAhead /\ CopiesKnown /\ CopyCurrent /\ DeadStaysDead
    BY DEF SessionsInit, OneHandler, NoIdAhead, CopiesKnown, CopyCurrent, DeadStaysDead, First
  <1>. QED BY <1>3, <1>4 DEF SessionsInv

\* What Update leaves of the other objects.
LEMMA UpdateOne ==
    ASSUME SessionsShape, NEW v \in Visits, NEW k \in DOMAIN objects[v], NEW o \in Objects,
           Update(v, k, o)
    PROVE  /\ objects' \in [Visits -> Seq(Objects)]
           /\ DOMAIN objects'[v] = DOMAIN objects[v]
           /\ objects'[v][k] = o
           /\ \A l \in DOMAIN objects[v] : l # k => objects'[v][l] = objects[v][l]
           /\ \A w \in Visits : w # v => objects'[w] = objects[w]
  <1>1. objects' = [objects EXCEPT ![v] = [objects[v] EXCEPT ![k] = o]]
    BY DEF Update, SessionsShape
  <1>2. objects[v] \in Seq(Objects)
    BY DEF SessionsShape
  <1>3. [objects[v] EXCEPT ![k] = o] \in Seq(Objects)
    BY <1>2, ExceptSeq
  <1>. QED BY <1>1, <1>2, <1>3 DEF SessionsShape

\* An object of the sequence is an object.
LEMMA ObjectType ==
    ASSUME SessionsShape, NEW v \in Visits, NEW k \in DOMAIN objects[v]
    PROVE  objects[v][k] \in Objects
  BY DEF SessionsShape

\* Identifiers leave the store, nothing else changes in it.
LEMMA DroppedIs ==
    ASSUME NEW S
    PROVE  /\ DOMAIN Dropped(S) = DOMAIN store \ S
           /\ \A i \in DOMAIN store \ S : Dropped(S)[i] = store[i]
  BY DEF Dropped


\* Stored and given up identifiers are numbers that have been made.
LEMMA IdsMade ==
    ASSUME SessionsShape, NoIdAhead
    PROVE  \A i \in DOMAIN store \cup dead : i \in Nat /\ i <= lastId
  <1>1. DOMAIN store \cup dead \subseteq Ids
    BY DEF SessionsShape, SessionsTypes
  <1>2. \A i \in Ids : i \in Nat
    BY SessionsAssumption DEF SessionsAssumption, Ids, First
  <1>. QED BY <1>1, <1>2 DEF NoIdAhead

\* A handler has every object there is in its reach.
LEMMA AllInReach ==
    ASSUME SessionsInv, NEW v \in Visits, place[v] = "handling",
           NEW w \in Visits, objects[w] # <<>>
    PROVE  w \in Reach(v)
  BY DEF SessionsInv, OneHandler, Reach

\* A request arrives, and waits for the mutex.
LEMMA SessionsVisit ==
    ASSUME SessionsInv, NEW v \in Visits, Visit(v) \/ Begin(v) PROVE SessionsInv'
  <1>. USE DEF SessionsInv, storeVars, Goes
  <1>1. SessionsShape'
    <2>1. UNCHANGED <<objects, kept, store, lastId, cookies, dead, doubled>>
      BY DEF Visit, Begin
    <2>2. /\ place' \in [Visits -> {"new", "waiting", "handling", "answered"}]
          /\ running' \in Visits \cup {NoVisit}
          /\ cookie' \in [Visits -> Ids \cup {NoId}]
      <3>1. CASE Visit(v)
        <4>1. PICK i \in cookies \cup {NoId} : cookie' = [cookie EXCEPT ![v] = i]
          BY <3>1 DEF Visit
        <4>. QED BY <3>1, <4>1 DEF SessionsShape, SessionsTypes, Visit
      <3>2. CASE Begin(v)
        BY <3>2 DEF SessionsShape, SessionsTypes, Begin
      <3>. QED BY <3>1, <3>2
    <2>. QED BY <2>1, <2>2 DEF SessionsShape, SessionsTypes
  <1>2. OneHandler'
    BY SessionsAssumption
       DEF SessionsAssumption, OneHandler, Visit, Begin, Serialized, SessionsShape, SessionsTypes
  <1>3. NoIdAhead' /\ CopiesKnown' /\ CopyCurrent' /\ DeadStaysDead'
    BY DEF NoIdAhead, CopiesKnown, CopyCurrent, DeadStaysDead, Visit, Begin
  <1>. QED BY <1>1, <1>2, <1>3

\* The handler ends; its objects are gone or kept.
LEMMA SessionsEnd ==
    ASSUME SessionsInv, NEW v \in Visits, End(v) PROVE SessionsInv'
  <1>. USE DEF SessionsInv, Goes, End, Drop, storeVars
  <1>0. /\ objects' \in [Visits -> Seq(Objects)]
        /\ \A w \in Visits : w # v => objects'[w] = objects[w]
        /\ objects'[v] \in {<<>>, objects[v]}
        /\ objects'[v] # <<>> => v \in kept'
        /\ kept \subseteq kept' /\ kept' \subseteq Visits
    <2>1. CASE objects' = [objects EXCEPT ![v] = <<>>] /\ UNCHANGED kept
      BY <2>1 DEF SessionsShape, SessionsTypes
    <2>2. CASE kept' = kept \cup {v} /\ UNCHANGED objects
      BY <2>2 DEF SessionsShape, SessionsTypes
    <2>. QED BY <2>1, <2>2
  <1>1. SessionsShape'
    <2>1. \A w \in Visits : \A k \in DOMAIN objects'[w] : objects'[w][k] \in Objects
      BY <1>0
    <2>2. cookie' \in [Visits -> Ids \cup {NoId}]
      BY DEF SessionsShape, SessionsTypes
    <2>. QED BY <1>0, <2>1, <2>2 DEF SessionsShape, SessionsTypes, Objects
  <1>2. OneHandler'
    <2>1. \A w \in Visits : w # v => place'[w] = place[w] /\ place[w] # "handling"
      BY DEF OneHandler, SessionsShape, SessionsTypes
    <2>2. place'[v] # "handling"
      BY DEF SessionsShape, SessionsTypes
    <2>. QED BY <1>0, <2>1, <2>2 DEF OneHandler
  <1>3. NoIdAhead' /\ CopiesKnown' /\ CopyCurrent' /\ DeadStaysDead'
    <2>1. \A w \in Visits : objects'[w] \in {<<>>, objects[w]}
      BY <1>0
    <2>2. \A w \in Visits : \A k \in DOMAIN objects'[w] :
             k \in DOMAIN objects[w] /\ objects'[w][k] = objects[w][k]
      BY <2>1
    <2>. QED BY <2>2 DEF NoIdAhead, CopiesKnown, CopyCurrent, DeadStaysDead
  <1>. QED BY <1>1, <1>2, <1>3

\* A binding that held objects is given another value.
LEMMA SessionsForget ==
    ASSUME SessionsInv, NEW v \in Visits, NEW u \in Visits, Forget(v, u) PROVE SessionsInv'
  <1>. USE DEF SessionsInv, storeVars, Forget, Drop
  <1>0. /\ objects' \in [Visits -> Seq(Objects)]
        /\ \A w \in Visits : w # u => objects'[w] = objects[w]
        /\ objects'[u] = <<>>
    BY DEF SessionsShape
  <1>1. SessionsShape'
    <2>1. \A w \in Visits : \A k \in DOMAIN objects'[w] : objects'[w][k] \in Objects
      BY <1>0
    <2>2. cookie' \in [Visits -> Ids \cup {NoId}]
      BY DEF SessionsShape, SessionsTypes
    <2>. QED BY <1>0, <2>1, <2>2 DEF SessionsShape, SessionsTypes, Objects
  <1>2. OneHandler'
    BY <1>0 DEF OneHandler
  <1>3. NoIdAhead' /\ CopiesKnown' /\ CopyCurrent' /\ DeadStaysDead'
    <2>1. \A w \in Visits : \A k \in DOMAIN objects'[w] :
             k \in DOMAIN objects[w] /\ objects'[w][k] = objects[w][k]
      BY <1>0
    <2>. QED BY <2>1 DEF NoIdAhead, CopiesKnown, CopyCurrent, DeadStaysDead
  <1>. QED BY <1>1, <1>2, <1>3

\* A session expires.
LEMMA SessionsExpire ==
    ASSUME SessionsInv, Expire PROVE SessionsInv'
  <1>. USE DEF SessionsInv, Expire
  <1>0. /\ DOMAIN store' = DOMAIN store
        /\ \A i \in DOMAIN store : /\ store'[i].values = store[i].values
                                   /\ store'[i] \in [values : SUBSET Visits, fresh : BOOLEAN]
    <2>1. PICK i \in DOMAIN store \ Expired : store' = [store EXCEPT ![i].fresh = FALSE]
      OBVIOUS
    <2>. QED BY <2>1 DEF SessionsShape, SessionsTypes
  <1>1. SessionsShape'
    BY <1>0 DEF SessionsShape, SessionsTypes
  <1>2. OneHandler'
    BY DEF OneHandler
  <1>3. NoIdAhead' /\ CopiesKnown' /\ CopyCurrent' /\ DeadStaysDead'
    BY <1>0 DEF NoIdAhead, CopiesKnown, CopyCurrent, DeadStaysDead
  <1>. QED BY <1>1, <1>2, <1>3

\* open: the copy it takes is current, and a second one is accounted for.
LEMMA SessionsOpen ==
    ASSUME SessionsInv, NEW u \in Visits, NEW v \in Visits, Open(u, v) PROVE SessionsInv'
  <1>. USE DEF SessionsInv, Open, Uses
  <1>. DEFINE o == Fetched(cookie[v])
              n == Len(objects[v]) + 1
  <1>a. o \in Objects /\ cookie[v] \in Ids \cup {NoId} /\ cookie[v] \in Nat
    BY DEF SessionsShape, SessionsTypes, Fetched, Objects, Known, Ids, NoId, First
  <1>b. /\ objects[v] \in Seq(Objects)
        /\ objects' = [objects EXCEPT ![v] = Append(objects[v], o)]
    BY DEF SessionsShape
  <1>c. /\ objects' \in [Visits -> Seq(Objects)]
        /\ DOMAIN objects'[v] = DOMAIN objects[v] \cup {n}
        /\ n \notin DOMAIN objects[v]
        /\ objects'[v][n] = o
        /\ \A l \in DOMAIN objects[v] : objects'[v][l] = objects[v][l]
        /\ \A w \in Visits : w # v => objects'[w] = objects[w]
    <2>. HIDE DEF o
    <2>1. /\ Append(objects[v], o) \in Seq(Objects)
          /\ Len(Append(objects[v], o)) = n
          /\ Append(objects[v], o)[n] = o
          /\ \A l \in 1..Len(objects[v]) : Append(objects[v], o)[l] = objects[v][l]
      BY <1>a, <1>b, AppendProperties
    <2>. QED BY <1>a, <1>b, <2>1 DEF SessionsShape
  <1>d. /\ DOMAIN store' = DOMAIN store \ Expired
        /\ \A i \in DOMAIN store' : store'[i] = store[i]
    BY DroppedIs
  <1>e. o.id # NoId => /\ o.id = cookie[v] /\ o.id \in DOMAIN store /\ o.values = store[o.id].values
                       /\ Copied(u, o.id) => o.id \in doubled'
    BY <1>a DEF Fetched, Known
  <1>f. ~o.destroyed /\ doubled \subseteq doubled'
    BY DEF Fetched
  <1>1. SessionsShape'
    <2>1. \A w \in Visits : \A k \in DOMAIN objects'[w] : objects'[w][k] \in Objects
      BY <1>c
    <2>2. doubled' \subseteq Ids
      BY <1>d, <1>a DEF SessionsShape, SessionsTypes, Known
    <2>3. /\ \A i \in DOMAIN store' : store'[i] \in [values : SUBSET Visits, fresh : BOOLEAN]
          /\ DOMAIN store' \subseteq Ids
      BY <1>d DEF SessionsShape, SessionsTypes
    <2>. QED BY <1>c, <2>1, <2>2, <2>3 DEF SessionsShape, SessionsTypes, Objects
  <1>2. OneHandler'
    BY <1>c DEF OneHandler, Reach
  <1>. HIDE DEF o, n
  <1>3. NoIdAhead'
    <2>1. o.id <= lastId
      BY <1>e, SessionsAssumption
         DEF NoIdAhead, SessionsShape, SessionsTypes, Ids, NoId, First, SessionsAssumption
    <2>. QED BY <1>c, <1>d, <2>1 DEF NoIdAhead
  <1>4. CopiesKnown'
    <2>1. o.id \in dead => o.id \in doubled'
      BY <1>d, <1>e, <1>f DEF DeadStaysDead, SessionsShape, SessionsTypes, Ids, NoId, First
    <2>2. ASSUME NEW w \in Visits, NEW l \in DOMAIN objects[w], o.id = objects[w][l].id, o.id # NoId
          PROVE  o.id \in doubled'
      <3>1. w \in Reach(u)
        BY <2>2, AllInReach
      <3>. QED BY <1>e, <2>2, <3>1 DEF Copied
    <2>3. \A w \in Visits : \A l \in DOMAIN objects'[w] :
             \/ w = v /\ l = n /\ objects'[w][l] = o
             \/ l \in DOMAIN objects[w] /\ objects'[w][l] = objects[w][l]
      BY <1>c
    <2>. QED BY <1>f, <2>1, <2>2, <2>3 DEF CopiesKnown
  <1>5. CopyCurrent'
    <2>1. NoId \notin DOMAIN store
      BY DEF SessionsShape, SessionsTypes, Ids, NoId, First
    <2>2. o.id \in DOMAIN store' => store'[o.id].values \subseteq o.values \cup o.removed
      BY <1>d, <1>e, <2>1
    <2>3. ASSUME NEW l \in DOMAIN objects[v], objects[v][l].id \in DOMAIN store' \ doubled',
                 ~objects[v][l].destroyed
          PROVE  store'[objects[v][l].id].values \subseteq objects[v][l].values \cup objects[v][l].removed
      BY <1>d, <1>f, <2>3 DEF CopyCurrent
    <2>4. ASSUME NEW w \in Visits, w # v, NEW l \in DOMAIN objects[w],
                 objects[w][l].id \in DOMAIN store' \ doubled', ~objects[w][l].destroyed
          PROVE  store'[objects[w][l].id].values \subseteq objects[w][l].values \cup objects[w][l].removed
      BY <1>d, <1>f, <2>4 DEF CopyCurrent
    <2>. QED BY <1>c, <2>2, <2>3, <2>4 DEF CopyCurrent
  <1>6. DeadStaysDead'
    BY <1>d, <1>f DEF DeadStaysDead
  <1>. QED BY <1>1, <1>2, <1>3, <1>4, <1>5, <1>6

\* A handler changes an object it can reach, and the session it is a copy of
\* stays as it is: set, remove and clear.
LEMMA SessionsChange ==
    ASSUME SessionsInv, NEW v \in Visits, NEW w \in Visits, NEW k \in DOMAIN objects[w],
           Set(v, w, k) \/ TakeAway(v, w, k)
    PROVE  SessionsInv'
  <1>. USE DEF SessionsInv, storeVars
  <1>a. objects[w][k] \in Objects
    BY ObjectType
  <1>b. PICK o \in Objects :
           /\ Update(w, k, o)
           /\ o.id = objects[w][k].id /\ o.destroyed = objects[w][k].destroyed
           /\ objects[w][k].values \cup objects[w][k].removed \subseteq o.values \cup o.removed
    <2>1. CASE Set(v, w, k)
      <3>. DEFINE o == [objects[w][k] EXCEPT !.values = @ \cup {v}, !.dirty = TRUE]
      <3>1. o \in Objects /\ o.id = objects[w][k].id /\ o.destroyed = objects[w][k].destroyed
        BY <1>a DEF Objects
      <3>2. objects[w][k].values \cup objects[w][k].removed \subseteq o.values \cup o.removed
        BY <1>a DEF Objects
      <3>. QED BY <2>1, <3>1, <3>2 DEF Set
    <2>2. CASE TakeAway(v, w, k)
      <3>1. PICK gone : /\ gone \subseteq objects[w][k].values
                        /\ Update(w, k, [objects[w][k] EXCEPT !.values = @ \ gone,
                                            !.dirty = TRUE, !.removed = @ \cup gone])
        BY <2>2 DEF TakeAway
      <3>. DEFINE o == [objects[w][k] EXCEPT !.values = @ \ gone, !.dirty = TRUE,
                                             !.removed = @ \cup gone]
      <3>2. o \in Objects /\ o.id = objects[w][k].id /\ o.destroyed = objects[w][k].destroyed
        BY <1>a, <3>1 DEF Objects
      <3>3. objects[w][k].values \cup objects[w][k].removed \subseteq o.values \cup o.removed
        BY <1>a DEF Objects
      <3>. QED BY <3>1, <3>2, <3>3
    <2>. QED BY <2>1, <2>2
  <1>c. /\ objects' \in [Visits -> Seq(Objects)]
        /\ DOMAIN objects'[w] = DOMAIN objects[w]
        /\ objects'[w][k] = o
        /\ \A l \in DOMAIN objects[w] : l # k => objects'[w][l] = objects[w][l]
        /\ \A x \in Visits : x # w => objects'[x] = objects[x]
    BY <1>b, UpdateOne
  <1>d. UNCHANGED <<place, running, cookie, kept, store, lastId, cookies, dead, doubled>>
    BY DEF Set, TakeAway
  <1>e. place[v] = "handling"
    BY DEF Set, TakeAway, Mutable, Uses
  <1>z. \A x \in Visits : \A l \in DOMAIN objects'[x] :
           /\ l \in DOMAIN objects[x]
           /\ x # w \/ l # k => objects'[x][l] = objects[x][l]
    BY <1>c
  <1>1. SessionsShape'
    <2>1. \A x \in Visits : \A l \in DOMAIN objects'[x] : objects'[x][l] \in Objects
      BY <1>c
    <2>. QED BY <1>c, <1>d, <2>1 DEF SessionsShape, SessionsTypes, Objects
  <1>2. OneHandler'
    BY <1>c, <1>d, <1>e DEF OneHandler
  <1>3. NoIdAhead'
    BY <1>b, <1>c, <1>d DEF NoIdAhead
  <1>4. CopiesKnown'
    <2>1. \A x \in Visits : \A l \in DOMAIN objects'[x] :
             /\ l \in DOMAIN objects[x]
             /\ objects'[x][l].id = objects[x][l].id
             /\ objects'[x][l].destroyed = objects[x][l].destroyed
      BY <1>b, <1>c, <1>z
    <2>. QED BY <1>d, <2>1 DEF CopiesKnown
  <1>5. CopyCurrent'
    BY <1>b, <1>c, <1>d, <1>z DEF CopyCurrent
  <1>6. DeadStaysDead'
    BY <1>d DEF DeadStaysDead
  <1>. QED BY <1>1, <1>2, <1>3, <1>4, <1>5, <1>6

\* rotate and destroy give an identifier up: no other object can bring it back
\* without being accounted for, and a new identifier is nobody's yet.
LEMMA SessionsGiveUp ==
    ASSUME SessionsInv, NEW v \in Visits, NEW w \in Visits, NEW k \in DOMAIN objects[w],
           Rotate(v, w, k) \/ Destroy(v, w, k)
    PROVE  SessionsInv'
  <1>. USE DEF SessionsInv
  <1>. DEFINE old == objects[w][k].id
  <1>a. objects[w][k] \in Objects /\ lastId \in Nat /\ old \in Nat /\ NoId \notin DOMAIN store
    BY ObjectType DEF Objects, Ids, SessionsShape, SessionsTypes, First, NoId
  <1>b. PICK o \in Objects :
           /\ Update(w, k, o)
           /\ \/ o.destroyed /\ o.id = old /\ lastId' = lastId
              \/ o.id = lastId + 1 /\ lastId' = lastId + 1 /\ lastId' \in Ids
    <2>1. CASE Rotate(v, w, k)
      <3>1. lastId + 1 \in Ids
        BY <1>a, <2>1, SessionsAssumption
           DEF Rotate, Ids, First, SessionsAssumption, SessionsShape, SessionsTypes
      <3>. DEFINE o == [objects[w][k] EXCEPT !.id = lastId + 1, !.dirty = TRUE]
      <3>2. o \in Objects /\ o.id = lastId + 1
        BY <1>a, <3>1 DEF Objects
      <3>. QED BY <2>1, <3>1, <3>2 DEF Rotate
    <2>2. CASE Destroy(v, w, k)
      <3>. DEFINE o == [objects[w][k] EXCEPT !.destroyed = TRUE, !.dirty = FALSE, !.values = {}]
      <3>1. o \in Objects /\ o.id = old /\ o.destroyed
        BY <1>a DEF Objects
      <3>. QED BY <2>2, <3>1 DEF Destroy
    <2>. QED BY <2>1, <2>2
  <1>c. /\ objects' \in [Visits -> Seq(Objects)]
        /\ DOMAIN objects'[w] = DOMAIN objects[w]
        /\ objects'[w][k] = o
        /\ \A l \in DOMAIN objects[w] : l # k => objects'[w][l] = objects[w][l]
        /\ \A x \in Visits : x # w => objects'[x] = objects[x]
    BY <1>b, UpdateOne
  <1>d. /\ UNCHANGED <<place, running, cookie, kept, cookies, doubled>>
        /\ dead' = dead \cup ({old} \ {NoId})
        /\ store' = Dropped({old})
        /\ place[v] = "handling" /\ ~objects[w][k].destroyed
    BY DEF Rotate, Destroy, Mutable, Uses
  <1>e. /\ DOMAIN store' = DOMAIN store \ {old}
        /\ \A i \in DOMAIN store' : store'[i] = store[i]
    BY <1>d, DroppedIs
  <1>z. \A x \in Visits : \A l \in DOMAIN objects'[x] :
           /\ l \in DOMAIN objects[x]
           /\ x # w \/ l # k => objects'[x][l] = objects[x][l]
    BY <1>c
  <1>f. \A x \in Visits : \A l \in DOMAIN objects[x] :
           objects[x][l].id \in Nat /\ objects[x][l].id <= lastId
    BY ObjectType DEF Objects, Ids, NoIdAhead, NoId, First
  <1>. HIDE DEF old
  <1>1. SessionsShape'
    <2>1. \A x \in Visits : \A l \in DOMAIN objects'[x] : objects'[x][l] \in Objects
      BY <1>c
    <2>2. dead' \subseteq Ids /\ lastId' \in Ids
      BY <1>a, <1>b, <1>d DEF SessionsShape, SessionsTypes, Objects, old
    <2>3. /\ \A i \in DOMAIN store' : store'[i] \in [values : SUBSET Visits, fresh : BOOLEAN]
          /\ DOMAIN store' \subseteq Ids
      BY <1>e DEF SessionsShape, SessionsTypes
    <2>. QED BY <1>c, <1>d, <2>1, <2>2, <2>3 DEF SessionsShape, SessionsTypes, Objects
  <1>2. OneHandler'
    BY <1>c, <1>d DEF OneHandler
  <1>3. NoIdAhead'
    <2>1. old <= lastId /\ lastId' \in {lastId, lastId + 1}
      BY <1>b, <1>f DEF old
    <2>2. objects'[w][k].id <= lastId'
      BY <1>a, <1>b, <1>c, <2>1
    <2>3. ASSUME NEW x \in Visits, NEW l \in DOMAIN objects'[x] PROVE objects'[x][l].id <= lastId'
      <3>1. CASE x = w /\ l = k
        BY <2>2, <3>1
      <3>2. CASE x # w \/ l # k
        BY <1>a, <1>f, <1>z, <2>1, <3>2
      <3>. QED BY <3>1, <3>2
    <2>4. \A i \in DOMAIN store' \cup dead' : i <= lastId'
      <3>1. \A i \in DOMAIN store \cup dead : i \in Nat /\ i <= lastId
        BY IdsMade
      <3>. QED BY <1>a, <1>d, <1>e, <2>1, <3>1
    <2>. QED BY <2>3, <2>4 DEF NoIdAhead
  <1>4. CopiesKnown'
    <2>1. \A x \in Visits : \A l \in DOMAIN objects[x] : objects[x][l].id # lastId + 1
      BY <1>a, <1>f
    <2>2. \A i \in dead : i \in Nat /\ i <= lastId
      BY IdsMade
    <2>3. ASSUME NEW x \in Visits, NEW l \in DOMAIN objects[x], x # w \/ l # k,
                 objects[x][l].id = old, old # NoId
          PROVE  old \in doubled
      BY <2>3 DEF CopiesKnown, old
    <2>4. lastId + 1 \notin dead'
      BY <1>a, <1>d, <2>1, <2>2 DEF old
    <2>5. objects'[w][k].id = old \/ objects'[w][k].id = lastId + 1
      BY <1>b, <1>c
    <2>6. ASSUME NEW x \in Visits, NEW l \in DOMAIN objects'[x], x # w \/ l # k,
                 objects'[x][l].id = objects'[w][k].id, objects'[x][l].id # NoId
          PROVE  objects'[x][l].id \in doubled'
      BY <1>d, <1>z, <2>1, <2>3, <2>5, <2>6
    <2>7. ASSUME NEW x \in Visits, NEW l \in DOMAIN objects'[x], objects'[x][l].id \in dead',
                 ~objects'[x][l].destroyed
          PROVE  objects'[x][l].id \in doubled'
      <3>1. CASE x = w /\ l = k
        BY <1>b, <1>c, <2>4, <2>7, <3>1
      <3>2. CASE x # w \/ l # k
        BY <1>d, <1>z, <2>3, <2>7, <3>2 DEF CopiesKnown
      <3>. QED BY <3>1, <3>2
    <2>8. ASSUME NEW x \in Visits, NEW y \in Visits,
                 NEW l \in DOMAIN objects'[x], NEW m \in DOMAIN objects'[y],
                 x # y \/ l # m,
                 objects'[x][l].id = objects'[y][m].id, objects'[x][l].id # NoId
          PROVE  objects'[x][l].id \in doubled'
      <3>1. CASE x = w /\ l = k
        BY <2>6, <2>8, <3>1
      <3>2. CASE y = w /\ m = k
        BY <2>6, <2>8, <3>2
      <3>3. CASE ~(x = w /\ l = k) /\ ~(y = w /\ m = k)
        BY <1>d, <1>z, <2>8, <3>3 DEF CopiesKnown
      <3>. QED BY <3>1, <3>2, <3>3
    <2>. QED BY <2>7, <2>8 DEF CopiesKnown
  <1>5. CopyCurrent'
    <2>1. lastId + 1 \notin DOMAIN store'
      BY <1>a, <1>e DEF NoIdAhead, SessionsShape, SessionsTypes, Ids
    <2>2. objects'[w][k].id \notin DOMAIN store'
      BY <1>b, <1>c, <1>e, <2>1
    <2>3. ASSUME NEW x \in Visits, NEW l \in DOMAIN objects'[x],
                 objects'[x][l].id \in DOMAIN store' \ doubled', ~objects'[x][l].destroyed
          PROVE  store'[objects'[x][l].id].values
                    \subseteq objects'[x][l].values \cup objects'[x][l].removed
      <3>1. (x # w \/ l # k) /\ objects'[x][l] = objects[x][l]
        BY <1>z, <2>2, <2>3
      <3>. QED BY <1>d, <1>e, <1>z, <2>3, <3>1 DEF CopyCurrent
    <2>. QED BY <2>3 DEF CopyCurrent
  <1>6. DeadStaysDead'
    BY <1>d, <1>e DEF DeadStaysDead
  <1>. QED BY <1>1, <1>2, <1>3, <1>4, <1>5, <1>6

\* commit stores the copy whole: nothing that another handler committed is
\* lost, and what was given up stays out.
LEMMA SessionsCommit ==
    ASSUME SessionsInv, NEW v \in Visits, NEW w \in Visits, NEW k \in DOMAIN objects[w], Commit(v, w, k)
    PROVE  SessionsInv'
  <1>. USE DEF SessionsInv
  <1>. DEFINE o == objects[w][k]
              fresh == o.id = NoId
              id == IF fresh THEN lastId + 1 ELSE o.id
  <1>a. /\ o \in Objects /\ lastId \in Ids /\ lastId \in Nat
        /\ o.id \in Ids \cup {NoId}
        /\ \A i \in Ids : i \in Nat /\ i # NoId
        /\ NoId \notin DOMAIN store
    BY ObjectType DEF Objects, Ids, SessionsShape, SessionsTypes, First, NoId
  <1>b. UNCHANGED <<place, running, cookie, kept, objects, dead, doubled>>
        /\ place[v] = "handling"
    BY DEF Commit, Uses
  <1>d. \A i \in DOMAIN store \cup dead : i \in Nat /\ i <= lastId
    BY IdsMade
  <1>e. \A x \in Visits : \A l \in DOMAIN objects[x] :
           objects[x][l].id \in Nat /\ objects[x][l].id <= lastId
    BY ObjectType DEF Objects, Ids, NoIdAhead, NoId, First
  <1>2. OneHandler'
    BY <1>b DEF OneHandler
  <1>4. CopiesKnown'
    BY <1>b DEF CopiesKnown
  <1>7. ASSUME o.destroyed, store' = Dropped(Expired \cup {o.id}), UNCHANGED <<lastId, cookies>>
        PROVE  SessionsInv'
    <2>1. /\ DOMAIN store' \subseteq DOMAIN store
          /\ \A i \in DOMAIN store' : store'[i] = store[i]
      BY <1>7, DroppedIs
    <2>2. SessionsShape'
      BY <1>7, <1>b, <2>1 DEF SessionsShape, SessionsTypes
    <2>3. NoIdAhead'
      BY <1>7, <1>b, <2>1 DEF NoIdAhead
    <2>4. CopyCurrent'
      BY <1>b, <2>1 DEF CopyCurrent
    <2>5. DeadStaysDead'
      BY <1>b, <2>1 DEF DeadStaysDead
    <2>. QED BY <1>2, <1>4, <2>2, <2>3, <2>4, <2>5
  <1>8. ASSUME ~o.destroyed, fresh => lastId < MaxIds,
               store' = Stored(id, WholeValues(w, k)),
               lastId' = IF fresh THEN lastId + 1 ELSE lastId,
               cookies' = cookies \cup {id}
        PROVE  SessionsInv'
    <2>1. /\ DOMAIN store' = (DOMAIN store \ Expired) \cup {id}
          /\ store'[id] = [values |-> o.values, fresh |-> TRUE]
          /\ \A i \in DOMAIN store \ Expired : i # id => store'[i] = store[i]
      <3>. HIDE DEF id, fresh
      <3>. QED BY <1>8 DEF Stored, WholeValues
    <2>2. id \in Ids /\ lastId' \in Ids /\ lastId' \in Nat /\ lastId <= lastId' /\ id <= lastId'
      BY <1>8, <1>a, <1>e, SessionsAssumption DEF SessionsAssumption, Ids, First
    <2>3. \/ id = o.id
          \/ \A x \in Visits : \A l \in DOMAIN objects[x] : objects[x][l].id # id
      BY <1>a, <1>e
    <2>4. id \in dead => id = o.id
      BY <1>a, <1>d
    <2>. HIDE DEF id, fresh
    <2>5. SessionsShape'
      <3>1. /\ DOMAIN store' \subseteq Ids
            /\ \A i \in DOMAIN store' : store'[i] \in [values : SUBSET Visits, fresh : BOOLEAN]
        <4>1. store'[id] \in [values : SUBSET Visits, fresh : BOOLEAN]
          BY <1>a, <2>1 DEF Objects
        <4>2. \A i \in DOMAIN store : i \in Ids /\ store[i] \in [values : SUBSET Visits, fresh : BOOLEAN]
          BY DEF SessionsShape, SessionsTypes
        <4>. QED BY <2>1, <2>2, <4>1, <4>2
      <3>2. cookies' \subseteq Ids
        BY <1>8, <2>2 DEF SessionsShape, SessionsTypes
      <3>. QED BY <1>b, <2>2, <3>1, <3>2 DEF SessionsShape, SessionsTypes
    <2>6. NoIdAhead'
      <3>1. \A x \in Visits : \A l \in DOMAIN objects[x] : objects[x][l].id <= lastId'
        BY <1>a, <1>e, <2>2
      <3>2. \A i \in DOMAIN store' \cup dead : i <= lastId'
        BY <1>a, <1>d, <2>1, <2>2
      <3>. QED BY <1>b, <3>1, <3>2 DEF NoIdAhead
    <2>7. CopyCurrent'
      <3>1. ASSUME NEW x \in Visits, NEW l \in DOMAIN objects[x], objects[x][l].id \in DOMAIN store' \ doubled,
                   ~objects[x][l].destroyed
            PROVE  store'[objects[x][l].id].values
                      \subseteq objects[x][l].values \cup objects[x][l].removed
        <4>1. CASE x = w /\ l = k
          <5>1. o.id # NoId /\ o.id \in Ids
            BY <1>a, <2>1, <2>2, <3>1, <4>1
          <5>2. id = o.id
            BY <5>1 DEF id, fresh
          <5>. QED BY <2>1, <4>1, <5>2
        <4>2. CASE x # w \/ l # k
          <5>1. objects[x][l].id # id
            <6>1. ASSUME objects[x][l].id = id PROVE FALSE
              <7>1. id = o.id /\ id # NoId
                BY <1>a, <2>2, <2>3, <6>1
              <7>2. id \in doubled
                BY <4>2, <6>1, <7>1 DEF CopiesKnown
              <7>. QED BY <3>1, <6>1, <7>2
            <6>. QED BY <6>1
          <5>2. objects[x][l].id \in DOMAIN store /\ store'[objects[x][l].id] = store[objects[x][l].id]
            BY <2>1, <3>1, <5>1
          <5>. QED BY <3>1, <5>2 DEF CopyCurrent
        <4>. QED BY <4>1, <4>2
      <3>. QED BY <1>b, <3>1 DEF CopyCurrent
    <2>8. DeadStaysDead'
      <3>1. id \in dead => id \in doubled
        BY <1>8, <2>4 DEF CopiesKnown
      <3>. QED BY <1>b, <2>1, <3>1 DEF DeadStaysDead
    <2>. QED BY <1>2, <1>4, <2>5, <2>6, <2>7, <2>8
  <1>. QED BY <1>7, <1>8 DEF Commit

\* All handlers, browsers and the clock keep the invariant.
LEMMA SessionsInvNext == ASSUME SessionsInv, [SessionsNext]_sessionVars PROVE SessionsInv'
  <1>1. CASE UNCHANGED sessionVars
    BY <1>1 DEF sessionVars, SessionsInv, SessionsShape, SessionsTypes, OneHandler, NoIdAhead,
                CopiesKnown, CopyCurrent, DeadStaysDead
  <1>2. CASE SessionsNext
    BY <1>2, SessionsVisit, SessionsEnd, SessionsForget, SessionsExpire, SessionsOpen,
       SessionsChange, SessionsGiveUp, SessionsCommit DEF SessionsNext
  <1>. QED BY <1>1, <1>2

\* An identifier that rotate or destroy gave up names no stored session again
\* (DeadStaysDead), for any number of requests, objects and identifiers.
THEOREM DeadStaysDeadAlways == SessionsSpec => []DeadStaysDead
  <1>1. SessionsInv => DeadStaysDead
    BY DEF SessionsInv
  <1>. QED BY <1>1, SessionsInvInit, SessionsInvNext, PTL DEF SessionsSpec

\* The one step that changes a stored session loses nothing of it.
LEMMA UpdateKeptStep ==
    ASSUME SessionsInv, SessionsNext,
           NEW i \in (DOMAIN store \cap DOMAIN store') \ doubled,
           NEW m \in store[i].values \ store'[i].values
    PROVE  \E v \in Visits : \E k \in DOMAIN objects[v] :
              objects[v][k].id = i /\ m \in objects[v][k].removed
  <1>. USE DEF SessionsInv
  <1>1. store' # store
    OBVIOUS
  <1>2. ~Expire
    <2>1. ASSUME Expire PROVE FALSE
      <3>1. PICK j \in DOMAIN store \ Expired : store' = [store EXCEPT ![j].fresh = FALSE]
        BY <2>1 DEF Expire
      <3>2. store'[i].values = store[i].values
        BY <3>1 DEF SessionsShape, SessionsTypes
      <3>. QED BY <3>2
    <2>. QED BY <2>1
  <1>3. \A S : store' # Dropped(S)
    <2>1. ASSUME NEW S, store' = Dropped(S) PROVE FALSE
      BY <2>1, DroppedIs
    <2>. QED BY <2>1
  <1>4. PICK v \in Visits : \E w \in Visits : \E k \in DOMAIN objects[w] : Commit(v, w, k)
    <2>1. ASSUME NEW v \in Visits PROVE ~(Visit(v) \/ Begin(v) \/ End(v))
      BY <1>1 DEF Visit, Begin, End, storeVars
    <2>2. ASSUME NEW v \in Visits, NEW w \in Visits PROVE ~(Forget(v, w) \/ Open(v, w))
      BY <1>1, <1>3 DEF Forget, Open, storeVars
    <2>3. ASSUME NEW v \in Visits, NEW w \in Visits, NEW k \in DOMAIN objects[w]
          PROVE  ~(Set(v, w, k) \/ TakeAway(v, w, k) \/ Rotate(v, w, k) \/ Destroy(v, w, k))
      BY <1>1, <1>3 DEF Set, TakeAway, Rotate, Destroy, storeVars
    <2>. QED BY <1>2, <2>1, <2>2, <2>3 DEF SessionsNext
  <1>5. PICK w \in Visits : \E k \in DOMAIN objects[w] : Commit(v, w, k)
    BY <1>4
  <1>6. PICK k \in DOMAIN objects[w] : Commit(v, w, k)
    BY <1>5
  <1>. DEFINE o == objects[w][k]
              id == IF o.id = NoId THEN lastId + 1 ELSE o.id
  <1>7. /\ ~o.destroyed
        /\ store' = Stored(id, WholeValues(w, k))
    BY <1>3, <1>6 DEF Commit
  <1>8. i = id /\ store'[i].values = o.values
    <2>. HIDE DEF id
    <2>. QED BY <1>7 DEF Stored, WholeValues
  <1>9. i <= lastId /\ lastId \in Nat
    BY DEF NoIdAhead, SessionsShape, SessionsTypes, Ids, First
  <1>10. o.id = i
    BY <1>8, <1>9
  <1>11. store[i].values \subseteq o.values \cup o.removed
    BY <1>7, <1>10 DEF CopyCurrent
  <1>. QED BY <1>8, <1>10, <1>11

\* No visit's update is lost (UpdateKept): every committed value stays until a
\* handler takes it away, for any number of requests, objects and identifiers.
THEOREM UpdateKeptAlways == SessionsSpec => UpdateKept
  <1>1. ASSUME SessionsInv, [SessionsNext]_sessionVars
        PROVE  [\A i \in (DOMAIN store \cap DOMAIN store') \ doubled :
                  \A m \in store[i].values \ store'[i].values :
                     \E v \in Visits : \E k \in DOMAIN objects[v] :
                        objects[v][k].id = i /\ m \in objects[v][k].removed]_sessionVars
    BY <1>1, UpdateKeptStep
  <1>. QED BY <1>1, SessionsInvInit, SessionsInvNext, PTL DEF SessionsSpec, UpdateKept
=============================================================================
