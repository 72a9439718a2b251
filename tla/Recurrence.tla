---- MODULE Recurrence ----
(***************************************************************************)
(* When a reminder is due: the reminder that schedule_task accepts          *)
(* (scheduledTaskBuilder.js), the rule of its series and its next           *)
(* occurrence (recurrence.js), on the Europe/Rome clock (time.js).          *)
(*                                                                         *)
(* Time is a number of hours; a date is the number of its day.  The lengths *)
(* of the day, the week and the months are constants, every year is the    *)
(* same, and the clock is put forward at the hour Spring of the year and   *)
(* back at the hour Autumn.  Instants and the wall clock agree in winter;  *)
(* the text of a rule is the record it parses to.                          *)
(***************************************************************************)
EXTENDS Integers, Sequences, FiniteSets, FiniteSetsExt

CONSTANTS
    DayHours, WeekDays,     \* hours in a day, days in a week
    MonthLengths,           \* the days of each month of the year
    Spring, Autumn,         \* the hours of the year at which the clock changes
    MaxTaskDays,            \* MAX_TASK_DAYS, a year
    MaxSteps,               \* RECURRENCE_MAX_INTERVAL, the steps of a search
    MaxTries,               \* the wall clock times tried for one occurrence, 370
    Rules,                  \* the rules that may be asked for
    Starts,                 \* the wall clock times that may be asked for
    Downtimes,              \* how late the scheduler may be
    NoTime                  \* null

Months == Len(MonthLengths)
daysBefore[k \in 0..Months] == IF k = 0 THEN 0 ELSE daysBefore[k - 1] + MonthLengths[k]
YearDays == daysBefore[Months]
YearHours == YearDays * DayHours

ASSUME RecurrenceConstants ==
    /\ {DayHours, WeekDays, Spring, Autumn, MaxTaskDays, MaxSteps, MaxTries} \subseteq Nat \ {0}
    /\ MonthLengths \in Seq(Nat \ {0}) /\ Months > 0
    /\ Spring + 1 < Autumn /\ Autumn < YearHours
    /\ Starts \subseteq Nat /\ Downtimes \subseteq Nat
    /\ NoTime \notin Int /\ \A r \in Rules : r.until \in Nat \cup {NoTime}

(* The searches reach as far as a reminder may: 365 days are less than 370  *)
(* tries, and their hours than 10000 steps.                                *)
ASSUME SearchesSuffice == MaxTaskDays < MaxTries /\ MaxTaskDays * DayHours < MaxSteps

(***************************************************************************)
(* The calendar.                                                           *)
(***************************************************************************)
DayOf(w) == w \div DayHours
HourOf(w) == w % DayHours
Weekday(d) == d % WeekDays                           \* Monday is 0
WeekOf(d) == d \div WeekDays

(* Months are counted from the first; monthStart is the first day of one.  *)
monthStart[m \in Nat] == (m \div Months) * YearDays + daysBefore[m % Months]
DaysIn(m) == MonthLengths[(m % Months) + 1]
MonthOf(d) ==
    LET y == d \div YearDays
    IN  CHOOSE m \in y * Months .. (y + 1) * Months - 1 : monthStart[m] <= d /\ d < monthStart[m] + DaysIn(m)
DayInMonth(d) == d - monthStart[MonthOf(d)] + 1

(***************************************************************************)
(* The clock of Rome.                                                      *)
(***************************************************************************)
Summer(t) == t % YearHours >= Spring /\ t % YearHours < Autumn

(* getRomeParts of an instant                                              *)
WallOf(t) == IF Summer(t) THEN t + 1 ELSE t

(* convertRomeLocalToISO: winter time is tried first, so an hour that      *)
(* occurs twice is the second; one that does not occur is refused.         *)
Convert(w) == IF WallOf(w) = w THEN w ELSE IF WallOf(w - 1) = w THEN w - 1 ELSE NoTime

(* checkDSTAmbiguousHour computes the hour that is left out by itself.     *)
InGap(w) == w % YearHours = Spring

(***************************************************************************)
(* The next occurrence (recurrence.js).  A rule has a frequency, an        *)
(* interval, days of the week, excluded dates, an end and the day of the   *)
(* month it started on.                                                    *)
(***************************************************************************)
Skipped(t, exdate) == DayOf(WallOf(t)) \in exdate

BydayOffsetFromToday(weekday, interval, byday) ==
    LET later == {d \in byday : d >= weekday}
    IN  IF later # {} THEN Min(later) - weekday ELSE WeekDays * interval - weekday + Min(byday)

(* _bydayOffset                                                            *)
BydayOffset(weekday, interval, byday) ==
    LET later == {d \in byday : d > weekday}
    IN  IF later # {} THEN Min(later) - weekday ELSE WeekDays * interval - weekday + Min(byday)

(* _nextCalendarFields, on the wall clock                                  *)
NextFields(w, rec) ==
    LET d == DayOf(w)
        m == MonthOf(d) + rec.interval
        day == CASE rec.freq = "MONTHLY" -> monthStart[m] + Min({rec.anchorDay, DaysIn(m)}) - 1
                 [] rec.freq = "WEEKLY" /\ rec.byday # {} -> d + BydayOffset(Weekday(d), rec.interval, rec.byday)
                 [] rec.freq = "WEEKLY" /\ rec.byday = {} -> d + rec.interval * WeekDays
                 [] rec.freq = "DAILY" -> d + rec.interval
    IN  day * DayHours + HourOf(w)

(* computeNextOccurrence: an hour is an hour, anything else keeps the wall *)
(* clock and goes past a time that does not exist on its day.  Here and    *)
(* in the searches below, n is how many more candidates will be looked at. *)
NextOccurrence(t, rec) ==
    LET try[n \in 0..MaxTries] == [w \in Nat |->
          LET next == NextFields(w, rec)
          IN  IF n = 0 THEN NoTime
              ELSE IF Convert(next) # NoTime THEN Convert(next) ELSE try[n - 1][next]]
    IN  IF rec.freq = "HOURLY" THEN t + rec.interval ELSE try[MaxTries][WallOf(t)]

(* advanceOccurrence                                                       *)
Advance(t, rec) ==
    LET from[n \in 0..MaxSteps] == [u \in Nat |->
          LET next == NextOccurrence(u, rec)
          IN  IF n = 0 \/ next = NoTime \/ next > rec.until THEN NoTime
              ELSE IF Skipped(next, rec.exdate) THEN from[n - 1][next] ELSE next]
    IN  from[MaxSteps][t]

(* advanceOccurrenceBeyond                                                 *)
AdvanceBeyond(t, rec, boundary) ==
    LET from[n \in 0..MaxSteps] == [u \in Nat |->
          LET next == Advance(u, rec)
          IN  IF n = 0 \/ next = NoTime THEN NoTime
              ELSE IF next > boundary THEN next ELSE from[n - 1][next]]
    IN  from[MaxSteps][t]

(***************************************************************************)
(* The series of one reminder.                                             *)
(***************************************************************************)
VARIABLES
    now,        \* the instant
    task,       \* the reminder in its file
    asked,      \* the wall clock time it was asked for
    since       \* when its next occurrence was worked out

recVars == <<now, task, asked, since>>

Frequencies == {"HOURLY", "DAILY", "WEEKLY", "MONTHLY"}
NoTask == [at |-> NoTime]

RecTypeOK ==
    /\ now \in Nat /\ asked \in Nat /\ since \in Nat
    /\ task = NoTask \/ (task.at \in Nat \cup {NoTime} /\ task.rec.freq \in Frequencies)

RecInit == now = 0 /\ task = NoTask /\ asked = 0 /\ since = 0

(* parseRecurrenceRule: days of the week go with a weekly rule only, and a *)
(* date is a date of the calendar.                                         *)
Parses(r) ==
    /\ r.freq \in Frequencies /\ r.interval \in 1..MaxSteps
    /\ r.byday # {} => r.freq = "WEEKLY" /\ r.byday \subseteq 0..WeekDays - 1

(* _resolveRecurrence: an end that is a date is the last hour of it, and   *)
(* without an end there is the limit of a year.                            *)
UntilOf(r, maxDate) ==
    IF r.until = NoTime THEN maxDate ELSE Convert(r.until * DayHours + DayHours - 1)

(* buildScheduledTask, from _resolveSchedule to the durable task.          *)
Schedule(w, r) ==
    LET at == Convert(w)
        maxDate == now + MaxTaskDays * DayHours
        until == UntilOf(r, maxDate)
    IN  /\ task = NoTask
        /\ ~InGap(w) /\ at # NoTime
        /\ at > now /\ at <= maxDate
        /\ Parses(r) /\ ~Skipped(at, r.exdate)
        /\ until # NoTime /\ (r.until # NoTime => until > at /\ until <= maxDate)
        /\ task' = [at |-> at,
                    rec |-> [freq |-> r.freq, interval |-> r.interval, byday |-> r.byday, exdate |-> r.exdate,
                             until |-> until, anchorDay |-> DayInMonth(DayOf(w))]]
        /\ asked' = w /\ since' = now /\ UNCHANGED now

(* The scheduler comes to the task when it is due, or late, and handles    *)
(* that occurrence (TaskDelivery.tla); then it looks for the next one.  A  *)
(* task without one leaves its file.                                       *)
Due(late) ==
    /\ task.at # NoTime
    /\ now' = task.at + late
    /\ task' = [task EXCEPT !.at = AdvanceBeyond(@, task.rec, now')]
    /\ since' = now' /\ UNCHANGED asked

RecNext ==
    \/ \E w \in Starts, r \in Rules : Schedule(w, r)
    \/ \E late \in Downtimes : Due(late)

RecSpec == RecInit /\ [][RecNext]_recVars

(***************************************************************************)
(* Properties.                                                             *)
(***************************************************************************)

(* The days on which a rule that started on day d0 falls, by what it says, *)
(* and the instants, with the wall clock kept, or every so many hours.     *)
RuleDays(rec, d0, last) ==
    {d \in d0 + 1 .. last :
       CASE rec.freq = "DAILY" -> (d - d0) % rec.interval = 0
         [] rec.freq = "WEEKLY" -> /\ Weekday(d) \in (IF rec.byday = {} THEN {Weekday(d0)} ELSE rec.byday)
                                   /\ (WeekOf(d) - WeekOf(d0)) % rec.interval = 0
         [] rec.freq = "MONTHLY" -> /\ (MonthOf(d) - MonthOf(d0)) % rec.interval = 0
                                    /\ MonthOf(d) > MonthOf(d0)
                                    /\ DayInMonth(d) = Min({DayInMonth(d0), DaysIn(MonthOf(d))})}

Occurrences(rec, w0) ==
    LET hourly == {t \in Convert(w0) + 1 .. rec.until : (t - Convert(w0)) % rec.interval = 0}
        daily == {Convert(d * DayHours + HourOf(w0)) : d \in RuleDays(rec, DayOf(w0), DayOf(rec.until) + 1)} \ {NoTime}
    IN  {t \in (IF rec.freq = "HOURLY" THEN hourly ELSE daily) : t <= rec.until /\ DayOf(WallOf(t)) \notin rec.exdate}

(* A series is on its schedule: the next occurrence that the code finds    *)
(* step by step, from one to the next and over days, changes of the clock  *)
(* and downtimes, is the first one after now that the rule, read on the    *)
(* calendar from the reminder's own start, gives, and the series ends when *)
(* nothing of it is left.                                                  *)
OnSchedule ==
    task # NoTask /\ task.at # Convert(asked) =>
        LET due == {t \in Occurrences(task.rec, asked) : t > since}
        IN  task.at = IF due = {} THEN NoTime ELSE Min(due)
====
