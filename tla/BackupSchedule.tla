--------------------------- MODULE BackupSchedule ---------------------------
(***************************************************************************)
(* plinth/modules/backups/schedule.py: scheduled backups of a repository   *)
(* and the cleanup of old ones.                                            *)
(*                                                                         *)
(* A timer triggers run_schedule every hour, each time in a thread of its  *)
(* own, so that a long backup overlaps with later triggers.  What a run    *)
(* knows of earlier runs is what it reads from the repository: the start   *)
(* times and the periods of the archives.  borg lets one command at a time *)
(* work on the repository and fails the others.                            *)
(*                                                                         *)
(* Time is counted in hours from the start of a year.  The calendar is a   *)
(* parameter: the real one has 24 hours, 7 days and 12 months.             *)
(***************************************************************************)
EXTENDS Integers, Sequences, FiniteSetsExt

CONSTANTS
    HoursPerDay,  \* 24
    DaysPerWeek,  \* 7
    MonthDays,    \* <<31, 28, 31, ...>>, the same every year
    Sunday,       \* day of the first week that is a Sunday, from 0
    RunAtHour,    \* schedule.run_at_hour
    Keep,         \* schedule.*_to_keep, per period
    Runners,      \* threads that run the schedule
    Beginning,    \* the hour at which the schedule is enabled
    Skips,        \* hours the machine may be off at a stretch
    MaxTime,      \* bound: the last hour
    MaxFailures,  \* bound: borg commands that fail
    MaxBack       \* bound: hours the clock is set back in all, one at most: set
                  \* back by two, two archives could start in the same hour

Periods == {"daily", "weekly", "monthly"}

ASSUME BackupScheduleAssumption ==
    /\ HoursPerDay \in Nat \ {0} /\ DaysPerWeek \in Nat \ {0}
    /\ MonthDays \in Seq(Nat \ {0}) /\ MonthDays # << >>
    /\ \A m \in DOMAIN MonthDays : MonthDays[m] <= MonthDays[1]
    /\ Keep \in [Periods -> Nat]
    /\ Beginning \in Nat /\ Skips \subseteq Nat
    /\ MaxTime \in Nat /\ Beginning <= MaxTime
    /\ MaxFailures \in Nat /\ MaxBack \in {0, 1}

VARIABLES
    now,       \* datetime.now()
    archives,  \* the scheduled archives of the repository
    runner,    \* the threads
    borg,      \* the archive being created: the repository is locked
    timer,     \* the timer has fired and its thread has not started yet
    streak,    \* history: triggers in a row, up to two, that found the backups
               \* recent enough or made one
    failures,  \* number of failed commands
    back       \* hours the clock was set back

vars == <<now, archives, runner, borg, timer, streak, failures, back>>

Unlocked == {}
\* A thread between two triggers, when the last one ended at all.
Rest == [at |-> "idle", periods |-> {}, todo |-> {}]

Init ==
    /\ now = Beginning
    /\ archives = {}
    /\ runner = [r \in Runners |-> Rest]
    /\ borg = Unlocked
    /\ timer = FALSE
    /\ streak = 0
    /\ failures = 0
    /\ back = 0

-----------------------------------------------------------------------------
(* The calendar.  Months are numbered from 0, through the years.           *)

Months == Len(MonthDays)
DaysIn(month) == MonthDays[(month % Months) + 1]

\* The day on which a month starts, the days being numbered from 0.
MonthStart[month \in Nat] ==
    IF month = 0 THEN 0 ELSE MonthStart[month - 1] + DaysIn(month - 1)

DayNumber(t) == t \div HoursPerDay
Hour(t) == t % HoursPerDay
MonthOf(t) == CHOOSE month \in 0..DayNumber(t) :
    MonthStart[month] <= DayNumber(t) /\ DayNumber(t) < MonthStart[month + 1]
DayOf(t) == DayNumber(t) - MonthStart[MonthOf(t)] + 1
IsSunday(t) == DayNumber(t) % DaysPerWeek = Sunday

AtDate(month, day, hour) == (MonthStart[month] + day - 1) * HoursPerDay + hour

-----------------------------------------------------------------------------
(* What a run reads and decides.                                           *)

\* _list_scheduled_archives: archives from the future are ignored.
Listed == {x \in archives : x.start <= now}

\* _get_recent_backup_times: the starts of which the latest counts.
Starts(period) == {x.start : x \in {y \in Listed : period \in y.periods}}

\* Mutant: one hour instead of two.
TooSoonInAnHour == \E period \in Periods :
    Starts(period) # {} /\ now - Max(Starts(period)) < 1

TooSoon == \E period \in Periods :
    Starts(period) # {} /\ now - Max(Starts(period)) < 2

\* last_monthly.replace(month + 1), or, when that raises ValueError because
\* there is no such month or no such day in it, January of the next year.
NextMonthly(t) ==
    LET month == MonthOf(t)
        number == (month % Months) + 1
    IN IF number + 1 <= Months /\ DayOf(t) <= DaysIn(month + 1)
       THEN AtDate(month + 1, DayOf(t), Hour(t))
       ELSE AtDate(month + 1 - number + Months, DayOf(t), Hour(t))

\* Mutant: a day is missed before a daily backup is overdue.
TooLongTwoDays(period) ==
    \/ Starts(period) = {}
    \/ LET last == Max(Starts(period)) IN
       CASE period = "daily" -> now - last > 2 * HoursPerDay + 1
         [] period = "weekly" -> now - last > DaysPerWeek * HoursPerDay + 1
         [] period = "monthly" -> now > NextMonthly(last) + 1

\* _too_long_since_last_backup
TooLong(period) ==
    \/ Starts(period) = {}
    \/ LET last == Max(Starts(period)) IN
       CASE period = "daily" -> now - last > HoursPerDay + 1
         [] period = "weekly" -> now - last > DaysPerWeek * HoursPerDay + 1
         [] period = "monthly" -> now > NextMonthly(last) + 1

\* _time_for_periods
TimeFor(period) ==
    /\ Hour(now) = RunAtHour
    /\ period = "weekly" => IsSunday(now)
    /\ period = "monthly" => DayOf(now) = 1

\* The periods of run_schedule, less _get_disabled_periods.
Due == {period \in Periods : (TooLong(period) \/ TimeFor(period)) /\ Keep[period] > 0}

\* Mutant: the archives come oldest first.
KeepsOldest(x, listed) == \E period \in x.periods :
    Cardinality({y \in listed : period \in y.periods /\ y.start <= x.start})
        <= Keep[period]

\* _run_cleanup: the archives come newest first, and an archive is kept when
\* it is one of the first so many of one of its periods (no two archives start
\* at the same time, see Spaced).
KeepsArchive(x, listed) == \E period \in x.periods :
    Cardinality({y \in listed : period \in y.periods /\ y.start >= x.start})
        <= Keep[period]

-----------------------------------------------------------------------------
(* run_schedule, step by step.  Every borg command fails when the          *)
(* repository is locked, and can fail for other reasons.                   *)

Locked == borg # Unlocked
CanFail == Locked \/ failures < MaxFailures

Longer == IF streak < 2 THEN streak + 1 ELSE 2

\* An exception ends the run and is shown in a notification.
Raises(r) ==
    /\ CanFail
    /\ failures' = IF Locked THEN failures ELSE failures + 1
    /\ runner' = [runner EXCEPT ![r] = Rest]
    /\ streak' = 0

\* The beginning of run_schedule, up to the first early return that applies.
Check(r) ==
    /\ timer /\ runner[r].at = "idle"
    /\ timer' = FALSE
    /\ \/ Raises(r)
       \/ /\ ~Locked /\ (TooSoon \/ Due = {})
          /\ streak' = Longer
          /\ UNCHANGED <<runner, failures>>
       \/ /\ ~Locked /\ ~TooSoon /\ Due # {}
          /\ runner' = [runner EXCEPT ![r] = [Rest EXCEPT !.at = "create", !.periods = Due]]
          /\ UNCHANGED <<streak, failures>>
    /\ UNCHANGED <<now, archives, borg, back>>

\* Mutant: the start is noted in another time zone.
CreateBeginElsewhere(r) ==
    /\ runner[r].at = "create"
    /\ ~Locked
    /\ borg' = {[start |-> now + 1, periods |-> runner[r].periods]}
    /\ runner' = [runner EXCEPT ![r].at = "creating"]
    /\ UNCHANGED <<streak, failures, now, archives, timer, back>>

\* _run_backup: borg create notes when it starts ...
CreateBegin(r) ==
    /\ runner[r].at = "create"
    /\ \/ Raises(r) /\ UNCHANGED borg
       \/ /\ ~Locked
          /\ borg' = {[start |-> now, periods |-> runner[r].periods]}
          /\ runner' = [runner EXCEPT ![r].at = "creating"]
          /\ UNCHANGED <<streak, failures>>
    /\ UNCHANGED <<now, archives, timer, back>>

\* ... and adds the archive when it ends, or fails.
CreateEnd(r) ==
    /\ runner[r].at = "creating"
    /\ borg' = Unlocked
    /\ \/ /\ archives' = archives \cup borg
          /\ runner' = [runner EXCEPT ![r].at = "list"]
          /\ streak' = Longer
          /\ UNCHANGED failures
       \/ /\ failures < MaxFailures
          /\ failures' = failures + 1
          /\ runner' = [runner EXCEPT ![r] = Rest]
          /\ streak' = 0
          /\ UNCHANGED archives
    /\ UNCHANGED <<now, timer, back>>

\* _run_cleanup lists the archives once ...
CleanupList(r) ==
    /\ runner[r].at = "list"
    /\ \/ Raises(r)
       \/ /\ ~Locked
          /\ runner' = [runner EXCEPT
                          ![r].at = "delete",
                          ![r].todo = {x \in Listed : ~KeepsArchive(x, Listed)}]
          /\ UNCHANGED <<streak, failures>>
    /\ UNCHANGED <<now, archives, borg, timer, back>>

\* ... and deletes one after another, the newest first.  An archive that
\* another cleanup has deleted is an error.
CleanupDelete(r) ==
    /\ runner[r].at = "delete" /\ runner[r].todo # {}
    /\ \E x \in runner[r].todo :
          /\ \A y \in runner[r].todo : y.start <= x.start
          /\ \/ Raises(r) /\ UNCHANGED archives
             \/ /\ ~Locked /\ x \notin archives
                /\ runner' = [runner EXCEPT ![r] = Rest]
                /\ streak' = 0
                /\ UNCHANGED <<archives, failures>>
             \/ /\ ~Locked /\ x \in archives
                /\ archives' = archives \ {x}
                /\ runner' = [runner EXCEPT ![r].todo = @ \ {x}]
                /\ UNCHANGED <<streak, failures>>
    /\ UNCHANGED <<now, borg, timer, back>>

CleanupEnd(r) ==
    /\ runner[r].at = "delete" /\ runner[r].todo = {}
    /\ runner' = [runner EXCEPT ![r] = Rest]
    /\ UNCHANGED <<now, archives, borg, timer, streak, failures, back>>

-----------------------------------------------------------------------------
(* Time, the timer and the service.                                        *)

\* An hour passes and the timer fires.  Its interval is an hour give or take 5%:
\* now and then an hour passes without it, or it fires twice in one.  A trigger
\* that has not come to run, or not come at all, counts as missed.  A run that
\* has decided on a backup starts it promptly.
Tick ==
    /\ now < MaxTime
    /\ \A r \in Runners : runner[r].at # "create"
    /\ \/ /\ now' = now + 1
          /\ timer' = TRUE
          /\ streak' = IF timer THEN 0 ELSE streak
       \/ /\ now' = now + 1
          /\ streak' = 0
          /\ UNCHANGED timer
       \/ /\ ~timer
          /\ timer' = TRUE
          /\ UNCHANGED <<now, streak>>
    /\ UNCHANGED <<archives, runner, borg, failures, back>>

\* The machine is off for some hours: runs are cut short, and the first
\* trigger comes an hour after the start.
Off(hours) ==
    /\ now + hours <= MaxTime
    /\ now' = now + hours
    /\ runner' = [r \in Runners |-> Rest]
    /\ borg' = Unlocked
    /\ timer' = FALSE
    /\ streak' = 0
    /\ UNCHANGED <<archives, failures, back>>

ClockBack ==
    /\ back < MaxBack /\ now > Beginning
    /\ now' = now - 1
    /\ back' = back + 1
    /\ streak' = 0
    /\ UNCHANGED <<archives, runner, borg, timer, failures>>

Next ==
    \/ \E r \in Runners : \/ Check(r) \/ CreateBegin(r) \/ CreateEnd(r)
                          \/ CleanupList(r) \/ CleanupDelete(r) \/ CleanupEnd(r)
    \/ Tick
    \/ \E hours \in Skips : Off(hours)
    \/ ClockBack

Spec == Init /\ [][Next]_vars

-----------------------------------------------------------------------------
(* Properties                                                              *)

Archive == [start : 0..MaxTime, periods : SUBSET Periods]

TypeOK ==
    /\ now \in 0..MaxTime
    /\ archives \subseteq Archive
    /\ runner \in [Runners -> [at : {"idle", "create", "creating", "list", "delete"},
                               periods : SUBSET Periods, todo : SUBSET Archive]]
    /\ borg \subseteq Archive /\ Cardinality(borg) <= 1
    /\ timer \in BOOLEAN
    /\ streak \in 0..2
    /\ failures \in 0..MaxFailures
    /\ back \in 0..MaxBack

\* Frequent triggering: whatever overlaps, is retried or restarted, two
\* scheduled backups start at least two hours apart, and still not in the same
\* hour when the clock was set back by one.
Apart(x, y) ==
    /\ x.start # y.start
    /\ x.start - y.start >= 2 \/ y.start - x.start >= 2 \/ back > 0

Spaced == \A x, y \in archives : x # y => Apart(x, y)

\* The end of the day, week or calendar month that begins at t.
PeriodEnd(period, t) ==
    CASE period = "daily" -> t + HoursPerDay
      [] period = "weekly" -> t + DaysPerWeek * HoursPerDay
      [] period = "monthly" ->
           LET next == MonthOf(t) + 1 IN
           AtDate(next, Min({DayOf(t), DaysIn(next)}), Hour(t))

\* Two triggers in a row found or made a backup, so there is a recent enough
\* one of the period: since it was due may have passed the hour of grace, one
\* in which it was too soon after another backup, one to the next trigger and
\* one in which the backup is being made.
Fresh(period) ==
    (streak = 2 /\ Keep[period] > 0) =>
        \E x \in archives : period \in x.periods /\ now <= PeriodEnd(period, x.start) + 4

\* Daily and weekly backups catch up after failures, time off and clock
\* changes, and cleanup does not take the backup that counts.
CatchesUp == Fresh("daily") /\ Fresh("weekly")

\* Monthly backups catch up.
MonthlyCatchesUp == Fresh("monthly")

\* Cleanups, however they overlap with backups, other cleanups and changes of
\* the clock, never delete the newest archive of a period that is kept.
NewestSurvives ==
    [][\A x \in archives \ archives' : \A period \in x.periods :
         Keep[period] > 0 =>
            \E y \in archives' : period \in y.periods /\ y.start >= x.start]_vars
=============================================================================
