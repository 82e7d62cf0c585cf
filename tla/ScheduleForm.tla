---------------------------- MODULE ScheduleForm ----------------------------
(***************************************************************************)
(* The settings of the schedule trigger: the form, its date and its time   *)
(* picker, the validation, what is saved into the node and read back, and  *)
(* the preview of the next runs beside the runs the scheduler makes of it. *)
(*                                                                         *)
(* Time is in minutes from the first of January of a year that is no leap  *)
(* year.  The page has the local time, which is Zone minutes ahead of UTC  *)
(* all year (a change of the clocks in spring or autumn is left out); what *)
(* is saved and what the scheduler does is in UTC.  The clock jumps        *)
(* between Instants, the moments at which something is done.               *)
(***************************************************************************)
EXTENDS Integers, Sequences

CONSTANTS
  Zone,                   \* how far the local time is ahead of UTC
  Instants,               \* bound: when something is done, in local time
  Days,                   \* bound: the days that are picked
  Hours, Minutes,         \* bound: the options of the picker that are picked
  NoValue

ScheduleType == {"once", "daily", "weekly", "monthly"}

perDay == 24 * 60
Day(t) == t \div perDay
TimeOfDay(t) == t % perDay

toUTC(local) == local - Zone
toLocal(utc) == utc + Zone

VARIABLES
  now,                    \* the clock, in local time
  form,                   \* the fields
  shownType,              \* what the select of the type shows
  today,                  \* the day the date picker was last rendered with
  isOpen, rendered,       \* the time picker, and when it was last rendered
  config                  \* the node's configuration, in UTC
vars == <<now, form, shownType, today, isOpen, rendered, config>>

TypeOK ==
  /\ now \in Instants /\ rendered \in Instants
  /\ form \in [scheduleType : ScheduleType, scheduledDate : Nat \cup {NoValue},
               scheduledTime : 0 .. perDay - 1]
  /\ shownType \in ScheduleType
  /\ today \in Nat /\ isOpen \in BOOLEAN
  /\ config # NoValue => config \in [scheduleType : ScheduleType, scheduledDate : Nat]

-----------------------------------------------------------------------------
(* Dates and times of day.                                                 *)

\* The half hour a time of day is rounded up to; the day is lost.
getNextHalfHour(minutes) ==
  LET hours == minutes \div 60
      rounded == (((minutes % 60) + 29) \div 30) * 30
  IN IF rounded = 60 THEN ((hours + 1) % 24) * 60 ELSE hours * 60 + rounded

combineDateAndTime(date, time) == date * perDay + time

\* Mutant: noon is in the morning.
NoonIsAM(time) ==
  LET h == time \div 60
  IN [hour |-> IF h % 12 = 0 THEN 12 ELSE h % 12, minute |-> time % 60,
      period |-> IF h > 12 THEN "PM" ELSE "AM"]

\* A time of day as the picker shows it; the form always holds one.
dateTo12HourParts(time) ==
  LET h == time \div 60
  IN [hour |-> IF h % 12 = 0 THEN 12 ELSE h % 12, minute |-> time % 60,
      period |-> IF h >= 12 THEN "PM" ELSE "AM"]

\* The parts of the picker as a time of day.
from12HourParts(parts) ==
  LET h == CASE parts.period = "PM" /\ parts.hour < 12 -> parts.hour + 12
             [] parts.period = "AM" /\ parts.hour = 12 -> 0
             [] OTHER -> parts.hour
  IN h * 60 + parts.minute

-----------------------------------------------------------------------------
(* The form and what is saved.                                             *)

defaultValues(t) ==
  [scheduleType |-> "once", scheduledDate |-> Day(t),
   scheduledTime |-> getNextHalfHour(TimeOfDay(t))]

\* The form of a saved configuration.
configValues(c) ==
  [scheduleType |-> c.scheduleType, scheduledDate |-> Day(toLocal(c.scheduledDate)),
   scheduledTime |-> TimeOfDay(toLocal(c.scheduledDate))]

scheduleFormSchema(f, t) ==
  /\ f.scheduledDate # NoValue
  /\ f.scheduledDate >= Day(t)
  /\ combineDateAndTime(f.scheduledDate, f.scheduledTime) > t

onSubmit ==
  /\ scheduleFormSchema(form, now)
  /\ config' = [scheduleType |-> form.scheduleType,
                scheduledDate |-> toUTC(combineDateAndTime(form.scheduledDate, form.scheduledTime))]
  /\ UNCHANGED <<now, form, shownType, today, isOpen, rendered>>

\* The select of the type has a default value and keeps what it shows.
handleReset ==
  /\ form' = defaultValues(now)
  /\ rendered' = now
  /\ UNCHANGED <<now, shownType, today, isOpen, config>>

\* Selecting the node again.
Reopen ==
  /\ form' = IF config = NoValue THEN defaultValues(now) ELSE configValues(config)
  /\ shownType' = form'.scheduleType
  /\ today' = Day(now) /\ rendered' = now
  /\ isOpen' = FALSE
  /\ UNCHANGED <<now, config>>

-----------------------------------------------------------------------------
(* The fields.                                                             *)

\* A selection is a change of what the select shows.
SelectType(type) ==
  /\ type # shownType
  /\ form' = [form EXCEPT !.scheduleType = type]
  /\ shownType' = type
  /\ UNCHANGED <<now, today, isOpen, rendered, config>>

\* Picking the day that is picked clears it.
SelectDate(day) ==
  /\ day >= today
  /\ form' = [form EXCEPT !.scheduledDate = IF @ = day THEN NoValue ELSE day]
  /\ rendered' = now
  /\ UNCHANGED <<now, shownType, today, isOpen, config>>

MINUTE_OFFSET == 10

todaySelected == form.scheduledDate = Day(rendered)

\* The clock is somewhere in its minute, so a time ten minutes on is before.
isTimeBeforeMinOffsetToday(parts) ==
  combineDateAndTime(Day(rendered), from12HourParts(parts)) <= rendered + MINUTE_OFFSET

disabled(parts) == todaySelected /\ isTimeBeforeMinOffsetToday(parts)

\* The parts after one of them is changed.
PartChanges(hours, minutes) ==
  LET parts == dateTo12HourParts(form.scheduledTime)
  IN ({[parts EXCEPT !.hour = h] : h \in hours}
       \cup {[parts EXCEPT !.minute = m] : m \in minutes}
       \cup {[parts EXCEPT !.period = p] : p \in {"AM", "PM"}}) \ {parts}

handleTimePartChange(parts) ==
  /\ isOpen
  /\ ~disabled(parts)
  /\ form' = [form EXCEPT !.scheduledTime = from12HourParts(parts)]
  /\ rendered' = now
  /\ UNCHANGED <<now, shownType, today, isOpen, config>>

OpenPicker ==
  /\ ~isOpen
  /\ isOpen' = TRUE
  /\ rendered' = now
  /\ UNCHANGED <<now, form, shownType, today, config>>

handleDone ==
  /\ isOpen
  /\ isOpen' = FALSE
  /\ rendered' = now
  /\ UNCHANGED <<now, form, shownType, today, config>>

\* Any change of the flow renders the settings again.
Render ==
  /\ today' = Day(now) /\ rendered' = now
  /\ UNCHANGED <<now, form, shownType, isOpen, config>>

Tick ==
  /\ now' \in {t \in Instants : t > now}
  /\ UNCHANGED <<form, shownType, today, isOpen, rendered, config>>

-----------------------------------------------------------------------------
(* The preview, and the runs of the scheduler.                             *)

monthLength == <<31, 28, 31, 30, 31, 30, 31, 31, 30, 31, 30, 31>>
monthStart[m \in 1 .. 12] == IF m = 1 THEN 0 ELSE monthStart[m - 1] + monthLength[m - 1]
Month(day) == CHOOSE m \in 1 .. 12 : monthStart[m] <= day /\ day < monthStart[m] + monthLength[m]
DayOfMonth(day) == day - monthStart[Month(day)] + 1

\* date-fns stops at the end of a month.
addMonths(day, n) ==
  LET m == Month(day) + n
      d == DayOfMonth(day)
  IN monthStart[m] + (IF d > monthLength[m] THEN monthLength[m] ELSE d) - 1

\* carbon goes on into the month after.
AddMonth(day) == monthStart[Month(day) + 1] + DayOfMonth(day) - 1

\* Mutant: the first run is one period late.
SkipsTheFirst(f) ==
  [i \in 1 .. (IF f.scheduledDate = NoValue THEN 0 ELSE IF f.scheduleType = "once" THEN 1 ELSE 3) |->
     combineDateAndTime(
       CASE f.scheduleType = "once"    -> f.scheduledDate
         [] f.scheduleType = "daily"   -> f.scheduledDate + i
         [] f.scheduleType = "weekly"  -> f.scheduledDate + 7 * i
         [] f.scheduleType = "monthly" -> addMonths(f.scheduledDate, i), f.scheduledTime)]

\* The runs that the preview lists, in local time: none without a date.
getNextRuns(f) ==
  [i \in 1 .. (IF f.scheduledDate = NoValue THEN 0 ELSE IF f.scheduleType = "once" THEN 1 ELSE 3) |->
     combineDateAndTime(
       CASE f.scheduleType = "once"    -> f.scheduledDate
         [] f.scheduleType = "daily"   -> f.scheduledDate + i - 1
         [] f.scheduleType = "weekly"  -> f.scheduledDate + 7 * (i - 1)
         [] f.scheduleType = "monthly" -> addMonths(f.scheduledDate, i - 1), f.scheduledTime)]

\* When the scheduler runs a schedule again after a run on time, in UTC.
CalculateNextRun(type, t) ==
  combineDateAndTime(
    CASE type = "daily"   -> Day(t) + 1
      [] type = "weekly"  -> Day(t) + 7
      [] type = "monthly" -> AddMonth(Day(t)), TimeOfDay(t))

\* The runs of a schedule that is saved, in UTC.
ScheduledRuns(f) ==
  LET first == toUTC(combineDateAndTime(f.scheduledDate, f.scheduledTime))
      second == CalculateNextRun(f.scheduleType, first)
  IN IF f.scheduleType = "once" THEN <<first>>
     ELSE <<first, second, CalculateNextRun(f.scheduleType, second)>>

-----------------------------------------------------------------------------
Init ==
  /\ now \in Instants
  /\ form = defaultValues(now) /\ shownType = "once"
  /\ today = Day(now) /\ isOpen = FALSE /\ rendered = now
  /\ config = NoValue

Next ==
  \/ Tick \/ Render \/ Reopen
  \/ \E type \in ScheduleType : SelectType(type)
  \/ \E day \in Days : SelectDate(day)
  \/ OpenPicker \/ handleDone
  \/ \E parts \in PartChanges(Hours, Minutes) : handleTimePartChange(parts)
  \/ onSubmit \/ handleReset

Spec == Init /\ [][Next]_vars

-----------------------------------------------------------------------------
(* Properties.                                                             *)

\* A saved schedule opens as the same schedule, in any zone: the form that is
\* opened stands for the instant that was saved.  (Once that is over the schema
\* keeps it from being saved again.)
ReopenKeepsSchedule ==
  config # NoValue =>
    LET f == configValues(config)
    IN /\ toUTC(combineDateAndTime(f.scheduledDate, f.scheduledTime)) = config.scheduledDate
       /\ f.scheduleType = config.scheduleType

\* What the picker shows of a time is that time: changing one part leaves the
\* others as they were.
PartsRoundTrip == from12HourParts(dateTo12HourParts(form.scheduledTime)) = form.scheduledTime

\* Every month has this day, in both zones, and it is in the same month in both.
DayOfEveryMonth(local) ==
  LET days == {Day(local), Day(toUTC(local))}
  IN /\ \A d \in days : DayOfMonth(d) <= 28
     /\ Month(Day(local)) = Month(Day(toUTC(local)))

\* The preview lists when the scheduler runs the workflow, whatever the zone,
\* for a monthly schedule on a day that every month has.  (The months of the
\* scheduler are those of UTC: the first of a month that is still the last of
\* the month before there is not such a day.)
PreviewIsTrue ==
  form.scheduledDate # NoValue
    /\ (form.scheduleType = "monthly"
          => DayOfEveryMonth(combineDateAndTime(form.scheduledDate, form.scheduledTime)))
    => LET preview == getNextRuns(form)
       IN [i \in DOMAIN preview |-> toUTC(preview[i])] = ScheduledRuns(form)

=============================================================================
