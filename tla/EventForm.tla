----------------------------- MODULE EventForm -----------------------------
(***************************************************************************)
(* The settings of the action that creates a calendar event: the form and  *)
(* the schedule of the event in it, what the validation makes of it, what  *)
(* is saved into the node and read back, and the preview.  An event starts *)
(* a number of days after the run at a time of day.  A field that is       *)
(* undefined, or an empty string, is NoValue.  The list of calendars is    *)
(* loaded by the selector that CalendarTrigger models.                     *)
(***************************************************************************)
EXTENDS Integers

CONSTANTS
  Times,                  \* bound: times of day that are entered
  DelayInputs,            \* bound: numbers that are typed for the days
  Lengths,                \* bound: durations that are picked
  Details,                \* calendar, texts within their limits and reminders
  NoDetails,              \* the details of a new form
  NoValue

\* PRESET_LENGTH_DURATIONS.
PresetLengths == {15, 30, 60, 120, 240, 480, 720}

StartType == {"immediate", "next-day", "custom"}
MinDays == 1
MaxDays == 30

VARIABLES
  form,                   \* the fields
  config                  \* the node's configuration
vars == <<form, config>>

Starts == [type : StartType, days : DelayInputs \cup {1, NoValue}, time : Times \cup {NoValue}]
Durations == [isAllDay : BOOLEAN, minutes : Lengths \cup {60, NoValue}]

TypeOK ==
  /\ form \in [start : Starts, duration : Durations,
               details : Details \cup {NoDetails, "tooLong"}]
  /\ config # NoValue =>
       config \in [start : Starts, duration : Durations,
                   details : Details \cup {NoDetails}, timeZone : {"local", NoValue}]

-----------------------------------------------------------------------------
(* The validation and what is saved.                                       *)

formDefaultValues ==
  [start |-> [type |-> "immediate", days |-> NoValue, time |-> NoValue],
   duration |-> [isAllDay |-> FALSE, minutes |-> 60],
   details |-> NoDetails]

\* Fields that the type of the start has no use for are dropped.
transformStart(s) ==
  CASE s.type = "immediate" -> [s EXCEPT !.days = NoValue, !.time = NoValue]
    [] s.type = "next-day"  -> [s EXCEPT !.days = NoValue]
    [] OTHER                -> s

transformDuration(d) == IF d.isAllDay THEN [d EXCEPT !.minutes = NoValue] ELSE d

\* The texts have limits.
calendarFormSchema(f) == f.details # "tooLong"

\* Mutant: the form has noValidate.
NoConstraint(f) == TRUE

\* The browser submits no form with a number outside min and max in it; the
\* field of the days is there for a custom delay only, and shows 1 without one.
withinConstraints(f) ==
  f.start.type = "custom" /\ f.start.days # NoValue => f.start.days \in MinDays .. MaxDays

configWithTimezone(f) ==
  [start |-> transformStart(f.start), duration |-> transformDuration(f.duration),
   details |-> f.details, timeZone |-> "local"]

onSubmit ==
  /\ withinConstraints(form) /\ calendarFormSchema(form)
  /\ config' = configWithTimezone(form)
  /\ UNCHANGED form

\* The defaults go into the form and, as they are, into the node.
handleReset ==
  /\ form' = formDefaultValues
  /\ config' = [start |-> form'.start, duration |-> form'.duration,
                details |-> form'.details, timeZone |-> NoValue]

\* Mutant: a configuration without details counts as empty.
DefaultsWithoutDetails(c) ==
  IF c = NoValue \/ c.details = NoDetails THEN formDefaultValues
  ELSE [start |-> c.start, duration |-> c.duration, details |-> c.details]

\* The form a node is opened with.
defaultValues(c) ==
  IF c = NoValue THEN formDefaultValues
  ELSE [start |-> c.start, duration |-> c.duration, details |-> c.details]

\* Selecting the node again.
Reopen == form' = defaultValues(config) /\ UNCHANGED config

-----------------------------------------------------------------------------
(* The fields.  A change of one field of the schedule keeps the others,    *)
(* those that are no longer shown among them.                              *)

handleStartChange(s) == form' = [form EXCEPT !.start = s] /\ UNCHANGED config
handleDurationChange(d) == form' = [form EXCEPT !.duration = d] /\ UNCHANGED config

SelectType(type) ==
  type # form.start.type /\ handleStartChange([form.start EXCEPT !.type = type])

\* What is no number, and zero, becomes 1.
TypeDays(n) ==
  form.start.type = "custom" /\ handleStartChange([form.start EXCEPT !.days = n])

TypeTime(t) ==
  form.start.type # "immediate" /\ handleStartChange([form.start EXCEPT !.time = t])

SwitchAllDay == handleDurationChange([form.duration EXCEPT !.isAllDay = ~@])

SelectMinutes(n) ==
  ~form.duration.isAllDay /\ handleDurationChange([isAllDay |-> FALSE, minutes |-> n])

EnterDetails(d) == form' = [form EXCEPT !.details = d] /\ UNCHANGED config

-----------------------------------------------------------------------------
(* The preview.                                                            *)

\* The start the preview shows for the fields of the form.
calculateEventTimes(s) ==
  [day |-> IF s.days # NoValue THEN s.days ELSE 0,
   time |-> IF s.time # NoValue THEN s.time ELSE "now"]

\* What the form says of a start: "Right away", "Tomorrow" at a time, or after
\* a number of days, where the fields show 1 and 14:00 until they are set.
shownStart(s) ==
  LET time == IF s.time # NoValue THEN s.time ELSE "14:00"
  IN CASE s.type = "immediate" -> [day |-> 0, time |-> "now"]
       [] s.type = "next-day"  -> [day |-> 1, time |-> time]
       [] OTHER -> [day |-> IF s.days # NoValue THEN s.days ELSE 1, time |-> time]

-----------------------------------------------------------------------------
Init == form = formDefaultValues /\ config = NoValue

Next ==
  \/ onSubmit \/ handleReset \/ Reopen \/ SwitchAllDay
  \/ \E type \in StartType : SelectType(type)
  \/ \E n \in DelayInputs \cup {1} : TypeDays(n)
  \/ \E t \in Times \cup {NoValue} : TypeTime(t)
  \/ \E n \in Lengths : SelectMinutes(n)
  \/ \E d \in Details \cup {"tooLong"} : EnterDetails(d)

Spec == Init /\ [][Next]_vars

-----------------------------------------------------------------------------
(* Properties.                                                             *)

\* No order of typing, changing the type and saving puts a delay into the node
\* that the field of the days ("1" to "30") does not allow: a number typed for
\* a custom delay stays in the form when its field, and with it the browser's
\* constraint, is gone.
DelayInRange ==
  config # NoValue /\ config.start.days # NoValue => config.start.days \in MinDays .. MaxDays

\* A node's settings that are opened and saved as they are stay as they are,
\* the time zone aside, and nothing keeps them from being saved.
ReopenKeepsEvent ==
  config # NoValue =>
    LET f == defaultValues(config)
    IN /\ withinConstraints(f) /\ calendarFormSchema(f)
       /\ configWithTimezone(f) = [config EXCEPT !.timeZone = "local"]

\* The preview of a custom delay whose fields are set, and of an event right
\* away whose form has never been set to something else, is what the form
\* says and what a save would keep.
PreviewIsTrueWhenSet ==
  \/ form.start.type = "custom" /\ NoValue \notin {form.start.days, form.start.time}
  \/ form.start = formDefaultValues.start
  => /\ calculateEventTimes(form.start) = shownStart(form.start)
     /\ calculateEventTimes(configWithTimezone(form).start) = calculateEventTimes(form.start)

=============================================================================
