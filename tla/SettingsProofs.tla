--------------------------- MODULE SettingsProofs ---------------------------
(***************************************************************************)
(* Proofs about the settings forms: for every value of the constants each  *)
(* of the invariants that Settings states holds.  One form is mounted and  *)
(* the others stay as they are (EmailSteps ... TriggerSteps), so each form *)
(* has an inductive invariant of its own.                                  *)
(***************************************************************************)
EXTENDS Settings, ArrayProofs

-----------------------------------------------------------------------------
(* The forms do not disturb each other.                                    *)

LEMMA EmailSteps == [SettingsTab]_vars => [Email!Next]_emailVars
BY DEF SettingsTab, vars, Others, Rest, NodeTypes

LEMMA ScheduleSteps == [SettingsTab]_vars => [Schedule!Next]_scheduleVars
BY DEF SettingsTab, vars, Others, Rest, NodeTypes

LEMMA EventSteps == [SettingsTab]_vars => [Event!Next]_eventVars
BY DEF SettingsTab, vars, Others, Rest, NodeTypes

LEMMA TriggerSteps == [SettingsTab]_vars => [Trigger!Next]_triggerVars
BY DEF SettingsTab, vars, Others, Rest, NodeTypes

-----------------------------------------------------------------------------
(* The event: what is saved has been through the transformations, which    *)
(* change nothing the second time.                                         *)

EventInv ==
  /\ Event!TypeOK
  /\ eventConfig # NoValue =>
       /\ Event!transformStart(eventConfig.start) = eventConfig.start
       /\ Event!transformDuration(eventConfig.duration) = eventConfig.duration
       /\ eventConfig.start.days # NoValue => eventConfig.start.days \in 1 .. 30

\* The transformations keep the types, and are done after one time.
LEMMA TransformedStart ==
  ASSUME NEW s \in Event!Starts
  PROVE  /\ Event!transformStart(s) \in Event!Starts
         /\ Event!transformStart(Event!transformStart(s)) = Event!transformStart(s)
         /\ Event!transformStart(s).type = s.type
         /\ s.type = "custom" => Event!transformStart(s) = s
         /\ s.type # "custom" => Event!transformStart(s).days = NoValue
<1>1. /\ s.type \in {"immediate", "next-day", "custom"}
      /\ s.days \in DelayInputs \cup {1, NoValue} /\ s.time \in EventTimes \cup {NoValue}
      /\ s = [type |-> s.type, days |-> s.days, time |-> s.time]
  BY DEF Event!Starts, Event!StartType
<1>2. CASE s.type = "immediate"
  <2>1. Event!transformStart(s) = [type |-> "immediate", days |-> NoValue, time |-> NoValue]
    BY <1>1, <1>2 DEF Event!transformStart
  <2>2. Event!transformStart([type |-> "immediate", days |-> NoValue, time |-> NoValue])
          = [type |-> "immediate", days |-> NoValue, time |-> NoValue]
    BY DEF Event!transformStart
  <2> QED BY <1>2, <2>1, <2>2 DEF Event!Starts, Event!StartType
<1>3. CASE s.type = "next-day"
  <2>1. Event!transformStart(s) = [type |-> "next-day", days |-> NoValue, time |-> s.time]
    BY <1>1, <1>3 DEF Event!transformStart
  <2>2. Event!transformStart([type |-> "next-day", days |-> NoValue, time |-> s.time])
          = [type |-> "next-day", days |-> NoValue, time |-> s.time]
    BY DEF Event!transformStart
  <2> QED BY <1>1, <1>3, <2>1, <2>2 DEF Event!Starts, Event!StartType
<1>4. CASE s.type = "custom"
  <2>1. Event!transformStart(s) = s
    BY <1>4 DEF Event!transformStart
  <2> QED BY <1>4, <2>1
<1> QED BY <1>1, <1>2, <1>3, <1>4

LEMMA TransformedDuration ==
  ASSUME NEW d \in Event!Durations
  PROVE  /\ Event!transformDuration(d) \in Event!Durations
         /\ Event!transformDuration(Event!transformDuration(d)) = Event!transformDuration(d)
<1>1. /\ d.isAllDay \in BOOLEAN /\ d.minutes \in EventLengths \cup {60, NoValue}
      /\ d = [isAllDay |-> d.isAllDay, minutes |-> d.minutes]
  BY DEF Event!Durations
<1>2. CASE d.isAllDay = TRUE
  <2>1. Event!transformDuration(d) = [isAllDay |-> TRUE, minutes |-> NoValue]
    BY <1>1, <1>2 DEF Event!transformDuration
  <2>2. Event!transformDuration([isAllDay |-> TRUE, minutes |-> NoValue]) = [isAllDay |-> TRUE, minutes |-> NoValue]
    BY DEF Event!transformDuration
  <2> QED BY <2>1, <2>2 DEF Event!Durations
<1>3. CASE d.isAllDay = FALSE
  BY <1>3 DEF Event!transformDuration
<1> QED BY <1>1, <1>2, <1>3

EventDetails == Details \cup {NoDetails, "tooLong"}
EventFields == [start : Event!Starts, duration : Event!Durations, details : EventDetails]
SavedEvents == [start : Event!Starts, duration : Event!Durations,
                details : Details \cup {NoDetails}, timeZone : {"local", NoValue}]

\* The fields of the form, one by one.
LEMMA EventTypes ==
  Event!TypeOK <=> event \in EventFields /\ (eventConfig # NoValue => eventConfig \in SavedEvents)
BY DEF Event!TypeOK, EventFields, EventDetails, SavedEvents

LEMMA DefaultEvent ==
  /\ Event!formDefaultValues \in EventFields
  /\ Event!transformStart(Event!formDefaultValues.start) = Event!formDefaultValues.start
  /\ Event!transformDuration(Event!formDefaultValues.duration) = Event!formDefaultValues.duration
  /\ Event!formDefaultValues.start.days = NoValue /\ Event!formDefaultValues.details = NoDetails
<1> DEFINE s == [type |-> "immediate", days |-> NoValue, time |-> NoValue]
<1> DEFINE d == [isAllDay |-> FALSE, minutes |-> 60]
<1>1. s \in Event!Starts /\ d \in Event!Durations
  BY DEF Event!Starts, Event!StartType, Event!Durations
<1>2. Event!transformStart(s) = s /\ Event!transformDuration(d) = d
  BY DEF Event!transformStart, Event!transformDuration
<1>3. Event!formDefaultValues = [start |-> s, duration |-> d, details |-> NoDetails]
  BY DEF Event!formDefaultValues
<1>4. s.days = NoValue
  OBVIOUS
<1> HIDE DEF s, d
<1> QED BY <1>1, <1>2, <1>3, <1>4 DEF EventFields, EventDetails

LEMMA EventInit == Event!Init => EventInv
BY DefaultEvent, EventTypes DEF Event!Init, EventInv

\* A change of the fields keeps the invariant when it keeps their types.
LEMMA EventFieldStep ==
  ASSUME EventInv, event' \in EventFields, eventConfig' = eventConfig
  PROVE  EventInv'
BY EventTypes DEF EventInv, Event!TypeOK, EventFields, EventDetails

LEMMA EventNext == EventInv /\ [Event!Next]_eventVars => EventInv'
<1> SUFFICES ASSUME EventInv, [Event!Next]_eventVars PROVE EventInv'
  OBVIOUS
<1>0. /\ event \in EventFields /\ event.start \in Event!Starts /\ event.duration \in Event!Durations
      /\ event.details \in EventDetails
      /\ event = [start |-> event.start, duration |-> event.duration, details |-> event.details]
      /\ eventConfig # NoValue => eventConfig \in SavedEvents
  BY EventTypes DEF EventInv, EventFields
<1>a. ASSUME NEW s \in Event!Starts, Event!handleStartChange(s) PROVE EventInv'
  <2>1. event' = [start |-> s, duration |-> event.duration, details |-> event.details] /\ eventConfig' = eventConfig
    BY <1>0, <1>a DEF Event!handleStartChange
  <2>2. event' \in EventFields
    BY <1>0, <2>1 DEF EventFields
  <2> QED BY <2>1, <2>2, EventFieldStep
<1>b. ASSUME NEW d \in Event!Durations, Event!handleDurationChange(d) PROVE EventInv'
  <2>1. event' = [start |-> event.start, duration |-> d, details |-> event.details] /\ eventConfig' = eventConfig
    BY <1>0, <1>b DEF Event!handleDurationChange
  <2>2. event' \in EventFields
    BY <1>0, <2>1 DEF EventFields
  <2> QED BY <2>1, <2>2, EventFieldStep
<1>c. /\ event.start.type \in Event!StartType /\ event.start.days \in DelayInputs \cup {1, NoValue}
      /\ event.start.time \in EventTimes \cup {NoValue}
      /\ event.start = [type |-> event.start.type, days |-> event.start.days, time |-> event.start.time]
  BY <1>0 DEF Event!Starts
<1>d. /\ event.duration.isAllDay \in BOOLEAN /\ event.duration.minutes \in EventLengths \cup {60, NoValue}
      /\ event.duration = [isAllDay |-> event.duration.isAllDay, minutes |-> event.duration.minutes]
  BY <1>0 DEF Event!Durations
<1>1. CASE Event!onSubmit
  <2> DEFINE s == Event!transformStart(event.start)
  <2> DEFINE d == Event!transformDuration(event.duration)
  <2>1. /\ Event!withinConstraints(event) /\ event.details # "tooLong" /\ event' = event
        /\ eventConfig' = [start |-> s, duration |-> d, details |-> event.details, timeZone |-> "local"]
    BY <1>1 DEF Event!onSubmit, Event!calendarFormSchema, Event!configWithTimezone
  <2>2. /\ s \in Event!Starts /\ Event!transformStart(s) = s
        /\ event.start.type = "custom" => s = event.start
        /\ event.start.type # "custom" => s.days = NoValue
    BY <1>0, TransformedStart
  <2>3. d \in Event!Durations /\ Event!transformDuration(d) = d
    BY <1>0, TransformedDuration
  <2>4. s.days # NoValue => s.days \in 1 .. 30
    BY <2>1, <2>2 DEF Event!withinConstraints, Event!MinDays, Event!MaxDays
  <2> HIDE DEF s, d
  <2>5. eventConfig' \in SavedEvents
    BY <1>0, <2>1, <2>2, <2>3 DEF SavedEvents, EventDetails
  <2>6. eventConfig'.start = s /\ eventConfig'.duration = d
    BY <2>1
  <2>7. Event!TypeOK'
    BY <1>0, <2>1, <2>5 DEF Event!TypeOK, SavedEvents, EventFields, EventDetails
  <2> QED BY <2>2, <2>3, <2>4, <2>6, <2>7 DEF EventInv
<1>2. CASE Event!handleReset
  <2> DEFINE f == Event!formDefaultValues
  <2>1. event' = f /\ eventConfig' = [start |-> f.start, duration |-> f.duration, details |-> f.details, timeZone |-> NoValue]
    BY <1>2 DEF Event!handleReset
  <2>2. f \in EventFields /\ f.start \in Event!Starts /\ f.duration \in Event!Durations /\ f.details = NoDetails
    BY DefaultEvent DEF EventFields
  <2>3. /\ Event!transformStart(f.start) = f.start /\ Event!transformDuration(f.duration) = f.duration
        /\ f.start.days = NoValue
    BY DefaultEvent
  <2> HIDE DEF f
  <2>4. eventConfig' \in SavedEvents /\ eventConfig'.start = f.start /\ eventConfig'.duration = f.duration
    BY <2>1, <2>2 DEF SavedEvents
  <2>5. Event!TypeOK'
    BY <2>1, <2>2, <2>4 DEF Event!TypeOK, SavedEvents, EventFields, EventDetails
  <2> QED BY <2>3, <2>4, <2>5 DEF EventInv
<1>3. CASE Event!Reopen
  <2>1. event' = Event!defaultValues(eventConfig) /\ eventConfig' = eventConfig
    BY <1>3 DEF Event!Reopen
  <2>2. Event!defaultValues(eventConfig) \in EventFields
    BY <1>0, DefaultEvent DEF Event!defaultValues, EventFields, SavedEvents, EventDetails
  <2> QED BY <2>1, <2>2, EventFieldStep
<1>4. CASE Event!SwitchAllDay
  <2> DEFINE d == [event.duration EXCEPT !.isAllDay = ~@]
  <2>1. d = [isAllDay |-> ~event.duration.isAllDay, minutes |-> event.duration.minutes]
    BY <1>d
  <2>2. d \in Event!Durations
    BY <1>d, <2>1 DEF Event!Durations
  <2>3. Event!handleDurationChange(d)
    BY <1>4 DEF Event!SwitchAllDay
  <2> QED BY <1>b, <2>2, <2>3
<1>5. ASSUME NEW type \in Event!StartType, Event!SelectType(type) PROVE EventInv'
  <2> DEFINE s == [event.start EXCEPT !.type = type]
  <2>1. s \in Event!Starts
    BY <1>c DEF Event!Starts
  <2>2. Event!handleStartChange(s)
    BY <1>5 DEF Event!SelectType
  <2> QED BY <1>a, <2>1, <2>2
<1>6. ASSUME NEW n \in DelayInputs \cup {1}, Event!TypeDays(n) PROVE EventInv'
  <2> DEFINE s == [event.start EXCEPT !.days = n]
  <2>1. s \in Event!Starts
    BY <1>c DEF Event!Starts
  <2>2. Event!handleStartChange(s)
    BY <1>6 DEF Event!TypeDays
  <2> QED BY <1>a, <2>1, <2>2
<1>7. ASSUME NEW t \in EventTimes \cup {NoValue}, Event!TypeTime(t) PROVE EventInv'
  <2> DEFINE s == [event.start EXCEPT !.time = t]
  <2>1. s \in Event!Starts
    BY <1>c DEF Event!Starts
  <2>2. Event!handleStartChange(s)
    BY <1>7 DEF Event!TypeTime
  <2> QED BY <1>a, <2>1, <2>2
<1>8. ASSUME NEW n \in EventLengths, Event!SelectMinutes(n) PROVE EventInv'
  <2> DEFINE d == [isAllDay |-> FALSE, minutes |-> n]
  <2>1. d \in Event!Durations
    BY DEF Event!Durations
  <2>2. Event!handleDurationChange(d)
    BY <1>8 DEF Event!SelectMinutes
  <2> QED BY <1>b, <2>1, <2>2
<1>9. ASSUME NEW d \in Details \cup {"tooLong"}, Event!EnterDetails(d) PROVE EventInv'
  <2>1. event' = [start |-> event.start, duration |-> event.duration, details |-> d] /\ eventConfig' = eventConfig
    BY <1>0, <1>9 DEF Event!EnterDetails
  <2>2. event' \in EventFields
    BY <1>0, <2>1 DEF EventFields, EventDetails
  <2> QED BY <2>1, <2>2, EventFieldStep
<1>10. CASE UNCHANGED eventVars
  BY <1>0, <1>10, EventFieldStep DEF eventVars
<1> QED BY <1>1, <1>2, <1>3, <1>4, <1>5, <1>6, <1>7, <1>8, <1>9, <1>10 DEF Event!Next

LEMMA EventInvImplies ==
  ASSUME EventInv
  PROVE  Event!TypeOK /\ Event!DelayInRange /\ Event!ReopenKeepsEvent /\ Event!PreviewIsTrueWhenSet
<1>1. Event!TypeOK /\ Event!DelayInRange
  BY DEF EventInv, Event!DelayInRange, Event!MinDays, Event!MaxDays
<1>2. Event!ReopenKeepsEvent
  <2> SUFFICES ASSUME eventConfig # NoValue
               PROVE  /\ Event!withinConstraints(Event!defaultValues(eventConfig))
                      /\ Event!calendarFormSchema(Event!defaultValues(eventConfig))
                      /\ Event!configWithTimezone(Event!defaultValues(eventConfig))
                           = [eventConfig EXCEPT !.timeZone = "local"]
    BY DEF Event!ReopenKeepsEvent
  <2>1. /\ eventConfig.details \in Details \cup {NoDetails}
        /\ eventConfig = [start |-> eventConfig.start, duration |-> eventConfig.duration,
                          details |-> eventConfig.details, timeZone |-> eventConfig.timeZone]
    BY EventTypes DEF EventInv, SavedEvents
  <2>2. Event!defaultValues(eventConfig)
          = [start |-> eventConfig.start, duration |-> eventConfig.duration, details |-> eventConfig.details]
    BY DEF Event!defaultValues
  <2>3. Event!withinConstraints(Event!defaultValues(eventConfig))
    BY <2>2 DEF EventInv, Event!withinConstraints, Event!MinDays, Event!MaxDays
  <2>4. Event!calendarFormSchema(Event!defaultValues(eventConfig))
    BY <2>1, <2>2, EventAssumption DEF Event!calendarFormSchema
  <2>5. Event!configWithTimezone(Event!defaultValues(eventConfig))
          = [start |-> eventConfig.start, duration |-> eventConfig.duration,
             details |-> eventConfig.details, timeZone |-> "local"]
    BY <2>2 DEF EventInv, Event!configWithTimezone
  <2> QED BY <2>1, <2>3, <2>4, <2>5
<1>3. Event!PreviewIsTrueWhenSet
  <2> DEFINE s == event.start
  <2>1. s \in Event!Starts
    BY EventTypes DEF EventInv, EventFields
  <2>2. Event!configWithTimezone(event).start = Event!transformStart(s)
    BY DEF Event!configWithTimezone
  <2>3. CASE s.type = "custom" /\ NoValue \notin {s.days, s.time}
    <3>1. Event!transformStart(s) = s
      BY <2>1, <2>3, TransformedStart
    <3>2. Event!calculateEventTimes(s) = Event!shownStart(s)
      BY <2>3 DEF Event!calculateEventTimes, Event!shownStart
    <3> QED BY <2>2, <3>1, <3>2 DEF Event!PreviewIsTrueWhenSet
  <2>4. CASE s = Event!formDefaultValues.start
    <3>1. Event!transformStart(s) = s
      BY <2>4, DefaultEvent
    <3>2. s = [type |-> "immediate", days |-> NoValue, time |-> NoValue]
      BY <2>4 DEF Event!formDefaultValues
    <3>3. Event!calculateEventTimes(s) = Event!shownStart(s)
      BY <3>2 DEF Event!calculateEventTimes, Event!shownStart
    <3> QED BY <2>2, <3>1, <3>3 DEF Event!PreviewIsTrueWhenSet
  <2> QED BY <2>3, <2>4 DEF Event!PreviewIsTrueWhenSet
<1> QED BY <1>1, <1>2, <1>3

-----------------------------------------------------------------------------
(* The schedule: dates and times of day.                                   *)

TimesOfDay == 0 .. Schedule!perDay - 1

LEMMA OfDay == \A m : m \in TimesOfDay <=> m \in Nat /\ m < 1440
<1>1. Schedule!perDay = 1440
  BY DEF Schedule!perDay
<1>2. ASSUME NEW m, m \in TimesOfDay PROVE m \in Nat /\ m < 1440
  BY <1>1, <1>2 DEF TimesOfDay
<1>3. ASSUME NEW m, m \in Nat, m < 1440 PROVE m \in TimesOfDay
  BY <1>1, <1>3 DEF TimesOfDay
<1> QED BY <1>2, <1>3

\* A day and a time of day are an instant, and an instant is both.
LEMMA DateAndTime ==
  /\ \A t \in Nat : /\ Schedule!Day(t) \in Nat /\ Schedule!TimeOfDay(t) \in TimesOfDay
                    /\ Schedule!combineDateAndTime(Schedule!Day(t), Schedule!TimeOfDay(t)) = t
  /\ \A date \in Nat, time \in TimesOfDay :
       /\ Schedule!combineDateAndTime(date, time) = date * 1440 + time
       /\ Schedule!combineDateAndTime(date, time) \in Nat
       /\ Schedule!Day(Schedule!combineDateAndTime(date, time)) = date
       /\ Schedule!TimeOfDay(Schedule!combineDateAndTime(date, time)) = time
<1>1. Schedule!perDay = 1440
  BY DEF Schedule!perDay
<1>2. ASSUME NEW t \in Nat
      PROVE  /\ Schedule!Day(t) \in Nat /\ Schedule!TimeOfDay(t) \in TimesOfDay
             /\ Schedule!combineDateAndTime(Schedule!Day(t), Schedule!TimeOfDay(t)) = t
  <2>1. t \div 1440 \in Nat
    OBVIOUS
  <2>2. t % 1440 \in TimesOfDay
    BY OfDay
  <2>3. (t \div 1440) * 1440 + (t % 1440) = t
    OBVIOUS
  <2> QED BY <1>1, <2>1, <2>2, <2>3 DEF Schedule!Day, Schedule!TimeOfDay, Schedule!combineDateAndTime
<1>3. ASSUME NEW date \in Nat, NEW time \in TimesOfDay
      PROVE  /\ Schedule!combineDateAndTime(date, time) = date * 1440 + time
             /\ Schedule!combineDateAndTime(date, time) \in Nat
             /\ Schedule!Day(Schedule!combineDateAndTime(date, time)) = date
             /\ Schedule!TimeOfDay(Schedule!combineDateAndTime(date, time)) = time
  <2>1. /\ date * 1440 + time \in Nat /\ (date * 1440 + time) \div 1440 = date
        /\ (date * 1440 + time) % 1440 = time
    BY OfDay
  <2> QED BY <1>1, <2>1 DEF Schedule!Day, Schedule!TimeOfDay, Schedule!combineDateAndTime
<1> QED BY <1>2, <1>3

LEMMA InstantOf ==
  ASSUME NEW date \in Nat, NEW time \in TimesOfDay
  PROVE  /\ Schedule!combineDateAndTime(date, time) = date * 1440 + time
         /\ Schedule!combineDateAndTime(date, time) \in Nat
         /\ Schedule!Day(Schedule!combineDateAndTime(date, time)) = date
         /\ Schedule!TimeOfDay(Schedule!combineDateAndTime(date, time)) = time
BY DateAndTime

LEMMA HalfHours == \A m \in TimesOfDay : Schedule!getNextHalfHour(m) \in TimesOfDay
BY OfDay DEF Schedule!getNextHalfHour

\* The clock of twelve hours loses nothing.
LEMMA TwelveHours ==
  ASSUME NEW time \in TimesOfDay
  PROVE  /\ Schedule!dateTo12HourParts(time) \in [hour : 1 .. 12, minute : 0 .. 59, period : {"AM", "PM"}]
         /\ Schedule!from12HourParts(Schedule!dateTo12HourParts(time)) = time
<1> DEFINE h == time \div 60
<1> DEFINE m == time % 60
<1>1. h \in 0 .. 23 /\ m \in 0 .. 59 /\ h * 60 + m = time
  <2>1. time \in Nat /\ time < 1440
    BY OfDay
  <2> QED BY <2>1
<1> DEFINE hour == IF h % 12 = 0 THEN 12 ELSE h % 12
<1> DEFINE period == IF h >= 12 THEN "PM" ELSE "AM"
<1>2. Schedule!dateTo12HourParts(time) = [hour |-> hour, minute |-> m, period |-> period]
  BY DEF Schedule!dateTo12HourParts
<1>3. hour \in 1 .. 12 /\ period \in {"AM", "PM"}
  BY <1>1
<1>4. /\ h < 12 => period = "AM" /\ (hour = 12 <=> h = 0) /\ (h # 0 => hour = h)
      /\ h >= 12 => period = "PM" /\ (hour = 12 <=> h = 12) /\ (h # 12 => hour + 12 = h)
  BY <1>1
<1> HIDE DEF h, m, hour, period
<1>5. Schedule!from12HourParts([hour |-> hour, minute |-> m, period |-> period]) = h * 60 + m
  BY <1>1, <1>3, <1>4 DEF Schedule!from12HourParts
<1> QED BY <1>1, <1>2, <1>3, <1>5

LEMMA FromTwelveHours ==
  ASSUME NEW parts \in [hour : 1 .. 12, minute : 0 .. 59, period : {"AM", "PM"}]
  PROVE  Schedule!from12HourParts(parts) \in TimesOfDay
BY OfDay DEF Schedule!from12HourParts

-----------------------------------------------------------------------------
(* The months of the year.                                                 *)

LEMMA MonthLengths ==
  /\ DOMAIN Schedule!monthLength = 1 .. 12
  /\ \A m \in 1 .. 12 : Schedule!monthLength[m] \in 28 .. 31
BY DEF Schedule!monthLength

LEMMA MonthStarts ==
  /\ Schedule!monthStart[1] = 0
  /\ \A m \in 2 .. 12 : Schedule!monthStart[m] = Schedule!monthStart[m - 1] + Schedule!monthLength[m - 1]
<1> DEFINE Sol(g) == g = [m \in 1 .. 12 |-> IF m = 1 THEN 0 ELSE g[m - 1] + Schedule!monthLength[m - 1]]
<1> DEFINE starts == <<0, 31, 59, 90, 120, 151, 181, 212, 243, 273, 304, 334>>
<1>1. Schedule!monthStart = CHOOSE g : Sol(g)
  BY DEF Schedule!monthStart
<1>2. \E g : Sol(g)
  <2> DEFINE h == [m \in 1 .. 12 |-> starts[m]]
  <2>1. \A m \in 1 .. 12 : h[m] = IF m = 1 THEN 0 ELSE h[m - 1] + Schedule!monthLength[m - 1]
    BY DEF Schedule!monthLength
  <2>2. Sol(h)
    BY <2>1
  <2> QED BY <2>2
<1>3. Sol(Schedule!monthStart)
  <2> HIDE DEF Sol
  <2> QED BY <1>1, <1>2, Zenon
<1>4. Schedule!monthStart[1] = 0
  BY <1>3
<1>5. ASSUME NEW m \in 2 .. 12
      PROVE  Schedule!monthStart[m] = Schedule!monthStart[m - 1] + Schedule!monthLength[m - 1]
  <2>1. m \in 1 .. 12 /\ m # 1
    OBVIOUS
  <2> QED BY <1>3, <2>1
<1> QED BY <1>4, <1>5

LEMMA MonthTable ==
  /\ Schedule!monthStart[1] = 0 /\ Schedule!monthStart[2] = 31 /\ Schedule!monthStart[3] = 59
  /\ Schedule!monthStart[4] = 90 /\ Schedule!monthStart[5] = 120 /\ Schedule!monthStart[6] = 151
  /\ Schedule!monthStart[7] = 181 /\ Schedule!monthStart[8] = 212 /\ Schedule!monthStart[9] = 243
  /\ Schedule!monthStart[10] = 273 /\ Schedule!monthStart[11] = 304 /\ Schedule!monthStart[12] = 334
<1>1. Schedule!monthLength = <<31, 28, 31, 30, 31, 30, 31, 31, 30, 31, 30, 31>>
  BY DEF Schedule!monthLength
<1>2. Schedule!monthStart[2] = 31 /\ Schedule!monthStart[3] = 59 /\ Schedule!monthStart[4] = 90
  BY <1>1, MonthStarts
<1>3. Schedule!monthStart[5] = 120 /\ Schedule!monthStart[6] = 151 /\ Schedule!monthStart[7] = 181
  BY <1>1, <1>2, MonthStarts
<1>4. Schedule!monthStart[8] = 212 /\ Schedule!monthStart[9] = 243 /\ Schedule!monthStart[10] = 273
  BY <1>1, <1>3, MonthStarts
<1>5. Schedule!monthStart[11] = 304 /\ Schedule!monthStart[12] = 334
  BY <1>1, <1>4, MonthStarts
<1> QED BY <1>2, <1>3, <1>4, <1>5, MonthStarts

\* A month is over when the next begins.
LEMMA MonthsInOrder ==
  /\ \A m \in 1 .. 12 : Schedule!monthStart[m] \in Nat
  /\ \A m, n \in 1 .. 12 : m < n => Schedule!monthStart[m] + Schedule!monthLength[m] <= Schedule!monthStart[n]
<1>1. \A m \in 1 .. 12 : Schedule!monthStart[m] \in Nat
  BY MonthTable
<1>2. ASSUME NEW m \in 1 .. 12, NEW n \in 1 .. 12, m < n
      PROVE  Schedule!monthStart[m + 1] <= Schedule!monthStart[n]
  BY <1>2, MonthTable
<1>3. ASSUME NEW m \in 1 .. 11
      PROVE  Schedule!monthStart[m] + Schedule!monthLength[m] = Schedule!monthStart[m + 1]
  <2>1. m + 1 \in 2 .. 12 /\ (m + 1) - 1 = m
    OBVIOUS
  <2> QED BY <2>1, MonthStarts
<1>4. ASSUME NEW m \in 1 .. 12, NEW n \in 1 .. 12, m < n
      PROVE  Schedule!monthStart[m] + Schedule!monthLength[m] <= Schedule!monthStart[n]
  <2>1. m \in 1 .. 11
    BY <1>4
  <2> QED BY <1>2, <1>3, <1>4, <2>1
<1> QED BY <1>1, <1>4

\* The month and the day of the month of a day that is given by them.
LEMMA MonthOf ==
  ASSUME NEW m \in 1 .. 12, NEW d \in 1 .. 31, d <= Schedule!monthLength[m]
  PROVE  /\ Schedule!Month(Schedule!monthStart[m] + d - 1) = m
         /\ Schedule!DayOfMonth(Schedule!monthStart[m] + d - 1) = d
<1> DEFINE day == Schedule!monthStart[m] + d - 1
<1> DEFINE In(n) == Schedule!monthStart[n] <= day /\ day < Schedule!monthStart[n] + Schedule!monthLength[n]
<1>1. Schedule!monthStart[m] \in Nat /\ Schedule!monthLength[m] \in Nat
  BY MonthsInOrder, MonthLengths
<1>2. In(m)
  BY <1>1
<1>3. ASSUME NEW n \in 1 .. 12, In(n) PROVE n = m
  <2>1. Schedule!monthStart[n] \in Nat /\ Schedule!monthLength[n] \in Nat
    BY MonthsInOrder, MonthLengths
  <2>2. ~(n < m)
    BY <1>1, <1>2, <1>3, <2>1, MonthsInOrder
  <2>3. ~(m < n)
    BY <1>1, <1>2, <1>3, <2>1, MonthsInOrder
  <2> QED BY <2>2, <2>3
<1>4. Schedule!Month(day) = CHOOSE n \in 1 .. 12 : In(n)
  BY DEF Schedule!Month
<1>5. Schedule!Month(day) = m
  <2> HIDE DEF In, day
  <2> QED BY <1>2, <1>3, <1>4
<1> QED BY <1>1, <1>5 DEF Schedule!DayOfMonth

\* Every day before November has a month, with two months after it.
LEMMA DaysHaveMonths ==
  ASSUME NEW day \in Nat, day < Schedule!monthStart[11]
  PROVE  \E m \in 1 .. 10, d \in 1 .. 31 : d <= Schedule!monthLength[m] /\ day = Schedule!monthStart[m] + d - 1
<1>1. day < 304
  BY MonthTable
<1>2. \E m \in 1 .. 10 : Schedule!monthStart[m] <= day /\ day < Schedule!monthStart[m + 1]
  BY <1>1, MonthTable
<1>3. PICK m \in 1 .. 10 : Schedule!monthStart[m] <= day /\ day < Schedule!monthStart[m + 1]
  BY <1>2
<1>4. Schedule!monthStart[m + 1] = Schedule!monthStart[m] + Schedule!monthLength[m]
  <2>1. m + 1 \in 2 .. 12 /\ (m + 1) - 1 = m
    OBVIOUS
  <2> QED BY <2>1, MonthStarts
<1>5. Schedule!monthStart[m] \in Nat /\ Schedule!monthLength[m] \in 28 .. 31
  BY MonthsInOrder, MonthLengths
<1> DEFINE d == day - Schedule!monthStart[m] + 1
<1>6. d \in 1 .. 31 /\ d <= Schedule!monthLength[m] /\ day = Schedule!monthStart[m] + d - 1
  BY <1>3, <1>4, <1>5
<1> QED BY <1>6

\* For a day that every month has, date-fns and carbon both keep the day of the month.
LEMMA MonthsAgree ==
  ASSUME NEW day \in Nat, day < Schedule!monthStart[11], Schedule!DayOfMonth(day) <= 28
  PROVE  \E m \in 1 .. 10, d \in 1 .. 31 :
           /\ Schedule!Month(day) = m /\ day = Schedule!monthStart[m] + d - 1
           /\ Schedule!addMonths(day, 0) = day
           /\ Schedule!addMonths(day, 1) = Schedule!monthStart[m + 1] + d - 1
           /\ Schedule!addMonths(day, 2) = Schedule!monthStart[m + 2] + d - 1
           /\ Schedule!AddMonth(day) = Schedule!monthStart[m + 1] + d - 1
           /\ Schedule!AddMonth(Schedule!AddMonth(day)) = Schedule!monthStart[m + 2] + d - 1
           /\ Schedule!monthStart[m] \in Nat /\ Schedule!monthStart[m + 1] \in Nat
           /\ Schedule!monthStart[m + 2] \in Nat
<1>1. PICK m \in 1 .. 10, d \in 1 .. 31 : d <= Schedule!monthLength[m] /\ day = Schedule!monthStart[m] + d - 1
  BY DaysHaveMonths
<1>2. Schedule!Month(day) = m /\ Schedule!DayOfMonth(day) = d
  BY <1>1, MonthOf
<1>3. d <= 28
  BY <1>2
<1>4. \A k \in 1 .. 12 : /\ Schedule!monthLength[k] \in 28 .. 31 /\ Schedule!monthStart[k] \in Nat
                        /\ d <= Schedule!monthLength[k]
  BY <1>3, MonthLengths, MonthsInOrder
<1>5. m + 1 \in 1 .. 12 /\ m + 2 \in 1 .. 12 /\ m + 0 = m /\ m + 0 \in 1 .. 12 /\ (m + 1) + 1 = m + 2
  OBVIOUS
<1>6. \A n \in {0, 1, 2} : Schedule!addMonths(day, n) = Schedule!monthStart[m + n] + d - 1
  BY <1>2, <1>4, <1>5 DEF Schedule!addMonths
<1>7. Schedule!AddMonth(day) = Schedule!monthStart[m + 1] + d - 1
  BY <1>2 DEF Schedule!AddMonth
<1>8. Schedule!Month(Schedule!AddMonth(day)) = m + 1 /\ Schedule!DayOfMonth(Schedule!AddMonth(day)) = d
  BY <1>4, <1>5, <1>7, MonthOf
<1>9. Schedule!AddMonth(Schedule!AddMonth(day)) = Schedule!monthStart[m + 2] + d - 1
  BY <1>5, <1>8 DEF Schedule!AddMonth
<1>10. /\ Schedule!monthStart[m] \in Nat /\ Schedule!monthStart[m + 1] \in Nat
       /\ Schedule!monthStart[m + 2] \in Nat
  BY <1>4, <1>5
<1>11. Schedule!addMonths(day, 0) = day
  BY <1>1, <1>5, <1>6
<1> QED BY <1>1, <1>2, <1>6, <1>7, <1>9, <1>10, <1>11

-----------------------------------------------------------------------------
(* The schedule: every date in the form and in the node has its months.    *)

ScheduleFields == [scheduleType : Schedule!ScheduleType, scheduledDate : Nat \cup {NoValue},
                   scheduledTime : TimesOfDay]
SavedSchedules == [scheduleType : Schedule!ScheduleType, scheduledDate : Nat]

InYear(day) == 0 < day /\ day + 1 < Schedule!monthStart[11]

\* What is saved is an instant in UTC, on a day of the year in the local time.
ScheduleInv ==
  /\ now \in Instants /\ rendered \in Instants
  /\ schedule \in ScheduleFields /\ shownType \in Schedule!ScheduleType
  /\ today \in Nat /\ isOpen \in BOOLEAN
  /\ schedule.scheduledDate # NoValue => InYear(schedule.scheduledDate)
  /\ scheduleConfig # NoValue =>
       /\ scheduleConfig \in SavedSchedules
       /\ Schedule!toLocal(scheduleConfig.scheduledDate) \in Nat
       /\ InYear(Schedule!Day(Schedule!toLocal(scheduleConfig.scheduledDate)))

\* An instant of the year in the local time, and in UTC.
LEMMA Zones ==
  ASSUME NEW date \in Nat, NEW time \in TimesOfDay, InYear(date)
  PROVE  LET t == Schedule!combineDateAndTime(date, time)
         IN /\ t \in Nat /\ Schedule!toUTC(t) \in Nat /\ Schedule!toUTC(t) = t - Zone
            /\ Schedule!toLocal(Schedule!toUTC(t)) = t
            /\ Schedule!Day(Schedule!toUTC(t)) \in Nat
            /\ Schedule!Day(Schedule!toUTC(t)) <= date + 1
            /\ Schedule!Day(Schedule!toUTC(t)) < Schedule!monthStart[11]
<1> DEFINE t == Schedule!combineDateAndTime(date, time)
<1>1. Zone \in Int /\ -1440 < Zone /\ Zone < 1440
  BY ScheduleAssumption DEF Schedule!perDay
<1>2. t \in Nat /\ t = date * 1440 + time /\ time \in Nat /\ time < 1440
  BY DateAndTime, OfDay
<1>3. Schedule!toUTC(t) = t - Zone /\ Schedule!toLocal(t - Zone) = (t - Zone) + Zone
  BY DEF Schedule!toUTC, Schedule!toLocal
<1>4. Schedule!Day(Schedule!toUTC(t)) = (t - Zone) \div 1440
  BY <1>3 DEF Schedule!Day, Schedule!perDay
<1>5. 0 < date /\ date + 1 < Schedule!monthStart[11]
  BY DEF InYear
<1> HIDE DEF t
<1>6. t - Zone \in Nat /\ (t - Zone) + Zone = t
  BY <1>1, <1>2, <1>5
<1>7. (t - Zone) \div 1440 \in Nat /\ (t - Zone) \div 1440 <= date + 1
  BY <1>1, <1>2, <1>6
<1>8. Schedule!monthStart[11] \in Nat
  BY MonthTable
<1>9. (t - Zone) \div 1440 < Schedule!monthStart[11]
  BY <1>5, <1>7, <1>8
<1> QED BY <1>2, <1>3, <1>4, <1>6, <1>7, <1>9 DEF t

\* The form of a new node.
LEMMA DefaultSchedule ==
  ASSUME NEW t \in Instants
  PROVE  /\ t \in Nat
         /\ Schedule!defaultValues(t) \in ScheduleFields /\ Schedule!defaultValues(t).scheduleType = "once"
         /\ InYear(Schedule!defaultValues(t).scheduledDate)
         /\ Schedule!Day(t) \in Nat
<1>1. t \in Nat /\ InYear(Schedule!Day(t))
  BY ScheduleAssumption DEF InYear
<1>2. Schedule!Day(t) \in Nat /\ Schedule!getNextHalfHour(Schedule!TimeOfDay(t)) \in TimesOfDay
  BY <1>1, DateAndTime, HalfHours
<1> QED BY <1>1, <1>2 DEF Schedule!defaultValues, ScheduleFields, Schedule!ScheduleType

LEMMA ScheduleInit == Schedule!Init => ScheduleInv
<1> SUFFICES ASSUME Schedule!Init PROVE ScheduleInv
  OBVIOUS
<1>1. /\ now \in Instants /\ schedule = Schedule!defaultValues(now) /\ shownType = "once"
      /\ today = Schedule!Day(now) /\ isOpen = FALSE /\ rendered = now /\ scheduleConfig = NoValue
  BY DEF Schedule!Init
<1> QED BY <1>1, DefaultSchedule DEF ScheduleInv, Schedule!ScheduleType

\* A step that changes the fields and not the node.
LEMMA ScheduleFieldStep ==
  ASSUME ScheduleInv, scheduleConfig' = scheduleConfig,
         now' \in Instants, rendered' \in Instants, schedule' \in ScheduleFields,
         shownType' \in Schedule!ScheduleType, today' \in Nat, isOpen' \in BOOLEAN,
         schedule'.scheduledDate # NoValue => InYear(schedule'.scheduledDate)
  PROVE  ScheduleInv'
<1>1. ASSUME scheduleConfig' # NoValue
      PROVE  /\ scheduleConfig' \in SavedSchedules
             /\ Schedule!toLocal(scheduleConfig'.scheduledDate) \in Nat
             /\ InYear(Schedule!Day(Schedule!toLocal(scheduleConfig'.scheduledDate)))
  BY <1>1 DEF ScheduleInv
<1> QED BY <1>1 DEF ScheduleInv, InYear, ScheduleFields, SavedSchedules

LEMMA ScheduleNext == ScheduleInv /\ [Schedule!Next]_scheduleVars => ScheduleInv'
<1> SUFFICES ASSUME ScheduleInv, [Schedule!Next]_scheduleVars PROVE ScheduleInv'
  OBVIOUS
<1>0. /\ now \in Instants /\ rendered \in Instants /\ schedule \in ScheduleFields
      /\ shownType \in Schedule!ScheduleType /\ today \in Nat /\ isOpen \in BOOLEAN
      /\ schedule.scheduledDate # NoValue => InYear(schedule.scheduledDate)
      /\ Schedule!Day(now) \in Nat
  BY DefaultSchedule DEF ScheduleInv
<1>a. /\ schedule.scheduleType \in Schedule!ScheduleType /\ schedule.scheduledDate \in Nat \cup {NoValue}
      /\ schedule.scheduledTime \in TimesOfDay
      /\ schedule = [scheduleType |-> schedule.scheduleType, scheduledDate |-> schedule.scheduledDate,
                     scheduledTime |-> schedule.scheduledTime]
  BY <1>0 DEF ScheduleFields
<1>1. CASE Schedule!Tick
  BY <1>0, <1>1, ScheduleFieldStep DEF Schedule!Tick
<1>2. CASE Schedule!Render
  BY <1>0, <1>2, ScheduleFieldStep DEF Schedule!Render
<1>3. CASE Schedule!Reopen
  <2>1. /\ schedule' = IF scheduleConfig = NoValue THEN Schedule!defaultValues(now)
                       ELSE Schedule!configValues(scheduleConfig)
        /\ shownType' = schedule'.scheduleType /\ today' = Schedule!Day(now) /\ rendered' = now
        /\ isOpen' = FALSE /\ now' = now /\ scheduleConfig' = scheduleConfig
    BY <1>3 DEF Schedule!Reopen
  <2>2. schedule' \in ScheduleFields /\ InYear(schedule'.scheduledDate)
    <3>1. CASE scheduleConfig = NoValue
      BY <1>0, <2>1, <3>1, DefaultSchedule
    <3>2. CASE scheduleConfig # NoValue
      <4> DEFINE local == Schedule!toLocal(scheduleConfig.scheduledDate)
      <4>1. /\ scheduleConfig.scheduleType \in Schedule!ScheduleType /\ local \in Nat
            /\ InYear(Schedule!Day(local))
        BY <3>2 DEF ScheduleInv, SavedSchedules
      <4>2. Schedule!Day(local) \in Nat /\ Schedule!TimeOfDay(local) \in TimesOfDay
        BY <4>1, DateAndTime
      <4> HIDE DEF local
      <4>3. schedule' = [scheduleType |-> scheduleConfig.scheduleType, scheduledDate |-> Schedule!Day(local),
                         scheduledTime |-> Schedule!TimeOfDay(local)]
        BY <2>1, <3>2 DEF Schedule!configValues, local
      <4> QED BY <4>1, <4>2, <4>3 DEF ScheduleFields
    <3> QED BY <3>1, <3>2
  <2>3. shownType' \in Schedule!ScheduleType
    BY <2>1, <2>2 DEF ScheduleFields
  <2> QED BY <1>0, <2>1, <2>2, <2>3, ScheduleFieldStep
<1>4. ASSUME NEW type \in Schedule!ScheduleType, Schedule!SelectType(type) PROVE ScheduleInv'
  <2>1. /\ schedule' = [scheduleType |-> type, scheduledDate |-> schedule.scheduledDate,
                        scheduledTime |-> schedule.scheduledTime]
        /\ shownType' = type /\ UNCHANGED <<now, today, isOpen, rendered, scheduleConfig>>
    BY <1>4, <1>a DEF Schedule!SelectType
  <2>2. schedule' \in ScheduleFields /\ schedule'.scheduledDate = schedule.scheduledDate
    BY <1>a, <2>1 DEF ScheduleFields
  <2> QED BY <1>0, <2>1, <2>2, ScheduleFieldStep
<1>5. ASSUME NEW day \in Days, Schedule!SelectDate(day) PROVE ScheduleInv'
  <2> DEFINE date == IF schedule.scheduledDate = day THEN NoValue ELSE day
  <2>1. /\ schedule' = [scheduleType |-> schedule.scheduleType, scheduledDate |-> date,
                        scheduledTime |-> schedule.scheduledTime]
        /\ rendered' = now /\ UNCHANGED <<now, shownType, today, isOpen, scheduleConfig>>
    BY <1>5, <1>a DEF Schedule!SelectDate
  <2>2. date \in Nat \cup {NoValue} /\ (date # NoValue => InYear(date))
    BY ScheduleAssumption DEF InYear
  <2> HIDE DEF date
  <2>3. schedule' \in ScheduleFields /\ schedule'.scheduledDate = date
    BY <1>a, <2>1, <2>2 DEF ScheduleFields
  <2> QED BY <1>0, <2>1, <2>2, <2>3, ScheduleFieldStep
<1>6. CASE Schedule!OpenPicker
  BY <1>0, <1>6, ScheduleFieldStep DEF Schedule!OpenPicker
<1>7. CASE Schedule!handleDone
  BY <1>0, <1>7, ScheduleFieldStep DEF Schedule!handleDone
<1>8. ASSUME NEW parts \in Schedule!PartChanges(Hours, Minutes), Schedule!handleTimePartChange(parts)
      PROVE  ScheduleInv'
  <2> DEFINE old == Schedule!dateTo12HourParts(schedule.scheduledTime)
  <2> DEFINE Parts == [hour : 1 .. 12, minute : 0 .. 59, period : {"AM", "PM"}]
  <2>1. old \in Parts
    BY <1>a, TwelveHours
  <2>2. parts \in {[old EXCEPT !.hour = h] : h \in Hours} \cup {[old EXCEPT !.minute = m] : m \in Minutes}
                  \cup {[old EXCEPT !.period = p] : p \in {"AM", "PM"}}
    BY DEF Schedule!PartChanges
  <2>3. parts \in Parts
    <3> HIDE DEF old
    <3>1. ASSUME NEW h \in Hours, parts = [old EXCEPT !.hour = h] PROVE parts \in Parts
      BY <2>1, <3>1, ScheduleAssumption
    <3>2. ASSUME NEW m \in Minutes, parts = [old EXCEPT !.minute = m] PROVE parts \in Parts
      BY <2>1, <3>2, ScheduleAssumption
    <3>3. ASSUME NEW p \in {"AM", "PM"}, parts = [old EXCEPT !.period = p] PROVE parts \in Parts
      BY <2>1, <3>3
    <3> HIDE DEF Parts
    <3> QED BY <2>2, <3>1, <3>2, <3>3
  <2> DEFINE time == Schedule!from12HourParts(parts)
  <2>4. time \in TimesOfDay
    BY <2>3, FromTwelveHours
  <2> HIDE DEF time
  <2>5. /\ schedule' = [scheduleType |-> schedule.scheduleType, scheduledDate |-> schedule.scheduledDate,
                        scheduledTime |-> time]
        /\ rendered' = now /\ UNCHANGED <<now, shownType, today, isOpen, scheduleConfig>>
    BY <1>8, <1>a DEF Schedule!handleTimePartChange, time
  <2>6. schedule' \in ScheduleFields /\ schedule'.scheduledDate = schedule.scheduledDate
    BY <1>a, <2>4, <2>5 DEF ScheduleFields
  <2> QED BY <1>0, <2>5, <2>6, ScheduleFieldStep
<1>9. CASE Schedule!onSubmit
  <2> DEFINE local == Schedule!combineDateAndTime(schedule.scheduledDate, schedule.scheduledTime)
  <2> DEFINE date == Schedule!toUTC(local)
  <2>1. /\ schedule.scheduledDate # NoValue
        /\ scheduleConfig' = [scheduleType |-> schedule.scheduleType, scheduledDate |-> date]
        /\ UNCHANGED <<now, schedule, shownType, today, isOpen, rendered>>
    BY <1>9 DEF Schedule!onSubmit, Schedule!scheduleFormSchema
  <2>2. schedule.scheduledDate \in Nat /\ schedule.scheduledTime \in TimesOfDay /\ InYear(schedule.scheduledDate)
    BY <1>0, <1>a, <2>1
  <2>3. date \in Nat /\ Schedule!toLocal(date) = local /\ local \in Nat
    BY <2>2, Zones
  <2>4. Schedule!Day(local) = schedule.scheduledDate
    BY <2>2, DateAndTime
  <2> HIDE DEF date, local
  <2>5. scheduleConfig' \in SavedSchedules /\ scheduleConfig'.scheduledDate = date
    BY <1>a, <2>1, <2>3 DEF SavedSchedules
  <2>6. /\ Schedule!toLocal(scheduleConfig'.scheduledDate) \in Nat
        /\ InYear(Schedule!Day(Schedule!toLocal(scheduleConfig'.scheduledDate)))
    BY <2>2, <2>3, <2>4, <2>5
  <2> QED BY <1>0, <2>1, <2>5, <2>6 DEF ScheduleInv, InYear
<1>10. CASE Schedule!handleReset
  <2>1. schedule' = Schedule!defaultValues(now) /\ rendered' = now
        /\ UNCHANGED <<now, shownType, today, isOpen, scheduleConfig>>
    BY <1>10 DEF Schedule!handleReset
  <2> QED BY <1>0, <2>1, DefaultSchedule, ScheduleFieldStep
<1>11. CASE UNCHANGED scheduleVars
  BY <1>0, <1>11, ScheduleFieldStep DEF scheduleVars
<1> QED BY <1>1, <1>2, <1>3, <1>4, <1>5, <1>6, <1>7, <1>8, <1>9, <1>10, <1>11 DEF Schedule!Next

\* Three runs agree when each does.
LEMMA ThreeRuns ==
  ASSUME NEW g, DOMAIN g = 1 .. 3, NEW a, NEW b, NEW c,
         Schedule!toUTC(g[1]) = a, Schedule!toUTC(g[2]) = b, Schedule!toUTC(g[3]) = c
  PROVE  [i \in DOMAIN g |-> Schedule!toUTC(g[i])] = <<a, b, c>>
<1> DEFINE h == [i \in 1 .. 3 |-> Schedule!toUTC(g[i])]
<1>1. h[1] = a /\ h[2] = b /\ h[3] = c
  OBVIOUS
<1> QED BY <1>1

\* The runs of a schedule of days or weeks are as far apart in UTC.
LEMMA NextRuns ==
  ASSUME NEW t \in Nat
  PROVE  /\ Schedule!CalculateNextRun("daily", t) = t + 1440
         /\ Schedule!CalculateNextRun("weekly", t) = t + 7 * 1440
<1> DEFINE day == Schedule!Day(t)
<1> DEFINE time == Schedule!TimeOfDay(t)
<1>1. day \in Nat /\ time \in TimesOfDay /\ Schedule!combineDateAndTime(day, time) = t
  BY DateAndTime
<1>2. Schedule!CalculateNextRun("daily", t) = Schedule!combineDateAndTime(day + 1, time)
      /\ Schedule!CalculateNextRun("weekly", t) = Schedule!combineDateAndTime(day + 7, time)
  BY DEF Schedule!CalculateNextRun
<1> HIDE DEF day, time
<1>3. day + 1 \in Nat /\ day + 7 \in Nat /\ time \in Nat
  BY <1>1, OfDay
<1>4. /\ day * 1440 + time = t
      /\ Schedule!combineDateAndTime(day + 1, time) = (day + 1) * 1440 + time
      /\ Schedule!combineDateAndTime(day + 7, time) = (day + 7) * 1440 + time
  <2>1. day * 1440 + time = t
    BY <1>1, InstantOf
  <2>2. Schedule!combineDateAndTime(day + 1, time) = (day + 1) * 1440 + time
    BY <1>1, <1>3, InstantOf
  <2>3. Schedule!combineDateAndTime(day + 7, time) = (day + 7) * 1440 + time
    BY <1>1, <1>3, InstantOf
  <2> QED BY <2>1, <2>2, <2>3
<1> QED BY <1>1, <1>2, <1>3, <1>4

\* The preview lists what the scheduler does, type by type.
LEMMA PreviewAgrees ==
  ASSUME NEW f \in ScheduleFields, f.scheduledDate # NoValue, InYear(f.scheduledDate),
         f.scheduleType = "monthly" =>
           Schedule!DayOfEveryMonth(Schedule!combineDateAndTime(f.scheduledDate, f.scheduledTime))
  PROVE  [i \in DOMAIN Schedule!getNextRuns(f) |-> Schedule!toUTC(Schedule!getNextRuns(f)[i])]
           = Schedule!ScheduledRuns(f)
<1> DEFINE day == f.scheduledDate
<1> DEFINE time == f.scheduledTime
<1> DEFINE At(date) == Schedule!combineDateAndTime(date, time)
<1> DEFINE u == Schedule!toUTC(At(day))
<1> DEFINE runs == Schedule!getNextRuns(f)
<1>1. /\ day \in Nat /\ time \in TimesOfDay /\ f.scheduleType \in {"once", "daily", "weekly", "monthly"}
      /\ time \in Nat /\ Zone \in Int
  BY OfDay, ScheduleAssumption DEF ScheduleFields, Schedule!ScheduleType
<1>2. u \in Nat /\ u = At(day) - Zone /\ At(day) = day * 1440 + time
      /\ Schedule!Day(u) \in Nat /\ Schedule!Day(u) < Schedule!monthStart[11]
  <2>1. At(day) = day * 1440 + time
    BY <1>1, InstantOf
  <2> QED BY <1>1, <2>1, Zones
<1>3. \A date \in Nat : Schedule!toUTC(At(date)) = date * 1440 + time - Zone
  <2> TAKE date \in Nat
  <2>1. At(date) = date * 1440 + time
    BY <1>1, InstantOf
  <2>2. date \in Nat
    OBVIOUS
  <2> QED BY <1>1, <2>1, <2>2 DEF Schedule!toUTC
<1>4. CASE f.scheduleType = "once"
  <2>1. Schedule!ScheduledRuns(f) = <<u>>
    BY <1>4 DEF Schedule!ScheduledRuns
  <2>2. runs = [i \in 1 .. 1 |-> At(day)]
    BY <1>4 DEF Schedule!getNextRuns
  <2> HIDE DEF runs, At
  <2> QED BY <2>1, <2>2 DEF runs
<1>5. CASE f.scheduleType = "daily"
  <2>1. Schedule!ScheduledRuns(f) = <<u, u + 1440, u + 1440 + 1440>>
    <3>1. Schedule!CalculateNextRun("daily", u) = u + 1440
          /\ Schedule!CalculateNextRun("daily", u + 1440) = u + 1440 + 1440
      BY <1>2, NextRuns
    <3> QED BY <1>5, <3>1 DEF Schedule!ScheduledRuns
  <2>2. runs = [i \in 1 .. 3 |-> At(day + i - 1)]
    BY <1>5 DEF Schedule!getNextRuns
  <2> HIDE DEF runs, At, u
  <2>3. DOMAIN runs = 1 .. 3 /\ runs[1] = At(day) /\ runs[2] = At(day + 1) /\ runs[3] = At(day + 2)
    <3>1. day + 1 - 1 = day /\ day + 2 - 1 = day + 1 /\ day + 3 - 1 = day + 2
      BY <1>1
    <3> QED BY <2>2, <3>1
  <2>4. day + 1 \in Nat /\ day + 2 \in Nat
    BY <1>1
  <2>5. /\ Schedule!toUTC(runs[1]) = u /\ Schedule!toUTC(runs[2]) = u + 1440
        /\ Schedule!toUTC(runs[3]) = u + 1440 + 1440
    <3>1. Schedule!toUTC(runs[2]) = (day + 1) * 1440 + time - Zone
          /\ Schedule!toUTC(runs[3]) = (day + 2) * 1440 + time - Zone
      BY <1>3, <2>3, <2>4
    <3> QED BY <1>1, <1>2, <2>3, <3>1 DEF u
  <2> QED BY <2>1, <2>3, <2>5, ThreeRuns DEF runs
<1>6. CASE f.scheduleType = "weekly"
  <2>1. Schedule!ScheduledRuns(f) = <<u, u + 7 * 1440, u + 7 * 1440 + 7 * 1440>>
    <3>1. u + 7 * 1440 \in Nat
      BY <1>2
    <3>2. Schedule!CalculateNextRun("weekly", u) = u + 7 * 1440
          /\ Schedule!CalculateNextRun("weekly", u + 7 * 1440) = u + 7 * 1440 + 7 * 1440
      BY <1>2, <3>1, NextRuns
    <3> QED BY <1>6, <3>2 DEF Schedule!ScheduledRuns
  <2>2. runs = [i \in 1 .. 3 |-> At(day + 7 * (i - 1))]
    BY <1>6 DEF Schedule!getNextRuns
  <2> HIDE DEF runs, At, u
  <2>3. DOMAIN runs = 1 .. 3 /\ runs[1] = At(day) /\ runs[2] = At(day + 7) /\ runs[3] = At(day + 14)
    <3>1. day + 7 * (1 - 1) = day /\ day + 7 * (2 - 1) = day + 7 /\ day + 7 * (3 - 1) = day + 14
      BY <1>1
    <3> QED BY <2>2, <3>1
  <2>4. day + 7 \in Nat /\ day + 14 \in Nat
    BY <1>1
  <2>5. /\ Schedule!toUTC(runs[1]) = u /\ Schedule!toUTC(runs[2]) = u + 7 * 1440
        /\ Schedule!toUTC(runs[3]) = u + 7 * 1440 + 7 * 1440
    <3>1. Schedule!toUTC(runs[2]) = (day + 7) * 1440 + time - Zone
          /\ Schedule!toUTC(runs[3]) = (day + 14) * 1440 + time - Zone
      BY <1>3, <2>3, <2>4
    <3> QED BY <1>1, <1>2, <2>3, <3>1 DEF u
  <2> QED BY <2>1, <2>3, <2>5, ThreeRuns DEF runs
<1>7. CASE f.scheduleType = "monthly"
  <2> DEFINE ud == Schedule!Day(u)
  <2> DEFINE ut == Schedule!TimeOfDay(u)
  <2> DEFINE InUTC(date) == Schedule!combineDateAndTime(date, ut)
  <2>1. /\ ud \in Nat /\ ut \in TimesOfDay /\ ut \in Nat /\ InUTC(ud) = u
        /\ ud < Schedule!monthStart[11]
    BY <1>2, DateAndTime, OfDay
  <2>2. \A date \in Nat : /\ InUTC(date) = date * 1440 + ut /\ InUTC(date) \in Nat
                          /\ Schedule!Day(InUTC(date)) = date /\ Schedule!TimeOfDay(InUTC(date)) = ut
    <3> TAKE date \in Nat
    <3> HIDE DEF ut
    <3> QED BY <2>1, InstantOf
  <2>3. /\ Schedule!DayOfMonth(day) <= 28 /\ Schedule!DayOfMonth(ud) <= 28
        /\ Schedule!Month(day) = Schedule!Month(ud)
    <3>1. Schedule!Day(At(day)) = day
      BY <1>1, DateAndTime
    <3> QED BY <1>7, <3>1 DEF Schedule!DayOfEveryMonth
  <2>4. day < Schedule!monthStart[11]
    <3>1. Schedule!monthStart[11] \in Nat
      BY MonthTable
    <3> QED BY <1>1, <3>1 DEF InYear
  <2>5. PICK m \in 1 .. 10, d \in 1 .. 31 :
           /\ Schedule!Month(day) = m /\ day = Schedule!monthStart[m] + d - 1
           /\ Schedule!addMonths(day, 0) = day
           /\ Schedule!addMonths(day, 1) = Schedule!monthStart[m + 1] + d - 1
           /\ Schedule!addMonths(day, 2) = Schedule!monthStart[m + 2] + d - 1
    BY <1>1, <2>3, <2>4, MonthsAgree
  <2>6. PICK k \in 1 .. 10, e \in 1 .. 31 :
           /\ Schedule!Month(ud) = k /\ ud = Schedule!monthStart[k] + e - 1
           /\ Schedule!AddMonth(ud) = Schedule!monthStart[k + 1] + e - 1
           /\ Schedule!AddMonth(Schedule!AddMonth(ud)) = Schedule!monthStart[k + 2] + e - 1
           /\ Schedule!monthStart[k] \in Nat /\ Schedule!monthStart[k + 1] \in Nat
           /\ Schedule!monthStart[k + 2] \in Nat
    BY <2>1, <2>3, MonthsAgree
  <2>7. k = m
    BY <2>3, <2>5, <2>6
  <2> DEFINE next == Schedule!monthStart[m + 1]
  <2> DEFINE later == Schedule!monthStart[m + 2]
  <2>8. next + e - 1 \in Nat /\ later + e - 1 \in Nat /\ next + d - 1 \in Nat /\ later + d - 1 \in Nat
    BY <2>6, <2>7
  <2>9. /\ Schedule!AddMonth(ud) = next + e - 1 /\ Schedule!AddMonth(next + e - 1) = later + e - 1
        /\ Schedule!addMonths(day, 1) = next + d - 1 /\ Schedule!addMonths(day, 2) = later + d - 1
    BY <2>5, <2>6, <2>7
  <2> HIDE DEF next, later
  <2>10. Schedule!ScheduledRuns(f) = <<u, InUTC(next + e - 1), InUTC(later + e - 1)>>
    <3>1. Schedule!CalculateNextRun("monthly", u) = InUTC(next + e - 1)
      BY <2>9 DEF Schedule!CalculateNextRun
    <3> DEFINE second == InUTC(next + e - 1)
    <3>2. Schedule!Day(second) = next + e - 1 /\ Schedule!TimeOfDay(second) = ut
      BY <2>2, <2>8
    <3>3. Schedule!CalculateNextRun("monthly", second) = InUTC(later + e - 1)
      <4> HIDE DEF second
      <4> QED BY <2>9, <3>2 DEF Schedule!CalculateNextRun
    <3>4. Schedule!ScheduledRuns(f) =
            <<u, Schedule!CalculateNextRun("monthly", u),
              Schedule!CalculateNextRun("monthly", Schedule!CalculateNextRun("monthly", u))>>
      BY <1>7 DEF Schedule!ScheduledRuns
    <3> HIDE DEF u, InUTC
    <3> QED BY <3>1, <3>3, <3>4 DEF second
  <2>11. runs = [i \in 1 .. 3 |-> At(Schedule!addMonths(day, i - 1))]
    BY <1>7 DEF Schedule!getNextRuns
  <2> HIDE DEF runs, At, u, ud, ut, InUTC
  <2>12. DOMAIN runs = 1 .. 3 /\ runs[1] = At(day) /\ runs[2] = At(next + d - 1) /\ runs[3] = At(later + d - 1)
    <3>1. 1 - 1 = 0 /\ 2 - 1 = 1 /\ 3 - 1 = 2
      OBVIOUS
    <3> QED BY <2>5, <2>9, <2>11, <3>1
  <2>13. /\ Schedule!toUTC(runs[1]) = u
         /\ Schedule!toUTC(runs[2]) = InUTC(next + e - 1)
         /\ Schedule!toUTC(runs[3]) = InUTC(later + e - 1)
    <3>1. /\ Schedule!toUTC(runs[2]) = (next + d - 1) * 1440 + time - Zone
          /\ Schedule!toUTC(runs[3]) = (later + d - 1) * 1440 + time - Zone
          /\ InUTC(next + e - 1) = (next + e - 1) * 1440 + ut
          /\ InUTC(later + e - 1) = (later + e - 1) * 1440 + ut
          /\ Schedule!toUTC(runs[1]) = u
      BY <1>3, <2>2, <2>8, <2>12 DEF u
    <3>2. (d - e) * 1440 = ut - time + Zone
      <4>1. u = day * 1440 + time - Zone /\ u = ud * 1440 + ut
        BY <1>1, <1>2, <2>1, <2>2
      <4>2. Schedule!monthStart[m] \in Nat /\ day = Schedule!monthStart[m] + d - 1
            /\ ud = Schedule!monthStart[m] + e - 1
        BY <2>5, <2>6, <2>7
      <4> QED BY <1>1, <2>1, <4>1, <4>2
    <3>3. next \in Nat /\ later \in Nat
      BY <2>6, <2>7 DEF next, later
    <3>4. /\ (next + d - 1) * 1440 + time - Zone = (next + e - 1) * 1440 + ut
          /\ (later + d - 1) * 1440 + time - Zone = (later + e - 1) * 1440 + ut
      <4>1. d \in Nat /\ e \in Nat
        OBVIOUS
      <4>2. (d - e) * 1440 = d * 1440 - e * 1440
        BY <4>1
      <4>3. /\ (next + d - 1) * 1440 = next * 1440 + d * 1440 - 1440
            /\ (later + d - 1) * 1440 = later * 1440 + d * 1440 - 1440
            /\ (next + e - 1) * 1440 = next * 1440 + e * 1440 - 1440
            /\ (later + e - 1) * 1440 = later * 1440 + e * 1440 - 1440
        BY <3>3, <4>1
      <4> QED BY <1>1, <2>1, <3>2, <3>3, <4>1, <4>2, <4>3
    <3> QED BY <3>1, <3>4
  <2> QED BY <2>10, <2>12, <2>13, ThreeRuns DEF runs
<1> QED BY <1>1, <1>4, <1>5, <1>6, <1>7

LEMMA ScheduleInvImplies ==
  ASSUME ScheduleInv
  PROVE  Schedule!TypeOK /\ Schedule!ReopenKeepsSchedule /\ Schedule!PartsRoundTrip /\ Schedule!PreviewIsTrue
<1>1. Schedule!TypeOK
  BY DEF ScheduleInv, ScheduleFields, SavedSchedules, TimesOfDay, Schedule!TypeOK
<1>2. Schedule!ReopenKeepsSchedule
  <2> SUFFICES ASSUME scheduleConfig # NoValue
               PROVE  LET local == Schedule!toLocal(scheduleConfig.scheduledDate)
                      IN Schedule!toUTC(Schedule!combineDateAndTime(Schedule!Day(local), Schedule!TimeOfDay(local)))
                           = scheduleConfig.scheduledDate
    BY DEF Schedule!ReopenKeepsSchedule, Schedule!configValues
  <2> DEFINE local == Schedule!toLocal(scheduleConfig.scheduledDate)
  <2>1. scheduleConfig.scheduledDate \in Nat /\ local \in Nat
    BY DEF ScheduleInv, SavedSchedules
  <2>2. Schedule!combineDateAndTime(Schedule!Day(local), Schedule!TimeOfDay(local)) = local
    BY <2>1, DateAndTime
  <2>3. Schedule!toUTC(local) = scheduleConfig.scheduledDate
    BY <2>1, ScheduleAssumption DEF Schedule!toUTC, Schedule!toLocal
  <2> QED BY <2>2, <2>3
<1>3. Schedule!PartsRoundTrip
  <2>1. schedule.scheduledTime \in TimesOfDay
    BY DEF ScheduleInv, ScheduleFields
  <2> QED BY <2>1, TwelveHours DEF Schedule!PartsRoundTrip
<1>4. Schedule!PreviewIsTrue
  BY PreviewAgrees DEF ScheduleInv, Schedule!PreviewIsTrue
<1> QED BY <1>1, <1>2, <1>3, <1>4

-----------------------------------------------------------------------------
(* The calendar trigger: units of time.                                    *)

LEMMA Units ==
  /\ Trigger!timeUnitToMinutes["minute"] = 1 /\ Trigger!timeUnitToMinutes["hour"] = 60
  /\ Trigger!timeUnitToMinutes["day"] = 1440 /\ Trigger!timeUnitToMinutes["week"] = 10080
BY DEF Trigger!timeUnitToMinutes, Trigger!TimeUnit

LEMMA MinutesOfUnits ==
  ASSUME NEW amount \in Nat, NEW unit \in Trigger!TimeUnit
  PROVE  Trigger!convertToMinutes(amount, unit) \in Nat
BY Units DEF Trigger!convertToMinutes, Trigger!TimeUnit

-----------------------------------------------------------------------------
(* The calendar trigger: the form, and what is saved.                      *)

\* What the schema lets through and savedData makes of it.
Acceptable(c) ==
  /\ c.eventStatus \in {"cancelled", "starting", "ending"} /\ c.calendarID \in Calendars
  /\ c.eventStatus = "cancelled" => c.timeCondition = Trigger!NoTime
  /\ c.eventStatus # "cancelled" =>
       /\ c.timeCondition.set = TRUE /\ c.timeCondition.minutes \in Trigger!Times
       /\ c.timeCondition.minutes <= Scale * Trigger!maxTime

TriggerInv ==
  /\ trigger \in Trigger!Form
  /\ customAmount \in Amounts \cup {0} /\ customUnit \in Trigger!TimeUnit
  /\ isCustomizing \in BOOLEAN /\ isResetDialogOpen \in BOOLEAN
  /\ selectorOpen \in BOOLEAN /\ calendarsLoading \in BOOLEAN /\ calendars \in BOOLEAN
  /\ requests \in {0, 1}
  /\ isCustomizing = TRUE /\ customAmount > 0
       => trigger.timeCondition = Trigger!Time(Trigger!convertToMinutes(customAmount, customUnit))
  /\ triggerConfig # NoValue => triggerConfig \in Trigger!Form /\ Acceptable(triggerConfig)

TimeConditions == [set : BOOLEAN, minutes : Trigger!Times \cup {NoValue}]

LEMMA TimesAreNumbers ==
  /\ Trigger!Times \subseteq Nat /\ 0 \in Trigger!Times /\ Trigger!Options \subseteq Trigger!Times
  /\ \A a \in Amounts, u \in Trigger!TimeUnit : a > 0 => Trigger!convertToMinutes(a, u) \in Trigger!Times
<1> DEFINE positive == {x \in Amounts : x > 0}
<1>0. positive \subseteq Nat
  <2> SUFFICES ASSUME NEW x \in Amounts, x > 0 PROVE x \in Nat
    OBVIOUS
  <2>1. x \in Int
    BY TriggerAssumption
  <2> QED BY <2>1
<1> HIDE DEF positive
<1>1. \A a \in positive, u \in Trigger!TimeUnit : Trigger!convertToMinutes(a, u) \in Nat
  BY <1>0, MinutesOfUnits
<1>2. Trigger!Options \subseteq Nat /\ 0 \in Trigger!Options
  <2> DEFINE offered == {0, 15, 30, 60, 720, 1440, 2880}
  <2>1. offered \subseteq Nat /\ 0 \in offered /\ Scale \in Nat
    BY TriggerAssumption
  <2>2. Trigger!Options = {Scale * m : m \in offered}
    BY DEF Trigger!Options
  <2> HIDE DEF offered
  <2>3. Scale * 0 = 0 /\ \A m \in offered : Scale * m \in Nat
    BY <2>1
  <2> QED BY <2>1, <2>2, <2>3
<1> DEFINE typed == {Trigger!convertToMinutes(a, u) : a \in positive, u \in Trigger!TimeUnit}
<1>3. Trigger!Times = Trigger!Options \cup typed
  BY DEF Trigger!Times, positive
<1>4. typed \subseteq Nat
  BY <1>1
<1>5. \A a \in positive, u \in Trigger!TimeUnit : Trigger!convertToMinutes(a, u) \in typed
  OBVIOUS
<1>6. \A a \in Amounts : a > 0 => a \in positive
  BY DEF positive
<1> HIDE DEF typed
<1> QED BY <1>2, <1>3, <1>4, <1>5, <1>6

\* The fields of a form.
LEMMA TriggerFields ==
  ASSUME NEW f \in Trigger!Form
  PROVE  /\ f.eventStatus \in {"none", "cancelled", "starting", "ending"}
         /\ f.timeCondition \in TimeConditions
         /\ f.timeCondition.set \in BOOLEAN /\ f.timeCondition.minutes \in Trigger!Times \cup {NoValue}
         /\ f.calendarID \in Calendars \cup {NoValue}
         /\ f.keywords \in [type : {"string", "array"}, count : KeywordCounts \cup {0, 1}]
         /\ f = [eventStatus |-> f.eventStatus, timeCondition |-> f.timeCondition,
                 calendarID |-> f.calendarID, keywords |-> f.keywords]
BY DEF Trigger!Form, TimeConditions, Trigger!Custom

LEMMA TriggerForms ==
  ASSUME NEW s \in {"none", "cancelled", "starting", "ending"}, NEW t \in TimeConditions,
         NEW c \in Calendars \cup {NoValue},
         NEW k \in [type : {"string", "array"}, count : KeywordCounts \cup {0, 1}]
  PROVE  [eventStatus |-> s, timeCondition |-> t, calendarID |-> c, keywords |-> k] \in Trigger!Form
BY DEF Trigger!Form, TimeConditions, Trigger!Custom

LEMMA TimeSet == \A minutes \in Trigger!Times \cup {NoValue} : Trigger!Time(minutes) \in TimeConditions
BY DEF Trigger!Time, TimeConditions

LEMMA DefaultTrigger == Trigger!calendarTriggerDefaultValues \in Trigger!Form
<1>1. Trigger!NoTime \in TimeConditions
  BY TimesAreNumbers DEF Trigger!NoTime, TimeConditions
<1> HIDE DEF Trigger!NoTime
<1> QED BY <1>1, TriggerForms DEF Trigger!calendarTriggerDefaultValues

LEMMA TriggerInit == Trigger!Init => TriggerInv
<1> SUFFICES ASSUME Trigger!Init PROVE TriggerInv
  OBVIOUS
<1>1. /\ trigger = Trigger!calendarTriggerDefaultValues
      /\ customAmount = 0 /\ customUnit = "minute" /\ isCustomizing = FALSE
      /\ isResetDialogOpen = FALSE /\ triggerConfig = NoValue
      /\ selectorOpen = FALSE /\ calendarsLoading = FALSE /\ calendars = FALSE /\ requests = 0
  BY DEF Trigger!Init
<1>2. "minute" \in Trigger!TimeUnit
  BY DEF Trigger!TimeUnit
<1> QED BY <1>1, <1>2, DefaultTrigger DEF TriggerInv

\* The effects after a render: the custom time becomes the time of the form.
LEMMA EffectsStep ==
  ASSUME NEW f \in Trigger!Form, NEW amount \in Amounts \cup {0}, NEW unit \in Trigger!TimeUnit,
         NEW customizing \in BOOLEAN, Trigger!Effects(f, amount, unit, customizing)
  PROVE  /\ trigger' \in Trigger!Form
         /\ customAmount' \in Amounts \cup {0} /\ customUnit' \in Trigger!TimeUnit /\ isCustomizing' \in BOOLEAN
         /\ isCustomizing' = TRUE /\ customAmount' > 0
              => trigger'.timeCondition = Trigger!Time(Trigger!convertToMinutes(customAmount', customUnit'))
<1> DEFINE custom == Trigger!isCustomTime(f, customizing)
<1> DEFINE time == Trigger!Time(Trigger!convertToMinutes(amount, unit))
<1>1. /\ trigger' = IF custom /\ amount > 0 THEN [f EXCEPT !.timeCondition = time] ELSE f
      /\ customAmount' = IF custom THEN amount ELSE 0
      /\ customUnit' = IF custom THEN unit ELSE "minute"
      /\ isCustomizing' = (custom /\ customizing)
  BY DEF Trigger!Effects
<1>2. customizing = TRUE => custom
  BY DEF Trigger!isCustomTime
<1>3. ASSUME amount > 0 PROVE time \in TimeConditions
  <2>1. amount \in Amounts /\ amount > 0
    BY <1>3
  <2>2. Trigger!convertToMinutes(amount, unit) \in Trigger!Times
    BY <2>1, TimesAreNumbers
  <2> QED BY <2>2, TimeSet
<1> HIDE DEF custom, time
<1>4. amount > 0 => [f EXCEPT !.timeCondition = time] \in Trigger!Form
                     /\ [f EXCEPT !.timeCondition = time].timeCondition = time
  <2> SUFFICES ASSUME amount > 0 PROVE [f EXCEPT !.timeCondition = time] \in Trigger!Form
                     /\ [f EXCEPT !.timeCondition = time].timeCondition = time
    OBVIOUS
  <2>1. [f EXCEPT !.timeCondition = time]
          = [eventStatus |-> f.eventStatus, timeCondition |-> time, calendarID |-> f.calendarID, keywords |-> f.keywords]
    BY TriggerFields
  <2> QED BY <1>3, <2>1, TriggerFields, TriggerForms
<1>5. "minute" \in Trigger!TimeUnit
  BY DEF Trigger!TimeUnit
<1>6. isCustomizing' \in BOOLEAN
  BY <1>1, Zenon
<1>7. trigger' \in Trigger!Form
  BY <1>1, <1>4
<1>8. customAmount' \in Amounts \cup {0} /\ customUnit' \in Trigger!TimeUnit
  BY <1>1, <1>5
<1>9. ASSUME isCustomizing' = TRUE, customAmount' > 0
      PROVE  trigger'.timeCondition = Trigger!Time(Trigger!convertToMinutes(customAmount', customUnit'))
  <2>1. custom
    BY <1>1, <1>9, Zenon
  <2>2. customAmount' = amount /\ customUnit' = unit /\ trigger' = [f EXCEPT !.timeCondition = time]
    BY <1>1, <1>9, <2>1
  <2> QED BY <1>4, <1>9, <2>2 DEF time
<1> QED BY <1>6, <1>7, <1>8, <1>9

\* A step of the fields, with the effects after it.
LEMMA TriggerFieldStep ==
  ASSUME TriggerInv, NEW f \in Trigger!Form, NEW amount \in Amounts \cup {0}, NEW unit \in Trigger!TimeUnit,
         NEW customizing \in BOOLEAN, Trigger!Effects(f, amount, unit, customizing),
         isResetDialogOpen' \in BOOLEAN, triggerConfig' = triggerConfig,
         selectorOpen' \in BOOLEAN, calendarsLoading' \in BOOLEAN, calendars' \in BOOLEAN, requests' \in {0, 1}
  PROVE  TriggerInv'
<1>1. /\ trigger' \in Trigger!Form
      /\ customAmount' \in Amounts \cup {0} /\ customUnit' \in Trigger!TimeUnit /\ isCustomizing' \in BOOLEAN
      /\ isCustomizing' = TRUE /\ customAmount' > 0
           => trigger'.timeCondition = Trigger!Time(Trigger!convertToMinutes(customAmount', customUnit'))
  BY EffectsStep
<1>2. triggerConfig' # NoValue => triggerConfig' \in Trigger!Form /\ Acceptable(triggerConfig')
  BY DEF TriggerInv
<1> QED BY <1>1, <1>2 DEF TriggerInv, Acceptable

\* A step of the selector.
LEMMA SelectorStep ==
  ASSUME TriggerInv, NEW open \in BOOLEAN, NEW loading \in BOOLEAN, NEW loaded \in BOOLEAN,
         Trigger!SelectorEffect(open, loading, loaded)
  PROVE  selectorOpen' \in BOOLEAN /\ calendarsLoading' \in BOOLEAN /\ calendars' \in BOOLEAN /\ requests' \in {0, 1}
<1> DEFINE first == Trigger!fetches(open, loading, loaded)
<1> DEFINE again == first /\ Trigger!fetches(open, TRUE, loaded)
<1>1. /\ selectorOpen' = open /\ calendars' = loaded /\ calendarsLoading' = (loading \/ first)
      /\ requests' = (IF loading THEN requests ELSE 0) + (IF first THEN 1 ELSE 0) + (IF again THEN 1 ELSE 0)
  BY DEF Trigger!SelectorEffect
<1>2. ~again
  BY DEF Trigger!fetches
<1>3. loading => ~first
  BY DEF Trigger!fetches
<1> HIDE DEF first, again
<1>4. calendarsLoading' \in BOOLEAN
  BY <1>1, Zenon
<1>5. requests' \in {0, 1}
  <2>1. requests \in {0, 1}
    BY DEF TriggerInv
  <2> QED BY <1>1, <1>2, <1>3, <2>1
<1> QED BY <1>1, <1>4, <1>5

LEMMA TriggerNext == TriggerInv /\ [Trigger!Next]_triggerVars => TriggerInv'
<1> SUFFICES ASSUME TriggerInv, [Trigger!Next]_triggerVars PROVE TriggerInv'
  OBVIOUS
<1>0. /\ trigger \in Trigger!Form
      /\ customAmount \in Amounts \cup {0} /\ customUnit \in Trigger!TimeUnit
      /\ isCustomizing \in BOOLEAN /\ isResetDialogOpen \in BOOLEAN
      /\ selectorOpen \in BOOLEAN /\ calendarsLoading \in BOOLEAN /\ calendars \in BOOLEAN
      /\ requests \in {0, 1}
  BY DEF TriggerInv
<1>a. /\ trigger.eventStatus \in {"none", "cancelled", "starting", "ending"}
      /\ trigger.timeCondition \in TimeConditions /\ trigger.timeCondition.set \in BOOLEAN
      /\ trigger.timeCondition.minutes \in Trigger!Times \cup {NoValue}
      /\ trigger.calendarID \in Calendars \cup {NoValue}
      /\ trigger.keywords \in [type : {"string", "array"}, count : KeywordCounts \cup {0, 1}]
      /\ trigger = [eventStatus |-> trigger.eventStatus, timeCondition |-> trigger.timeCondition,
                    calendarID |-> trigger.calendarID, keywords |-> trigger.keywords]
  BY <1>0, TriggerFields
<1>b. ASSUME NEW f \in Trigger!Form, NEW amount \in Amounts \cup {0}, NEW unit \in Trigger!TimeUnit,
             NEW customizing \in BOOLEAN, Trigger!Effects(f, amount, unit, customizing),
             UNCHANGED <<isResetDialogOpen, triggerConfig, Trigger!selectorVars>>
      PROVE  TriggerInv'
  <2>1. UNCHANGED <<selectorOpen, calendarsLoading, calendars, requests, isResetDialogOpen, triggerConfig>>
    BY <1>b DEF Trigger!selectorVars
  <2> QED BY <1>0, <1>b, <2>1, TriggerFieldStep
<1>c. ASSUME NEW f \in Trigger!Form, Trigger!Set(f) PROVE TriggerInv'
  <2>1. Trigger!Effects(f, customAmount, customUnit, isCustomizing)
        /\ UNCHANGED <<isResetDialogOpen, triggerConfig, Trigger!selectorVars>>
    BY <1>c DEF Trigger!Set
  <2> QED BY <1>0, <1>b, <2>1
<1>d. ASSUME UNCHANGED Trigger!formVars,
             selectorOpen' \in BOOLEAN, calendarsLoading' \in BOOLEAN, calendars' \in BOOLEAN, requests' \in {0, 1}
      PROVE  TriggerInv'
  BY <1>d DEF TriggerInv, Trigger!formVars, Trigger!customVars, Acceptable
<1>1. ASSUME NEW t \in {"cancelled", "starting", "ending"}, Trigger!SelectStatus(t) PROVE TriggerInv'
  <2> DEFINE f == [trigger EXCEPT !.eventStatus = t]
  <2>1. f = [eventStatus |-> t, timeCondition |-> trigger.timeCondition,
             calendarID |-> trigger.calendarID, keywords |-> trigger.keywords]
    BY <1>a
  <2>2. f \in Trigger!Form
    BY <1>a, <2>1, TriggerForms
  <2>3. Trigger!Set(f)
    BY <1>1 DEF Trigger!SelectStatus
  <2> QED BY <1>c, <2>2, <2>3
<1>2. ASSUME NEW t \in Trigger!Options \cup {Trigger!Custom, trigger.timeCondition.minutes}, Trigger!SelectTime(t)
      PROVE  TriggerInv'
  <2> DEFINE f == [trigger EXCEPT !.timeCondition = Trigger!Time(t)]
  <2>1. t \in Trigger!Times \cup {NoValue}
    BY <1>a, TimesAreNumbers DEF Trigger!Custom
  <2>2. Trigger!Time(t) \in TimeConditions
    BY <2>1, TimeSet
  <2>3. f = [eventStatus |-> trigger.eventStatus, timeCondition |-> Trigger!Time(t),
             calendarID |-> trigger.calendarID, keywords |-> trigger.keywords]
    BY <1>a
  <2>4. f \in Trigger!Form
    BY <1>a, <2>2, <2>3, TriggerForms
  <2>5. Trigger!Effects(f, customAmount, customUnit, t = Trigger!Custom)
        /\ UNCHANGED <<isResetDialogOpen, triggerConfig, Trigger!selectorVars>>
    BY <1>2 DEF Trigger!SelectTime
  <2> HIDE DEF f
  <2>6. (t = Trigger!Custom) \in BOOLEAN
    OBVIOUS
  <2> DEFINE customizing == (t = Trigger!Custom)
  <2>7. customizing \in BOOLEAN /\ Trigger!Effects(f, customAmount, customUnit, customizing)
    BY <2>5, <2>6
  <2> HIDE DEF customizing
  <2> QED BY <1>0, <1>b, <2>4, <2>5, <2>7
<1>3. ASSUME NEW a \in Amounts \cup {0}, Trigger!TypeAmount(a) PROVE TriggerInv'
  <2>1. Trigger!Effects(trigger, a, customUnit, isCustomizing)
        /\ UNCHANGED <<isResetDialogOpen, triggerConfig, Trigger!selectorVars>>
    BY <1>3 DEF Trigger!TypeAmount
  <2> QED BY <1>0, <1>b, <2>1
<1>4. ASSUME NEW u \in Trigger!TimeUnit, Trigger!SelectUnit(u) PROVE TriggerInv'
  <2>1. Trigger!Effects(trigger, customAmount, u, isCustomizing)
        /\ UNCHANGED <<isResetDialogOpen, triggerConfig, Trigger!selectorVars>>
    BY <1>4 DEF Trigger!SelectUnit
  <2> QED BY <1>0, <1>b, <2>1
<1>5. ASSUME NEW n \in KeywordCounts, Trigger!TypeKeywords(n) PROVE TriggerInv'
  <2> DEFINE k == [type |-> "string", count |-> n]
  <2> DEFINE f == [trigger EXCEPT !.keywords = k]
  <2>1. f = [eventStatus |-> trigger.eventStatus, timeCondition |-> trigger.timeCondition,
             calendarID |-> trigger.calendarID, keywords |-> k]
    BY <1>a
  <2>2. k \in [type : {"string", "array"}, count : KeywordCounts \cup {0, 1}]
    OBVIOUS
  <2>3. Trigger!Set(f)
    BY <1>5 DEF Trigger!TypeKeywords
  <2> HIDE DEF k
  <2>4. f \in Trigger!Form
    BY <1>a, <2>1, <2>2, TriggerForms
  <2> QED BY <1>c, <2>3, <2>4
<1>6. ASSUME NEW c \in Calendars, Trigger!SelectCalendar(c) PROVE TriggerInv'
  <2>1. /\ trigger' = [eventStatus |-> trigger.eventStatus, timeCondition |-> trigger.timeCondition,
                       calendarID |-> c, keywords |-> trigger.keywords]
        /\ selectorOpen' = FALSE
        /\ UNCHANGED <<customAmount, customUnit, isCustomizing, isResetDialogOpen, triggerConfig,
                       calendarsLoading, calendars, requests>>
    BY <1>6, <1>a DEF Trigger!SelectCalendar, Trigger!customVars
  <2>2. trigger' \in Trigger!Form /\ trigger'.timeCondition = trigger.timeCondition
    BY <1>a, <2>1, TriggerForms
  <2> QED BY <2>1, <2>2 DEF TriggerInv, Acceptable
<1>7. CASE Trigger!onSubmit
  <2>1. /\ Trigger!calendarTriggerFormSchema(trigger) /\ trigger.eventStatus # "none"
        /\ triggerConfig' = Trigger!savedData
        /\ UNCHANGED <<trigger, customAmount, customUnit, isCustomizing, isResetDialogOpen,
                       selectorOpen, calendarsLoading, calendars, requests>>
    BY <1>7 DEF Trigger!onSubmit, Trigger!customVars, Trigger!selectorVars
  <2> DEFINE time == IF trigger.eventStatus = "cancelled" THEN Trigger!NoTime ELSE trigger.timeCondition
  <2> DEFINE calendar == IF trigger.calendarID = NoValue THEN "primary" ELSE trigger.calendarID
  <2> DEFINE keywords == Trigger!split(trigger.keywords)
  <2>s. Trigger!savedData =
          [trigger EXCEPT !.calendarID = calendar, !.keywords = keywords, !.timeCondition = time]
    BY Zenon DEF Trigger!savedData
  <2>3. time \in TimeConditions
    BY <1>a, TimesAreNumbers DEF Trigger!NoTime, TimeConditions
  <2>4. calendar \in Calendars
    BY <1>a, TriggerAssumption
  <2>5. keywords \in [type : {"string", "array"}, count : KeywordCounts \cup {0, 1}]
    BY <1>a DEF Trigger!split
  <2>6. trigger.eventStatus = "cancelled" => time = Trigger!NoTime
    OBVIOUS
  <2>7. trigger.eventStatus # "cancelled" =>
          time.set = TRUE /\ time.minutes \in Trigger!Times /\ time.minutes <= Scale * Trigger!maxTime
    BY <1>a, <2>1 DEF Trigger!calendarTriggerFormSchema, Trigger!Custom
  <2> HIDE DEF time, calendar, keywords
  <2>2. Trigger!savedData = [eventStatus |-> trigger.eventStatus, timeCondition |-> time,
                             calendarID |-> calendar, keywords |-> keywords]
    BY <1>a, <2>s
  <2>8. triggerConfig' \in Trigger!Form
    BY <1>a, <2>1, <2>2, <2>3, <2>4, <2>5, TriggerForms
  <2>9. /\ triggerConfig'.eventStatus = trigger.eventStatus /\ triggerConfig'.timeCondition = time
        /\ triggerConfig'.calendarID = calendar
    BY <2>1, <2>2
  <2>10. /\ trigger.eventStatus \in {"cancelled", "starting", "ending"}
    BY <1>a, <2>1
  <2>11. Acceptable(triggerConfig')
    BY <2>4, <2>6, <2>7, <2>9, <2>10 DEF Acceptable
  <2> QED BY <2>1, <2>8, <2>11 DEF TriggerInv, Acceptable
<1>8. CASE Trigger!AskReset \/ Trigger!CancelReset
  BY <1>8 DEF Trigger!AskReset, Trigger!CancelReset, TriggerInv, Trigger!customVars, Trigger!selectorVars, Acceptable
<1>e. "minute" \in Trigger!TimeUnit /\ 0 \in Amounts \cup {0} /\ FALSE \in BOOLEAN
  BY DEF Trigger!TimeUnit
<1>9. CASE Trigger!onReset
  <2>1. /\ isResetDialogOpen' = FALSE
        /\ Trigger!Effects(Trigger!calendarTriggerDefaultValues, 0, "minute", FALSE)
        /\ UNCHANGED <<triggerConfig, selectorOpen, calendarsLoading, calendars, requests>>
    BY <1>9 DEF Trigger!onReset, Trigger!selectorVars
  <2> QED BY <1>0, <1>e, <2>1, DefaultTrigger, TriggerFieldStep
<1>10. CASE Trigger!Reopen
  <2> DEFINE f == IF triggerConfig = NoValue THEN Trigger!calendarTriggerDefaultValues ELSE triggerConfig
  <2>1. /\ Trigger!Effects(f, 0, "minute", FALSE) /\ isResetDialogOpen' = FALSE
        /\ selectorOpen' = FALSE /\ calendarsLoading' = FALSE /\ calendars' = FALSE /\ requests' = 0
        /\ triggerConfig' = triggerConfig
    BY <1>10 DEF Trigger!Reopen
  <2>2. f \in Trigger!Form
    BY DefaultTrigger DEF TriggerInv
  <2> HIDE DEF f
  <2> QED BY <1>e, <2>1, <2>2, TriggerFieldStep
<1>11. CASE Trigger!OpenSelector
  <2>1. Trigger!SelectorEffect(TRUE, calendarsLoading, calendars) /\ UNCHANGED Trigger!formVars
    BY <1>11 DEF Trigger!OpenSelector
  <2> QED BY <1>0, <1>d, <2>1, SelectorStep
<1>12. CASE Trigger!CloseSelector
  <2>1. Trigger!SelectorEffect(FALSE, calendarsLoading, calendars) /\ UNCHANGED Trigger!formVars
    BY <1>12 DEF Trigger!CloseSelector
  <2> QED BY <1>0, <1>d, <2>1, SelectorStep
<1>13. ASSUME NEW ok \in BOOLEAN, Trigger!FetchEnds(ok) PROVE TriggerInv'
  <2> DEFINE loaded == calendars \/ ok
  <2>1. Trigger!SelectorEffect(selectorOpen, FALSE, loaded) /\ UNCHANGED Trigger!formVars
    BY <1>13 DEF Trigger!FetchEnds
  <2>2. loaded \in BOOLEAN
    OBVIOUS
  <2> HIDE DEF loaded
  <2> QED BY <1>0, <1>d, <2>1, <2>2, SelectorStep
<1>14. CASE UNCHANGED triggerVars
  BY <1>14 DEF triggerVars, TriggerInv, Acceptable
<1> QED BY <1>1, <1>2, <1>3, <1>4, <1>5, <1>6, <1>7, <1>8, <1>9, <1>10, <1>11, <1>12, <1>13, <1>14 DEF Trigger!Next

LEMMA TriggerInvImplies ==
  ASSUME TriggerInv
  PROVE  Trigger!TypeOK /\ Trigger!SavedIsAccepted /\ Trigger!CustomFollows
<1>1. Trigger!TypeOK
  BY DEF TriggerInv, Trigger!TypeOK
<1>2. Trigger!CustomFollows
  BY DEF TriggerInv, Trigger!CustomFollows
<1>3. Trigger!SavedIsAccepted
  <2> SUFFICES ASSUME triggerConfig # NoValue, triggerConfig.keywords.count <= Trigger!maxKeywords,
                      triggerConfig.timeCondition.set =>
                        /\ triggerConfig.timeCondition.minutes >= Scale * Trigger!minTimeMinutes
                        /\ triggerConfig.timeCondition.minutes % Scale = 0
               PROVE  Trigger!Validate(triggerConfig) /\ triggerConfig.calendarID # NoValue
    BY Zenon DEF Trigger!SavedIsAccepted
  <2>1. Acceptable(triggerConfig)
    BY DEF TriggerInv
  <2>2. triggerConfig.calendarID # NoValue
    BY <2>1, TriggerAssumption DEF Acceptable
  <2>v. Trigger!ValidateCalendarConfig(triggerConfig) => Trigger!Validate(triggerConfig)
    BY Zenon DEF Trigger!Validate, Trigger!buildCalendarConfig
  <2> DEFINE status == triggerConfig.eventStatus
  <2> DEFINE time == triggerConfig.timeCondition
  <2>3. CASE status = "cancelled"
    <3>1. time.set = FALSE
      BY <2>1, <2>3 DEF Acceptable, Trigger!NoTime
    <3> HIDE DEF status, time
    <3>2. status \in {"cancelled", "starting", "ending"} /\ ~(status \in {"starting", "ending"})
      BY <2>3
    <3>3. ~time.set
      BY <3>1
    <3> QED BY <2>2, <2>v, <3>2, <3>3, Zenon DEF Trigger!ValidateCalendarConfig, status, time
  <2>4. CASE status \in {"starting", "ending"}
    <3>1. time.set = TRUE /\ time.minutes \in Nat /\ time.minutes <= Scale * Trigger!maxTime
      BY <2>1, <2>4, TimesAreNumbers DEF Acceptable
    <3>2. time.set
      BY <3>1
    <3>3. time.minutes >= Scale * Trigger!minTimeMinutes
      BY <3>2
    <3> DEFINE low == Scale * Trigger!minTimeMinutes
    <3> DEFINE high == Scale * Trigger!maxTime
    <3>4. low \in Int /\ high \in Int
      BY TriggerAssumption DEF Trigger!minTimeMinutes, Trigger!maxTime
    <3> HIDE DEF status, time, low, high
    <3>5. time.minutes \in low .. high
      <4>1. low <= time.minutes /\ time.minutes <= high
        BY <3>1, <3>3 DEF low, high
      <4> QED BY <3>1, <3>4, <4>1
    <3>6. status \in {"cancelled", "starting", "ending"}
      BY <2>4
    <3> QED BY <2>2, <2>4, <2>v, <3>2, <3>5, <3>6, Zenon
            DEF Trigger!ValidateCalendarConfig, status, time, low, high
  <2> QED BY <2>1, <2>2, <2>3, <2>4 DEF Acceptable
<1> QED BY <1>1, <1>2, <1>3

-----------------------------------------------------------------------------
(* The email: what is saved are the addresses among the recipients, which  *)
(* parseEmail leaves as they are; a text is in the input only while the    *)
(* input has the focus.                                                    *)

Uploads == [value : Seq(Texts), file : Files \cup {NoValue}]
SavedEmails ==
  [recipients : Seq(Texts), subject : TextLengths \cup {0}, message : TextLengths \cup {0}]

EmailInv == Email!TypeOK /\ Email!OnlyAddressesAreSaved /\ Email!NothingLeftTyped

\* The address of a text is a text, and its own address.
LEMMA ParsedEmail ==
  ASSUME NEW t \in Texts
  PROVE  /\ Email!parseEmail[t] \in Texts \cup {NoValue}
         /\ Email!parseEmail[t] # NoValue =>
              Email!parseEmail[t] \in Texts /\ Email!parseEmail[Email!parseEmail[t]] = Email!parseEmail[t]
<1>1. \A x \in Texts : Email!parseEmail[x] = IF x \in Addresses THEN LowerCase[x] ELSE NoValue
  BY DEF Email!parseEmail
<1>2. CASE t \in Addresses
  <2>1. Email!parseEmail[t] = LowerCase[t]
    BY <1>1, <1>2
  <2>2. LowerCase[t] \in Addresses /\ LowerCase[t] \in Texts /\ LowerCase[LowerCase[t]] = LowerCase[t]
    BY <1>2, EmailAssumption
  <2>3. Email!parseEmail[LowerCase[t]] = LowerCase[LowerCase[t]]
    BY <1>1, <2>2
  <2> QED BY <2>1, <2>2, <2>3
<1>3. CASE t \notin Addresses
  BY <1>1, <1>3
<1> QED BY <1>2, <1>3

\* The form's filter and set are the ones of Arrays.
LEMMA EmailArrays ==
  ASSUME NEW A, NEW array \in Seq(A), NEW passing
  PROVE  /\ Email!filter(array, passing) \in Seq(A)
         /\ \A i \in 1 .. Len(Email!filter(array, passing)) :
              \E j \in 1 .. Len(array) : Email!filter(array, passing)[i] = array[j] /\ array[j] \in passing
         /\ Email!uniques(array) \in Seq(A)
<1>1. Email!filter(array, passing) = filter(array, passing)
  BY DEF Email!filter, Email!Filtered, filter, Filtered
<1>2. Email!uniques(array) = uniques(array)
  BY DEF Email!uniques, Email!filter, Email!Filtered, uniques, filter, Filtered
<1>3. Email!uniques(array) \in Seq(A)
  BY <1>2, UniquesKeeps
<1> DEFINE kept == filter(array, passing)
<1>4. kept \in Seq(A) /\ Elements(kept) = Elements(array) \cap passing
  BY FilterKeeps
<1> HIDE DEF kept
<1>5. ASSUME NEW i \in 1 .. Len(kept)
      PROVE  \E j \in 1 .. Len(array) : kept[i] = array[j] /\ array[j] \in passing
  <2>1. kept[i] \in Elements(kept)
    BY DEF Elements
  <2>2. kept[i] \in Elements(array) /\ kept[i] \in passing
    BY <1>4, <2>1
  <2> QED BY <2>2 DEF Elements
<1> QED BY <1>1, <1>3, <1>4, <1>5 DEF kept

\* What the schema makes of recipients: texts that are addresses in normal form.
LEMMA Transformed ==
  ASSUME NEW texts \in Seq(Texts)
  PROVE  /\ Email!Transform(texts) \in Seq(Texts)
         /\ \A i \in DOMAIN Email!Transform(texts) :
              Email!parseEmail[Email!Transform(texts)[i]] = Email!Transform(texts)[i]
<1> DEFINE parsed == [i \in DOMAIN texts |-> Email!parseEmail[texts[i]]]
<1> DEFINE out == Email!filter(parsed, Texts)
<1>1. Email!Transform(texts) = out
  BY DEF Email!Transform
<1>2. DOMAIN texts = 1 .. Len(texts) /\ Len(texts) \in Nat /\ \A i \in 1 .. Len(texts) : texts[i] \in Texts
  OBVIOUS
<1>3. \A i \in 1 .. Len(texts) : parsed[i] = Email!parseEmail[texts[i]] /\ parsed[i] \in Texts \cup {NoValue}
  BY <1>2, ParsedEmail
<1>4. parsed \in Seq(Texts \cup {NoValue}) /\ Len(parsed) = Len(texts)
  BY <1>2, <1>3
<1> HIDE DEF parsed
<1>5. out \in Seq(Texts \cup {NoValue})
      /\ \A i \in 1 .. Len(out) : \E j \in 1 .. Len(parsed) : out[i] = parsed[j] /\ parsed[j] \in Texts
  BY <1>4, EmailArrays
<1> HIDE DEF out
<1>6. ASSUME NEW i \in 1 .. Len(out) PROVE out[i] \in Texts /\ Email!parseEmail[out[i]] = out[i]
  <2>1. PICK j \in 1 .. Len(parsed) : out[i] = parsed[j] /\ parsed[j] \in Texts
    BY <1>5
  <2>2. texts[j] \in Texts /\ out[i] = Email!parseEmail[texts[j]] /\ out[i] # NoValue
    BY <1>2, <1>3, <1>4, <2>1, EmailAssumption
  <2> QED BY <2>2, ParsedEmail
<1>7. out \in Seq(Texts) /\ DOMAIN out = 1 .. Len(out)
  BY <1>5, <1>6
<1> QED BY <1>1, <1>6, <1>7

LEMMA EmailInit == Email!Init => EmailInv
<1>1. <<>> \in Seq(Texts) /\ <<>> \in Seq(Uploads)
  BY EmptySeq, Zenon
<1>2. Empty \in Texts /\ Email!NewChips \in [Texts -> Texts]
  BY EmailAssumption DEF Email!NewChips
<1> QED BY <1>1, <1>2 DEF Email!Init, EmailInv, Email!TypeOK, Email!OnlyAddressesAreSaved,
                          Email!NothingLeftTyped, Uploads

\* The invariant, taken apart: the recipients, the focus, the files, what is saved.
EmailRecipients == recipients \in Seq(Texts) /\ {subject, message} \subseteq TextLengths \cup {0}
EmailFocus ==
  /\ focus \in {"none", "input", "chip"} /\ inputValue \in Texts /\ editValue \in [Texts -> Texts]
  /\ chip \in Texts \cup {NoValue} /\ (focus = "chip") = (chip # NoValue)
  /\ focus # "input" => inputValue = Empty
EmailFiles == inputMode \in {"manual", "csv"} /\ isLoading \in BOOLEAN /\ uploads \in Seq(Uploads)
EmailSaved ==
  emailConfig # NoValue =>
    /\ emailConfig \in SavedEmails /\ emailConfig.recipients # <<>>
    /\ \A i \in DOMAIN emailConfig.recipients :
         Email!parseEmail[emailConfig.recipients[i]] = emailConfig.recipients[i]

LEMMA EmailParts == EmailInv <=> EmailRecipients /\ EmailFocus /\ EmailFiles /\ EmailSaved
BY DEF EmailInv, Email!TypeOK, Email!OnlyAddressesAreSaved, Email!NothingLeftTyped,
       EmailRecipients, EmailFocus, EmailFiles, EmailSaved, Uploads, SavedEmails

\* The fields of the chips hold texts.
LEMMA ChipsKept == EmailInv => Email!KeptChips \in [Texts -> Texts]
<1> SUFFICES ASSUME EmailInv PROVE Email!KeptChips \in [Texts -> Texts]
  OBVIOUS
<1>1. \A t \in Texts : editValue[t] \in Texts
  BY EmailParts DEF EmailFocus
<1> QED BY <1>1 DEF Email!KeptChips

\* What the input adds to the recipients.
LEMMA Added ==
  ASSUME EmailInv, Email!handleAdd
  PROVE  recipients' \in Seq(Texts) /\ inputValue' = Empty /\ editValue' \in [Texts -> Texts]
<1>1. recipients \in Seq(Texts) /\ inputValue \in Texts
  BY EmailParts DEF EmailRecipients, EmailFocus
<1> DEFINE rest == Email!filter(recipients, Texts \ {inputValue})
<1>2. rest \in Seq(Texts)
  BY <1>1, EmailArrays
<1> HIDE DEF rest
<1>3. Append(rest, inputValue) \in Seq(Texts)
  BY <1>1, <1>2
<1>4. /\ recipients' = IF inputValue = Empty THEN recipients ELSE Append(rest, inputValue)
      /\ inputValue' = Empty
  BY DEF Email!handleAdd, rest
<1>5. editValue' \in [Texts -> Texts]
  BY ChipsKept DEF Email!handleAdd
<1> QED BY <1>1, <1>3, <1>4, <1>5

LEMMA EmailNext ==
  ASSUME EmailInv, [Email!Next]_emailVars
  PROVE  EmailInv'
<1>0. EmailRecipients /\ EmailFocus /\ EmailFiles /\ EmailSaved
  BY EmailParts
<1>a. Empty \in Texts /\ NoValue \notin Texts
  BY EmailAssumption
<1>b. <<>> \in Seq(Texts) /\ <<>> \in Seq(Uploads)
  BY EmptySeq, Zenon
<1>k. Email!KeptChips \in [Texts -> Texts] /\ Email!NewChips \in [Texts -> Texts]
  BY ChipsKept DEF Email!NewChips
<1>p. EmailRecipients' /\ EmailFocus' /\ EmailFiles' /\ EmailSaved' => EmailInv'
  BY DEF EmailInv, Email!TypeOK, Email!OnlyAddressesAreSaved, Email!NothingLeftTyped,
         EmailRecipients, EmailFocus, EmailFiles, EmailSaved, Uploads, SavedEmails
<1> USE DEF Email!fieldVars, Email!chipVars, Email!csvVars
<1>r. recipients' = recipients /\ subject' = subject /\ message' = message => EmailRecipients'
  BY <1>0 DEF EmailRecipients
<1>f. focus' = focus /\ inputValue' = inputValue /\ chip' = chip /\ editValue' = editValue => EmailFocus'
  BY <1>0 DEF EmailFocus
<1>u. inputMode' = inputMode /\ uploads' = uploads /\ isLoading' = isLoading => EmailFiles'
  BY <1>0 DEF EmailFiles
<1>s. emailConfig' = emailConfig => EmailSaved'
  BY <1>0 DEF EmailSaved
<1>1. CASE Email!FocusInput
  <2>1. EmailFocus'
    BY <1>0, <1>1 DEF EmailFocus, Email!FocusInput
  <2> QED BY <1>1, <1>p, <1>r, <1>u, <1>s, <2>1 DEF Email!FocusInput
<1>2. CASE Email!handleKeyDown
  <2>1. recipients' \in Seq(Texts) /\ inputValue' = Empty /\ editValue' \in [Texts -> Texts]
    BY <1>2, Added DEF Email!handleKeyDown
  <2>2. EmailRecipients'
    BY <1>0, <1>2, <2>1 DEF EmailRecipients, Email!handleKeyDown
  <2>3. EmailFocus'
    BY <1>0, <1>2, <1>a, <2>1 DEF EmailFocus, Email!handleKeyDown
  <2> QED BY <1>2, <1>p, <1>u, <1>s, <2>2, <2>3 DEF Email!handleKeyDown
<1>3. CASE Email!handleBlur
  <2>1. recipients' \in Seq(Texts) /\ inputValue' = Empty /\ editValue' \in [Texts -> Texts]
    BY <1>3, Added DEF Email!handleBlur
  <2>2. EmailRecipients'
    BY <1>0, <1>3, <2>1 DEF EmailRecipients, Email!handleBlur
  <2>3. EmailFocus'
    BY <1>0, <1>3, <1>a, <2>1 DEF EmailFocus, Email!handleBlur
  <2> QED BY <1>3, <1>p, <1>u, <1>s, <2>2, <2>3 DEF Email!handleBlur
<1>4. ASSUME NEW t \in Texts, Email!Type(t) PROVE EmailInv'
  <2>1. EmailFocus'
    BY <1>0, <1>4 DEF EmailFocus, Email!Type
  <2> QED BY <1>4, <1>p, <1>r, <1>u, <1>s, <2>1 DEF Email!Type
<1>5. ASSUME NEW t \in Texts, Email!TypeInChip(t) PROVE EmailInv'
  <2>1. EmailFocus'
    BY <1>0, <1>5 DEF EmailFocus, Email!TypeInChip
  <2> QED BY <1>5, <1>p, <1>r, <1>u, <1>s, <2>1 DEF Email!TypeInChip
<1>6. ASSUME NEW t \in Texts, Email!handleEdit(t) PROVE EmailInv'
  <2>1. EmailFocus'
    BY <1>0, <1>6, <1>a DEF EmailFocus, Email!handleEdit
  <2> QED BY <1>6, <1>p, <1>r, <1>u, <1>s, <2>1 DEF Email!handleEdit
<1>7. ASSUME NEW t \in Texts, Email!handleRemove(t) PROVE EmailInv'
  <2>1. Email!filter(recipients, Texts \ {t}) \in Seq(Texts)
    BY <1>0, EmailArrays DEF EmailRecipients
  <2>2. EmailRecipients'
    BY <1>0, <1>7, <2>1 DEF EmailRecipients, Email!handleRemove
  <2>3. EmailFocus'
    BY <1>0, <1>7, <1>k DEF EmailFocus, Email!handleRemove
  <2> QED BY <1>7, <1>p, <1>u, <1>s, <2>2, <2>3 DEF Email!handleRemove
<1>8. ASSUME NEW q \in Pastes, Email!handlePaste(q) PROVE EmailInv'
  <2> DEFINE all == recipients \o q
  <2>1. all \in Seq(Texts)
    <3>1. recipients \in Seq(Texts) /\ q \in Seq(Texts)
      BY <1>0, EmailAssumption DEF EmailRecipients
    <3> QED BY <3>1, ConcatProperties
  <2>2. recipients' = Email!uniques(all)
    BY <1>8 DEF Email!handlePaste
  <2> HIDE DEF all
  <2>3. recipients' \in Seq(Texts)
    BY <2>1, <2>2, EmailArrays
  <2>4. EmailRecipients'
    BY <1>0, <1>8, <2>3 DEF EmailRecipients, Email!handlePaste
  <2>5. EmailFocus'
    BY <1>0, <1>8, <1>a, <1>k DEF EmailFocus, Email!handlePaste
  <2> QED BY <1>8, <1>p, <1>u, <1>s, <2>4, <2>5 DEF Email!handlePaste
<1>9. CASE Email!handleSave
  <2> DEFINE typed == editValue[chip]
  <2> DEFINE new == IF Email!parseEmail[typed] = NoValue THEN typed ELSE Email!parseEmail[typed]
  <2>t. typed \in Texts
    BY <1>0, <1>9 DEF EmailFocus, Email!handleSave
  <2>1. new \in Texts
    BY <2>t, ParsedEmail
  <2>2. recipients' = [i \in DOMAIN recipients |-> IF recipients[i] = chip THEN new ELSE recipients[i]]
    BY <1>9 DEF Email!handleSave
  <2> HIDE DEF new
  <2>3. recipients \in Seq(Texts)
    BY <1>0 DEF EmailRecipients
  <2>4. recipients' \in Seq(Texts)
    BY <2>1, <2>2, <2>3
  <2>5. EmailRecipients'
    BY <1>0, <1>9, <2>4 DEF EmailRecipients, Email!handleSave
  <2>6. EmailFocus'
    BY <1>0, <1>9, <1>a, <1>k DEF EmailFocus, Email!handleSave
  <2> QED BY <1>9, <1>p, <1>u, <1>s, <2>5, <2>6 DEF Email!handleSave
<1>10. CASE Email!Escape
  <2>1. EmailFocus'
    BY <1>0, <1>10, <1>a DEF EmailFocus, Email!Escape
  <2> QED BY <1>10, <1>p, <1>r, <1>u, <1>s, <2>1 DEF Email!Escape
<1>11. CASE Email!SetInputMode
  <2>1. EmailFiles'
    BY <1>0, <1>11 DEF EmailFiles, Email!SetInputMode
  <2> QED BY <1>11, <1>p, <1>r, <1>f, <1>s, <2>1 DEF Email!SetInputMode
<1>12. ASSUME NEW g \in Files \cup {NoValue}, Email!handleCsvFile(g) PROVE EmailInv'
  <2> DEFINE u == [value |-> recipients, file |-> g]
  <2>1. u \in Uploads
    BY <1>0 DEF EmailRecipients, Uploads
  <2>2. uploads' = Append(uploads, u) /\ isLoading' = TRUE /\ inputMode' = inputMode
    BY <1>12 DEF Email!handleCsvFile
  <2> HIDE DEF u
  <2>3. EmailFiles'
    BY <1>0, <2>1, <2>2 DEF EmailFiles
  <2> QED BY <1>12, <1>p, <1>r, <1>f, <1>s, <2>3 DEF Email!handleCsvFile
<1>13. ASSUME NEW i \in 1 .. Len(uploads), Email!CsvDone(i) PROVE EmailInv'
  <2> DEFINE u == uploads[i]
  <2> DEFINE emails == Email!parseEmailCsv(u.file)
  <2> DEFINE before == SubSeq(uploads, 1, i - 1)
  <2> DEFINE after == SubSeq(uploads, i + 1, Len(uploads))
  <2>1. uploads \in Seq(Uploads) /\ Len(uploads) \in Nat /\ \A j \in 1 .. Len(uploads) : uploads[j] \in Uploads
    BY <1>0 DEF EmailFiles
  <2>2. u.value \in Seq(Texts) /\ u.file \in Files \cup {NoValue}
    BY <2>1 DEF Uploads
  <2>3. emails # NoValue => emails \in Seq(Texts)
    <3>1. u.file # NoValue => u.file \in Seq(Texts)
      BY <2>2, EmailAssumption
    <3>2. u.file # NoValue => Email!filter(u.file, Texts \ {Empty}) \in Seq(Texts)
      BY <3>1, EmailArrays
    <3> QED BY <3>2 DEF Email!parseEmailCsv
  <2>4. before \in Seq(Uploads) /\ after \in Seq(Uploads)
    BY <2>1
  <2>5. /\ recipients' = IF emails = NoValue THEN recipients ELSE u.value \o emails
        /\ uploads' = before \o after /\ isLoading' = FALSE /\ inputMode' = inputMode
        /\ \/ focus = "chip" /\ focus' = "none" /\ chip' = NoValue
           \/ focus' = focus /\ chip' = chip
        /\ editValue' = Email!KeptChips
        /\ subject' = subject /\ message' = message /\ inputValue' = inputValue /\ emailConfig' = emailConfig
    BY <1>13 DEF Email!CsvDone, Email!RemoveAt
  <2> HIDE DEF u, emails, before, after
  <2>6. before \o after \in Seq(Uploads)
    BY <2>4, ConcatProperties
  <2>7. emails # NoValue => u.value \o emails \in Seq(Texts)
    BY <2>2, <2>3, ConcatProperties
  <2>8. EmailRecipients'
    BY <1>0, <2>5, <2>7 DEF EmailRecipients
  <2>9. EmailFiles'
    BY <1>0, <2>5, <2>6 DEF EmailFiles
  <2>10. EmailFocus'
    BY <1>0, <1>a, <1>k, <2>5 DEF EmailFocus
  <2> QED BY <1>p, <1>s, <2>5, <2>8, <2>9, <2>10
<1>14. ASSUME NEW n \in TextLengths, Email!TypeSubject(n) \/ Email!TypeMessage(n) PROVE EmailInv'
  <2>1. EmailRecipients'
    BY <1>0, <1>14 DEF EmailRecipients, Email!TypeSubject, Email!TypeMessage
  <2> QED BY <1>14, <1>p, <1>f, <1>u, <1>s, <2>1 DEF Email!TypeSubject, Email!TypeMessage
<1>15. CASE Email!onSubmit
  <2> DEFINE out == Email!Transform(recipients)
  <2>1. /\ out \in Seq(Texts) /\ \A i \in DOMAIN out : Email!parseEmail[out[i]] = out[i]
    BY <1>0, Transformed DEF EmailRecipients
  <2>2. /\ out # <<>> /\ emailConfig' = [recipients |-> out, subject |-> subject, message |-> message]
    BY <1>15 DEF Email!onSubmit, Email!emailFormSchema
  <2> HIDE DEF out
  <2>3. emailConfig' \in SavedEmails /\ emailConfig'.recipients = out
    BY <1>0, <2>1, <2>2 DEF SavedEmails, EmailRecipients
  <2>4. EmailSaved'
    BY <2>1, <2>2, <2>3 DEF EmailSaved
  <2> QED BY <1>15, <1>p, <1>r, <1>f, <1>u, <2>4 DEF Email!onSubmit
<1>16. CASE Email!handleReset
  <2>1. EmailRecipients'
    BY <1>0, <1>16, <1>b DEF EmailRecipients, Email!handleReset
  <2>2. EmailFocus'
    BY <1>0, <1>16, <1>k DEF EmailFocus, Email!handleReset
  <2> QED BY <1>16, <1>p, <1>u, <1>s, <2>1, <2>2 DEF Email!handleReset
<1>17. CASE Email!Reopen
  <2>1. EmailRecipients'
    <3>1. CASE emailConfig = NoValue
      BY <1>17, <1>b, <3>1 DEF EmailRecipients, Email!Reopen
    <3>2. CASE emailConfig # NoValue
      <4>1. /\ emailConfig.recipients \in Seq(Texts)
            /\ emailConfig.subject \in TextLengths \cup {0} /\ emailConfig.message \in TextLengths \cup {0}
        BY <1>0, <3>2 DEF EmailSaved, SavedEmails
      <4> QED BY <1>17, <3>2, <4>1 DEF EmailRecipients, Email!Reopen
    <3> QED BY <3>1, <3>2
  <2>2. EmailFocus'
    BY <1>0, <1>17, <1>a, <1>k DEF EmailFocus, Email!Reopen
  <2>3. EmailFiles'
    BY <1>17, <1>b DEF EmailFiles, Email!Reopen
  <2> QED BY <1>17, <1>p, <1>s, <2>1, <2>2, <2>3 DEF Email!Reopen
<1>18. CASE UNCHANGED emailVars
  BY <1>18, <1>p, <1>r, <1>f, <1>u, <1>s DEF emailVars
<1> QED BY <1>1, <1>2, <1>3, <1>4, <1>5, <1>6, <1>7, <1>8, <1>9, <1>10, <1>11, <1>12, <1>13,
           <1>14, <1>15, <1>16, <1>17, <1>18 DEF Email!Next

-----------------------------------------------------------------------------
(* The settings.                                                           *)

SettingsInv == nodeType \in NodeTypes /\ EmailInv /\ ScheduleInv /\ EventInv /\ TriggerInv

LEMMA SettingsInvHolds == Spec => []SettingsInv
<1>1. Init => SettingsInv
  BY EmailInit, ScheduleInit, EventInit, TriggerInit DEF Init, SettingsInv
<1>2. SettingsInv /\ [SettingsTab]_vars => SettingsInv'
  <2> SUFFICES ASSUME SettingsInv, [SettingsTab]_vars PROVE SettingsInv'
    OBVIOUS
  <2>1. nodeType' = nodeType
    BY DEF SettingsTab, vars, Others
  <2>2. EmailInv' /\ ScheduleInv' /\ EventInv' /\ TriggerInv'
    BY EmailSteps, ScheduleSteps, EventSteps, TriggerSteps, EmailNext, ScheduleNext, EventNext, TriggerNext
       DEF SettingsInv
  <2> QED BY <2>1, <2>2 DEF SettingsInv
<1> QED BY <1>1, <1>2, PTL DEF Spec

\* Every field of the mounted form, the files being read and what was saved have
\* their types, in every order of the handlers.
THEOREM SettingsTypeCorrect == Spec => []TypeOK
<1>1. SettingsInv => TypeOK
  BY EventInvImplies, ScheduleInvImplies, TriggerInvImplies
     DEF SettingsInv, TypeOK, NodeTypes, EmailInv
<1> QED BY <1>1, SettingsInvHolds, PTL

\* What the forms' onSubmit handlers save is valid: addresses in normal form and
\* none left in the input, a delay in its range, a trigger that the backend's
\* Validate accepts unless it is "Immediately", has too many keywords or a time
\* that is no whole number of minutes; the custom time that is on display.
THEOREM SavedAlwaysValid == Spec => []SavedIsValid
<1>1. SettingsInv => SavedIsValid
  BY EventInvImplies, TriggerInvImplies DEF SettingsInv, SavedIsValid, NodeTypes, EmailInv
<1> QED BY <1>1, SettingsInvHolds, PTL

\* Settings that are opened again (defaultValues) show the schedule and the event
\* that were saved, at every time of the clock and in every zone.
THEOREM ReopenAlwaysKeeps == Spec => []ReopenKeepsSettings
<1>1. SettingsInv => ReopenKeepsSettings
  BY EventInvImplies, ScheduleInvImplies DEF SettingsInv, ReopenKeepsSettings, NodeTypes
<1> QED BY <1>1, SettingsInvHolds, PTL

\* The preview, in local time, agrees with what the backend's CalculateNextRun
\* makes of the schedule in UTC, for every fixed offset between the two and every
\* day that is in each month in both; and the preview of an event with what a save
\* keeps.
THEOREM PreviewsAlwaysTrue == Spec => []PreviewsAreTrue
<1>1. SettingsInv => PreviewsAreTrue
  BY EventInvImplies, ScheduleInvImplies DEF SettingsInv, PreviewsAreTrue, NodeTypes
<1> QED BY <1>1, SettingsInvHolds, PTL

\* The time picker's twelve-hour clock loses nothing (dateTo12HourParts).
THEOREM ConversionsAlwaysRoundTrip == Spec => []ConversionsRoundTrip
<1>1. SettingsInv => ConversionsRoundTrip
  BY ScheduleInvImplies DEF SettingsInv, ConversionsRoundTrip
<1> QED BY <1>1, SettingsInvHolds, PTL
=============================================================================
