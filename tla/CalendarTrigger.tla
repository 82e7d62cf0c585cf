--------------------------- MODULE CalendarTrigger ---------------------------
(***************************************************************************)
(* The form of the calendar trigger: the fields of the form, the state     *)
(* beside it for a custom time, the effects that tie the two together, the *)
(* validation, the configuration it saves into the node, the selector that *)
(* fetches calendars, and the checks the backend makes of a configuration. *)
(*                                                                         *)
(* Keywords are the number of them and the type they are held in: the text *)
(* of the field, or the list that is saved.  What is typed as a number may *)
(* be a fraction or negative: amounts and minutes are counted in 1/Scale.  *)
(***************************************************************************)
EXTENDS Integers

CONSTANTS
  Scale,                  \* typed numbers are multiples of 1/Scale
  Amounts,                \* bound: the numbers that are typed, times Scale
  KeywordCounts,          \* bound: how many keywords are typed
  Calendars, NoValue

TimeUnit == {"minute", "hour", "day", "week"}
timeUnitToMinutes == [u \in TimeUnit |->
  CASE u = "minute" -> 1 [] u = "hour" -> 60 [] u = "day" -> 60 * 24 [] u = "week" -> 60 * 24 * 7]

convertToMinutes(amount, unit) == amount * timeUnitToMinutes[unit]

\* The times the select offers; the label of the last one says "1 week".
Options == {Scale * m : m \in {0, 15, 30, 60, 720, 1440, 2880}}

VARIABLES
  form,                                       \* the fields
  customAmount, customUnit, isCustomizing,
  isResetDialogOpen,
  config,                                     \* the node's configuration
  isOpen, isLoading, calendars, requests      \* the calendar selector
customVars == <<customAmount, customUnit, isCustomizing>>
selectorVars == <<isOpen, isLoading, calendars, requests>>
vars == <<form, customAmount, customUnit, isCustomizing, isResetDialogOpen, config,
          isOpen, isLoading, calendars, requests>>

Custom == NoValue         \* the string "custom" in the time field
Times == Options \cup {convertToMinutes(a, u) : a \in {x \in Amounts : x > 0}, u \in TimeUnit}

Form == [eventStatus : {"none", "cancelled", "starting", "ending"},
         timeCondition : [set : BOOLEAN, minutes : Times \cup {Custom}],
         calendarID : Calendars \cup {NoValue},
         keywords : [type : {"string", "array"}, count : KeywordCounts \cup {0, 1}]]

TypeOK ==
  /\ form \in Form
  /\ customAmount \in Amounts \cup {0} /\ customUnit \in TimeUnit
  /\ {isCustomizing, isResetDialogOpen, isOpen, isLoading, calendars} \subseteq BOOLEAN
  /\ config # NoValue => config \in Form
  /\ requests \in 0 .. 1

NoTime == [set |-> FALSE, minutes |-> 0]
Time(minutes) == [set |-> TRUE, minutes |-> minutes]

calendarTriggerDefaultValues ==
  [eventStatus |-> "none", timeCondition |-> NoTime, calendarID |-> NoValue,
   keywords |-> [type |-> "string", count |-> 0]]

-----------------------------------------------------------------------------
(* The effects.                                                            *)

isCustomTime(f, customizing) == f.timeCondition = Time(Custom) \/ customizing

\* Mutant: the custom time is added to the one that was set.
AddsCustom(f, amount, unit, customizing) ==
  LET custom == isCustomTime(f, customizing)
  IN /\ form' = IF custom /\ amount > 0
                THEN [f EXCEPT !.timeCondition =
                        Time(convertToMinutes(amount, unit) + IF @.minutes = Custom THEN 0 ELSE @.minutes)]
                ELSE f
     /\ customAmount' = IF custom THEN amount ELSE 0
     /\ customUnit' = IF custom THEN unit ELSE "minute"
     /\ isCustomizing' = (custom /\ customizing)

\* A render with new fields and custom values, and the two effects after it:
\* a positive custom time becomes the value of the field; away from a custom
\* time the custom values are cleared.
Effects(f, amount, unit, customizing) ==
  LET custom == isCustomTime(f, customizing)
  IN /\ form' = IF custom /\ amount > 0
                THEN [f EXCEPT !.timeCondition = Time(convertToMinutes(amount, unit))] ELSE f
     /\ customAmount' = IF custom THEN amount ELSE 0
     /\ customUnit' = IF custom THEN unit ELSE "minute"
     /\ isCustomizing' = (custom /\ customizing)

Set(f) ==
  /\ ~isResetDialogOpen
  /\ Effects(f, customAmount, customUnit, isCustomizing)
  /\ UNCHANGED <<isResetDialogOpen, config, selectorVars>>

-----------------------------------------------------------------------------
(* The fields.                                                             *)

isTimeBasedTrigger == form.eventStatus \in {"starting", "ending"}

SelectStatus(s) == s # form.eventStatus /\ Set([form EXCEPT !.eventStatus = s])

\* A selection is a change: of the options, the time that is set when it is
\* none of them, and "custom".  Away from "custom" the field of the amount goes.
SelectTime(minutes) ==
  /\ ~isResetDialogOpen /\ isTimeBasedTrigger
  /\ IF isCustomizing THEN minutes # Custom ELSE Time(minutes) # form.timeCondition
  /\ Effects([form EXCEPT !.timeCondition = Time(minutes)], customAmount, customUnit, minutes = Custom)
  /\ UNCHANGED <<isResetDialogOpen, config, selectorVars>>

\* Whatever number is in the field.
TypeAmount(amount) ==
  /\ ~isResetDialogOpen /\ isTimeBasedTrigger /\ isCustomTime(form, isCustomizing)
  /\ Effects(form, amount, customUnit, isCustomizing)
  /\ UNCHANGED <<isResetDialogOpen, config, selectorVars>>

SelectUnit(unit) ==
  /\ ~isResetDialogOpen /\ isTimeBasedTrigger /\ isCustomTime(form, isCustomizing)
  /\ Effects(form, customAmount, unit, isCustomizing)
  /\ UNCHANGED <<isResetDialogOpen, config, selectorVars>>

TypeKeywords(n) == Set([form EXCEPT !.keywords = [type |-> "string", count |-> n]])

SelectCalendar(c) ==
  /\ isOpen /\ calendars /\ ~isResetDialogOpen
  /\ form' = [form EXCEPT !.calendarID = c]
  /\ isOpen' = FALSE
  /\ UNCHANGED <<customVars, isResetDialogOpen, config, isLoading, calendars, requests>>

-----------------------------------------------------------------------------
(* Saving, resetting, opening again.                                       *)

maxTime == 60 * 24 * 7 * 4

\* The schema of the form: keywords are a string, a time-based trigger has a
\* number of minutes, up to four weeks.
calendarTriggerFormSchema(f) ==
  /\ f.keywords.type = "string"
  /\ f.eventStatus \in {"starting", "ending"} =>
       f.timeCondition.set /\ f.timeCondition.minutes # Custom
         /\ f.timeCondition.minutes <= Scale * maxTime

\* The browser's constraints on the field of the amount, which hold up a
\* submission while the field is there: empty, or a whole number from one on.
fieldIsValid ==
  isTimeBasedTrigger /\ isCustomTime(form, isCustomizing)
    => customAmount = 0 \/ (customAmount >= Scale /\ customAmount % Scale = 0)

\* The text between the commas: no text at all is one empty keyword.
split(keywords) == [type |-> "array", count |-> IF keywords.count = 0 THEN 1 ELSE keywords.count]

\* What is saved: a list of keywords, a calendar, no time for "cancelled".
savedData ==
  [form EXCEPT !.calendarID = IF @ = NoValue THEN "primary" ELSE @,
               !.keywords = split(@),
               !.timeCondition = IF form.eventStatus = "cancelled" THEN NoTime ELSE @]

\* Without a status nothing is saved.
onSubmit ==
  /\ ~isResetDialogOpen
  /\ fieldIsValid /\ calendarTriggerFormSchema(form) /\ form.eventStatus # "none"
  /\ config' = savedData
  /\ UNCHANGED <<form, customVars, isResetDialogOpen, selectorVars>>

AskReset ==
  /\ ~isResetDialogOpen
  /\ isResetDialogOpen' = TRUE
  /\ UNCHANGED <<form, customVars, config, selectorVars>>

CancelReset ==
  /\ isResetDialogOpen
  /\ isResetDialogOpen' = FALSE
  /\ UNCHANGED <<form, customVars, config, selectorVars>>

onReset ==
  /\ isResetDialogOpen
  /\ isResetDialogOpen' = FALSE
  /\ Effects(calendarTriggerDefaultValues, 0, "minute", FALSE)
  /\ UNCHANGED <<config, selectorVars>>

\* Selecting the node again: the form starts from what was saved.  A request
\* of the selector that is gone has no effect.
Reopen ==
  /\ Effects(IF config = NoValue THEN calendarTriggerDefaultValues ELSE config, 0, "minute", FALSE)
  /\ isResetDialogOpen' = FALSE
  /\ isOpen' = FALSE /\ isLoading' = FALSE /\ calendars' = FALSE /\ requests' = 0
  /\ UNCHANGED config

-----------------------------------------------------------------------------
(* The calendar selector: its effect runs when it opens and when a fetch    *)
(* ends.                                                                    *)

\* Whether the effect starts a fetch, in a render with these values.
fetches(open, loading, loaded) == open /\ ~loaded /\ ~loading

\* The effect after a render, and after the render it brings about itself
\* when it sets isLoading.
SelectorEffect(open, loading, loaded) ==
  LET first == fetches(open, loading, loaded)
      again == first /\ fetches(open, TRUE, loaded)
  IN /\ isOpen' = open /\ calendars' = loaded
     /\ isLoading' = (loading \/ first)
     /\ requests' = (IF loading THEN requests ELSE 0) + (IF first THEN 1 ELSE 0) + (IF again THEN 1 ELSE 0)

formVars == <<form, customVars, isResetDialogOpen, config>>

OpenSelector ==
  /\ ~isOpen /\ ~isLoading /\ ~isResetDialogOpen
  /\ SelectorEffect(TRUE, isLoading, calendars)
  /\ UNCHANGED formVars

CloseSelector ==
  /\ isOpen
  /\ SelectorEffect(FALSE, isLoading, calendars)
  /\ UNCHANGED formVars

\* The fetch ends, with the calendars or with an error that is logged.
FetchEnds(ok) ==
  /\ isLoading
  /\ SelectorEffect(isOpen, FALSE, calendars \/ ok)
  /\ UNCHANGED formVars

-----------------------------------------------------------------------------
(* The backend.                                                            *)

maxKeywords == 20
minTimeMinutes == 1

ValidateCalendarConfig(c) ==
  LET timeSpecific == c.eventStatus \in {"starting", "ending"}
  IN /\ c.eventStatus \in {"cancelled", "starting", "ending"}
     /\ c.keywords.count <= maxKeywords
     /\ c.timeCondition.set <=> timeSpecific
     /\ c.timeCondition.set => c.timeCondition.minutes \in Scale * minTimeMinutes .. Scale * maxTime

\* The configuration decodes: the time goes into an integer.
buildCalendarConfig(c) == c.timeCondition.set => c.timeCondition.minutes % Scale = 0

Validate(c) == buildCalendarConfig(c) /\ ValidateCalendarConfig(c)

-----------------------------------------------------------------------------
Init ==
  /\ form = calendarTriggerDefaultValues
  /\ customAmount = 0 /\ customUnit = "minute" /\ isCustomizing = FALSE
  /\ isResetDialogOpen = FALSE
  /\ config = NoValue
  /\ isOpen = FALSE /\ isLoading = FALSE /\ calendars = FALSE /\ requests = 0

Next ==
  \/ \E s \in {"cancelled", "starting", "ending"} : SelectStatus(s)
  \/ \E t \in Options \cup {Custom, form.timeCondition.minutes} : SelectTime(t)
  \/ \E a \in Amounts \cup {0} : TypeAmount(a)
  \/ \E u \in TimeUnit : SelectUnit(u)
  \/ \E n \in KeywordCounts : TypeKeywords(n)
  \/ \E c \in Calendars : SelectCalendar(c)
  \/ onSubmit \/ AskReset \/ CancelReset \/ onReset \/ Reopen
  \/ OpenSelector \/ CloseSelector \/ \E ok \in BOOLEAN : FetchEnds(ok)

Spec == Init /\ [][Next]_vars

-----------------------------------------------------------------------------
(* Properties.                                                             *)

\* What the form lets through the backend accepts, whatever was selected,
\* customised and reset before: a time exactly for a time-based trigger, a
\* number (never "custom"), within four weeks.  Three things are left to the
\* backend: the option "Immediately", the number of keywords, and a time that is
\* no whole number of minutes, which the select offers after its field is gone.
SavedIsAccepted ==
  /\ config # NoValue /\ config.keywords.count <= maxKeywords
  /\ config.timeCondition.set =>
       config.timeCondition.minutes >= Scale * minTimeMinutes /\ config.timeCondition.minutes % Scale = 0
  => Validate(config) /\ config.calendarID # NoValue

\* While a custom amount is on display the time is that amount in that unit.
CustomFollows ==
  isCustomizing /\ customAmount > 0
    => form.timeCondition = Time(convertToMinutes(customAmount, customUnit))

=============================================================================
