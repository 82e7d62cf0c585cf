------------------------------ MODULE Settings ------------------------------
(***************************************************************************)
(* The settings of a node (InspectorPanel/settings): the form that is      *)
(* mounted is the one of the selected node's type.  A behaviour is one of  *)
(* the form of one node; the others are not mounted and stay as they       *)
(* began.                                                                  *)
(***************************************************************************)
EXTENDS Integers, Sequences

CONSTANT NoValue      \* undefined, or an empty field

\* The calendar trigger.
CONSTANTS Scale, Amounts, KeywordCounts, Calendars

\* The schedule.
CONSTANTS Zone, Instants, Days, Hours, Minutes

\* The email.
CONSTANTS Texts, Empty, Addresses, LowerCase, Files, Pastes, TextLengths, MaxRecipients, MaxUploads

\* The event.
CONSTANTS EventTimes, DelayInputs, EventLengths, Details, NoDetails

VARIABLE nodeType     \* the type of the selected node

-----------------------------------------------------------------------------
(* The forms.                                                              *)

VARIABLES trigger, customAmount, customUnit, isCustomizing, isResetDialogOpen, triggerConfig,
  selectorOpen, calendarsLoading, calendars, requests
triggerVars == <<trigger, customAmount, customUnit, isCustomizing, isResetDialogOpen, triggerConfig,
  selectorOpen, calendarsLoading, calendars, requests>>

Trigger == INSTANCE CalendarTrigger WITH
  form <- trigger, config <- triggerConfig, isOpen <- selectorOpen, isLoading <- calendarsLoading

\* Every account has a calendar of that name.
ASSUME TriggerAssumption ==
  /\ Scale \in Nat \ {0} /\ Amounts \subseteq Int /\ KeywordCounts \subseteq Nat
  /\ "primary" \in Calendars /\ NoValue \notin Calendars

VARIABLES now, schedule, shownType, today, isOpen, rendered, scheduleConfig
scheduleVars == <<now, schedule, shownType, today, isOpen, rendered, scheduleConfig>>

Schedule == INSTANCE ScheduleForm WITH form <- schedule, config <- scheduleConfig

\* The picker has the hours of half a day.  Bound: days are after the first of
\* January and before the last of October, so that the runs in a preview are in
\* the year, in both zones.
ASSUME ScheduleAssumption ==
  /\ Zone \in Int /\ -Schedule!perDay < Zone /\ Zone < Schedule!perDay
  /\ Instants # {} /\ Instants \subseteq Nat /\ Days \subseteq Nat
  /\ \A d \in Days \cup {Schedule!Day(t) : t \in Instants} : 0 < d /\ d + 1 < Schedule!monthStart[11]
  /\ Hours \subseteq 1 .. 12 /\ Minutes \subseteq 0 .. 59

VARIABLES recipients, subject, message, focus, inputValue, chip, editValue,
  inputMode, uploads, isLoading, emailConfig
emailVars == <<recipients, subject, message, focus, inputValue, chip, editValue,
  inputMode, uploads, isLoading, emailConfig>>

Email == INSTANCE EmailForm WITH Lengths <- TextLengths, config <- emailConfig

\* An address in lower case is an address, and stays as it is.
ASSUME EmailAssumption ==
  /\ Empty \in Texts /\ NoValue \notin Texts /\ Addresses \subseteq Texts
  /\ LowerCase \in [Texts -> Texts]
  /\ \A a \in Addresses : LowerCase[a] \in Addresses /\ LowerCase[LowerCase[a]] = LowerCase[a]
  /\ Files \subseteq Seq(Texts) /\ NoValue \notin Files /\ Pastes \subseteq Seq(Texts)
  /\ TextLengths \subseteq Nat /\ MaxRecipients \in Nat /\ MaxUploads \in Nat

VARIABLES event, eventConfig
eventVars == <<event, eventConfig>>

Event == INSTANCE EventForm WITH
  Times <- EventTimes, Lengths <- EventLengths, form <- event, config <- eventConfig

ASSUME EventAssumption ==
  DelayInputs \subseteq Int /\ EventLengths \subseteq Nat /\ "tooLong" \notin Details \cup {NoDetails}

\* The node types that have settings.
NodeTypes == {"send_email", "schedule", "google_calendar_create_event", "calendar_event"}

-----------------------------------------------------------------------------
\* A form that is not mounted begins in one state.
Init ==
  /\ nodeType \in NodeTypes
  /\ nodeType # "schedule" => now = CHOOSE t \in Instants : TRUE
  /\ Email!Init /\ Schedule!Init /\ Event!Init /\ Trigger!Init

Rest(type) ==
  CASE type = "send_email" -> UNCHANGED emailVars
    [] type = "schedule" -> UNCHANGED scheduleVars
    [] type = "google_calendar_create_event" -> UNCHANGED eventVars
    [] type = "calendar_event" -> UNCHANGED triggerVars

Others(type) == UNCHANGED nodeType /\ \A t \in NodeTypes \ {type} : Rest(t)

\* SettingsTab: the form of the node's type takes every step.
SettingsTab ==
  \/ nodeType = "send_email" /\ Email!Next /\ Others("send_email")
  \/ nodeType = "schedule" /\ Schedule!Next /\ Others("schedule")
  \/ /\ nodeType = "google_calendar_create_event"
     /\ Event!Next /\ Others("google_calendar_create_event")
  \/ nodeType = "calendar_event" /\ Trigger!Next /\ Others("calendar_event")

vars == <<nodeType, emailVars, scheduleVars, eventVars, triggerVars>>

Spec == Init /\ [][SettingsTab]_vars

-----------------------------------------------------------------------------
(* What each form promises.                                                *)

\* The types of all forms.
TypeOK ==
  CASE nodeType = "send_email" -> Email!TypeOK
    [] nodeType = "schedule" -> Schedule!TypeOK
    [] nodeType = "google_calendar_create_event" -> Event!TypeOK
    [] nodeType = "calendar_event" -> Trigger!TypeOK

\* What a form saves is what its fields and the backend allow, in whatever
\* order it was typed, picked, reset and saved: a trigger that the service
\* accepts, but for "Immediately", too many keywords and fractions of a minute
\* (Validate), with the custom time on display; recipients that are addresses, at least one,
\* and none left in the input; a delay in its range.
SavedIsValid ==
  CASE nodeType = "send_email" -> Email!OnlyAddressesAreSaved /\ Email!NothingLeftTyped
    [] nodeType = "google_calendar_create_event" -> Event!DelayInRange
    [] nodeType = "calendar_event" -> Trigger!SavedIsAccepted /\ Trigger!CustomFollows
    [] OTHER -> TRUE

\* Settings that are opened again show what was saved, whatever the clock and the
\* zone (defaultValues of the schedule and of the event): an event is saved again
\* as it was, and a schedule too unless it is over by then.
ReopenKeepsSettings ==
  CASE nodeType = "schedule" -> Schedule!ReopenKeepsSchedule
    [] nodeType = "google_calendar_create_event" -> Event!ReopenKeepsEvent
    [] OTHER -> TRUE

\* The preview of a schedule is what the scheduler does, in every zone and for
\* days that every month has (getNextRuns, CalculateNextRun), and the preview of
\* an event whose fields are set is what a save would keep.
PreviewsAreTrue ==
  CASE nodeType = "schedule" -> Schedule!PreviewIsTrue
    [] nodeType = "google_calendar_create_event" -> Event!PreviewIsTrueWhenSet
    [] OTHER -> TRUE

\* A time survives being taken apart for the fields that show it and put
\* together again: the clock of twelve hours of the time picker
\* (dateTo12HourParts).
ConversionsRoundTrip == nodeType = "schedule" => Schedule!PartsRoundTrip
=============================================================================
