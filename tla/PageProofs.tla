----------------------------- MODULE PageProofs ------------------------------
(***************************************************************************)
(* Proofs about the pages of the workspace: for every value of the         *)
(* constants each of the invariants that Pages states holds, and so do the *)
(* two action properties of the canvas.  A behaviour works with one screen *)
(* and leaves the others alone (CanvasSteps ... RunSteps), so each screen  *)
(* has an inductive invariant of its own.                                  *)
(***************************************************************************)
EXTENDS Pages, ArrayProofs, FiniteSetTheorems, SequenceTheorems, WellFoundedInduction, TLAPS

-----------------------------------------------------------------------------
(* The screens do not disturb each other: a step of one of them leaves the *)
(* others alone.                                                           *)

LEMMA CanvasSteps == [Next]_vars => [Canvas!Next]_canvasVars
BY DEF Next, vars, Others, Rest, Screens

LEMMA PanelSteps == [Next]_vars => [Panel!PanelNext]_panelVars
BY DEF Next, vars, Others, Rest, Screens

LEMMA InspectorSteps == [Next]_vars => [Inspector!Next]_inspectorVars
BY DEF Next, vars, Others, Rest, Screens

LEMMA ShellSteps == [Next]_vars => [Shell!Next]_shellVars
BY DEF Next, vars, Others, Rest, Screens

LEMMA LibrarySteps == [Next]_vars => [Library!Next]_libraryVars
BY DEF Next, vars, Others, Rest, Screens

LEMMA RunSteps == [Next]_vars => [Run!Next]_runVars
BY DEF Next, vars, Others, Rest, Screens

-----------------------------------------------------------------------------
(* The inspector: three effects and the mouse write the width.             *)

\* A width between closed and minWidth is one that a drag in progress has asked
\* for, and handleMouseUp still has it; a negative one is from a drag past the
\* edge; a panel that is off has seen width 0.
InspectorInv ==
  /\ Inspector!InspectorTypeOK
  /\ 0 < width /\ width < minWidth => drag # Inspector!Idle /\ drag.newWidth = width
  /\ width < 0 => overshot = TRUE
  /\ Inspector!Settled /\ toggleInspectorPanel = FALSE => width = 0

LEMMA WidthsAreIntegers ==
  /\ Inspector!Widths \subseteq Int
  /\ \A n \in Inspector!Widths : n <= maxWidth
  /\ {0, minWidth, maxWidth} \subseteq Inspector!Widths
<1>1. minWidth \in Int /\ maxWidth \in Int /\ 0 <= maxWidth /\ minWidth <= maxWidth
  BY InspectorAssumption
<1>2. {n \in DragWidths : n < maxWidth} \subseteq Int
  BY InspectorAssumption
<1>3. \A n \in {m \in DragWidths : m < maxWidth} : n <= maxWidth
  BY <1>1, <1>2
<1> QED BY <1>1, <1>2, <1>3 DEF Inspector!Widths

LEMMA InspectorInit == Inspector!Init => InspectorInv
<1> SUFFICES ASSUME Inspector!Init PROVE InspectorInv
  OBVIOUS
<1>1. minWidth \in Inspector!Widths
  BY WidthsAreIntegers
<1>2. Inspector!InspectorTypeOK
  BY <1>1 DEF Inspector!Init, Inspector!InspectorTypeOK
<1>3. width = minWidth /\ ~(width < 0) /\ toggleInspectorPanel = TRUE
  <2>1. width = minWidth /\ toggleInspectorPanel = TRUE
    BY DEF Inspector!Init
  <2> QED BY <2>1, InspectorAssumption
<1> QED BY <1>2, <1>3, InspectorAssumption DEF InspectorInv

\* A round of effects: where the flag stays off, it has closed the panel.
LEMMA CommitStep == InspectorInv /\ Inspector!Commit => InspectorInv'
<1> SUFFICES ASSUME InspectorInv, Inspector!Commit PROVE InspectorInv'
  OBVIOUS
<1> USE DEF InspectorInv, Inspector!InspectorTypeOK, Inspector!Deps
<1>1. width' \in {width, 0, minWidth}
  BY DEF Inspector!Commit
<1>2. width \in Inspector!Widths /\ width' \in Inspector!Widths
  BY <1>1, WidthsAreIntegers
<1>3. toggleInspectorPanel' \in BOOLEAN /\ showPanel' \in BOOLEAN
  BY DEF Inspector!Commit
<1>4. z' \in BOOLEAN
  BY Zenon DEF Inspector!Commit
<1>5. seen' = [toggle |-> toggleInspectorPanel, width |-> width]
  BY DEF Inspector!Commit, Inspector!Shown
<1>6. seen' \in Inspector!Deps
  BY <1>2, <1>5
<1>7. drag' = drag /\ page' = page
  BY DEF Inspector!Commit
<1>o. overshot' \in BOOLEAN
  BY DEF Inspector!Commit
<1>8. Inspector!InspectorTypeOK'
  BY <1>2, <1>3, <1>4, <1>6, <1>7, <1>o
<1>9. (0 < width /\ width < minWidth => drag # Inspector!Idle /\ drag.newWidth = width)'
  BY <1>1, <1>7, InspectorAssumption
<1>n. width' < 0 => overshot' = TRUE
  <2>1. width' \in {0, minWidth} \/ (width' = width /\ overshot' = overshot)
    BY DEF Inspector!Commit
  <2> QED BY <2>1, InspectorAssumption
<1>10. ASSUME Inspector!Settled', toggleInspectorPanel' = FALSE PROVE width' = 0
  <2>1. toggleInspectorPanel = FALSE /\ width' = width
    BY <1>5, <1>10 DEF Inspector!Settled, Inspector!Shown
  <2>2. CASE Inspector!ToggleChanged
    BY <2>1, <2>2 DEF Inspector!Commit
  <2>3. CASE ~Inspector!ToggleChanged /\ width # 0
    <3>1. seen # Inspector!Unmounted /\ seen.toggle = FALSE
      BY <2>1, <2>3 DEF Inspector!ToggleChanged
    <3>2. ~Inspector!WidthChanged
      BY <1>10, <2>3, <3>1 DEF Inspector!Commit
    <3>3. seen.width = width
      BY <3>2 DEF Inspector!WidthChanged
    <3>4. Inspector!Settled
      BY <2>1, <3>1, <3>3 DEF Inspector!Settled, Inspector!Shown
    <3> QED BY <3>4 DEF Inspector!Commit
  <2> QED BY <2>1, <2>2, <2>3
<1> QED BY <1>8, <1>9, <1>n, <1>10

\* An event comes at rest: whatever it does to the flag and the width, no effect
\* has seen it yet.
LEMMA InspectorEventStep ==
  ASSUME InspectorInv, Inspector!Settled,
         page' \in Inspector!Pages, toggleInspectorPanel' \in BOOLEAN, showPanel' \in BOOLEAN,
         z' \in BOOLEAN, width' \in Inspector!Widths,
         drag' \in [showPanel : BOOLEAN, width : Inspector!Widths,
                    newWidth : DragWidths \cup {Inspector!NotMoved}] \cup {Inspector!Idle},
         0 < width' /\ width' < minWidth => drag' # Inspector!Idle /\ drag'.newWidth = width',
         overshot' \in BOOLEAN, width' < 0 => overshot' = TRUE,
         seen' \in {seen, Inspector!Unmounted}
  PROVE  InspectorInv'
<1>1. Inspector!InspectorTypeOK'
  BY DEF InspectorInv, Inspector!InspectorTypeOK
<1>2. seen = [toggle |-> toggleInspectorPanel, width |-> width]
  BY DEF Inspector!Settled, Inspector!Shown
<1>3. (Inspector!Settled /\ toggleInspectorPanel = FALSE => width = 0)'
  <2> SUFFICES ASSUME Inspector!Settled', toggleInspectorPanel' = FALSE PROVE width' = 0
    OBVIOUS
  <2>1. seen' = [toggle |-> toggleInspectorPanel', width |-> width']
    BY DEF Inspector!Settled, Inspector!Shown
  <2>2. seen' = seen
    BY <2>1 DEF Inspector!Unmounted
  <2>3. toggleInspectorPanel = FALSE /\ width' = width
    BY <1>2, <2>1, <2>2
  <2> QED BY <2>3 DEF InspectorInv
<1> QED BY <1>1, <1>3 DEF InspectorInv

LEMMA InspectorNext == InspectorInv /\ [Inspector!Next]_inspectorVars => InspectorInv'
<1> SUFFICES ASSUME InspectorInv, [Inspector!Next]_inspectorVars PROVE InspectorInv'
  OBVIOUS
<1> DEFINE Drags == [showPanel : BOOLEAN, width : Inspector!Widths,
                     newWidth : DragWidths \cup {Inspector!NotMoved}]
<1>0. /\ page \in Inspector!Pages
      /\ toggleInspectorPanel \in BOOLEAN /\ showPanel \in BOOLEAN /\ z \in BOOLEAN
      /\ width \in Inspector!Widths /\ drag \in Drags \cup {Inspector!Idle}
      /\ 0 < width /\ width < minWidth => drag # Inspector!Idle /\ drag.newWidth = width
      /\ overshot \in BOOLEAN /\ (width < 0 => overshot = TRUE)
      /\ {0, minWidth, maxWidth} \subseteq Inspector!Widths
      /\ minWidth \in Int /\ maxWidth \in Int /\ 0 < minWidth /\ minWidth <= maxWidth
      /\ DragWidths \subseteq Int
  BY WidthsAreIntegers, InspectorAssumption DEF InspectorInv, Inspector!InspectorTypeOK
<1>1. CASE Inspector!Commit
  BY <1>1, CommitStep
<1>2. ASSUME NEW p \in Inspector!Pages, Inspector!Navigate(p) PROVE InspectorInv'
  <2>1. /\ Inspector!Settled /\ page' = p /\ showPanel' = TRUE /\ width' = minWidth /\ z' = FALSE
        /\ drag' = Inspector!Idle /\ overshot' = FALSE /\ seen' = Inspector!Unmounted
        /\ toggleInspectorPanel' = toggleInspectorPanel
    BY <1>2 DEF Inspector!Navigate
  <2>2. ~(0 < width' /\ width' < minWidth) /\ ~(width' < 0)
    BY <1>0, <2>1
  <2> QED BY <1>0, <2>1, <2>2, InspectorEventStep
<1>3. ASSUME NEW v \in BOOLEAN, Inspector!SetToggle(v) PROVE InspectorInv'
  BY <1>0, <1>3, InspectorEventStep DEF Inspector!SetToggle
<1>4. CASE Inspector!handleButtonMouseDown
  <2>1. drag' = [showPanel |-> showPanel, width |-> width, newWidth |-> Inspector!NotMoved]
    BY <1>4 DEF Inspector!handleButtonMouseDown
  <2>2. drag' \in Drags
    BY <1>0, <2>1
  <2>3. ~(0 < width /\ width < minWidth)
    BY <1>0, <1>4 DEF Inspector!handleButtonMouseDown
  <2> QED BY <1>0, <1>4, <2>2, <2>3, InspectorEventStep DEF Inspector!handleButtonMouseDown
<1>5. ASSUME NEW n \in DragWidths, Inspector!handleMouseMove(n) PROVE InspectorInv'
  <2>1. drag \in Drags /\ drag' = [drag EXCEPT !.newWidth = n]
    BY <1>0, <1>5 DEF Inspector!handleMouseMove
  <2>2. drag' \in Drags /\ drag'.newWidth = n /\ drag' # Inspector!Idle
    BY <2>1 DEF Inspector!Idle
  <2>3. width' = IF n >= maxWidth THEN maxWidth
                 ELSE IF drag.showPanel /\ n <= minWidth THEN minWidth ELSE n
    BY <1>5 DEF Inspector!handleMouseMove
  <2>4. width' \in {maxWidth, minWidth} \/ (width' = n /\ n < maxWidth)
    BY <1>0, <2>3
  <2>5. width' \in Inspector!Widths
    BY <1>0, <2>4 DEF Inspector!Widths
  <2>6. 0 < width' /\ width' < minWidth => width' = n
    BY <1>0, <2>4
  <2>7. z' \in BOOLEAN
    BY <1>5, Zenon DEF Inspector!handleMouseMove
  <2>9. overshot' \in BOOLEAN /\ (width' < 0 => overshot' = TRUE)
    <3>1. overshot' = (~drag.showPanel /\ n < 0) /\ drag.showPanel \in BOOLEAN
      BY <2>1, <1>5 DEF Inspector!handleMouseMove
    <3>2. overshot' \in BOOLEAN
      BY <3>1, Zenon
    <3>3. width' < 0 => ~drag.showPanel /\ n < 0
      BY <1>0, <2>3, <3>1
    <3> QED BY <3>1, <3>2, <3>3
  <2>8. Inspector!Settled /\ UNCHANGED <<page, toggleInspectorPanel, showPanel, seen>>
    BY <1>5 DEF Inspector!handleMouseMove
  <2> QED BY <1>0, <2>2, <2>5, <2>6, <2>7, <2>8, <2>9, InspectorEventStep
<1>6. CASE Inspector!handleMouseUpHold
  <2>1. drag \in Drags
    BY <1>0, <1>6 DEF Inspector!handleMouseUpHold
  <2>2. IF drag.newWidth # Inspector!NotMoved /\ drag.newWidth < minWidth /\ drag.newWidth > 0
        THEN width' = minWidth /\ overshot' = FALSE ELSE width' = width /\ overshot' = overshot
    BY <1>6 DEF Inspector!handleMouseUpHold
  <2>3. Inspector!NotMoved < 0
    BY <1>0 DEF Inspector!NotMoved
  <2>m. drag.newWidth \in Int /\ (0 < width /\ width < minWidth => drag.newWidth = width)
    <3>1. drag.newWidth \in DragWidths \cup {Inspector!NotMoved}
      BY <2>1
    <3>2. DragWidths \subseteq Int /\ Inspector!NotMoved \in Int
      BY <1>0, InspectorAssumption DEF Inspector!NotMoved
    <3>3. 0 < width /\ width < minWidth => drag.newWidth = width
      BY DEF InspectorInv
    <3> QED BY <3>1, <3>2, <3>3
  <2>4. ~(0 < width' /\ width' < minWidth)
    BY <1>0, <2>2, <2>3, <2>m
  <2>5. /\ width' \in {minWidth, width} /\ (overshot' = FALSE \/ overshot' = overshot)
        /\ width' < 0 => overshot' = overshot /\ width' = width
    BY <1>0, <2>2
  <2>6. overshot' \in BOOLEAN /\ (width' < 0 => overshot' = TRUE)
    BY <1>0, <2>5
  <2> QED BY <1>0, <1>6, <2>4, <2>5, <2>6, InspectorEventStep DEF Inspector!handleMouseUpHold
<1>7. CASE Inspector!handleMouseUpClick
  <2>1. width' \in {0, minWidth} /\ overshot' = FALSE
    BY <1>7 DEF Inspector!handleMouseUpClick
  <2>2. ~(0 < width' /\ width' < minWidth) /\ ~(width' < 0)
    BY <1>0, <2>1
  <2>3. z' \in BOOLEAN /\ showPanel' \in BOOLEAN
    BY <1>7, Zenon DEF Inspector!handleMouseUpClick
  <2> QED BY <1>0, <1>7, <2>1, <2>2, <2>3, InspectorEventStep DEF Inspector!handleMouseUpClick
<1>8. CASE UNCHANGED inspectorVars
  BY <1>8 DEF inspectorVars, InspectorInv, Inspector!InspectorTypeOK, Inspector!Settled, Inspector!Shown
<1> QED BY <1>1, <1>2, <1>3, <1>4, <1>5, <1>6, <1>7, <1>8 DEF Inspector!Next

\* However drags, clicks, keys and effects interleave, for all limits: at rest
\* the inspector has no width or one between its limits, unless it was closed
\* and dragged past the edge of the window (handleMouseMove), and one that the
\* layout has switched off has width 0.
THEOREM InspectorAlwaysLegal == Spec => []InspectorIsLegal
<1>1. Init => InspectorInv
  BY InspectorInit DEF Init
<1>2. InspectorInv /\ [Next]_vars => InspectorInv'
  BY InspectorSteps, InspectorNext
<1>3. InspectorInv => InspectorIsLegal
  <2> SUFFICES ASSUME InspectorInv PROVE Inspector!WidthIsLegal /\ Inspector!OffIsClosed
    BY DEF InspectorIsLegal
  <2>1. width \in Int /\ width <= maxWidth
    BY WidthsAreIntegers DEF InspectorInv, Inspector!InspectorTypeOK
  <2>2. Inspector!WidthIsLegal
    BY <2>1, InspectorAssumption DEF InspectorInv, Inspector!WidthIsLegal
  <2>3. Inspector!OffIsClosed
    BY DEF InspectorInv, Inspector!InspectorTypeOK, Inspector!OffIsClosed
  <2> QED BY <2>2, <2>3
<1> QED BY <1>1, <1>2, <1>3, PTL DEF Spec

-----------------------------------------------------------------------------
(* The shell: the flag, the timer and the focus of the search field.       *)

\* The properties are inductive with the types.
ShellInv == Shell!TypeOK /\ Shell!SlashNeverDead /\ Shell!TimerOnlyWhileOpen

\* A render with the flag f and the panel p: if neither has changed, a flag that
\* is up on the builder needs a timer or the focus already.
LEMMA SearchBarStep ==
  ASSUME ShellInv, NEW f \in BOOLEAN, NEW p \in BOOLEAN, NEW target \in {"body", "search", "field"},
         Shell!SearchBar(f, p, target),
         shellPage = "builder" /\ f /\ searchFocused => timer \/ target = "search",
         shellPage' = shellPage
  PROVE  /\ {toggleBlockPanel', searchFocused', prevPanelOpen', timer'} \subseteq BOOLEAN
         /\ focus' \in {"body", "search", "field"}
         /\ Shell!SlashNeverDead' /\ Shell!TimerOnlyWhileOpen'
<1> USE DEF ShellInv, Shell!TypeOK, Shell!SlashNeverDead, Shell!TimerOnlyWhileOpen
<1> DEFINE same == f = searchFocused /\ p = toggleBlockPanel
<1>1. searchFocused' = f /\ toggleBlockPanel' = p
  BY DEF Shell!SearchBar
<1>2. CASE shellPage # "builder" \/ same
  <2>1. focus' = target /\ prevPanelOpen' = prevPanelOpen /\ timer' = timer
    BY <1>2 DEF Shell!SearchBar
  <2> QED BY <1>1, <1>2, <2>1
<1>3. CASE ~(shellPage # "builder" \/ same) /\ f /\ ~prevPanelOpen /\ p
  <2>1. timer' = TRUE /\ focus' = target /\ prevPanelOpen' = prevPanelOpen
    BY <1>3 DEF Shell!SearchBar
  <2> QED BY <1>1, <1>3, <2>1
<1>4. CASE ~(shellPage # "builder" \/ same) /\ ~(f /\ ~prevPanelOpen /\ p)
  <2>1. timer' = FALSE /\ prevPanelOpen' = p /\ focus' = (IF f THEN "search" ELSE target)
    BY <1>4 DEF Shell!SearchBar
  <2> QED BY <1>1, <2>1
<1> QED BY <1>2, <1>3, <1>4

LEMMA ShellInit == Shell!Init => ShellInv
BY DEF Shell!Init, ShellInv, Shell!TypeOK, Shell!SlashNeverDead, Shell!TimerOnlyWhileOpen

LEMMA ShellNext == ShellInv /\ [Shell!Next]_shellVars => ShellInv'
<1> SUFFICES ASSUME ShellInv, [Shell!Next]_shellVars PROVE ShellInv'
  OBVIOUS
<1> USE DEF Shell!sidebarVars, Shell!themeVars, Shell!layoutVars
<1>0. /\ {open, openMobile, isMobile} \subseteq BOOLEAN /\ shellPage \in {"builder", "run", "other"}
      /\ {toggleBlockPanel, toggleInspector, searchFocused, prevPanelOpen, timer} \subseteq BOOLEAN
      /\ sidebarCookie \in BOOLEAN \cup {None}
      /\ theme \in {"light", "dark"} /\ themeCookie \in {"light", "dark", None}
      /\ focus \in {"body", "search", "field"}
  BY DEF ShellInv, Shell!TypeOK
<1> DEFINE Layout == <<shellPage, toggleBlockPanel, toggleInspector, searchFocused, prevPanelOpen, timer, focus>>
<1>a. ASSUME UNCHANGED Layout, {open', openMobile', isMobile'} \subseteq BOOLEAN,
             sidebarCookie' \in BOOLEAN \cup {None},
             theme' \in {"light", "dark"}, themeCookie' \in {"light", "dark", None}
      PROVE  ShellInv'
  BY <1>0, <1>a DEF ShellInv, Shell!TypeOK, Shell!SlashNeverDead, Shell!TimerOnlyWhileOpen
<1>b. ASSUME NEW p \in {"builder", "run", "other"}, Shell!MountLayout(p), shellPage' = p,
             {open', openMobile', isMobile'} \subseteq BOOLEAN,
             sidebarCookie' \in BOOLEAN \cup {None},
             theme' \in {"light", "dark"}, themeCookie' \in {"light", "dark", None}
      PROVE  ShellInv'
  BY <1>b DEF Shell!MountLayout, Shell!MountInspector, ShellInv, Shell!TypeOK, Shell!SlashNeverDead, Shell!TimerOnlyWhileOpen
<1>c. ASSUME NEW f \in BOOLEAN, NEW p \in BOOLEAN, NEW target \in {"body", "search", "field"},
             Shell!SearchBar(f, p, target),
             shellPage = "builder" /\ f /\ searchFocused => timer \/ target = "search",
             UNCHANGED <<openMobile, isMobile, theme, themeCookie, shellPage>>,
             {open', toggleInspector'} \subseteq BOOLEAN, sidebarCookie' \in BOOLEAN \cup {None}
      PROVE  ShellInv'
  <2>1. /\ {toggleBlockPanel', searchFocused', prevPanelOpen', timer'} \subseteq BOOLEAN
        /\ focus' \in {"body", "search", "field"}
        /\ Shell!SlashNeverDead' /\ Shell!TimerOnlyWhileOpen'
    BY <1>c, SearchBarStep
  <2> QED BY <1>0, <1>c, <2>1 DEF ShellInv, Shell!TypeOK
<1>d. shellPage = "builder" /\ searchFocused => timer \/ focus = "search"
  BY DEF ShellInv, Shell!SlashNeverDead
<1>e. \A target \in {"body", "search", "field"} :
        /\ Shell!FlagAfter(target) \in BOOLEAN
        /\ shellPage = "builder" /\ Shell!FlagAfter(target) /\ searchFocused => timer \/ target = "search"
  BY <1>0, <1>d DEF Shell!FlagAfter
<1>1. CASE Shell!KeyCtrlB
  BY <1>0, <1>1, <1>a DEF Shell!KeyCtrlB, Shell!toggleSidebar, Shell!setOpen
<1>2. CASE Shell!CloseSheet
  BY <1>0, <1>2, <1>a DEF Shell!CloseSheet
<1>3. CASE Shell!ResizeViewport
  BY <1>0, <1>3, <1>a DEF Shell!ResizeViewport
<1>4. CASE Shell!TimerFires
  BY <1>0, <1>4 DEF Shell!TimerFires, ShellInv, Shell!TypeOK, Shell!SlashNeverDead, Shell!TimerOnlyWhileOpen
<1>5. ASSUME NEW e \in {"body", "search", "field"}, Shell!MoveFocus(e) PROVE ShellInv'
  <2>1. Shell!FlagAfter(e) \in BOOLEAN /\ (shellPage = "builder" /\ Shell!FlagAfter(e) /\ searchFocused => timer \/ e = "search")
    BY <1>e
  <2>2. Shell!SearchBar(Shell!FlagAfter(e), toggleBlockPanel, e)
    BY <1>5 DEF Shell!MoveFocus
  <2>3. UNCHANGED <<open, sidebarCookie, toggleInspector, openMobile, isMobile, theme, themeCookie, shellPage>>
    BY <1>5 DEF Shell!MoveFocus
  <2> QED BY <1>0, <1>c, <2>1, <2>2, <2>3
<1>6. CASE Shell!KeySlash
  BY <1>0, <1>6, <1>c, <1>d DEF Shell!KeySlash
<1>7. CASE Shell!KeyF
  <2> DEFINE shown == ~(toggleBlockPanel \/ toggleInspector \/ open)
  <2>1. shown \in BOOLEAN
    OBVIOUS
  <2>2. /\ open' = shown /\ sidebarCookie' = shown /\ toggleInspector' = shown
        /\ Shell!SearchBar(searchFocused, shown, focus)
        /\ UNCHANGED <<openMobile, isMobile, theme, themeCookie, shellPage>>
    BY <1>7 DEF Shell!KeyF, Shell!setOpen
  <2> HIDE DEF shown
  <2> QED BY <1>0, <1>c, <1>d, <2>1, <2>2
<1>8. CASE Shell!KeyB
  BY <1>0, <1>8, <1>c, <1>d DEF Shell!KeyB
<1>9. CASE Shell!KeyI
  BY <1>0, <1>9 DEF Shell!KeyI, ShellInv, Shell!TypeOK, Shell!SlashNeverDead, Shell!TimerOnlyWhileOpen
<1>10. CASE Shell!CollapseButton
  <2>1. Shell!FlagAfter("body") \in BOOLEAN 
      /\ (shellPage = "builder" /\ Shell!FlagAfter("body") /\ searchFocused => timer \/ "body" = "search")
    BY <1>e
  <2>2. Shell!SearchBar(Shell!FlagAfter("body"), ~toggleBlockPanel, "body")
    BY <1>10 DEF Shell!CollapseButton
  <2>3. UNCHANGED <<open, sidebarCookie, toggleInspector, openMobile, isMobile, theme, themeCookie, shellPage>>
    BY <1>10 DEF Shell!CollapseButton
  <2>4. (~toggleBlockPanel) \in BOOLEAN
    OBVIOUS
  <2> QED BY <1>0, <1>c, <2>1, <2>2, <2>3, <2>4
<1>11. CASE Shell!toggleTheme
  BY <1>0, <1>11, <1>a DEF Shell!toggleTheme
<1>12. ASSUME NEW p \in {"builder", "run"}, Shell!OpenCanvas(p) PROVE ShellInv'
  BY <1>0, <1>12, <1>b DEF Shell!OpenCanvas, Shell!setOpen
<1>13. CASE Shell!LeaveCanvas
  BY <1>0, <1>13, <1>b DEF Shell!LeaveCanvas
<1>14. CASE Shell!Reload
  BY <1>0, <1>14, <1>b DEF Shell!Reload, Shell!setOpen, Shell!getInitialTheme
<1>16. ASSUME NEW p \in {"builder", "run"}, Shell!SwitchPage(p) PROVE ShellInv'
  BY <1>0, <1>16 DEF Shell!SwitchPage, Shell!MountInspector, ShellInv, Shell!TypeOK, Shell!SlashNeverDead,
     Shell!TimerOnlyWhileOpen
<1>15. CASE UNCHANGED shellVars
  BY <1>0, <1>15, <1>a DEF shellVars
<1> QED BY <1>1, <1>2, <1>3, <1>4, <1>5, <1>6, <1>7, <1>8, <1>9, <1>10, <1>11, <1>12, <1>13, <1>14, <1>15, <1>16
    DEF Shell!Next

\* "/ to search" is never dead on the builder and no timer outlives its panel, whatever keys,
\* clicks, timers and changes of page come in whatever order.
THEOREM SearchAlwaysReachable == Spec => []SearchIsReachable
<1>1. Init => ShellInv
  BY ShellInit DEF Init
<1>2. ShellInv /\ [Next]_vars => ShellInv'
  BY ShellSteps, ShellNext
<1>3. ShellInv => SearchIsReachable
  BY DEF ShellInv, SearchIsReachable
<1> QED BY <1>1, <1>2, <1>3, PTL DEF Spec

-----------------------------------------------------------------------------
(* The canvas: what the methods of the store keep.                         *)

\* A flow whose edges join its nodes and whose handles are animated where edges
\* end.
Consistent(f) ==
  /\ f \in Canvas!FlowData
  /\ f.edges \subseteq f.nodes \X f.nodes
  /\ f.handleAnimations = Canvas!computeHandleAnimations(f.edges)

LEMMA FlowFields ==
  ASSUME NEW f \in Canvas!FlowData
  PROVE  /\ f.nodes \subseteq NodeIds /\ f.config \in [NodeIds -> Configs]
         /\ f.edges \subseteq NodeIds \X NodeIds
         /\ f.selectedNode \in Canvas!NodeRef \cup {None}
         /\ f.recentlyUsed \in Seq(Blocks)
         /\ f.handleAnimations \subseteq NodeIds \X Canvas!Handles
         /\ f.nodeStatus \in [NodeIds -> Canvas!Statuses]
         /\ f # Canvas!NoFlow
BY DEF Canvas!FlowData, Canvas!NoFlow

\* The animated handles of a set of edges.
LEMMA HandlesOfEdges ==
  ASSUME NEW E \in SUBSET (NodeIds \X NodeIds)
  PROVE  /\ Canvas!computeHandleAnimations(E) \subseteq NodeIds \X Canvas!Handles
         /\ \A n \in NodeIds :
              /\ <<n, "source">> \in Canvas!computeHandleAnimations(E) <=> \E e \in E : e[1] = n
              /\ <<n, "target">> \in Canvas!computeHandleAnimations(E) <=> \E e \in E : e[2] = n
BY DEF Canvas!computeHandleAnimations, Canvas!Handles

\* Two sets of handles with the same sources and the same targets.
LEMMA SameHandles ==
  ASSUME NEW H \in SUBSET (NodeIds \X Canvas!Handles), NEW E \in SUBSET (NodeIds \X NodeIds),
         \A n \in NodeIds : <<n, "source">> \in H <=> \E e \in E : e[1] = n,
         \A n \in NodeIds : <<n, "target">> \in H <=> \E e \in E : e[2] = n
  PROVE  H = Canvas!computeHandleAnimations(E)
<1> DEFINE C == Canvas!computeHandleAnimations(E)
<1>1. C \subseteq NodeIds \X Canvas!Handles
  BY HandlesOfEdges
<1>2. \A n \in NodeIds : /\ <<n, "source">> \in C <=> \E e \in E : e[1] = n
                         /\ <<n, "target">> \in C <=> \E e \in E : e[2] = n
  BY HandlesOfEdges
<1>3. \A n \in NodeIds, h \in Canvas!Handles : <<n, h>> \in H <=> <<n, h>> \in C
  BY <1>2 DEF Canvas!Handles
<1> HIDE DEF C
<1>4. \A x \in NodeIds \X Canvas!Handles : x \in H <=> x \in C
  BY <1>3
<1>5. H = C
  BY <1>1, <1>4
<1> QED BY <1>5 DEF C

LEMMA DefaultConsistent == Consistent(Canvas!defaultFlowData)
<1>1. Canvas!defaultFlowData \in Canvas!FlowData
  BY CanvasAssumption DEF Canvas!defaultFlowData, Canvas!FlowData, Canvas!Statuses
<1> QED BY <1>1 DEF Consistent, Canvas!defaultFlowData, Canvas!computeHandleAnimations

LEMMA SelectConsistent ==
  ASSUME NEW f, Consistent(f), NEW n \in NodeIds \cup {None}
  PROVE  LET g == Canvas!setSelectedNode(f, n)
         IN Consistent(g) /\ g.nodes = f.nodes /\ g.config = f.config
<1> DEFINE v == IF n = None THEN None ELSE [id |-> n, live |-> TRUE, config |-> EmptyConfig]
<1>1. v \in Canvas!NodeRef \cup {None}
  BY CanvasAssumption DEF Canvas!NodeRef
<1>2. Canvas!setSelectedNode(f, n) = [f EXCEPT !.selectedNode = v]
  BY DEF Canvas!setSelectedNode
<1> HIDE DEF v
<1> QED BY <1>1, <1>2 DEF Consistent, Canvas!FlowData

\* An object that leaves the canvas stays a reference to the same node.
LEMMA DetachedRef ==
  ASSUME NEW f \in Canvas!FlowData, NEW gone
  PROVE  Canvas!Detached(f, gone) \in Canvas!NodeRef \cup {None}
<1>1. CASE f.selectedNode = None
  BY <1>1 DEF Canvas!Detached
<1>2. CASE f.selectedNode # None
  <2>1. f.selectedNode \in Canvas!NodeRef /\ f.config \in [NodeIds -> Configs]
    BY <1>2, FlowFields
  <2>2. f.config[f.selectedNode.id] \in Configs
    BY <2>1 DEF Canvas!NodeRef
  <2>3. [f.selectedNode EXCEPT !.live = FALSE, !.config = f.config[f.selectedNode.id]] \in Canvas!NodeRef
    BY <2>1, <2>2 DEF Canvas!NodeRef
  <2> QED BY <1>2, <2>1, <2>3 DEF Canvas!Detached
<1> QED BY <1>1, <1>2

\* A workflow that the server rendered.
LEMMA LoadConsistent ==
  ASSUME NEW key \in Keys, NEW f, Consistent(f)
  PROVE  Consistent(Canvas!LoadWorkflow(key, f))
<1> DEFINE ids == RenderedNodes[key]
<1> DEFINE cfg == [n \in NodeIds |-> IF n \in ids THEN RenderedConfig[n] ELSE EmptyConfig]
<1> DEFINE sel == Canvas!Detached(f, f.nodes)
<1> DEFINE E == RenderedEdges[key]
<1> DEFINE H == Canvas!computeHandleAnimations(E)
<1> DEFINE g == [f EXCEPT !.nodes = ids, !.config = cfg, !.selectedNode = sel]
<1>1. ids \subseteq NodeIds /\ E \subseteq ids \X ids
  BY CanvasAssumption
<1>2. cfg \in [NodeIds -> Configs]
  BY CanvasAssumption
<1>3. sel \in Canvas!NodeRef \cup {None}
  BY DetachedRef DEF Consistent
<1>4. E \subseteq NodeIds \X NodeIds
  BY <1>1
<1>5. H \subseteq NodeIds \X Canvas!Handles
  BY <1>4, HandlesOfEdges
<1>6. key # NewKey => Canvas!LoadWorkflow(key, f) = [g EXCEPT !.edges = E, !.handleAnimations = H]
  BY DEF Canvas!LoadWorkflow, Canvas!setEdges, Canvas!setNodes
<1> HIDE DEF ids, cfg, sel, E, H
<1>7. g \in Canvas!FlowData /\ g.nodes = ids
  BY <1>1, <1>2, <1>3 DEF Consistent, Canvas!FlowData
<1> HIDE DEF g
<1> DEFINE h == [g EXCEPT !.edges = E, !.handleAnimations = H]
<1>8. h \in Canvas!FlowData /\ h.nodes = ids /\ h.edges = E /\ h.handleAnimations = H
  BY <1>4, <1>5, <1>7 DEF Canvas!FlowData
<1>9. Consistent(h)
  BY <1>1, <1>8 DEF Consistent, H
<1>10. key = NewKey => Canvas!LoadWorkflow(key, f) = f
  BY DEF Canvas!LoadWorkflow
<1> HIDE DEF h
<1> QED BY <1>6, <1>9, <1>10 DEF h

LEMMA HandlesOfFlow ==
  ASSUME NEW f, Consistent(f)
  PROVE  \A n \in NodeIds :
           /\ <<n, "source">> \in f.handleAnimations <=> \E e \in f.edges : e[1] = n
           /\ <<n, "target">> \in f.handleAnimations <=> \E e \in f.edges : e[2] = n
<1> DEFINE E == f.edges
<1> DEFINE H == f.handleAnimations
<1>1. E \in SUBSET (NodeIds \X NodeIds) /\ H = Canvas!computeHandleAnimations(E)
  BY FlowFields DEF Consistent
<1> HIDE DEF E, H
<1>2. \A n \in NodeIds : /\ <<n, "source">> \in H <=> \E e \in E : e[1] = n
                         /\ <<n, "target">> \in H <=> \E e \in E : e[2] = n
  BY <1>1, HandlesOfEdges
<1> QED BY <1>2 DEF E, H

\* A handle stops moving when the last edge at its side of the node is gone.
LEMMA EdgesChangeConsistent ==
  ASSUME NEW f, Consistent(f), NEW removed
  PROVE  LET g == Canvas!onEdgesChange(f, removed)
         IN /\ Consistent(g) /\ g.edges = f.edges \ removed
            /\ g.nodes = f.nodes /\ g.config = f.config /\ g.selectedNode = f.selectedNode
<1> DEFINE removedEdges == f.edges \cap removed
<1> DEFINE newEdges == f.edges \ removed
<1> DEFINE idle == {<<e[1], "source">> : e \in {r \in removedEdges : \A x \in newEdges : x[1] # r[1]}}
                   \cup {<<e[2], "target">> : e \in {r \in removedEdges : \A x \in newEdges : x[2] # r[2]}}
<1> DEFINE H == f.handleAnimations \ idle
<1>1. Canvas!onEdgesChange(f, removed) = [f EXCEPT !.edges = newEdges, !.handleAnimations = H]
  BY DEF Canvas!onEdgesChange
<1>2. /\ f.edges \subseteq NodeIds \X NodeIds /\ f.handleAnimations \subseteq NodeIds \X Canvas!Handles
      /\ f.handleAnimations = Canvas!computeHandleAnimations(f.edges)
  BY FlowFields DEF Consistent
<1>3. \A n \in NodeIds : /\ <<n, "source">> \in f.handleAnimations <=> \E e \in f.edges : e[1] = n
                         /\ <<n, "target">> \in f.handleAnimations <=> \E e \in f.edges : e[2] = n
  BY HandlesOfFlow
<1>4. ASSUME NEW n \in NodeIds
      PROVE  /\ <<n, "source">> \in idle <=> \E r \in removedEdges : r[1] = n /\ \A x \in newEdges : x[1] # n
             /\ <<n, "target">> \in idle <=> \E r \in removedEdges : r[2] = n /\ \A x \in newEdges : x[2] # n
  OBVIOUS
<1>5. \A e \in f.edges : e \in newEdges \/ e \in removedEdges
  OBVIOUS
<1>6. newEdges \subseteq f.edges /\ removedEdges \subseteq f.edges
  OBVIOUS
<1> HIDE DEF idle, newEdges, removedEdges
<1>7. \A n \in NodeIds : <<n, "source">> \in H <=> \E e \in newEdges : e[1] = n
  BY <1>3, <1>4, <1>5, <1>6
<1>8. \A n \in NodeIds : <<n, "target">> \in H <=> \E e \in newEdges : e[2] = n
  BY <1>3, <1>4, <1>5, <1>6
<1>9. H \in SUBSET (NodeIds \X Canvas!Handles) /\ newEdges \in SUBSET (NodeIds \X NodeIds)
  BY <1>2, <1>6
<1>10. H = Canvas!computeHandleAnimations(newEdges)
  BY <1>7, <1>8, <1>9, SameHandles
<1> HIDE DEF H
<1> DEFINE g == [f EXCEPT !.edges = newEdges, !.handleAnimations = H]
<1>11. /\ g \in Canvas!FlowData /\ g.edges = newEdges /\ g.handleAnimations = H
       /\ g.nodes = f.nodes /\ g.config = f.config /\ g.selectedNode = f.selectedNode
  BY <1>9 DEF Consistent, Canvas!FlowData
<1>12. Consistent(g)
  BY <1>6, <1>10, <1>11 DEF Consistent
<1> HIDE DEF g
<1> QED BY <1>1, <1>11, <1>12 DEF g, newEdges

\* Nodes that leave when no edge ends at them.
LEMMA NodesChangeConsistent ==
  ASSUME NEW f, Consistent(f), NEW ids, \A e \in f.edges : e[1] \notin ids /\ e[2] \notin ids
  PROVE  LET g == Canvas!onNodesChange(f, ids)
         IN /\ Consistent(g) /\ g.nodes = f.nodes \ ids
            /\ \A n \in NodeIds \ ids : g.config[n] = f.config[n]
<1> DEFINE cfg == [n \in NodeIds |-> IF n \in ids THEN EmptyConfig ELSE f.config[n]]
<1> DEFINE sel == Canvas!Detached(f, ids)
<1> DEFINE left == f.nodes \ ids
<1> DEFINE g == [f EXCEPT !.nodes = left, !.config = cfg, !.selectedNode = sel]
<1>1. Canvas!onNodesChange(f, ids) = g
  BY DEF Canvas!onNodesChange, Consistent, Canvas!FlowData
<1>2. f.config \in [NodeIds -> Configs] /\ f.nodes \subseteq NodeIds /\ f.edges \subseteq f.nodes \X f.nodes
  BY FlowFields DEF Consistent
<1>3. cfg \in [NodeIds -> Configs] /\ \A n \in NodeIds \ ids : cfg[n] = f.config[n]
  BY <1>2, CanvasAssumption
<1>4. sel \in Canvas!NodeRef \cup {None}
  BY DetachedRef DEF Consistent
<1>5. f.edges \subseteq left \X left /\ left \subseteq NodeIds
  BY <1>2
<1> HIDE DEF cfg, sel, left
<1>6. /\ g \in Canvas!FlowData /\ g.nodes = left /\ g.config = cfg /\ g.edges = f.edges
      /\ g.handleAnimations = f.handleAnimations
  BY <1>3, <1>4, <1>5 DEF Consistent, Canvas!FlowData
<1>7. Consistent(g)
  BY <1>5, <1>6 DEF Consistent
<1> HIDE DEF g
<1> QED BY <1>1, <1>3, <1>6, <1>7 DEF left

LEMMA DeleteConsistent ==
  ASSUME NEW f, Consistent(f), NEW ids
  PROVE  LET g == Canvas!deleteElements(f, ids)
         IN /\ Consistent(g) /\ g.nodes = f.nodes \ ids
            /\ \A n \in NodeIds \ ids : g.config[n] = f.config[n]
<1> DEFINE touching == {e \in f.edges : e[1] \in ids \/ e[2] \in ids}
<1> DEFINE h == Canvas!onEdgesChange(f, touching)
<1>1. Canvas!deleteElements(f, ids) = Canvas!onNodesChange(h, ids)
  BY DEF Canvas!deleteElements
<1>2. Consistent(h) /\ h.edges = f.edges \ touching /\ h.nodes = f.nodes /\ h.config = f.config
  BY EdgesChangeConsistent
<1> HIDE DEF h
<1>3. \A e \in h.edges : e[1] \notin ids /\ e[2] \notin ids
  BY <1>2
<1> HIDE DEF touching
<1> QED BY <1>1, <1>2, <1>3, NodesChangeConsistent

LEMMA ConnectConsistent ==
  ASSUME NEW f, Consistent(f), NEW a \in f.nodes, NEW b \in f.nodes
  PROVE  LET g == Canvas!onConnect(f, a, b)
         IN Consistent(g) /\ g.nodes = f.nodes /\ g.config = f.config
<1> DEFINE E == f.edges \cup {<<a, b>>}
<1> DEFINE H == (f.handleAnimations \cup {<<a, "source">>}) \cup {<<b, "target">>}
<1> DEFINE g == [f EXCEPT !.handleAnimations = H, !.edges = E]
<1>1. Canvas!onConnect(f, a, b) = g
  BY DEF Canvas!onConnect, Canvas!setHandleAnimation, Consistent, Canvas!FlowData
<1>2. /\ f.edges \subseteq f.nodes \X f.nodes /\ f.nodes \subseteq NodeIds
      /\ f.edges \subseteq NodeIds \X NodeIds /\ f.handleAnimations \subseteq NodeIds \X Canvas!Handles
      /\ f.handleAnimations = Canvas!computeHandleAnimations(f.edges)
  BY FlowFields DEF Consistent
<1>3. \A n \in NodeIds : /\ <<n, "source">> \in f.handleAnimations <=> \E e \in f.edges : e[1] = n
                         /\ <<n, "target">> \in f.handleAnimations <=> \E e \in f.edges : e[2] = n
  BY HandlesOfFlow
<1>4. E \in SUBSET (NodeIds \X NodeIds) /\ E \subseteq f.nodes \X f.nodes
  BY <1>2
<1>5. H \in SUBSET (NodeIds \X Canvas!Handles)
  BY <1>2 DEF Canvas!Handles
<1>a. \A n : /\ <<n, "source">> \in H <=> <<n, "source">> \in f.handleAnimations \/ n = a
             /\ <<n, "target">> \in H <=> <<n, "target">> \in f.handleAnimations \/ n = b
  OBVIOUS
<1>b. \A n : /\ (\E e \in E : e[1] = n) <=> (\E e \in f.edges : e[1] = n) \/ n = a
             /\ (\E e \in E : e[2] = n) <=> (\E e \in f.edges : e[2] = n) \/ n = b
  <2>1. <<a, b>>[1] = a /\ <<a, b>>[2] = b
    OBVIOUS
  <2>2. \A e : e \in E <=> e \in f.edges \/ e = <<a, b>>
    OBVIOUS
  <2> HIDE DEF E
  <2> QED BY <2>1, <2>2, Zenon
<1>6. \A n \in NodeIds : <<n, "source">> \in H <=> \E e \in E : e[1] = n
  <2> HIDE DEF H, E
  <2> QED BY <1>3, <1>a, <1>b
<1>7. \A n \in NodeIds : <<n, "target">> \in H <=> \E e \in E : e[2] = n
  <2> HIDE DEF H, E
  <2> QED BY <1>3, <1>a, <1>b
<1>8. H = Canvas!computeHandleAnimations(E)
  <2> HIDE DEF H, E
  <2> QED BY <1>4, <1>5, <1>6, <1>7, SameHandles
<1> HIDE DEF H, E
<1>9. /\ g \in Canvas!FlowData /\ g.edges = E /\ g.handleAnimations = H
      /\ g.nodes = f.nodes /\ g.config = f.config
  BY <1>4, <1>5 DEF Consistent, Canvas!FlowData
<1>10. Consistent(g)
  BY <1>4, <1>8, <1>9 DEF Consistent
<1> HIDE DEF g
<1> QED BY <1>1, <1>9, <1>10

\* The list of recent blocks is one of blocks.
LEMMA RecentConsistent ==
  ASSUME NEW f, Consistent(f), NEW block \in Blocks
  PROVE  LET g == Canvas!addRecentlyUsedBlock(f, block)
         IN Consistent(g) /\ g.nodes = f.nodes /\ g.config = f.config
<1> DEFINE kept == filter(f.recentlyUsed, Blocks \ {block})
<1> DEFINE all == <<block>> \o kept
<1> DEFINE recent == SubSeq(all, 1, IF Len(all) < RecentLimit THEN Len(all) ELSE RecentLimit)
<1> DEFINE g == [f EXCEPT !.recentlyUsed = recent]
<1>1. Canvas!addRecentlyUsedBlock(f, block) = g
  BY DEF Canvas!addRecentlyUsedBlock, Canvas!filter, Canvas!Filtered, filter, Filtered
<1>2. f.recentlyUsed \in Seq(Blocks)
  BY FlowFields DEF Consistent
<1>3. kept \in Seq(Blocks)
  BY <1>2, FilterKeeps
<1> HIDE DEF kept
<1>4. all \in Seq(Blocks)
  BY <1>3
<1> HIDE DEF all
<1>5. recent \in Seq(Blocks)
  BY <1>4, CanvasAssumption
<1> HIDE DEF recent
<1>6. /\ g \in Canvas!FlowData /\ g.edges = f.edges /\ g.handleAnimations = f.handleAnimations
      /\ g.nodes = f.nodes /\ g.config = f.config
  BY <1>5 DEF Consistent, Canvas!FlowData
<1>7. Consistent(g)
  BY <1>6 DEF Consistent
<1> HIDE DEF g
<1> QED BY <1>1, <1>6, <1>7

LEMMA DropConsistent ==
  ASSUME NEW f, Consistent(f), NEW n \in NodeIds
  PROVE  LET g == [f EXCEPT !.nodes = @ \cup {n}]
         IN Consistent(g) /\ g.nodes = f.nodes \cup {n} /\ g.config = f.config
<1> DEFINE g == [f EXCEPT !.nodes = @ \cup {n}]
<1>1. /\ g \in Canvas!FlowData /\ g.edges = f.edges /\ g.handleAnimations = f.handleAnimations
      /\ g.nodes = f.nodes \cup {n} /\ g.config = f.config
  BY DEF Consistent, Canvas!FlowData
<1>2. Consistent(g)
  BY <1>1 DEF Consistent
<1> QED BY <1>1, <1>2

-----------------------------------------------------------------------------
(* The canvas: the pages over the store.                                   *)

\* Every stored flow is consistent; a mounted builder displays a stored flow;
\* a mounted form is for the type of the node selected in it.
CanvasInv ==
  /\ flows \in [Keys -> Canvas!FlowData \cup {Canvas!NoFlow}] /\ currentKey \in Keys \cup {None}
  /\ onCanvas \in BOOLEAN /\ tab \in {"settings", "other"} /\ form \in Canvas!Form \cup {Canvas!NoForm}
  /\ \A k \in Keys : flows[k] # Canvas!NoFlow => Consistent(flows[k])
  /\ onCanvas = TRUE => currentKey \in Keys /\ flows[currentKey] # Canvas!NoFlow
  /\ form # Canvas!NoForm => /\ onCanvas = TRUE
                             /\ flows[currentKey].selectedNode # None
                             /\ form.block = BlockOf[flows[currentKey].selectedNode.id]

LEMMA CanvasInit == Canvas!Init => CanvasInv
<1> SUFFICES ASSUME Canvas!Init PROVE CanvasInv
  OBVIOUS
<1>1. flows = [k \in Keys |-> Canvas!NoFlow] /\ currentKey = None
  BY DEF Canvas!Init, Canvas!FlowInit
<1>2. onCanvas = FALSE /\ tab = "settings" /\ form = Canvas!NoForm
  BY DEF Canvas!Init
<1> QED BY <1>1, <1>2 DEF CanvasInv

\* The flow on display while the builder is mounted.
LEMMA CurrentFlow ==
  ASSUME CanvasInv, onCanvas
  PROVE  /\ currentKey \in Keys /\ currentKey # None
         /\ Canvas!Current = flows[currentKey] /\ Consistent(Canvas!Current)
<1>1. onCanvas = TRUE
  BY DEF CanvasInv
<1>2. currentKey \in Keys /\ flows[currentKey] # Canvas!NoFlow
  BY <1>1 DEF CanvasInv
<1>3. currentKey # None
  BY <1>2, CanvasAssumption
<1>4. Canvas!Current = flows[currentKey]
  BY <1>2, <1>3 DEF Canvas!Current
<1> QED BY <1>2, <1>3, <1>4 DEF CanvasInv

LEMMA FormIsMounted ==
  ASSUME CanvasInv, form # Canvas!NoForm
  PROVE  /\ onCanvas /\ form \in Canvas!Form
         /\ flows[currentKey].selectedNode # None
         /\ form.block = BlockOf[flows[currentKey].selectedNode.id]
BY DEF CanvasInv

\* The configuration the inspector reads.
LEMMA SelectedConfigType ==
  ASSUME NEW f \in Canvas!FlowData, f.selectedNode # None
  PROVE  /\ f.selectedNode \in Canvas!NodeRef /\ f.selectedNode.id \in NodeIds
         /\ Canvas!SelectedConfig(f) \in Configs
<1>1. f.selectedNode \in Canvas!NodeRef /\ f.config \in [NodeIds -> Configs]
  BY FlowFields
<1>2. f.selectedNode.id \in NodeIds /\ f.selectedNode.config \in Configs
  BY <1>1 DEF Canvas!NodeRef
<1> QED BY <1>1, <1>2 DEF Canvas!SelectedConfig

\* A form that has just been mounted.
LEMMA FreshFormFits ==
  ASSUME NEW f \in Canvas!FlowData, f.selectedNode # None
  PROVE  /\ Canvas!FreshForm(f) \in Canvas!Form \cup {Canvas!NoForm}
         /\ Canvas!FreshForm(f) # Canvas!NoForm => Canvas!FreshForm(f).block = BlockOf[f.selectedNode.id]
<1> DEFINE n == f.selectedNode.id
<1> DEFINE fresh == [block |-> BlockOf[n], value |-> Canvas!SelectedConfig(f)]
<1>1. Canvas!FreshForm(f) = IF BlockOf[n] \in FormBlocks THEN fresh ELSE Canvas!NoForm
  BY DEF Canvas!FreshForm
<1>2. Canvas!SelectedConfig(f) \in Configs
  BY SelectedConfigType
<1>3. BlockOf[n] \in FormBlocks => fresh \in Canvas!Form
  BY <1>2 DEF Canvas!Form
<1>4. fresh.block = BlockOf[n]
  OBVIOUS
<1> HIDE DEF fresh
<1> QED BY <1>1, <1>3, <1>4

\* The inspector after a render of the flow f: its form fits f.
LEMMA InspectorFits ==
  ASSUME CanvasInv, NEW f \in Canvas!FlowData, Canvas!InspectorPanel(f)
  PROVE  /\ tab' \in {"settings", "other"} /\ form' \in Canvas!Form \cup {Canvas!NoForm}
         /\ form' # Canvas!NoForm => f.selectedNode # None /\ form'.block = BlockOf[f.selectedNode.id]
<1>1. tab' \in {"settings", "other"}
  BY DEF CanvasInv, Canvas!InspectorPanel
<1>2. form' = Canvas!NoForm \/ form' = Canvas!SettingsTab(f)
  BY DEF Canvas!InspectorPanel
<1>3. CASE f.selectedNode = None
  BY <1>1, <1>2, <1>3 DEF Canvas!SettingsTab
<1>4. CASE f.selectedNode # None /\ form # Canvas!NoForm /\ form.block = BlockOf[f.selectedNode.id]
  BY <1>1, <1>2, <1>4 DEF Canvas!SettingsTab, CanvasInv
<1>5. CASE f.selectedNode # None /\ ~(form # Canvas!NoForm /\ form.block = BlockOf[f.selectedNode.id])
  <2>1. form' = Canvas!NoForm \/ form' = Canvas!FreshForm(f)
    BY <1>2, <1>5 DEF Canvas!SettingsTab
  <2> QED BY <1>1, <1>5, <2>1, FreshFormFits
<1> QED BY <1>3, <1>4, <1>5

\* A flow that is replaced by a consistent one, and displayed.
LEMMA DisplayStep ==
  ASSUME CanvasInv, NEW key \in Keys, NEW f, Consistent(f), onCanvas' = TRUE,
         currentKey' = key, flows' = [flows EXCEPT ![key] = f],
         tab' \in {"settings", "other"}, form' \in Canvas!Form \cup {Canvas!NoForm},
         form' # Canvas!NoForm => f.selectedNode # None /\ form'.block = BlockOf[f.selectedNode.id]
  PROVE  CanvasInv'
<1>1. f \in Canvas!FlowData /\ f # Canvas!NoFlow
  BY FlowFields DEF Consistent
<1>2. flows \in [Keys -> Canvas!FlowData \cup {Canvas!NoFlow}]
  BY DEF CanvasInv
<1>3. flows' \in [Keys -> Canvas!FlowData \cup {Canvas!NoFlow}] /\ flows'[key] = f
  BY <1>1, <1>2
<1>4. \A k \in Keys : k # key => flows'[k] = flows[k]
  BY <1>2
<1>5. \A k \in Keys : flows'[k] # Canvas!NoFlow => Consistent(flows'[k])
  BY <1>3, <1>4 DEF CanvasInv
<1> QED BY <1>1, <1>3, <1>5 DEF CanvasInv

\* An event on the canvas that leaves a consistent flow.
LEMMA EventStep ==
  ASSUME CanvasInv, NEW f, onCanvas => Consistent(f), Canvas!Event(f)
  PROVE  CanvasInv' /\ currentKey' = currentKey /\ flows' = [flows EXCEPT ![currentKey] = f]
<1>1. onCanvas /\ onCanvas' = onCanvas /\ currentKey' = currentKey
      /\ flows' = [flows EXCEPT ![currentKey] = f] /\ Canvas!InspectorPanel(f)
  BY DEF Canvas!Event, Canvas!SetFlow
<1>2. currentKey \in Keys
  BY <1>1, CurrentFlow
<1>3. f \in Canvas!FlowData
  BY <1>1 DEF Consistent
<1>4. /\ tab' \in {"settings", "other"} /\ form' \in Canvas!Form \cup {Canvas!NoForm}
      /\ form' # Canvas!NoForm => f.selectedNode # None /\ form'.block = BlockOf[f.selectedNode.id]
  BY <1>1, <1>3, InspectorFits
<1>5. onCanvas' = TRUE
  BY <1>1 DEF CanvasInv
<1> QED BY <1>1, <1>2, <1>4, <1>5, DisplayStep

\* Every event on the canvas puts a consistent flow on display, and keeps the
\* configuration of the nodes that stay.
LEMMA CanvasEventKeeps ==
  ASSUME CanvasInv, Canvas!CanvasEvent
  PROVE  \E f : /\ Canvas!Event(f) /\ Consistent(f)
                /\ \A n \in Canvas!Current.nodes \cap f.nodes : f.config[n] = Canvas!Current.config[n]
<1> DEFINE c == Canvas!Current
<1> DEFINE Fits(f) == Consistent(f) /\ \A n \in c.nodes \cap f.nodes : f.config[n] = c.config[n]
<1>1. \A f : Canvas!Event(f) => onCanvas
  BY DEF Canvas!Event
<1>2. onCanvas => Consistent(c)
  BY CurrentFlow
<1>n. onCanvas => c.nodes \subseteq NodeIds
  BY <1>2, FlowFields DEF Consistent
<1> HIDE DEF c
<1>3. ASSUME NEW n \in NodeIds, Canvas!onNodeClick(n) PROVE \E f : Canvas!Event(f) /\ Fits(f)
  <2> DEFINE f == Canvas!setSelectedNode(c, n)
  <2>1. Canvas!Event(f)
    BY <1>3 DEF Canvas!onNodeClick, c
  <2>2. Fits(f)
    BY <1>1, <1>2, <2>1, SelectConsistent
  <2> HIDE DEF f
  <2> QED BY <2>1, <2>2
<1>4. ASSUME Canvas!onPaneClick PROVE \E f : Canvas!Event(f) /\ Fits(f)
  <2> DEFINE f == Canvas!setSelectedNode(c, None)
  <2>1. Canvas!Event(f)
    BY <1>4 DEF Canvas!onPaneClick, c
  <2>2. Fits(f)
    BY <1>1, <1>2, <2>1, SelectConsistent
  <2> HIDE DEF f
  <2> QED BY <2>1, <2>2
<1>5. ASSUME NEW n \in NodeIds, Canvas!onDrop(n) PROVE \E f : Canvas!Event(f) /\ Fits(f)
  <2> DEFINE f == Canvas!setSelectedNode(c, None)
  <2> DEFINE g == [f EXCEPT !.nodes = @ \cup {n}]
  <2> DEFINE h == Canvas!addRecentlyUsedBlock(g, BlockOf[n])
  <2>1. Canvas!Event(h)
    BY <1>5 DEF Canvas!onDrop, c
  <2>2. Consistent(f) /\ f.nodes = c.nodes /\ f.config = c.config
    BY <1>1, <1>2, <2>1, SelectConsistent
  <2> HIDE DEF f
  <2>3. Consistent(g) /\ g.nodes = f.nodes \cup {n} /\ g.config = f.config
    BY <2>2, DropConsistent
  <2> HIDE DEF g
  <2>4. BlockOf[n] \in Blocks
    BY CanvasAssumption
  <2>5. Consistent(h) /\ h.nodes = g.nodes /\ h.config = g.config
    BY <2>3, <2>4, RecentConsistent
  <2> HIDE DEF h
  <2> QED BY <2>1, <2>2, <2>3, <2>5
<1>6. ASSUME NEW a \in NodeIds, NEW b \in NodeIds, Canvas!ConnectNodes(a, b)
      PROVE  \E f : Canvas!Event(f) /\ Fits(f)
  <2> DEFINE f == Canvas!onConnect(c, a, b)
  <2>1. Canvas!Event(f) /\ a \in c.nodes /\ b \in c.nodes
    BY <1>6 DEF Canvas!ConnectNodes, c
  <2>2. Fits(f)
    BY <1>1, <1>2, <2>1, ConnectConsistent
  <2> HIDE DEF f
  <2> QED BY <2>1, <2>2
<1>7. ASSUME NEW e, Canvas!DeleteEdge(e) PROVE \E f : Canvas!Event(f) /\ Fits(f)
  <2> DEFINE f == Canvas!onEdgesChange(c, {e})
  <2>1. Canvas!Event(f)
    BY <1>7 DEF Canvas!DeleteEdge, c
  <2>2. Fits(f)
    BY <1>1, <1>2, <2>1, EdgesChangeConsistent
  <2> HIDE DEF f
  <2> QED BY <2>1, <2>2
<1>8. ASSUME NEW n \in NodeIds, Canvas!DeleteNode(n) PROVE \E f : Canvas!Event(f) /\ Fits(f)
  <2> DEFINE f == Canvas!deleteElements(c, {n})
  <2>1. Canvas!Event(f)
    BY <1>8 DEF Canvas!DeleteNode, c
  <2>2. /\ Consistent(f) /\ f.nodes = c.nodes \ {n}
        /\ \A m \in NodeIds \ {n} : f.config[m] = c.config[m]
    BY <1>1, <1>2, <2>1, DeleteConsistent
  <2>3. Fits(f)
    BY <1>1, <1>n, <2>1, <2>2
  <2> HIDE DEF f
  <2> QED BY <2>1, <2>3
<1>9. \E f : Canvas!Event(f) /\ Fits(f)
  BY <1>3, <1>4, <1>5, <1>6, <1>7, <1>8 DEF Canvas!CanvasEvent
<1> QED BY <1>9 DEF c

\* The assignment to the configuration of the selected node's object.
LEMMA AssignConsistent ==
  ASSUME NEW f, Consistent(f), f.selectedNode # None, NEW v \in Configs
  PROVE  LET g == Canvas!AssignConfig(f, v)
         IN Consistent(g) /\ g.selectedNode # None /\ g.selectedNode.id = f.selectedNode.id
<1>1. /\ f \in Canvas!FlowData /\ f.selectedNode \in Canvas!NodeRef
      /\ f.selectedNode.id \in NodeIds /\ f.config \in [NodeIds -> Configs]
  BY SelectedConfigType, FlowFields DEF Consistent
<1>2. CASE f.selectedNode.live
  <2> DEFINE cfg == [f.config EXCEPT ![f.selectedNode.id] = v]
  <2> DEFINE g == [f EXCEPT !.config = cfg]
  <2>1. Canvas!AssignConfig(f, v) = g
    BY <1>1, <1>2 DEF Canvas!AssignConfig, Canvas!FlowData
  <2>2. cfg \in [NodeIds -> Configs]
    BY <1>1
  <2> HIDE DEF cfg
  <2>3. /\ g \in Canvas!FlowData /\ g.edges = f.edges /\ g.nodes = f.nodes
        /\ g.handleAnimations = f.handleAnimations /\ g.selectedNode = f.selectedNode
    BY <1>1, <2>2 DEF Canvas!FlowData
  <2> HIDE DEF g
  <2> QED BY <2>1, <2>3 DEF Consistent
<1>3. CASE ~f.selectedNode.live
  <2> DEFINE sel == [f.selectedNode EXCEPT !.config = v]
  <2> DEFINE g == [f EXCEPT !.selectedNode = sel]
  <2>1. Canvas!AssignConfig(f, v) = g
    BY <1>1, <1>3 DEF Canvas!AssignConfig, Canvas!FlowData
  <2>2. sel \in Canvas!NodeRef /\ sel.id = f.selectedNode.id
    BY <1>1 DEF Canvas!NodeRef
  <2>3. sel # None
    BY <2>2, CanvasAssumption
  <2> HIDE DEF sel
  <2>4. /\ g \in Canvas!FlowData /\ g.edges = f.edges /\ g.nodes = f.nodes
        /\ g.handleAnimations = f.handleAnimations /\ g.selectedNode = sel
    BY <1>1, <2>2 DEF Canvas!FlowData
  <2> HIDE DEF g
  <2> QED BY <2>1, <2>2, <2>3, <2>4 DEF Consistent
<1> QED BY <1>2, <1>3

\* The value of a form is one of the configurations, and a change of it keeps
\* the form.
LEMMA FormValue ==
  ASSUME NEW g \in Canvas!Form, NEW v \in Configs
  PROVE  /\ g.value \in Configs /\ g # Canvas!NoForm
         /\ [g EXCEPT !.value = v] \in Canvas!Form
         /\ [g EXCEPT !.value = v].block = g.block
BY DEF Canvas!Form, Canvas!NoForm

LEMMA InspectorEventKeeps ==
  ASSUME CanvasInv, Canvas!InspectorEvent
  PROVE  /\ CanvasInv'
         /\ currentKey' = currentKey
         /\ \/ flows' = flows
            \/ currentKey \in Keys /\ \E f : flows' = [flows EXCEPT ![currentKey] = f]
<1>1. ASSUME NEW t \in {"settings", "other"}, Canvas!SelectTab(t)
      PROVE  CanvasInv' /\ flows' = flows /\ currentKey' = currentKey
  <2>1. /\ onCanvas /\ Canvas!Current.selectedNode # None /\ tab' = t
        /\ form' = IF t = "settings" THEN Canvas!FreshForm(Canvas!Current) ELSE Canvas!NoForm
        /\ UNCHANGED <<flows, currentKey, onCanvas>>
    BY <1>1 DEF Canvas!SelectTab
  <2>2. Canvas!Current = flows[currentKey] /\ Canvas!Current \in Canvas!FlowData
    BY <2>1, CurrentFlow DEF Consistent
  <2>3. /\ form' \in Canvas!Form \cup {Canvas!NoForm}
        /\ form' # Canvas!NoForm => form'.block = BlockOf[flows[currentKey].selectedNode.id]
    BY <2>1, <2>2, FreshFormFits
  <2> QED BY <2>1, <2>2, <2>3 DEF CanvasInv
<1>2. ASSUME NEW v \in Configs, Canvas!EditForm(v)
      PROVE  CanvasInv' /\ flows' = flows /\ currentKey' = currentKey
  <2>1. form # Canvas!NoForm /\ form' = [form EXCEPT !.value = v]
        /\ UNCHANGED <<flows, currentKey, onCanvas, tab>>
    BY <1>2 DEF Canvas!EditForm
  <2>2. form' \in Canvas!Form /\ form'.block = form.block
    BY <2>1, FormIsMounted, FormValue
  <2> QED BY <2>1, <2>2 DEF CanvasInv
<1>3. ASSUME NEW v \in Configs, form # Canvas!NoForm, Canvas!SetFlow(Canvas!AssignConfig(Canvas!Current, v)),
             onCanvas' = onCanvas, tab' = tab, form' \in Canvas!Form, form'.block = form.block
      PROVE  /\ CanvasInv' /\ currentKey' = currentKey
             /\ currentKey \in Keys /\ \E f : flows' = [flows EXCEPT ![currentKey] = f]
  <2> DEFINE f == Canvas!AssignConfig(Canvas!Current, v)
  <2>1. /\ onCanvas /\ flows[currentKey].selectedNode # None
        /\ form.block = BlockOf[flows[currentKey].selectedNode.id]
    BY <1>3, FormIsMounted
  <2>2. currentKey \in Keys /\ Canvas!Current = flows[currentKey] /\ Consistent(Canvas!Current)
    BY <2>1, CurrentFlow
  <2>3. Consistent(f) /\ f.selectedNode # None /\ f.selectedNode.id = flows[currentKey].selectedNode.id
    BY <2>1, <2>2, AssignConsistent
  <2>4. currentKey' = currentKey /\ flows' = [flows EXCEPT ![currentKey] = f]
    BY <1>3 DEF Canvas!SetFlow
  <2> HIDE DEF f
  <2>5. onCanvas' = TRUE /\ tab' \in {"settings", "other"}
    BY <1>3, <2>1 DEF CanvasInv
  <2>6. form' # Canvas!NoForm => f.selectedNode # None /\ form'.block = BlockOf[f.selectedNode.id]
    BY <1>3, <2>1, <2>3
  <2>7. form' \in Canvas!Form \cup {Canvas!NoForm}
    BY <1>3
  <2>8. CanvasInv'
    BY <2>2, <2>3, <2>4, <2>5, <2>6, <2>7, DisplayStep
  <2> QED BY <2>2, <2>4, <2>8
<1>4. CASE Canvas!onSubmit
  <2>1. form # Canvas!NoForm /\ UNCHANGED <<onCanvas, tab, form>>
        /\ Canvas!SetFlow(Canvas!AssignConfig(Canvas!Current, form.value))
    BY <1>4 DEF Canvas!onSubmit
  <2>2. form \in Canvas!Form /\ form.value \in Configs
    BY <2>1, FormIsMounted, FormValue, CanvasAssumption
  <2> QED BY <1>3, <2>1, <2>2
<1>5. CASE Canvas!handleReset
  <2>1. form # Canvas!NoForm /\ form' = [form EXCEPT !.value = EmptyConfig] /\ UNCHANGED <<onCanvas, tab>>
    BY <1>5 DEF Canvas!handleReset
  <2>2. form' \in Canvas!Form /\ form'.block = form.block /\ EmptyConfig \in Configs
    BY <2>1, FormIsMounted, FormValue, CanvasAssumption
  <2>3. CASE form.block \in ResetWrites
    <3>1. Canvas!SetFlow(Canvas!AssignConfig(Canvas!Current, EmptyConfig))
      BY <1>5, <2>3 DEF Canvas!handleReset
    <3> QED BY <1>3, <2>1, <2>2, <3>1
  <2>4. CASE form.block \notin ResetWrites
    <3>1. flows' = flows /\ currentKey' = currentKey
      BY <1>5, <2>4 DEF Canvas!handleReset, Canvas!flowVars
    <3> QED BY <2>1, <2>2, <3>1 DEF CanvasInv
  <2> QED BY <2>3, <2>4
<1> QED BY <1>1, <1>2, <1>4, <1>5 DEF Canvas!InspectorEvent

LEMMA OpenBuilderKeeps ==
  ASSUME CanvasInv, NEW key \in Keys, Canvas!OpenBuilder(key)
  PROVE  CanvasInv' /\ currentKey' = key /\ \E f : flows' = [flows EXCEPT ![key] = f]
<1> DEFINE f == Canvas!LoadWorkflow(key, Canvas!Initialized(key))
<1>1. /\ currentKey' = key /\ flows' = [flows EXCEPT ![key] = f] /\ onCanvas' = TRUE
      /\ Canvas!InspectorPanel(f)
  BY DEF Canvas!OpenBuilder, Canvas!initializeFlow
<1>2. Consistent(Canvas!Initialized(key))
  BY DefaultConsistent DEF CanvasInv, Canvas!Initialized
<1>3. Consistent(f)
  BY <1>2, LoadConsistent
<1> HIDE DEF f
<1>4. f \in Canvas!FlowData
  BY <1>3 DEF Consistent
<1>5. /\ tab' \in {"settings", "other"} /\ form' \in Canvas!Form \cup {Canvas!NoForm}
      /\ form' # Canvas!NoForm => f.selectedNode # None /\ form'.block = BlockOf[f.selectedNode.id]
  BY <1>1, <1>4, InspectorFits
<1>6. CanvasInv'
  BY <1>1, <1>3, <1>5, DisplayStep
<1> QED BY <1>1, <1>6

\* Every step of the canvas keeps the invariant and changes at most the flow
\* that is on display after it.
LEMMA CanvasNext ==
  ASSUME CanvasInv, [Canvas!Next]_canvasVars
  PROVE  CanvasInv' /\ \A k \in Keys : flows'[k] # flows[k] => k = currentKey'
<1>0. flows \in [Keys -> Canvas!FlowData \cup {Canvas!NoFlow}]
  BY DEF CanvasInv
<1>1. ASSUME NEW key \in Keys, NEW f, flows' = [flows EXCEPT ![key] = f], currentKey' = key
      PROVE  \A k \in Keys : flows'[k] # flows[k] => k = currentKey'
  BY <1>0, <1>1
<1>2. ASSUME NEW key \in Keys, Canvas!OpenBuilder(key)
      PROVE  CanvasInv' /\ \A k \in Keys : flows'[k] # flows[k] => k = currentKey'
  BY <1>1, <1>2, OpenBuilderKeeps
<1>3. CASE Canvas!LeaveBuilder
  <2>1. onCanvas' = FALSE /\ tab' = "settings" /\ form' = Canvas!NoForm /\ UNCHANGED <<flows, currentKey>>
    BY <1>3 DEF Canvas!LeaveBuilder, Canvas!flowVars
  <2> QED BY <2>1 DEF CanvasInv
<1>4. CASE Canvas!CanvasEvent
  <2>1. PICK f : Canvas!Event(f) /\ Consistent(f)
    BY <1>4, CanvasEventKeeps
  <2>2. CanvasInv' /\ currentKey' = currentKey /\ flows' = [flows EXCEPT ![currentKey] = f]
    BY <2>1, EventStep
  <2>3. currentKey \in Keys
    BY <2>1, CurrentFlow DEF Canvas!Event
  <2> QED BY <1>1, <2>2, <2>3
<1>5. CASE Canvas!InspectorEvent
  BY <1>1, <1>5, InspectorEventKeeps
<1>6. CASE UNCHANGED canvasVars
  BY <1>6 DEF CanvasInv, canvasVars
<1> QED BY <1>2, <1>3, <1>4, <1>5, <1>6 DEF Canvas!Next

LEMMA CanvasInvImplies ==
  CanvasInv => /\ Canvas!TypeOK /\ Canvas!EdgesConnectNodes /\ Canvas!AnimationsMatchEdges
               /\ Canvas!FormFitsSelected
<1> SUFFICES ASSUME CanvasInv
             PROVE  /\ Canvas!TypeOK /\ Canvas!EdgesConnectNodes /\ Canvas!AnimationsMatchEdges
                    /\ Canvas!FormFitsSelected
  OBVIOUS
<1>1. Canvas!TypeOK
  BY DEF CanvasInv, Canvas!TypeOK, Canvas!FlowTypeOK
<1>2. \A k \in Canvas!Stored : Consistent(flows[k])
  BY DEF CanvasInv, Canvas!Stored
<1>3. Canvas!EdgesConnectNodes /\ Canvas!AnimationsMatchEdges
  BY <1>2 DEF Consistent, Canvas!EdgesConnectNodes, Canvas!AnimationsMatchEdges
<1>4. Canvas!FormFitsSelected
  BY FormIsMounted, CurrentFlow DEF Canvas!FormFitsSelected
<1> QED BY <1>1, <1>3, <1>4

\* Whatever is dropped, connected, deleted and selected, on however many pages:
\* every edge joins two nodes of its flow, the handles are animated exactly where
\* edges end, and the mounted form is for the type of the selected node.
THEOREM CanvasAlwaysConsistent == Spec => []CanvasIsConsistent
<1>1. Init => CanvasInv
  BY CanvasInit DEF Init
<1>2. CanvasInv /\ [Next]_vars => CanvasInv'
  BY CanvasSteps, CanvasNext
<1>3. CanvasInv => CanvasIsConsistent
  BY CanvasInvImplies DEF CanvasIsConsistent
<1> QED BY <1>1, <1>2, <1>3, PTL DEF Spec

\* Dropping, connecting, deleting and selecting keep the configuration of every
\* node that stays on the canvas, whichever objects were detached before.
THEOREM ConfigsAlwaysSurvive == Spec => ConfigsSurviveEditing
<1> DEFINE Lost == \E k \in Canvas!Stored : \E n \in flows[k].nodes \cap flows'[k].nodes :
                     flows'[k].config[n] # flows[k].config[n]
<1>1. Init => CanvasInv
  BY CanvasInit DEF Init
<1>2. CanvasInv /\ [Next]_vars => CanvasInv'
  BY CanvasSteps, CanvasNext
<1>3. ASSUME CanvasInv, Canvas!CanvasEvent PROVE ~Lost
  <2>1. PICK f : /\ Canvas!Event(f) /\ Consistent(f)
                 /\ \A n \in Canvas!Current.nodes \cap f.nodes : f.config[n] = Canvas!Current.config[n]
    BY <1>3, CanvasEventKeeps
  <2>2. flows' = [flows EXCEPT ![currentKey] = f]
    BY <1>3, <2>1, EventStep
  <2>3. currentKey \in Keys /\ Canvas!Current = flows[currentKey]
    BY <1>3, <2>1, CurrentFlow DEF Canvas!Event
  <2>4. flows \in [Keys -> Canvas!FlowData \cup {Canvas!NoFlow}]
    BY <1>3 DEF CanvasInv
  <2>5. flows'[currentKey] = f /\ \A k \in Keys : k # currentKey => flows'[k] = flows[k]
    BY <2>2, <2>3, <2>4
  <2>6. Canvas!Stored \subseteq Keys
    BY DEF Canvas!Stored
  <2> QED BY <2>1, <2>3, <2>5, <2>6
<1>4. CanvasInv /\ [Next]_vars => [Lost => ~Canvas!CanvasEvent]_<<flows, currentKey, onCanvas, tab, form>>
  BY <1>3
<1> QED BY <1>1, <1>2, <1>4, PTL DEF Spec, ConfigsSurviveEditing, Canvas!ConfigsSurviveEditing, Canvas!vars

-----------------------------------------------------------------------------
(* The panel of blocks: the lists of recent blocks and of favourites.      *)

\* A flow whose recent blocks are distinct and fit their list.
Recent(f) ==
  /\ f \in Panel!FlowData
  /\ Len(f.recentlyUsed) <= RecentLimit /\ Distinct(f.recentlyUsed)

\* Without the forms of the inspector no form is ever mounted.
PanelInv ==
  /\ panelFlows \in [PanelKeys -> Panel!FlowData \cup {Panel!NoFlow}] /\ panelKey \in PanelKeys \cup {None}
  /\ panelOnCanvas \in BOOLEAN /\ panelTab \in {"settings", "other"} /\ panelForm = Panel!NoForm
  /\ searchQuery \in Queries /\ expanded \subseteq Panel!Categories /\ favorites \in Seq(PanelBlocks)
  /\ \A k \in PanelKeys : panelFlows[k] # Panel!NoFlow => Recent(panelFlows[k])
  /\ panelOnCanvas = TRUE => panelKey \in PanelKeys /\ panelFlows[panelKey] # Panel!NoFlow

LEMMA PanelFlowFields ==
  ASSUME NEW f \in Panel!FlowData
  PROVE  /\ f.nodes \subseteq NodeIds /\ f.config \in [NodeIds -> Configs]
         /\ f.edges \subseteq NodeIds \X NodeIds
         /\ f.selectedNode \in Panel!NodeRef \cup {None}
         /\ f.recentlyUsed \in Seq(PanelBlocks)
         /\ f.handleAnimations \subseteq NodeIds \X Panel!Handles
         /\ f.nodeStatus \in [NodeIds -> Panel!Statuses]
         /\ f # Panel!NoFlow
BY DEF Panel!FlowData, Panel!NoFlow

LEMMA PanelInit == Panel!PanelInit => PanelInv
<1> SUFFICES ASSUME Panel!PanelInit PROVE PanelInv
  OBVIOUS
<1>1. panelFlows = [k \in PanelKeys |-> Panel!NoFlow] /\ panelKey = None
  BY DEF Panel!PanelInit, Panel!Init, Panel!FlowInit
<1>2. panelOnCanvas = FALSE /\ panelTab = "settings" /\ panelForm = Panel!NoForm
  BY DEF Panel!PanelInit, Panel!Init
<1>3. searchQuery = "" /\ expanded = {} /\ favorites = <<>>
  BY DEF Panel!PanelInit
<1>4. panelFlows \in [PanelKeys -> Panel!FlowData \cup {Panel!NoFlow}] /\ panelKey \in PanelKeys \cup {None}
  BY <1>1
<1>5. \A k \in PanelKeys : panelFlows[k] # Panel!NoFlow => Recent(panelFlows[k])
  BY <1>1
<1>6. searchQuery \in Queries /\ expanded \subseteq Panel!Categories /\ favorites \in Seq(PanelBlocks)
  <2>1. <<>> \in Seq(PanelBlocks)
    BY EmptySeq
  <2>2. favorites \in Seq(PanelBlocks)
    BY <1>3, <2>1, Zenon
  <2>3. searchQuery \in Queries
    BY <1>3, PanelAssumption, Zenon
  <2> QED BY <1>3, <2>2, <2>3, Zenon
<1>7. panelOnCanvas \in BOOLEAN /\ panelTab \in {"settings", "other"} /\ panelOnCanvas # TRUE
  BY <1>2
<1> QED BY <1>2, <1>4, <1>5, <1>6, <1>7 DEF PanelInv

LEMMA PanelDefault == Recent(Panel!defaultFlowData)
<1>1. Panel!defaultFlowData \in Panel!FlowData
  BY CanvasAssumption DEF Panel!defaultFlowData, Panel!FlowData, Panel!Statuses
<1>2. Panel!defaultFlowData.recentlyUsed = <<>>
  BY DEF Panel!defaultFlowData
<1>3. Len(<<>>) <= RecentLimit /\ Distinct(<<>>)
  BY CanvasAssumption DEF Distinct
<1> HIDE DEF Panel!defaultFlowData
<1> QED BY <1>1, <1>2, <1>3 DEF Recent

\* A flow with other nodes, edges and selection, and the same recent blocks.
LEMMA SameRecent ==
  ASSUME NEW f, Recent(f), NEW g \in Panel!FlowData, g.recentlyUsed = f.recentlyUsed
  PROVE  Recent(g)
BY DEF Recent

LEMMA PanelDetached ==
  ASSUME NEW f \in Panel!FlowData, NEW gone
  PROVE  Panel!Detached(f, gone) \in Panel!NodeRef \cup {None}
<1>1. CASE f.selectedNode = None
  BY <1>1 DEF Panel!Detached
<1>2. CASE f.selectedNode # None
  <2>1. f.selectedNode \in Panel!NodeRef /\ f.config \in [NodeIds -> Configs]
    BY <1>2, PanelFlowFields
  <2>2. f.config[f.selectedNode.id] \in Configs
    BY <2>1 DEF Panel!NodeRef
  <2>3. [f.selectedNode EXCEPT !.live = FALSE, !.config = f.config[f.selectedNode.id]] \in Panel!NodeRef
    BY <2>1, <2>2 DEF Panel!NodeRef
  <2> QED BY <1>2, <2>1, <2>3 DEF Panel!Detached
<1> QED BY <1>1, <1>2

LEMMA PanelLoad ==
  ASSUME NEW key \in PanelKeys, NEW f, Recent(f)
  PROVE  Recent(Panel!LoadWorkflow(key, f))
<1> DEFINE ids == RenderedNodes[key]
<1> DEFINE cfg == [n \in NodeIds |-> IF n \in ids THEN RenderedConfig[n] ELSE EmptyConfig]
<1> DEFINE sel == Panel!Detached(f, f.nodes)
<1> DEFINE E == RenderedEdges[key]
<1> DEFINE H == Panel!computeHandleAnimations(E)
<1> DEFINE g == [f EXCEPT !.nodes = ids, !.config = cfg, !.selectedNode = sel]
<1>1. ids \subseteq NodeIds /\ E \subseteq ids \X ids
  BY CanvasAssumption, PanelAssumption
<1>2. cfg \in [NodeIds -> Configs]
  BY CanvasAssumption
<1>3. sel \in Panel!NodeRef \cup {None}
  BY PanelDetached DEF Recent
<1>4. E \subseteq NodeIds \X NodeIds
  BY <1>1
<1>5. H \subseteq NodeIds \X Panel!Handles
  <2> HIDE DEF E
  <2> QED BY <1>4 DEF Panel!computeHandleAnimations, Panel!Handles
<1>6. key # NewKey => Panel!LoadWorkflow(key, f) = [g EXCEPT !.edges = E, !.handleAnimations = H]
  BY DEF Panel!LoadWorkflow, Panel!setEdges, Panel!setNodes
<1> HIDE DEF ids, cfg, sel, E, H
<1>7. g \in Panel!FlowData /\ g.recentlyUsed = f.recentlyUsed
  BY <1>1, <1>2, <1>3 DEF Recent, Panel!FlowData
<1> HIDE DEF g
<1> DEFINE h == [g EXCEPT !.edges = E, !.handleAnimations = H]
<1>8. h \in Panel!FlowData /\ h.recentlyUsed = f.recentlyUsed
  BY <1>4, <1>5, <1>7 DEF Panel!FlowData
<1>9. Recent(h)
  BY <1>8, SameRecent
<1>10. key = NewKey => Panel!LoadWorkflow(key, f) = f
  BY DEF Panel!LoadWorkflow
<1> HIDE DEF h
<1> QED BY <1>6, <1>9, <1>10 DEF h

LEMMA PanelDelete ==
  ASSUME NEW f, Recent(f), NEW ids
  PROVE  Recent(Panel!deleteElements(f, ids))
<1> DEFINE touching == {e \in f.edges : e[1] \in ids \/ e[2] \in ids}
<1> DEFINE h == Panel!onEdgesChange(f, touching)
<1>1. Panel!deleteElements(f, ids) = Panel!onNodesChange(h, ids)
  BY DEF Panel!deleteElements
<1>2. PICK H : h = [f EXCEPT !.edges = f.edges \ touching, !.handleAnimations = f.handleAnimations \ H]
  BY DEF Panel!onEdgesChange
<1> DEFINE E == f.edges \ touching
<1> DEFINE A == f.handleAnimations \ H
<1>3. E \subseteq NodeIds \X NodeIds /\ A \subseteq NodeIds \X Panel!Handles
  BY PanelFlowFields DEF Recent
<1>4. h = [f EXCEPT !.edges = E, !.handleAnimations = A]
  BY <1>2
<1> HIDE DEF E, A, touching, h
<1>5. h \in Panel!FlowData /\ h.recentlyUsed = f.recentlyUsed
  BY <1>3, <1>4 DEF Recent, Panel!FlowData
<1> DEFINE cfg == [n \in NodeIds |-> IF n \in ids THEN EmptyConfig ELSE h.config[n]]
<1> DEFINE sel == Panel!Detached(h, ids)
<1> DEFINE left == h.nodes \ ids
<1> DEFINE g == [h EXCEPT !.nodes = left, !.config = cfg, !.selectedNode = sel]
<1>6. Panel!onNodesChange(h, ids) = g
  BY <1>5 DEF Panel!onNodesChange, Panel!FlowData
<1>7. cfg \in [NodeIds -> Configs] /\ left \subseteq NodeIds
  BY <1>5, PanelFlowFields, CanvasAssumption
<1>8. sel \in Panel!NodeRef \cup {None}
  BY <1>5, PanelDetached
<1> HIDE DEF cfg, sel, left
<1>9. g \in Panel!FlowData /\ g.recentlyUsed = f.recentlyUsed
  BY <1>5, <1>7, <1>8 DEF Panel!FlowData
<1> HIDE DEF g
<1>10. Recent(g)
  BY <1>9, SameRecent
<1> QED BY <1>1, <1>6, <1>10

\* A block that is used moves to the front of its list, which is then cut.
LEMMA PanelAdd ==
  ASSUME NEW f, Recent(f), NEW block \in PanelBlocks
  PROVE  Recent(Panel!addRecentlyUsedBlock(f, block))
<1> DEFINE kept == filter(f.recentlyUsed, PanelBlocks \ {block})
<1> DEFINE all == <<block>> \o kept
<1> DEFINE n == IF Len(all) < RecentLimit THEN Len(all) ELSE RecentLimit
<1> DEFINE list == SubSeq(all, 1, n)
<1> DEFINE g == [f EXCEPT !.recentlyUsed = list]
<1>1. Panel!addRecentlyUsedBlock(f, block) = g
  BY DEF Panel!addRecentlyUsedBlock, Panel!filter, Panel!Filtered, filter, Filtered
<1>2. f.recentlyUsed \in Seq(PanelBlocks) /\ Distinct(f.recentlyUsed)
  BY PanelFlowFields DEF Recent
<1>3. kept \in Seq(PanelBlocks) /\ Distinct(kept) /\ block \notin Elements(kept)
  BY <1>2, FilterKeeps
<1> HIDE DEF kept
<1>4. /\ all \in Seq(PanelBlocks) /\ Len(all) = Len(kept) + 1 /\ Len(kept) \in Nat /\ all[1] = block
      /\ \A i \in 1 .. Len(kept) : all[i + 1] = kept[i]
  BY <1>3
<1> HIDE DEF all
<1>5. Distinct(all)
  <2> SUFFICES ASSUME NEW i \in 1 .. Len(all), NEW j \in 1 .. Len(all), all[i] = all[j] PROVE i = j
    BY DEF Distinct
  <2>1. ASSUME NEW k \in 1 .. Len(all), k # 1
        PROVE  k - 1 \in 1 .. Len(kept) /\ all[k] = kept[k - 1] /\ all[k] # block
    <3>1. k - 1 \in 1 .. Len(kept) /\ (k - 1) + 1 = k
      BY <1>4, <2>1
    <3>2. all[k] = kept[k - 1]
      BY <1>4, <3>1
    <3> QED BY <1>3, <3>1, <3>2 DEF Elements
  <2>2. CASE i = 1 \/ j = 1
    BY <1>4, <2>1, <2>2
  <2>3. CASE i # 1 /\ j # 1
    <3>1. i - 1 = j - 1
      BY <1>3, <2>1, <2>3 DEF Distinct
    <3> QED BY <3>1
  <2> QED BY <2>2, <2>3
<1>6. n \in Nat /\ n <= Len(all) /\ n <= RecentLimit
  BY <1>4, CanvasAssumption
<1> HIDE DEF n
<1>7. list \in Seq(PanelBlocks) /\ Len(list) = n /\ \A i \in 1 .. n : list[i] = all[i]
  BY <1>4, <1>6
<1> HIDE DEF list
<1>8. Distinct(list)
  <2>1. \A i \in 1 .. n : i \in 1 .. Len(all)
    BY <1>4, <1>6
  <2> QED BY <1>5, <1>7, <2>1 DEF Distinct
<1>9. g \in Panel!FlowData /\ g.recentlyUsed = list
  BY <1>7 DEF Recent, Panel!FlowData
<1> HIDE DEF g
<1> QED BY <1>1, <1>6, <1>7, <1>8, <1>9 DEF Recent

LEMMA PanelSelect ==
  ASSUME NEW f, Recent(f)
  PROVE  Recent(Panel!setSelectedNode(f, None))
<1>1. Panel!setSelectedNode(f, None) = [f EXCEPT !.selectedNode = None]
  BY DEF Panel!setSelectedNode
<1> QED BY <1>1 DEF Recent, Panel!FlowData

LEMMA PanelDrop ==
  ASSUME NEW f, Recent(f), NEW n \in NodeIds
  PROVE  Recent([f EXCEPT !.nodes = @ \cup {n}])
<1> DEFINE ns == f.nodes \cup {n}
<1>1. ns \subseteq NodeIds
  BY PanelFlowFields DEF Recent
<1>2. [f EXCEPT !.nodes = @ \cup {n}] = [f EXCEPT !.nodes = ns]
  OBVIOUS
<1> HIDE DEF ns
<1> QED BY <1>1, <1>2 DEF Recent, Panel!FlowData

LEMMA PanelClear ==
  ASSUME NEW f, Recent(f)
  PROVE  Recent(Panel!clearRecentlyUsed(f))
<1> DEFINE none == <<>>
<1> DEFINE g == [f EXCEPT !.recentlyUsed = none]
<1>0. none \in Seq(PanelBlocks)
  BY EmptySeq
<1>1. g \in Panel!FlowData /\ g.recentlyUsed = none
  <2> HIDE DEF none
  <2> QED BY <1>0 DEF Recent, Panel!FlowData
<1>2. Len(<<>>) <= RecentLimit /\ Distinct(<<>>)
  BY CanvasAssumption DEF Distinct
<1> HIDE DEF g
<1>3. Recent(g)
  BY <1>1, <1>2 DEF Recent
<1> QED BY <1>3 DEF g, Panel!clearRecentlyUsed

\* The flow on display, while a page is.
LEMMA PanelCurrent ==
  ASSUME PanelInv, panelOnCanvas
  PROVE  /\ panelKey \in PanelKeys /\ Panel!Current = panelFlows[panelKey]
         /\ Recent(Panel!Current)
<1>1. panelOnCanvas = TRUE
  BY DEF PanelInv
<1>2. panelKey \in PanelKeys /\ panelFlows[panelKey] # Panel!NoFlow /\ Recent(panelFlows[panelKey])
  BY <1>1 DEF PanelInv
<1>3. panelKey # None
  BY <1>2, CanvasAssumption, PanelAssumption
<1> QED BY <1>2, <1>3 DEF Panel!Current

\* A render of the inspector: no node type has a form, so none is mounted.
LEMMA PanelRender ==
  ASSUME PanelInv, NEW f, Panel!InspectorPanel(f)
  PROVE  panelForm' = Panel!NoForm /\ panelTab' \in {"settings", "other"}
<1>1. panelForm = Panel!NoForm
  BY DEF PanelInv
<1>2. Panel!SettingsTab(f) = Panel!NoForm
  BY <1>1 DEF Panel!SettingsTab, Panel!FreshForm
<1>3. panelForm' = Panel!NoForm
  BY <1>2 DEF Panel!InspectorPanel
<1>4. panelTab' \in {"settings", "other"}
  BY DEF Panel!InspectorPanel, PanelInv
<1> QED BY <1>3, <1>4

\* A step that puts a flow under a key and displays it.
LEMMA PanelDisplay ==
  ASSUME PanelInv, NEW key \in PanelKeys, NEW f, Recent(f),
         panelFlows' = [panelFlows EXCEPT ![key] = f], panelKey' = key, panelOnCanvas' = TRUE,
         Panel!InspectorPanel(f),
         searchQuery' \in Queries, expanded' \subseteq Panel!Categories, favorites' \in Seq(PanelBlocks)
  PROVE  PanelInv'
<1>1. panelForm' = Panel!NoForm /\ panelTab' \in {"settings", "other"}
  BY PanelRender
<1>2. f \in Panel!FlowData /\ f # Panel!NoFlow
  BY PanelFlowFields DEF Recent
<1>3. panelFlows \in [PanelKeys -> Panel!FlowData \cup {Panel!NoFlow}]
  BY DEF PanelInv
<1>4. /\ panelFlows' \in [PanelKeys -> Panel!FlowData \cup {Panel!NoFlow}]
      /\ panelFlows'[key] = f /\ \A k \in PanelKeys \ {key} : panelFlows'[k] = panelFlows[k]
  BY <1>2, <1>3
<1>5. \A k \in PanelKeys : panelFlows'[k] # Panel!NoFlow => Recent(panelFlows'[k])
  BY <1>4 DEF PanelInv
<1> QED BY <1>1, <1>2, <1>4, <1>5 DEF PanelInv, Panel!NoForm

LEMMA PanelEvent ==
  ASSUME PanelInv, NEW f, Recent(f), Panel!Event(f), UNCHANGED <<searchQuery, expanded, favorites>>
  PROVE  PanelInv'
<1>1. /\ panelOnCanvas /\ panelFlows' = [panelFlows EXCEPT ![panelKey] = f] /\ panelKey' = panelKey
      /\ Panel!InspectorPanel(f) /\ panelOnCanvas' = panelOnCanvas
  BY DEF Panel!Event, Panel!SetFlow
<1>2. panelKey \in PanelKeys /\ panelOnCanvas' = TRUE
  BY <1>1, PanelCurrent DEF PanelInv
<1>3. searchQuery' \in Queries /\ expanded' \subseteq Panel!Categories /\ favorites' \in Seq(PanelBlocks)
  BY DEF PanelInv
<1> QED BY <1>1, <1>2, <1>3, PanelDisplay

\* toggleFavorite takes the block out, puts it at the end, or does nothing.
LEMMA ToggledFavorites ==
  ASSUME favorites \in Seq(PanelBlocks), NEW b \in PanelBlocks, NEW category
  PROVE  /\ Panel!toggleFavorite(b, category) \in Seq(PanelBlocks)
         /\ category \in Panel!Categories /\ b \in Panel!blockCategories[category] =>
              Elements(Panel!toggleFavorite(b, category)) =
                IF b \in Elements(favorites) THEN Elements(favorites) \ {b} ELSE Elements(favorites) \cup {b}
<1>1. filter(favorites, PanelBlocks \ {b}) = Panel!filter(favorites, PanelBlocks \ {b})
  BY DEF Panel!filter, Panel!Filtered, filter, Filtered
<1>2. Panel!isBlockFavorite(b) <=> b \in Elements(favorites)
  BY DEF Panel!isBlockFavorite, Panel!IsIn, Elements
<1> DEFINE kept == filter(favorites, PanelBlocks \ {b})
<1> DEFINE more == Append(favorites, b)
<1>3. kept \in Seq(PanelBlocks) /\ Elements(kept) = Elements(favorites) \cap (PanelBlocks \ {b})
  BY FilterKeeps
<1>4. more \in Seq(PanelBlocks) /\ Elements(more) = Elements(favorites) \cup {b}
  BY AppendElements
<1>5. Elements(favorites) \subseteq PanelBlocks
  BY DEF Elements
<1>6. Panel!toggleFavorite(b, category) =
        IF category \notin Panel!Categories THEN favorites
        ELSE IF b \notin Panel!blockCategories[category] THEN favorites
        ELSE IF b \in Elements(favorites) THEN kept ELSE more
  BY <1>1, <1>2 DEF Panel!toggleFavorite
<1> HIDE DEF kept, more
<1> QED BY <1>3, <1>4, <1>5, <1>6

LEMMA PanelOwn ==
  ASSUME PanelInv, NEW q \in Queries, NEW e, e \subseteq Panel!Categories, NEW fs \in Seq(PanelBlocks),
         Panel!Panel(q, e, fs)
  PROVE  PanelInv'
<1>1. searchQuery' = q /\ expanded' = e /\ favorites' = fs
  BY DEF Panel!Panel
<1>2. UNCHANGED <<panelFlows, panelKey, panelOnCanvas, panelTab, panelForm>>
  BY DEF Panel!Panel, Panel!vars
<1> QED BY <1>1, <1>2 DEF PanelInv

LEMMA PanelNextStep == PanelInv /\ [Panel!PanelNext]_panelVars => PanelInv'
<1> SUFFICES ASSUME PanelInv, [Panel!PanelNext]_panelVars PROVE PanelInv'
  OBVIOUS
<1> DEFINE c == Panel!Current
<1>0. searchQuery \in Queries /\ expanded \subseteq Panel!Categories /\ favorites \in Seq(PanelBlocks)
  BY DEF PanelInv
<1>c. \A f : Panel!Event(f) => Recent(c)
  BY PanelCurrent DEF Panel!Event
<1>1. ASSUME NEW q \in Queries, Panel!Search(q) PROVE PanelInv'
  BY <1>0, <1>1, PanelOwn DEF Panel!Search
<1>2. ASSUME NEW x \in Panel!Categories, Panel!toggleCategory(x) PROVE PanelInv'
  <2>1. (expanded \ {x}) \cup ({x} \ expanded) \subseteq Panel!Categories
    BY <1>0
  <2> QED BY <1>0, <1>2, <2>1, PanelOwn DEF Panel!toggleCategory
<1>3. ASSUME NEW s, NEW b \in PanelBlocks, Panel!ClickStar(s, b) PROVE PanelInv'
  <2>1. Panel!toggleFavorite(b, Panel!CategoryName(s, b)) \in Seq(PanelBlocks)
    BY <1>0, ToggledFavorites
  <2> QED BY <1>0, <1>3, <2>1, PanelOwn DEF Panel!ClickStar
<1>4. ASSUME NEW k \in PanelKeys, Panel!OpenPage(k) PROVE PanelInv'
  <2> DEFINE f == Panel!LoadWorkflow(k, Panel!Initialized(k))
  <2>1. Panel!OpenBuilder(k)
    BY <1>4 DEF Panel!OpenPage
  <2>2. /\ panelKey' = k /\ panelFlows' = [panelFlows EXCEPT ![k] = f] /\ panelOnCanvas' = TRUE
        /\ Panel!InspectorPanel(f)
    BY <2>1 DEF Panel!OpenBuilder, Panel!initializeFlow
  <2>3. Recent(Panel!Initialized(k))
    BY PanelDefault DEF PanelInv, Panel!Initialized
  <2>4. Recent(f)
    BY <2>3, PanelLoad
  <2> HIDE DEF f
  <2>5. \/ searchQuery' = searchQuery /\ expanded' = expanded /\ favorites' = favorites
        \/ searchQuery' = "" /\ expanded' = {} /\ favorites' = <<>>
    BY <1>4 DEF Panel!OpenPage, Panel!panelVars
  <2>6. searchQuery' \in Queries /\ expanded' \subseteq Panel!Categories
    BY <1>0, <2>5, PanelAssumption
  <2>7. favorites' \in Seq(PanelBlocks)
    <3>1. <<>> \in Seq(PanelBlocks)
      BY EmptySeq
    <3> QED BY <1>0, <2>5, <3>1, Zenon
  <2> QED BY <2>2, <2>4, <2>6, <2>7, PanelDisplay
<1>5. CASE Panel!LeavePage
  <2>1. panelOnCanvas' = FALSE /\ panelTab' = "settings" /\ panelForm' = Panel!NoForm
    BY <1>5 DEF Panel!LeavePage, Panel!LeaveBuilder
  <2>2. UNCHANGED <<panelFlows, panelKey, searchQuery, expanded, favorites>>
    BY <1>5 DEF Panel!LeavePage, Panel!LeaveBuilder, Panel!flowVars, Panel!panelVars
  <2> QED BY <2>1, <2>2 DEF PanelInv
<1>6. ASSUME NEW s, NEW n \in NodeIds, Panel!DragBlock(s, n) PROVE PanelInv'
  <2> DEFINE f == Panel!setSelectedNode(c, None)
  <2> DEFINE g == [f EXCEPT !.nodes = @ \cup {n}]
  <2> DEFINE h == Panel!addRecentlyUsedBlock(g, PanelBlockOf[n])
  <2>1. Panel!Event(h) /\ UNCHANGED <<searchQuery, expanded, favorites>>
    BY <1>6 DEF Panel!DragBlock, Panel!onDrop, Panel!panelVars
  <2>2. Recent(c)
    BY <1>c, <2>1
  <2> HIDE DEF c
  <2>3. Recent(f)
    BY <2>2, PanelSelect
  <2> HIDE DEF f
  <2>4. Recent(g)
    BY <2>3, PanelDrop
  <2> HIDE DEF g
  <2>5. PanelBlockOf[n] \in PanelBlocks
    BY PanelAssumption
  <2>6. Recent(h)
    BY <2>4, <2>5, PanelAdd
  <2> HIDE DEF h
  <2> QED BY <2>1, <2>6, PanelEvent
<1>7. ASSUME NEW n \in NodeIds, Panel!RemoveNode(n) PROVE PanelInv'
  <2> DEFINE f == Panel!deleteElements(c, {n})
  <2>1. Panel!Event(f) /\ UNCHANGED <<searchQuery, expanded, favorites>>
    BY <1>7 DEF Panel!RemoveNode, Panel!DeleteNode, Panel!panelVars
  <2>2. Recent(f)
    BY <1>c, <2>1, PanelDelete
  <2> HIDE DEF f
  <2> QED BY <2>1, <2>2, PanelEvent
<1>8. CASE Panel!ClearRecents
  <2> DEFINE f == Panel!clearRecentlyUsed(c)
  <2>1. Panel!Event(f) /\ UNCHANGED <<searchQuery, expanded, favorites>>
    BY <1>8 DEF Panel!ClearRecents, Panel!panelVars
  <2>2. Recent(f)
    BY <1>c, <2>1, PanelClear
  <2> HIDE DEF f
  <2> QED BY <2>1, <2>2, PanelEvent
<1>9. CASE UNCHANGED panelVars
  BY <1>9 DEF PanelInv, panelVars
<1> QED BY <1>1, <1>2, <1>3, <1>4, <1>5, <1>6, <1>7, <1>8, <1>9 DEF Panel!PanelNext

\* The name a block is starred under, away from the favourites, is that of a
\* category that lists it.
LEMMA StarredUnderCategory ==
  ASSUME NEW s \in Panel!Sections \ {"favorites"}, NEW b \in Panel!Shown(s)
  PROVE  /\ b \in PanelBlocks /\ Panel!CategoryName(s, b) \in Panel!Categories
         /\ b \in Panel!blockCategories[Panel!CategoryName(s, b)]
<1>1. Panel!Categories = {"Triggers", "Actions"}
  BY DEF Panel!Categories, Panel!blockCategories
<1>2. /\ Panel!blockCategories["Triggers"] = Panel!TriggerBlocks \cap PanelBlocks
      /\ Panel!blockCategories["Actions"] = Panel!ActionBlocks \cap PanelBlocks
  BY DEF Panel!blockCategories
<1>3. CASE s = "recent"
  <2>1. b \in PanelBlocks
    BY <1>3 DEF Panel!Shown
  <2>2. \E c \in Panel!Categories : b \in Panel!blockCategories[c]
    BY <1>1, <1>2, <2>1, PanelAssumption
  <2> HIDE DEF Panel!Categories, Panel!blockCategories
  <2>3. Panel!CategoryName(s, b) = CHOOSE c \in Panel!Categories : b \in Panel!blockCategories[c]
    BY <1>3, <2>2 DEF Panel!CategoryName, Panel!getBlockCategoryName
  <2> QED BY <2>1, <2>2, <2>3
<1>4. CASE s # "recent"
  <2>1. s \in Panel!Categories /\ Panel!CategoryName(s, b) = s
    BY <1>4 DEF Panel!Sections, Panel!CategoryName
  <2>2. b \in Panel!filteredCategories[s]
    BY <1>4 DEF Panel!Shown
  <2>3. b \in Panel!blockCategories[s]
    BY <2>1, <2>2 DEF Panel!filteredCategories
  <2>4. b \in PanelBlocks
    BY <1>1, <1>2, <2>1, <2>3
  <2> QED BY <2>1, <2>3, <2>4
<1> QED BY <1>3, <1>4

LEMMA PanelInvImplies == PanelInv => Panel!PanelTypeOK /\ Panel!RecentlyUsedBounded /\ Panel!StarToggles
<1> SUFFICES ASSUME PanelInv PROVE Panel!PanelTypeOK /\ Panel!RecentlyUsedBounded /\ Panel!StarToggles
  OBVIOUS
<1>1. Panel!PanelTypeOK
  <2>1. panelForm \in Panel!Form \cup {Panel!NoForm}
    BY DEF PanelInv
  <2> QED BY <2>1 DEF PanelInv, Panel!PanelTypeOK, Panel!TypeOK, Panel!FlowTypeOK
<1>2. Panel!RecentlyUsedBounded
  <2>1. \A k \in Panel!Stored : Recent(panelFlows[k])
    BY DEF PanelInv, Panel!Stored
  <2> QED BY <2>1 DEF Recent, Distinct, Panel!RecentlyUsedBounded
<1>3. Panel!StarToggles
  <2> SUFFICES ASSUME NEW s \in Panel!Sections \ {"favorites"}, NEW b \in Panel!Shown(s), NEW x \in PanelBlocks
               PROVE  LET after == Panel!toggleFavorite(b, Panel!CategoryName(s, b))
                      IN (Panel!IsIn(after, x) # Panel!isBlockFavorite(x)) <=> (x = b)
    BY DEF Panel!StarToggles
  <2> DEFINE after == Panel!toggleFavorite(b, Panel!CategoryName(s, b))
  <2>1. b \in PanelBlocks /\ favorites \in Seq(PanelBlocks)
    BY StarredUnderCategory DEF PanelInv
  <2>2. Elements(after) = IF b \in Elements(favorites) THEN Elements(favorites) \ {b}
                          ELSE Elements(favorites) \cup {b}
    BY <2>1, StarredUnderCategory, ToggledFavorites
  <2> HIDE DEF after
  <2>3. /\ Panel!IsIn(after, x) <=> x \in Elements(after)
        /\ Panel!isBlockFavorite(x) <=> x \in Elements(favorites)
    BY DEF Panel!IsIn, Panel!isBlockFavorite, Elements
  <2>4. Panel!IsIn(after, x) \in BOOLEAN /\ Panel!isBlockFavorite(x) \in BOOLEAN
    BY DEF Panel!IsIn, Panel!isBlockFavorite
  <2>5. (Panel!IsIn(after, x) # Panel!isBlockFavorite(x)) <=> (x = b)
    BY <2>2, <2>3, <2>4
  <2> QED BY <2>5 DEF after
<1> QED BY <1>1, <1>2, <1>3

\* The recently used blocks are distinct and fit their list however often blocks
\* are dropped and the list is cleared, and a star toggles its own block and no
\* other, for every table of blocks and every limit.
THEOREM PanelListsAlwaysTrue == Spec => []PanelListsAreTrue
<1>1. Init => PanelInv
  BY PanelInit DEF Init
<1>2. PanelInv /\ [Next]_vars => PanelInv'
  BY PanelSteps, PanelNextStep
<1>3. PanelInv => PanelListsAreTrue
  BY PanelInvImplies DEF PanelListsAreTrue
<1> QED BY <1>1, <1>2, <1>3, PTL DEF Spec

-----------------------------------------------------------------------------
(* The library: a list that is as old as the last answer of a loader.      *)

Params == [q : LibraryQueries, tab : Library!Statuses \cup {None}, tags : SUBSET Tags, page : Nat]

\* A list that differs from the stored rows only by what was archived meanwhile.
OldRows(rows) ==
  /\ rows \in Seq(Library!Row) /\ Len(rows) = Cardinality(Workflows)
  /\ \A i \in 1 .. Len(rows) : rows[i].status # status[rows[i].id] => status[rows[i].id] = "archived"

\* So is the list of a navigation that has not been shown yet.
LibraryInv ==
  /\ status \in [Workflows -> Library!Statuses] /\ archiveRequests \subseteq Workflows
  /\ route \in {"library", "error", "away"} /\ searchParams \in Params /\ OldRows(loaderData)
  /\ showLoading \in BOOLEAN /\ archivingWorkflow \in Workflows \cup {None}
  /\ navigation # None =>
       /\ navigation.to \in Params \cup {Away}
       /\ navigation.rows = None \/ (navigation.to \in Params /\ OldRows(navigation.rows))
       /\ navigation = [to |-> navigation.to, rows |-> navigation.rows]

\* The workflows in the order in which the loader lists them.
LEMMA ListedWorkflows ==
  /\ Library!Cardinality(Workflows) = Cardinality(Workflows) /\ Cardinality(Workflows) \in Nat
  /\ Library!SetToSeq(Workflows) \in [1 .. Cardinality(Workflows) -> Workflows]
<1> DEFINE N == Cardinality(Workflows)
<1>1. Library!Cardinality(Workflows) = N
  BY Zenon DEF Library!Cardinality, Cardinality
<1>2. N \in Nat
  BY FS_CardinalityType, LibraryAssumption
<1>3. \E f \in [1 .. N -> Workflows] : Library!IsInjective(f)
  <2>1. PICK n \in Nat : ExistsBijection(1 .. n, Workflows)
    BY FS_NatBijection, LibraryAssumption
  <2>2. N = n
    BY <2>1, FS_CountingElements
  <2>3. PICK f \in [1 .. n -> Workflows] : \A a, b \in 1 .. n : f[a] = f[b] => a = b
    BY <2>1, Zenon DEF ExistsBijection, Bijection, Injection, IsInjective
  <2> HIDE DEF N
  <2> QED BY <2>2, <2>3 DEF Library!IsInjective
<1> HIDE DEF N
<1>4. Library!SetToSeq(Workflows) \in [1 .. N -> Workflows]
  BY <1>1, <1>3 DEF Library!SetToSeq
<1> QED BY <1>1, <1>2, <1>4 DEF N

LEMMA LoadIsFresh ==
  ASSUME status \in [Workflows -> Library!Statuses]
  PROVE  OldRows(Library!Load)
<1> DEFINE N == Cardinality(Workflows)
<1> DEFINE S == Library!SetToSeq(Workflows)
<1> DEFINE rows == [i \in 1 .. N |-> [id |-> S[i], status |-> status[S[i]]]]
<1>1. N \in Nat /\ S \in [1 .. N -> Workflows]
  BY ListedWorkflows
<1>2. Library!Load = rows
  BY ListedWorkflows DEF Library!Load
<1> HIDE DEF N, S
<1>3. rows \in [1 .. N -> Library!Row]
  BY <1>1 DEF Library!Row
<1>4. \A i \in 1 .. N : rows[i].status = status[rows[i].id]
  OBVIOUS
<1> HIDE DEF rows
<1>5. rows \in Seq(Library!Row) /\ Len(rows) = N
  BY <1>1, <1>3
<1> QED BY <1>2, <1>4, <1>5 DEF OldRows, N

LEMMA LibraryInit == Library!Init => LibraryInv
<1> SUFFICES ASSUME Library!Init PROVE LibraryInv
  OBVIOUS
<1>1. /\ status \in [Workflows -> Library!Statuses] /\ archiveRequests = {} /\ route = "library"
      /\ searchParams \in Links /\ loaderData = Library!Load /\ navigation = None
      /\ showLoading = FALSE /\ archivingWorkflow = None
  BY DEF Library!Init
<1>2. OldRows(loaderData)
  BY <1>1, LoadIsFresh
<1>3. searchParams \in Params
  BY <1>1, LibraryAssumption DEF Params
<1> QED BY <1>1, <1>2, <1>3 DEF LibraryInv

\* A changed parameter leaves parameters.
LEMMA UpdatedParams ==
  ASSUME searchParams \in Params
  PROVE  /\ \A q \in LibraryQueries : Library!updateParams("q", q) \in Params
         /\ \A t \in Library!Statuses : Library!updateParams("tab", t) \in Params
         /\ \A ts \in SUBSET Tags : Library!updateParams("tags", ts) \in Params
<1>1. ASSUME NEW q \in LibraryQueries PROVE Library!updateParams("q", q) \in Params
  BY DEF Library!updateParams, Params
<1>2. ASSUME NEW t \in Library!Statuses PROVE Library!updateParams("tab", t) \in Params
  BY DEF Library!updateParams, Params
<1>3. ASSUME NEW ts \in SUBSET Tags PROVE Library!updateParams("tags", ts) \in Params
  BY DEF Library!updateParams, Params
<1> QED BY <1>1, <1>2, <1>3

LEMMA LibraryNavigates ==
  ASSUME LibraryInv, NEW to \in Params \cup {Away}, Library!Navigate(to)
  PROVE  LibraryInv'
<1>1. /\ navigation' = [to |-> to, rows |-> None]
      /\ UNCHANGED <<status, archiveRequests, route, searchParams, loaderData, showLoading, archivingWorkflow>>
  BY DEF Library!Navigate, Library!NotRead
<1>2. navigation'.to = to /\ navigation'.rows = None
  BY <1>1
<1> QED BY <1>1, <1>2 DEF LibraryInv, OldRows

LEMMA LibraryNextStep == LibraryInv /\ [Library!Next]_libraryVars => LibraryInv'
<1> SUFFICES ASSUME LibraryInv, [Library!Next]_libraryVars PROVE LibraryInv'
  OBVIOUS
<1>0. /\ status \in [Workflows -> Library!Statuses] /\ archiveRequests \subseteq Workflows
      /\ searchParams \in Params /\ OldRows(loaderData) /\ archivingWorkflow \in Workflows \cup {None}
  BY DEF LibraryInv
<1>1. CASE Library!UserNavigates
  <2>1. ASSUME NEW q \in LibraryQueries, Library!SearchInput(q) PROVE LibraryInv'
    BY <1>0, <2>1, UpdatedParams, LibraryNavigates DEF Library!SearchInput
  <2>2. ASSUME NEW t \in Library!Statuses, Library!handleTabChange(t) PROVE LibraryInv'
    BY <1>0, <2>2, UpdatedParams, LibraryNavigates DEF Library!handleTabChange
  <2>3. ASSUME NEW ts \in SUBSET Tags, Library!handleSubmit(ts) PROVE LibraryInv'
    BY <1>0, <2>3, UpdatedParams, LibraryNavigates DEF Library!handleSubmit
  <2>4. searchParams.tags \in SUBSET Tags
    BY <1>0 DEF Params
  <2>5. ASSUME NEW t \in Tags, Library!removeTag(t) PROVE LibraryInv'
    <3>1. searchParams.tags \ {t} \in SUBSET Tags
      BY <2>4
    <3> QED BY <1>0, <2>5, <3>1, UpdatedParams, LibraryNavigates DEF Library!removeTag
  <2>6. CASE Library!clearAllTags
    BY <1>0, <2>6, UpdatedParams, LibraryNavigates DEF Library!clearAllTags
  <2>7. CASE Library!WorkflowActionsHover \/ Library!CreateWorkflowButton
    BY <2>7, LibraryNavigates
    DEF Library!WorkflowActionsHover, Library!handleEditOrRun, Library!CreateWorkflowButton
  <2> QED BY <1>1, <2>1, <2>2, <2>3, <2>5, <2>6, <2>7 DEF Library!UserNavigates
<1>2. ASSUME NEW w \in Workflows, Library!AskArchive(w) PROVE LibraryInv'
  <2>1. /\ archivingWorkflow' = w
        /\ UNCHANGED <<status, archiveRequests, route, searchParams, loaderData, navigation, showLoading>>
    BY <1>2 DEF Library!AskArchive
  <2> QED BY <2>1 DEF LibraryInv, OldRows
<1>3. ASSUME NEW w \in Workflows, Library!ArchiveAnswered(w) PROVE LibraryInv'
  <2>1. /\ archiveRequests' = archiveRequests \ {w}
        /\ status' \in {status, [status EXCEPT ![w] = "archived"]}
        /\ UNCHANGED <<route, searchParams, loaderData, navigation, showLoading, archivingWorkflow>>
    BY <1>3 DEF Library!ArchiveAnswered, Library!pageVars
  <2>2. /\ status' \in [Workflows -> Library!Statuses]
        /\ \A v \in Workflows : status'[v] = status[v] \/ status'[v] = "archived"
    BY <1>0, <2>1 DEF Library!Statuses
  <2>3. ASSUME NEW rows, OldRows(rows) PROVE OldRows(rows)'
    <3>1. rows \in Seq(Library!Row) /\ Len(rows) = Cardinality(Workflows)
      BY <2>3 DEF OldRows
    <3>2. ASSUME NEW i \in 1 .. Len(rows) PROVE rows[i].id \in Workflows
      <4>1. rows[i] \in Library!Row
        BY <3>1
      <4> QED BY <4>1 DEF Library!Row
    <3> QED BY <2>2, <2>3, <3>1, <3>2 DEF OldRows
  <2>4. OldRows(loaderData)'
    BY <1>0, <2>1, <2>3
  <2>5. navigation # None /\ OldRows(navigation.rows) => OldRows(navigation.rows)'
    BY <2>1, <2>3
  <2> QED BY <2>1, <2>2, <2>4, <2>5 DEF LibraryInv
<1>4. CASE Library!handleConfirm \/ Library!handleCancel
  <2>1. /\ archiveRequests' \subseteq Workflows /\ archivingWorkflow' = None
        /\ UNCHANGED <<status, route, searchParams, loaderData, navigation, showLoading>>
    BY <1>0, <1>4 DEF Library!handleConfirm, Library!handleCancel, Library!DialogShown
  <2> QED BY <2>1 DEF LibraryInv, OldRows
<1>5. CASE Library!LoaderReads
  <2>0. PICK rows : rows = Library!Load
    OBVIOUS
  <2>1. /\ navigation # None /\ navigation.to # Away /\ navigation' = [navigation EXCEPT !.rows = rows]
        /\ UNCHANGED <<status, archiveRequests, route, searchParams, loaderData, showLoading, archivingWorkflow>>
    BY <1>5, <2>0 DEF Library!LoaderReads
  <2>2. OldRows(rows)
    BY <1>0, <2>0, LoadIsFresh
  <2>3. OldRows(rows)'
    BY <2>1, <2>2 DEF OldRows
  <2>4. navigation = [to |-> navigation.to, rows |-> navigation.rows] /\ navigation.to \in Params
    BY <2>1 DEF LibraryInv
  <2>5. navigation' = [to |-> navigation.to, rows |-> rows]
    BY <2>1, <2>4
  <2>6. navigation'.to = navigation.to /\ navigation'.rows = rows
    BY <2>5
  <2>7. OldRows(navigation.rows)'
    BY <2>3, <2>6 DEF OldRows
  <2> QED BY <2>1, <2>4, <2>5, <2>6, <2>7 DEF LibraryInv, OldRows
<1>6. ASSUME NEW r \in {"error", "away"}, Library!LeaveFor(r) PROVE LibraryInv'
  <2>1. /\ route' = r /\ navigation' = None /\ showLoading' = FALSE /\ archivingWorkflow' = None
        /\ UNCHANGED <<status, archiveRequests, searchParams, loaderData>>
    BY <1>6 DEF Library!LeaveFor
  <2> QED BY <2>1 DEF LibraryInv, OldRows
<1>7. CASE Library!NavigationCompletes
  <2>1. CASE Library!LeaveFor("away")
    BY <1>6, <2>1
  <2>2. CASE ~Library!LeaveFor("away")
    <3>1. /\ navigation # None /\ navigation.rows # None
          /\ searchParams' = navigation.to /\ loaderData' = navigation.rows /\ navigation' = None
          /\ UNCHANGED <<status, archiveRequests, route, showLoading, archivingWorkflow>>
      BY <1>7, <2>2 DEF Library!NavigationCompletes, Library!NotRead
    <3>2. searchParams' \in Params /\ OldRows(loaderData)'
      BY <3>1 DEF LibraryInv, OldRows
    <3> QED BY <3>1, <3>2 DEF LibraryInv
  <2> QED BY <2>1, <2>2
<1>8. CASE Library!LoaderFails
  BY <1>6, <1>8 DEF Library!LoaderFails
<1>9. CASE Library!DebounceFires
  <2>1. UNCHANGED <<status, archiveRequests, route, searchParams, loaderData, navigation, archivingWorkflow>>
    BY <1>9 DEF Library!DebounceFires
  <2>2. showLoading' \in BOOLEAN
    BY <1>9, Zenon DEF Library!DebounceFires
  <2> QED BY <2>1, <2>2 DEF LibraryInv, OldRows
<1>10. ASSUME NEW params \in Links \cup {searchParams}, Library!Visit(params) PROVE LibraryInv'
  <2>1. /\ route' = "library" /\ searchParams' = params /\ loaderData' = Library!Load
        /\ navigation' = None /\ showLoading' = FALSE /\ archivingWorkflow' = None
        /\ UNCHANGED <<status, archiveRequests>>
    BY <1>10 DEF Library!Visit
  <2>2. params \in Params
    BY <1>0, LibraryAssumption DEF Params
  <2>3. OldRows(loaderData)'
    BY <1>0, <2>1, LoadIsFresh DEF OldRows
  <2> QED BY <2>1, <2>2, <2>3 DEF LibraryInv
<1>11. CASE UNCHANGED libraryVars
  BY <1>11 DEF LibraryInv, OldRows, libraryVars
<1> QED
  BY <1>1, <1>2, <1>3, <1>4, <1>5, <1>7, <1>8, <1>9, <1>10, <1>11 DEF Library!Next

\* The page number is clamped to the only page there is.
LEMMA ValidParams ==
  ASSUME searchParams \in Params
  PROVE  LET params == Library!useValidatedSearchParams(searchParams)
         IN /\ params.page = 1 /\ params.q = searchParams.q /\ params.tags = searchParams.tags
            /\ params.tab \in Library!Statuses
<1> DEFINE m == Library!Min({searchParams.page, 1})
<1> DEFINE p == Library!Max({1, m})
<1> DEFINE t == IF searchParams.tab = None THEN "active" ELSE searchParams.tab
<1>1. searchParams.page \in Nat /\ searchParams.tab \in Library!Statuses \cup {None}
  BY DEF Params
<1>2. m \in Nat /\ m <= 1
  <2>1. \E x \in {searchParams.page, 1} : \A y \in {searchParams.page, 1} : x <= y
    BY <1>1
  <2>2. m = CHOOSE x \in {searchParams.page, 1} : \A y \in {searchParams.page, 1} : x <= y
    BY DEF Library!Min
  <2>3. m \in {searchParams.page, 1} /\ \A y \in {searchParams.page, 1} : m <= y
    <3> HIDE DEF m
    <3> QED BY <2>1, <2>2
  <2> HIDE DEF m
  <2> QED BY <1>1, <2>3
<1> HIDE DEF m
<1>3. p = 1
  <2>1. \E x \in {1, m} : \A y \in {1, m} : x >= y
    BY <1>2
  <2>2. p = CHOOSE x \in {1, m} : \A y \in {1, m} : x >= y
    BY DEF Library!Max
  <2>3. p \in {1, m} /\ \A y \in {1, m} : p >= y
    <3> HIDE DEF p
    <3> QED BY <2>1, <2>2
  <2> HIDE DEF p
  <2> QED BY <1>2, <2>3
<1>4. t \in Library!Statuses
  BY <1>1 DEF Library!Statuses
<1>5. Library!useValidatedSearchParams(searchParams) = [searchParams EXCEPT !.tab = t, !.page = p]
  BY DEF Library!useValidatedSearchParams, m, Params
<1> HIDE DEF p, t
<1> QED BY <1>3, <1>4, <1>5 DEF Params

\* The first page of a list shows something unless the list is empty.
LEMMA FirstPage ==
  ASSUME LibraryInv
  PROVE  LET params == Library!useValidatedSearchParams(searchParams)
             w == Library!getWorkflowData(loaderData, params).workflows
         IN /\ w = filter(loaderData, {r \in Library!Row : Library!Passes(r, params) /\ r.status = params.tab})
            /\ w # <<>> => Library!FilteredWorkflows # <<>>
<1> DEFINE params == Library!useValidatedSearchParams(searchParams)
<1> DEFINE pass == {r \in Library!Row : Library!Passes(r, params) /\ r.status = params.tab}
<1> DEFINE w == filter(loaderData, pass)
<1> DEFINE last == params.page * ITEMS_PER_PAGE
<1> DEFINE m == Library!Min({last, Len(w)})
<1>1. Library!getWorkflowData(loaderData, params).workflows = w
  BY DEF Library!getWorkflowData, Library!filter, Library!Filtered, filter, Filtered
<1>2. Library!FilteredWorkflows = SubSeq(w, last - ITEMS_PER_PAGE + 1, m)
  BY <1>1 DEF Library!FilteredWorkflows, Library!useFilteredWorkflows
<1>3. loaderData \in Seq(Library!Row) /\ searchParams \in Params
  BY DEF LibraryInv, OldRows
<1>4. w \in Seq(Library!Row)
  <2> HIDE DEF pass
  <2> QED BY <1>3, FilterKeeps
<1>5. params.page = 1
  BY <1>3, ValidParams
<1> HIDE DEF params, pass, w
<1>6. last = ITEMS_PER_PAGE /\ last \in Nat \ {0}
  BY <1>5, LibraryAssumption
<1> HIDE DEF last
<1>7. ASSUME w # <<>> PROVE SubSeq(w, last - ITEMS_PER_PAGE + 1, m) # <<>>
  <2>1. Len(w) \in Nat \ {0}
    BY <1>4, <1>7, EmptySeq
  <2>2. m \in Nat \ {0} /\ m <= Len(w)
    <3> DEFINE n == Len(w)
    <3>1. \E x \in {last, n} : \A y \in {last, n} : x <= y
      BY <1>6, <2>1
    <3>2. m = CHOOSE x \in {last, n} : \A y \in {last, n} : x <= y
      BY DEF Library!Min
    <3> HIDE DEF m, n
    <3>3. m \in {last, n} /\ \A y \in {last, n} : m <= y
      BY <3>1, <3>2
    <3>4. m \in Nat \ {0} /\ m <= n
      BY <1>6, <2>1, <3>3 DEF n
    <3> QED BY <3>4 DEF n
  <2> HIDE DEF m
  <2>3. last - ITEMS_PER_PAGE + 1 = 1
    BY <1>6
  <2>4. Len(SubSeq(w, 1, m)) = m
    BY <1>4, <2>1, <2>2
  <2>5. SubSeq(w, 1, m) # <<>>
    BY <2>2, <2>4
  <2> QED BY <2>3, <2>5
<1> QED BY <1>1, <1>2, <1>7 DEF params, w, pass

LEMMA NoElements == Elements(<<>>) = {}
BY DEF Elements

LEMMA LibraryInvImplies ==
  LibraryInv => /\ Library!TypeOK /\ Library!OnlyArchivingIsMissed /\ Library!NeverBlank
                /\ Library!EmptyMessageIsTrue
<1> SUFFICES ASSUME LibraryInv
             PROVE  /\ Library!TypeOK /\ Library!OnlyArchivingIsMissed /\ Library!NeverBlank
                    /\ Library!EmptyMessageIsTrue
  OBVIOUS
<1>1. loaderData \in Seq(Library!Row) /\ searchParams \in Params
  BY DEF LibraryInv, OldRows
<1>2. Library!Range(loaderData) = Elements(loaderData)
  BY <1>1 DEF Library!Range, Elements
<1>3. Elements(loaderData) \subseteq Library!Row
  BY <1>1 DEF Elements
<1>4. Library!TypeOK
  <2>1. /\ searchParams.q \in LibraryQueries /\ searchParams.tab \in Library!Statuses \cup {None}
        /\ searchParams.tags \subseteq Tags /\ searchParams.page \in Nat
    BY <1>1 DEF Params
  <2>2. Len(loaderData) = Library!Cardinality(Workflows)
    BY ListedWorkflows DEF LibraryInv, OldRows
  <2> QED BY <1>2, <1>3, <2>1, <2>2 DEF LibraryInv, Library!TypeOK
<1>5. Library!OnlyArchivingIsMissed
  BY <1>2 DEF LibraryInv, OldRows, Elements, Library!OnlyArchivingIsMissed
<1>6. Library!NeverBlank
  BY FirstPage DEF Library!NeverBlank
<1>7. Library!EmptyMessageIsTrue
  <2> DEFINE params == Library!useValidatedSearchParams(searchParams)
  <2> DEFINE pass == {r \in Library!Row : Library!Passes(r, params) /\ r.status = params.tab}
  <2> SUFFICES ASSUME Library!EmptyShown, searchParams.tags = {}, Library!getContent # "no results",
                      NEW row \in Library!Range(loaderData)
               PROVE  row.status # Library!getContent
    BY DEF Library!EmptyMessageIsTrue
  <2>1. params.q = NoQuery /\ Library!getContent = params.tab
    BY DEF Library!getContent
  <2>2. params.q = searchParams.q /\ params.tags = {}
    BY <1>1, ValidParams
  <2>3. filter(loaderData, pass) = <<>>
    BY FirstPage DEF Library!EmptyShown
  <2>4. Elements(filter(loaderData, pass)) = Elements(loaderData) \cap pass
    <3> HIDE DEF pass
    <3> QED BY <1>1, FilterKeeps
  <2>5. row \notin pass /\ row \in Library!Row
    <3> HIDE DEF pass
    <3> QED BY <1>2, <1>3, <2>3, <2>4, NoElements
  <2>6. row.id \in Matching[params.q]
    BY <2>1, <2>5, LibraryAssumption DEF Library!Row
  <2>7. Library!Passes(row, params)
    <3> HIDE DEF params
    <3> QED BY <2>2, <2>6 DEF Library!Passes
  <2> QED BY <2>1, <2>5, <2>7
<1> QED BY <1>4, <1>5, <1>6, <1>7

\* What the library shows is old in one way only, a page number that does not
\* exist never blanks it, and the message of an empty tab is true, however
\* navigations overtake each other and archiving requests are answered, for any
\* number of workflows and any size of a page.
THEOREM LibraryAlwaysTrue == Spec => []LibraryIsTrue
<1>1. Init => LibraryInv
  BY LibraryInit DEF Init
<1>2. LibraryInv /\ [Next]_vars => LibraryInv'
  BY LibrarySteps, LibraryNextStep
<1>3. LibraryInv => LibraryIsTrue
  BY LibraryInvImplies DEF LibraryIsTrue
<1> QED BY <1>1, <1>2, <1>3, PTL DEF Spec

-----------------------------------------------------------------------------
(* The page of a run: what is on the way from the executor to the page.    *)

\* No message of a queue is one of these; the last that is one carries this
\* status.
NoneIn(queue, these) == \A i \in 1 .. Len(queue) : queue[i] \notin these
LastIn(queue, these, s) ==
  \E i \in 1 .. Len(queue) : /\ queue[i] \in these /\ queue[i].status = s
                             /\ \A j \in i + 1 .. Len(queue) : queue[j] \notin these

Messages == [run : Runs, node : RunNodes, status : Run!NodeStatuses]
Of(r, n) == {m \in Messages : m.run = r /\ m.node = n}
About(n) == {m \in Run!Update : m.node = n}

Phases == {"requested", "registered", "read", "streaming", "ended"}
Conns == [run : Runs, phase : Phases, chan : Seq(Run!Update), snapshot : [RunNodes -> Run!NodeStatuses],
          events : Seq(Run!Update \cup {Run!Completed}), lost : SUBSET RunNodes]

\* While a stream is there the page has a flow; what its channel and its events
\* may hold in each phase.
ConnOK(c) ==
  /\ c \in Conns /\ Len(c.chan) <= ChanSize
  /\ runKey \in Runs /\ runFlows[runKey] # Run!NoFlow
  /\ mixed = FALSE => c.run = runKey
  /\ c.phase = "requested" => c.chan = <<>>
  /\ c.phase \in {"requested", "registered", "read"} => c.events = <<>>

\* Between the row and the message.
Writing(h, r, n) == task[h].phase = "written" /\ task[h].run = r /\ task[h].node = n

\* Nobody is about to send a message of the node, and the last one told its row.
Sent(r, n) == <<r, n>> \notin untold /\ \A h \in Handlers : ~Writing(h, r, n)

\* A handler has not accepted a task without attempts left.
TasksOK ==
  /\ task \in [Handlers -> {Run!Idle} \cup Run!Task]
  /\ \A h \in Handlers : task[h].phase = "accepted" => task[h].retries # MaxAttempts

\* The last message that Redis holds of a node carries its stored status.
PubsubIsFresh ==
  \A r \in Runs, n \in RunNodes : Sent(r, n) =>
    NoneIn(pubsub, Of(r, n)) \/ LastIn(pubsub, Of(r, n), nodeRun[r][n])

\* What the page will show of a node once the events have arrived.
EventsAreFresh(c, n, s) ==
  \/ LastIn(c.events, About(n), s)
  \/ /\ NoneIn(c.events, About(n))
     /\ mixed = FALSE => runFlows[runKey].nodeStatus[n] = s

\* What the handler of a stream will pass on of a node.
StreamIsFresh(c, n, s) ==
  \/ LastIn(c.chan, About(n), s)
  \/ /\ NoneIn(c.chan, About(n))
     /\ c.phase = "read" => c.snapshot[n] = s
     /\ c.phase = "streaming" => EventsAreFresh(c, n, s)

\* A node of which Redis holds nothing, whose message the channel took: its
\* stored status is the last thing on its way to the page, or there.
ConnIsFresh(c) ==
  c.phase \in {"registered", "read", "streaming"} =>
    \A n \in RunNodes \ c.lost : Sent(c.run, n) /\ NoneIn(pubsub, Of(c.run, n)) =>
      StreamIsFresh(c, n, nodeRun[c.run][n])

RunInv ==
  /\ runFlows \in [Runs -> Run!FlowData \cup {Run!NoFlow}] /\ runKey \in Runs \cup {None}
  /\ runStatus \in [Runs -> {"running", "ended"}]
  /\ nodeRun \in [Runs -> [RunNodes -> Run!NodeStatuses]]
  /\ attempts \in [Runs -> [RunNodes -> 0 .. MaxAttempts]]
  /\ TasksOK /\ untold \subseteq Runs \X RunNodes
  /\ pubsub \in Seq(Messages)
  /\ mounted \in BOOLEAN /\ visits \in 0 .. MaxVisits /\ mixed \in BOOLEAN
  /\ PubsubIsFresh
  /\ conn # None => ConnOK(conn) /\ ConnIsFresh(conn)

LEMMA QueueAppend ==
  ASSUME NEW S, NEW queue \in Seq(S), NEW x \in S, NEW these
  PROVE  /\ x \in these => /\ LastIn(Append(queue, x), these, x.status)
                           /\ ~NoneIn(Append(queue, x), these)
         /\ x \notin these => /\ NoneIn(Append(queue, x), these) <=> NoneIn(queue, these)
                              /\ \A s : LastIn(Append(queue, x), these, s) <=> LastIn(queue, these, s)
<1> DEFINE q == Append(queue, x)
<1> DEFINE k == Len(queue)
<1>1. k \in Nat /\ Len(q) = k + 1 /\ q[k + 1] = x /\ \A i \in 1 .. k : q[i] = queue[i]
  OBVIOUS
<1>2. \A i \in 1 .. Len(q) : i \in 1 .. k \/ i = k + 1
  BY <1>1
<1>3. \A i \in 1 .. k : i \in 1 .. Len(q)
  BY <1>1
<1>4. k + 1 \in 1 .. Len(q) /\ \A j \in (k + 1) + 1 .. Len(q) : FALSE
  BY <1>1
<1> HIDE DEF q, k
<1>5. ASSUME x \in these PROVE LastIn(q, these, x.status) /\ ~NoneIn(q, these)
  BY <1>1, <1>4, <1>5 DEF LastIn, NoneIn
<1>6. ASSUME x \notin these
      PROVE  /\ NoneIn(q, these) <=> NoneIn(queue, these)
             /\ \A s : LastIn(q, these, s) <=> LastIn(queue, these, s)
  <2>1. NoneIn(q, these) <=> NoneIn(queue, these)
    BY <1>1, <1>2, <1>3, <1>6 DEF NoneIn, k
  <2>2. ASSUME NEW s, LastIn(q, these, s) PROVE LastIn(queue, these, s)
    <3>1. PICK i \in 1 .. Len(q) : /\ q[i] \in these /\ q[i].status = s
                                   /\ \A j \in i + 1 .. Len(q) : q[j] \notin these
      BY <2>2 DEF LastIn
    <3>2. i \in 1 .. k /\ q[i] = queue[i]
      BY <1>1, <1>2, <1>6, <3>1
    <3>3. ASSUME NEW j \in i + 1 .. k PROVE queue[j] \notin these
      <4>1. j \in 1 .. k /\ j \in i + 1 .. Len(q)
        BY <1>1, <3>2
      <4> QED BY <1>1, <3>1, <4>1
    <3> QED BY <3>1, <3>2, <3>3 DEF LastIn, k
  <2>3. ASSUME NEW s, LastIn(queue, these, s) PROVE LastIn(q, these, s)
    <3>1. PICK i \in 1 .. k : /\ queue[i] \in these /\ queue[i].status = s
                              /\ \A j \in i + 1 .. k : queue[j] \notin these
      BY <2>3 DEF LastIn, k
    <3>2. i \in 1 .. Len(q) /\ q[i] = queue[i]
      BY <1>1, <1>3
    <3>3. ASSUME NEW j \in i + 1 .. Len(q) PROVE q[j] \notin these
      <4>1. j \in i + 1 .. k \/ j = k + 1
        BY <1>1
      <4>2. j \in i + 1 .. k => j \in 1 .. k
        BY <1>1
      <4> QED BY <1>1, <1>6, <3>1, <4>1, <4>2
    <3> QED BY <3>1, <3>2, <3>3 DEF LastIn
  <2> QED BY <2>1, <2>2, <2>3
<1> QED BY <1>5, <1>6 DEF q

LEMMA QueueTail ==
  ASSUME NEW S, NEW queue \in Seq(S), queue # <<>>, NEW these
  PROVE  /\ Head(queue) \in S /\ Tail(queue) \in Seq(S) /\ Len(Tail(queue)) = Len(queue) - 1
         /\ Head(queue) \notin these /\ NoneIn(Tail(queue), these) => NoneIn(queue, these)
         /\ NoneIn(queue, these) => NoneIn(Tail(queue), these) /\ Head(queue) \notin these
         /\ \A s : LastIn(queue, these, s) =>
              \/ LastIn(Tail(queue), these, s)
              \/ Head(queue) \in these /\ Head(queue).status = s /\ NoneIn(Tail(queue), these)
<1> DEFINE q == Tail(queue)
<1>1. /\ Len(queue) \in Nat \ {0} /\ Head(queue) = queue[1] /\ Head(queue) \in S /\ q \in Seq(S)
      /\ Len(q) = Len(queue) - 1
  BY EmptySeq
<1>2. \A i \in 1 .. Len(q) : q[i] = queue[i + 1] /\ i + 1 \in 1 .. Len(queue)
  BY <1>1
<1> HIDE DEF q
<1>3. 1 \in 1 .. Len(queue) /\ \A i \in 1 .. Len(queue) : i = 1 \/ (i - 1 \in 1 .. Len(q) /\ (i - 1) + 1 = i)
  BY <1>1
<1>4. \A i \in 1 .. Len(queue) : i = 1 \/ (i - 1 \in 1 .. Len(q) /\ q[i - 1] = queue[i])
  BY <1>2, <1>3
<1>5. Head(queue) \notin these /\ NoneIn(q, these) => NoneIn(queue, these)
  BY <1>1, <1>4 DEF NoneIn
<1>6. NoneIn(queue, these) => NoneIn(q, these) /\ Head(queue) \notin these
  BY <1>1, <1>2, <1>3 DEF NoneIn
<1>7. ASSUME NEW s, LastIn(queue, these, s)
      PROVE  \/ LastIn(q, these, s)
             \/ Head(queue) \in these /\ Head(queue).status = s /\ NoneIn(q, these)
  <2>1. PICK i \in 1 .. Len(queue) : /\ queue[i] \in these /\ queue[i].status = s
                                     /\ \A j \in i + 1 .. Len(queue) : queue[j] \notin these
    BY <1>7 DEF LastIn
  <2>2. ASSUME NEW j \in 1 .. Len(q), j + 1 > i PROVE q[j] \notin these
    <3>1. j + 1 \in i + 1 .. Len(queue)
      BY <1>1, <2>2
    <3> QED BY <1>2, <2>1, <3>1
  <2>3. CASE i = 1
    <3>1. NoneIn(q, these)
      BY <2>2, <2>3 DEF NoneIn
    <3> QED BY <1>1, <2>1, <2>3, <3>1
  <2>4. CASE i # 1
    <3>1. i - 1 \in 1 .. Len(q) /\ q[i - 1] = queue[i]
      BY <1>4, <2>4
    <3>2. \A j \in (i - 1) + 1 .. Len(q) : j \in 1 .. Len(q) /\ j + 1 > i
      BY <1>1, <3>1
    <3>3. LastIn(q, these, s)
      BY <2>1, <2>2, <3>1, <3>2 DEF LastIn
    <3> QED BY <3>3
  <2> QED BY <2>3, <2>4
<1> QED BY <1>1, <1>5, <1>6, <1>7 DEF q

LEMMA QueueEmpty == ASSUME NEW these PROVE NoneIn(<<>>, these) /\ \A s : ~LastIn(<<>>, these, s)
BY DEF NoneIn, LastIn

\* A queue in which every message of a kind carries one status, and one does.
LEMMA QueueUniform ==
  ASSUME NEW S, NEW queue \in Seq(S), NEW these, NEW s, ~NoneIn(queue, these),
         \A i \in 1 .. Len(queue) : queue[i] \in these => queue[i].status = s
  PROVE  LastIn(queue, these, s)
<1> DEFINE T == {k \in Nat : k <= Len(queue) /\ queue[Len(queue) - k] \in these /\ Len(queue) - k \in 1 .. Len(queue)}
<1>1. T \in SUBSET Nat /\ Len(queue) \in Nat
  OBVIOUS
<1>2. T # {}
  <2>1. PICK i \in 1 .. Len(queue) : queue[i] \in these
    BY DEF NoneIn
  <2>2. Len(queue) - i \in Nat /\ Len(queue) - i <= Len(queue) /\ Len(queue) - (Len(queue) - i) = i
    BY <1>1
  <2>3. Len(queue) - i \in T
    BY <2>1, <2>2
  <2> QED BY <2>3
<1>3. PICK k \in T : \A m \in T : k <= m
  BY <1>1, <1>2, LeastElement
<1> DEFINE i == Len(queue) - k
<1>4. i \in 1 .. Len(queue) /\ queue[i] \in these /\ k \in Nat
  BY <1>3
<1>5. ASSUME NEW j \in i + 1 .. Len(queue), queue[j] \in these PROVE FALSE
  <2>1. Len(queue) - j \in Nat /\ Len(queue) - (Len(queue) - j) = j /\ Len(queue) - j < k
        /\ Len(queue) - j <= Len(queue) /\ j \in 1 .. Len(queue)
    BY <1>1, <1>4
  <2>2. Len(queue) - j \in T
    BY <1>5, <2>1
  <2> QED BY <1>3, <1>4, <2>1, <2>2
<1> HIDE DEF i
<1> QED BY <1>4, <1>5 DEF LastIn

LEMMA RunFlowFields ==
  ASSUME NEW f \in Run!FlowData
  PROVE  f.nodeStatus \in [RunNodes -> Run!Statuses] /\ f # Run!NoFlow
BY DEF Run!FlowData, Run!NoFlow

\* The page that listens shows a flow of its own.
LEMMA RunCurrent ==
  ASSUME RunInv, conn # None
  PROVE  /\ runKey \in Runs /\ Run!Current = runFlows[runKey]
         /\ Run!Current \in Run!FlowData /\ conn \in Conns
<1>1. runKey \in Runs /\ runFlows[runKey] # Run!NoFlow /\ conn \in Conns
  BY DEF RunInv, ConnOK
<1>2. runKey # None
  BY <1>1, RunAssumption
<1>3. runFlows[runKey] \in Run!FlowData
  BY <1>1 DEF RunInv
<1> QED BY <1>1, <1>2, <1>3 DEF Run!Current

LEMMA RunInit == Run!Init => RunInv
<1> SUFFICES ASSUME Run!Init PROVE RunInv
  OBVIOUS
<1>1. runFlows = [k \in Runs |-> Run!NoFlow] /\ runKey = None
  BY DEF Run!Init, Run!FlowInit
<1>2. /\ runStatus = [r \in Runs |-> IF r \in Ended THEN "ended" ELSE "running"]
      /\ nodeRun = [r \in Runs |-> [n \in RunNodes |-> IF r \in Ended THEN "failed" ELSE "pending"]]
      /\ attempts = [r \in Runs |-> [n \in RunNodes |-> IF r \in Ended THEN MaxAttempts ELSE 0]]
  BY DEF Run!Init, Run!StreamInit
<1>3. /\ task = [h \in Handlers |-> Run!Idle] /\ untold = {} /\ pubsub = <<>> /\ conn = None
      /\ mounted = FALSE /\ visits = 0 /\ mixed = FALSE
  BY DEF Run!Init, Run!StreamInit
<1>4. runStatus \in [Runs -> {"running", "ended"}] /\ nodeRun \in [Runs -> [RunNodes -> Run!NodeStatuses]]
  BY <1>2 DEF Run!NodeStatuses
<1>5. attempts \in [Runs -> [RunNodes -> 0 .. MaxAttempts]]
  BY <1>2, RunAssumption
<1>6. pubsub \in Seq(Messages)
  BY <1>3, EmptySeq
<1>7. PubsubIsFresh
  BY <1>3, QueueEmpty DEF PubsubIsFresh
<1>8. runFlows \in [Runs -> Run!FlowData \cup {Run!NoFlow}] /\ runKey \in Runs \cup {None}
  BY <1>1
<1>9. TasksOK
  BY <1>3 DEF TasksOK, Run!Idle
<1>10. visits \in 0 .. MaxVisits
  BY <1>3, RunAssumption
<1> QED BY <1>3, <1>4, <1>5, <1>6, <1>7, <1>8, <1>9, <1>10 DEF RunInv

BackendTypes ==
  /\ runStatus \in [Runs -> {"running", "ended"}]
  /\ nodeRun \in [Runs -> [RunNodes -> Run!NodeStatuses]]
  /\ attempts \in [Runs -> [RunNodes -> 0 .. MaxAttempts]]
  /\ TasksOK /\ untold \subseteq Runs \X RunNodes
  /\ pubsub \in Seq(Messages)

\* A step away from the page: nothing changes of a node that is settled after it.
LEMMA BackendStep ==
  ASSUME RunInv, UNCHANGED <<runFlows, runKey, conn, mounted, visits, mixed>>, BackendTypes', PubsubIsFresh',
         Run!Registered => \A n \in RunNodes :
           Sent(conn.run, n)' /\ NoneIn(pubsub', Of(conn.run, n)) =>
             Sent(conn.run, n) /\ NoneIn(pubsub, Of(conn.run, n)) /\ nodeRun'[conn.run][n] = nodeRun[conn.run][n]
  PROVE  RunInv'
<1>1. ASSUME conn # None PROVE ConnOK(conn)' /\ ConnIsFresh(conn)'
  <2>1. ConnOK(conn) /\ ConnIsFresh(conn)
    BY <1>1 DEF RunInv
  <2>2. ConnOK(conn)'
    BY <2>1 DEF ConnOK
  <2>3. ASSUME conn.phase \in {"registered", "read", "streaming"}, NEW n \in RunNodes \ conn.lost,
               Sent(conn.run, n)', NoneIn(pubsub', Of(conn.run, n))
        PROVE  StreamIsFresh(conn, n, nodeRun[conn.run][n])'
    <3>1. Run!Registered
      BY <1>1, <2>3 DEF Run!Registered
    <3>2. Sent(conn.run, n) /\ NoneIn(pubsub, Of(conn.run, n)) /\ nodeRun'[conn.run][n] = nodeRun[conn.run][n]
      BY <2>3, <3>1
    <3>3. StreamIsFresh(conn, n, nodeRun[conn.run][n])
      BY <2>1, <2>3, <3>2 DEF ConnIsFresh
    <3> QED BY <3>2, <3>3 DEF StreamIsFresh, EventsAreFresh
  <2>4. ConnIsFresh(conn)'
    BY <2>3 DEF ConnIsFresh, Of
  <2> QED BY <2>2, <2>4
<1> QED BY <1>1 DEF RunInv, BackendTypes

\* A step of a handler that neither writes nor sends anything.
LEMMA QuietStep ==
  ASSUME RunInv, UNCHANGED <<nodeRun, attempts, pubsub, conn, runFlows, runKey, mounted, visits, mixed>>,
         runStatus' \in [Runs -> {"running", "ended"}], TasksOK', untold' \subseteq Runs \X RunNodes,
         \A q, m : Sent(q, m)' => Sent(q, m)
  PROVE  RunInv'
<1>1. BackendTypes'
  BY DEF BackendTypes, RunInv
<1>2. PubsubIsFresh'
  BY DEF PubsubIsFresh, RunInv, Of
<1> QED BY <1>1, <1>2, BackendStep

\* A handler moves to t: a node whose message is sent after it either had it
\* sent before, or is the one that this handler has just told about.
LEMMA TaskStep ==
  ASSUME RunInv, NEW h \in Handlers, NEW t, task' = [task EXCEPT ![h] = t],
         NEW q, NEW m, Sent(q, m)', <<q, m>> \notin untold
  PROVE  Sent(q, m) \/ Writing(h, q, m)
<1>1. \A g \in Handlers : g # h => task'[g] = task[g]
  BY DEF RunInv, TasksOK
<1> QED BY <1>1 DEF Sent, Writing

\* What may be in the hands of a handler.
LEMMA TasksKept ==
  ASSUME RunInv, NEW h \in Handlers, NEW t \in {Run!Idle} \cup Run!Task, task' = [task EXCEPT ![h] = t],
         t.phase = "accepted" => t.retries # MaxAttempts
  PROVE  TasksOK'
BY DEF RunInv, TasksOK

LEMMA TaskFields ==
  ASSUME RunInv, NEW h \in Handlers, task[h].phase \in {"accepted", "written", "executing"}
  PROVE  /\ task[h] \in Run!Task /\ task[h].run \in Runs /\ task[h].node \in RunNodes
         /\ task[h].retries \in 0 .. MaxAttempts /\ task[h].status \in Run!NodeStatuses
         /\ \A p \in {"accepted", "written", "executing"}, s \in Run!NodeStatuses :
              /\ [task[h] EXCEPT !.phase = p, !.status = s] \in Run!Task
              /\ [task[h] EXCEPT !.phase = p, !.status = s].phase = p
              /\ [task[h] EXCEPT !.phase = p, !.status = s].run = task[h].run
              /\ [task[h] EXCEPT !.phase = p, !.status = s].node = task[h].node
<1>1. task[h] \in Run!Task
  BY DEF RunInv, TasksOK, Run!Idle
<1> QED BY <1>1 DEF Run!Task

\* The skip check writes nothing.
LEMMA RunAccept ==
  ASSUME RunInv, NEW h \in Handlers, NEW r \in Runs, NEW n \in RunNodes, Run!AcceptTask(h, r, n),
         UNCHANGED <<runFlows, runKey, mounted, visits, mixed>>
  PROVE  RunInv'
<1> DEFINE t == [phase |-> "accepted", run |-> r, node |-> n, retries |-> attempts[r][n], status |-> "pending"]
<1>1. /\ task[h] = Run!Idle /\ attempts[r][n] # MaxAttempts /\ task' = [task EXCEPT ![h] = t]
      /\ UNCHANGED <<runStatus, nodeRun, attempts, untold, pubsub, conn>>
  BY DEF Run!AcceptTask, Run!runVars
<1>2. t \in Run!Task
  <2>1. attempts[r][n] \in 0 .. MaxAttempts
    BY DEF RunInv
  <2> QED BY <2>1 DEF Run!Task, Run!NodeStatuses
<1>3. t.retries # MaxAttempts
  BY <1>1
<1> HIDE DEF t
<1>4. TasksOK'
  BY <1>1, <1>2, <1>3, TasksKept
<1>5. ~\E q, m : Writing(h, q, m)
  BY <1>1 DEF Writing, Run!Idle
<1>6. \A q, m : Sent(q, m)' => Sent(q, m)
  <2> SUFFICES ASSUME NEW q, NEW m, Sent(q, m)' PROVE Sent(q, m)
    OBVIOUS
  <2>1. <<q, m>> \notin untold
    BY <1>1 DEF Sent, Writing
  <2> QED BY <1>1, <1>5, <2>1, TaskStep
<1>7. runStatus' \in [Runs -> {"running", "ended"}] /\ untold' \subseteq Runs \X RunNodes
  BY <1>1 DEF RunInv
<1> QED BY <1>1, <1>4, <1>6, <1>7, QuietStep

\* A write of a handler: the node is unsettled until its message is sent.
LEMMA RunWrite ==
  ASSUME RunInv, NEW h \in Handlers, NEW s \in Run!NodeStatuses, Run!Write(h, s),
         task[h].phase \in {"accepted", "executing"},
         attempts' \in [Runs -> [RunNodes -> 0 .. MaxAttempts]],
         UNCHANGED <<runFlows, runKey, mounted, visits, mixed>>
  PROVE  RunInv'
<1> DEFINE r == task[h].run
<1> DEFINE n == task[h].node
<1> DEFINE t == [task[h] EXCEPT !.phase = "written", !.status = s]
<1>1. nodeRun' = [nodeRun EXCEPT ![r][n] = s] /\ UNCHANGED <<runStatus, untold, pubsub, conn>>
  BY DEF Run!Write
<1>2. r \in Runs /\ n \in RunNodes /\ t \in Run!Task /\ t.phase = "written" /\ t.run = r /\ t.node = n
  <2>1. task[h] \in Run!Task
    BY TaskFields
  <2> QED BY <2>1 DEF Run!Task
<1>3. task' = [task EXCEPT ![h] = t] /\ task'[h] = t
  <2>1. task' = [task EXCEPT ![h].phase = "written", ![h].status = s]
    BY DEF Run!Write
  <2> QED BY <2>1 DEF RunInv, TasksOK
<1> HIDE DEF r, n, t
<1>4. nodeRun' \in [Runs -> [RunNodes -> Run!NodeStatuses]]
      /\ \A q \in Runs, m \in RunNodes : <<q, m>> # <<r, n>> => nodeRun'[q][m] = nodeRun[q][m]
  BY <1>1, <1>2 DEF RunInv
<1>5. BackendTypes'
  <2>1. TasksOK'
    BY <1>2, <1>3, TasksKept
  <2> QED BY <1>1, <1>4, <2>1 DEF BackendTypes, RunInv
<1>6. ASSUME NEW q \in Runs, NEW m \in RunNodes, Sent(q, m)'
      PROVE  Sent(q, m) /\ nodeRun'[q][m] = nodeRun[q][m]
  <2>1. <<q, m>> # <<r, n>>
    BY <1>2, <1>3, <1>6 DEF Sent, Writing
  <2>2. <<q, m>> \notin untold
    BY <1>1, <1>6 DEF Sent, Writing
  <2>3. ~Writing(h, q, m)
    BY DEF Writing
  <2> QED BY <1>3, <1>4, <1>6, <2>1, <2>2, <2>3, TaskStep
<1>7. PubsubIsFresh'
  <2>1. PubsubIsFresh
    BY DEF RunInv
  <2> SUFFICES ASSUME NEW q \in Runs, NEW m \in RunNodes, Sent(q, m)'
               PROVE  NoneIn(pubsub', Of(q, m)) \/ LastIn(pubsub', Of(q, m), nodeRun'[q][m])
    BY DEF PubsubIsFresh, Of
  <2> QED BY <1>1, <1>6, <2>1 DEF PubsubIsFresh
<1>8. Run!Registered => conn.run \in Runs
  BY RunCurrent DEF Run!Registered, Conns
<1> QED BY <1>1, <1>5, <1>6, <1>7, <1>8, BackendStep

\* The message of a handler, sent or failed.  It settles the node only if it
\* tells the stored status and no other handler is about to send.
LEMMA RunPublish ==
  ASSUME RunInv, NEW h \in Handlers, Run!Publish(h) \/ Run!PublishFails(h),
         UNCHANGED <<runFlows, runKey, mounted, visits, mixed>>
  PROVE  RunInv'
<1> SUFFICES ASSUME NEW r, NEW n, NEW s, r = task[h].run, n = task[h].node, s = task[h].status
             PROVE  RunInv'
  OBVIOUS
<1> DEFINE t == IF task[h].status = "running" THEN [task[h] EXCEPT !.phase = "executing"] ELSE Run!Idle
<1> DEFINE msg == [run |-> r, node |-> n, status |-> s]
<1>0. /\ nodeRun \in [Runs -> [RunNodes -> Run!NodeStatuses]] /\ pubsub \in Seq(Messages)
      /\ untold \subseteq Runs \X RunNodes /\ PubsubIsFresh
  BY DEF RunInv
<1>1. task[h].phase = "written" /\ r \in Runs /\ n \in RunNodes /\ s \in Run!NodeStatuses
  BY TaskFields DEF Run!Publish, Run!PublishFails
<1>2. msg \in Messages /\ msg \in Of(r, n) /\ msg.status = s
      /\ \A q \in Runs, m \in RunNodes : <<q, m>> # <<r, n>> => msg \notin Of(q, m)
  BY <1>1 DEF Messages, Of
<1>3. /\ task' = [task EXCEPT ![h] = t] /\ UNCHANGED <<runStatus, nodeRun, attempts, conn>>
      /\ \/ /\ pubsub' = Append(pubsub, msg)
            /\ untold' = IF nodeRun[r][n] = s THEN untold \ {<<r, n>>} ELSE untold \cup {<<r, n>>}
         \/ pubsub' = pubsub /\ untold' = untold \cup {<<r, n>>}
  BY DEF Run!Publish, Run!PublishFails, Run!runVars, Run!Told
<1>4. t \in {Run!Idle} \cup Run!Task /\ t.phase # "accepted"
  <2>1. task[h] \in Run!Task
    BY <1>1, TaskFields
  <2>2. [task[h] EXCEPT !.phase = "executing"] \in Run!Task /\ [task[h] EXCEPT !.phase = "executing"].phase = "executing"
    BY <2>1 DEF Run!Task
  <2> QED BY <2>2 DEF Run!Idle
<1> HIDE DEF msg, t
<1>5. BackendTypes'
  <2>1. pubsub' \in Seq(Messages)
    BY <1>0, <1>2, <1>3
  <2>2. untold' \subseteq Runs \X RunNodes
    BY <1>0, <1>1, <1>3
  <2>3. TasksOK'
    BY <1>3, <1>4, TasksKept
  <2> QED BY <1>3, <2>1, <2>2, <2>3 DEF BackendTypes, RunInv
<1>6. ASSUME NEW q \in Runs, NEW m \in RunNodes, Sent(q, m)', <<q, m>> # <<r, n>>
      PROVE  /\ Sent(q, m)
             /\ NoneIn(pubsub', Of(q, m)) <=> NoneIn(pubsub, Of(q, m))
             /\ \A x : LastIn(pubsub', Of(q, m), x) <=> LastIn(pubsub, Of(q, m), x)
  <2>1. <<q, m>> \notin untold
    BY <1>3, <1>6 DEF Sent, Writing
  <2>2. ~Writing(h, q, m)
    BY <1>6 DEF Writing
  <2>3. Sent(q, m)
    BY <1>3, <1>6, <2>1, <2>2, TaskStep
  <2>4. msg \notin Of(q, m)
    BY <1>2, <1>6
  <2>5. CASE pubsub' = Append(pubsub, msg)
    BY <1>0, <1>2, <2>3, <2>4, <2>5, QueueAppend
  <2> QED BY <1>3, <2>3, <2>5
<1>7. ASSUME Sent(r, n)'
      PROVE  LastIn(pubsub', Of(r, n), nodeRun[r][n]) /\ ~NoneIn(pubsub', Of(r, n))
  <2>1. pubsub' = Append(pubsub, msg) /\ nodeRun[r][n] = s
    BY <1>3, <1>7 DEF Sent, Writing
  <2> QED BY <1>0, <1>2, <2>1, QueueAppend
<1>8. PubsubIsFresh'
  <2> SUFFICES ASSUME NEW q \in Runs, NEW m \in RunNodes, Sent(q, m)'
               PROVE  NoneIn(pubsub', Of(q, m)) \/ LastIn(pubsub', Of(q, m), nodeRun'[q][m])
    BY DEF PubsubIsFresh, Of
  <2>1. CASE <<q, m>> = <<r, n>>
    BY <1>3, <1>7, <2>1
  <2>2. CASE <<q, m>> # <<r, n>>
    BY <1>0, <1>3, <1>6, <2>2 DEF PubsubIsFresh
  <2> QED BY <2>1, <2>2
<1>9. Run!Registered => conn.run \in Runs
  BY RunCurrent DEF Run!Registered, Conns
<1>10. ASSUME NEW q \in Runs, NEW m \in RunNodes, Sent(q, m)', NoneIn(pubsub', Of(q, m))
       PROVE  Sent(q, m) /\ NoneIn(pubsub, Of(q, m)) /\ nodeRun'[q][m] = nodeRun[q][m]
  <2>1. <<q, m>> # <<r, n>>
    BY <1>7, <1>10
  <2> QED BY <1>3, <1>6, <1>10, <2>1
<1> QED BY <1>3, <1>5, <1>8, <1>9, <1>10, BackendStep

\* A handler that stops before its message leaves the node untold.
LEMMA RunStops ==
  ASSUME RunInv, NEW h \in Handlers, Run!HandlerStops(h),
         UNCHANGED <<runFlows, runKey, mounted, visits, mixed>>
  PROVE  RunInv'
<1> DEFINE at == <<task[h].run, task[h].node>>
<1>1. /\ task' = [task EXCEPT ![h] = Run!Idle] /\ UNCHANGED <<runStatus, nodeRun, attempts, pubsub, conn>>
      /\ untold' = IF task[h].phase = "written" THEN untold \cup {at} ELSE untold
  BY DEF Run!HandlerStops, Run!runVars
<1>2. TasksOK'
  <2>1. Run!Idle \in {Run!Idle} \cup Run!Task /\ Run!Idle.phase # "accepted"
    BY DEF Run!Idle
  <2> QED BY <1>1, <2>1, TasksKept
<1>3. untold' \subseteq Runs \X RunNodes
  <2>1. task[h].phase = "written" => at \in Runs \X RunNodes
    BY TaskFields
  <2> HIDE DEF at
  <2> QED BY <1>1, <2>1 DEF RunInv
<1>4. \A q, m : Sent(q, m)' => Sent(q, m)
  <2> SUFFICES ASSUME NEW q, NEW m, Sent(q, m)' PROVE Sent(q, m)
    OBVIOUS
  <2>1. <<q, m>> \notin untold /\ ~Writing(h, q, m)
    BY <1>1 DEF Sent, Writing
  <2> QED BY <1>1, <2>1, TaskStep
<1>5. runStatus' \in [Runs -> {"running", "ended"}]
  BY <1>1 DEF RunInv
<1> QED BY <1>1, <1>2, <1>3, <1>4, <1>5, QuietStep

LEMMA RunComplete ==
  ASSUME RunInv, NEW r \in Runs, Run!CompleteWorkflowRun(r),
         UNCHANGED <<runFlows, runKey, mounted, visits, mixed>>
  PROVE  RunInv'
<1>1. UNCHANGED <<nodeRun, attempts, task, untold, pubsub, conn>>
  BY DEF Run!CompleteWorkflowRun
<1>2. runStatus' \in [Runs -> {"running", "ended"}]
  BY DEF Run!CompleteWorkflowRun, RunInv
<1>3. TasksOK' /\ untold' \subseteq Runs \X RunNodes
  BY <1>1 DEF TasksOK, RunInv
<1>4. \A q, m : Sent(q, m)' => Sent(q, m)
  BY <1>1 DEF Sent, Writing
<1> QED BY <1>1, <1>2, <1>3, <1>4, QuietStep

\* The listener: a message goes to the channel of the stream of its run, or is
\* dropped when the channel is full.
LEMMA RunDispatch ==
  ASSUME RunInv, Run!dispatchUpdate, UNCHANGED <<runFlows, runKey, mounted, visits, mixed>>
  PROVE  RunInv'
<1> DEFINE msg == Head(pubsub)
<1>0. /\ nodeRun \in [Runs -> [RunNodes -> Run!NodeStatuses]] /\ pubsub \in Seq(Messages) /\ PubsubIsFresh
  BY DEF RunInv
<1>1. pubsub # <<>> /\ pubsub' = Tail(pubsub)
      /\ UNCHANGED <<runStatus, nodeRun, attempts, task, untold>>
  BY DEF Run!dispatchUpdate, Run!runVars
<1>2. msg \in Messages /\ pubsub' \in Seq(Messages)
  BY <1>0, <1>1, QueueTail
<1>3. msg.run \in Runs /\ msg.node \in RunNodes /\ msg.status \in Run!NodeStatuses
  BY <1>2 DEF Messages
<1>4. \A q, m : Sent(q, m)' <=> Sent(q, m)
  BY <1>1 DEF Sent, Writing
<1>5. BackendTypes'
  BY <1>1, <1>2 DEF BackendTypes, RunInv, TasksOK
<1>6. ASSUME NEW q \in Runs, NEW m \in RunNodes, Sent(q, m)
      PROVE  /\ NoneIn(pubsub', Of(q, m)) \/ LastIn(pubsub', Of(q, m), nodeRun[q][m])
             /\ NoneIn(pubsub', Of(q, m)) => \/ NoneIn(pubsub, Of(q, m))
                                             \/ msg \in Of(q, m) /\ msg.status = nodeRun[q][m]
  <2>1. NoneIn(pubsub, Of(q, m)) \/ LastIn(pubsub, Of(q, m), nodeRun[q][m])
    BY <1>0, <1>6 DEF PubsubIsFresh
  <2>2. CASE NoneIn(pubsub, Of(q, m))
    BY <1>0, <1>1, <2>2, QueueTail
  <2>3. CASE LastIn(pubsub, Of(q, m), nodeRun[q][m])
    <3>1. \/ LastIn(pubsub', Of(q, m), nodeRun[q][m])
          \/ msg \in Of(q, m) /\ msg.status = nodeRun[q][m] /\ NoneIn(pubsub', Of(q, m))
      BY <1>0, <1>1, <2>3, QueueTail
    <3>2. LastIn(pubsub', Of(q, m), nodeRun[q][m]) => ~NoneIn(pubsub', Of(q, m))
      BY DEF LastIn, NoneIn
    <3> QED BY <3>1, <3>2
  <2> QED BY <2>1, <2>2, <2>3
<1>7. PubsubIsFresh'
  <2> SUFFICES ASSUME NEW q \in Runs, NEW m \in RunNodes, Sent(q, m)'
               PROVE  NoneIn(pubsub', Of(q, m)) \/ LastIn(pubsub', Of(q, m), nodeRun'[q][m])
    BY DEF PubsubIsFresh, Of
  <2> QED BY <1>1, <1>4, <1>6
<1>8. CASE ~Run!Registered \/ conn.run # msg.run
  <2>1. conn' = conn
    BY <1>8 DEF Run!dispatchUpdate
  <2>2. ASSUME Run!Registered, NEW m \in RunNodes, Sent(conn.run, m)', NoneIn(pubsub', Of(conn.run, m))
        PROVE  Sent(conn.run, m) /\ NoneIn(pubsub, Of(conn.run, m))
    <3>1. msg \notin Of(conn.run, m) /\ conn.run \in Runs
      BY <1>8, <2>2, RunCurrent DEF Of, Run!Registered, Conns
    <3> QED BY <1>4, <1>6, <2>1, <2>2, <3>1
  <2> QED BY <1>1, <1>5, <1>7, <2>1, <2>2, BackendStep
<1>9. CASE Run!Registered /\ conn.run = msg.run
  <2>1. /\ conn # None /\ conn.phase \in {"registered", "read", "streaming"} /\ conn \in Conns
        /\ ConnOK(conn) /\ ConnIsFresh(conn)
    BY <1>9, RunCurrent DEF Run!Registered, RunInv
  <2>2. CASE Len(conn.chan) = ChanSize
    <3>1. conn' = [conn EXCEPT !.lost = @ \cup {msg.node}]
      BY <1>9, <2>2 DEF Run!dispatchUpdate
    <3>2. /\ conn' \in Conns /\ conn'.lost = conn.lost \cup {msg.node}
          /\ conn'.run = conn.run /\ conn'.phase = conn.phase /\ conn'.chan = conn.chan
          /\ conn'.snapshot = conn.snapshot /\ conn'.events = conn.events
      <4> DEFINE l == conn.lost \cup {msg.node}
      <4>1. l \subseteq RunNodes
        BY <1>3, <2>1 DEF Conns
      <4>2. conn' = [conn EXCEPT !.lost = l]
        BY <3>1
      <4> HIDE DEF l
      <4>3. /\ conn' \in Conns /\ conn'.lost = l
            /\ conn'.run = conn.run /\ conn'.phase = conn.phase /\ conn'.chan = conn.chan
            /\ conn'.snapshot = conn.snapshot /\ conn'.events = conn.events
        BY <2>1, <4>1, <4>2 DEF Conns
      <4> QED BY <4>3 DEF l
    <3>3. ConnOK(conn)'
      BY <2>1, <3>2 DEF ConnOK
    <3>4. ASSUME NEW m \in RunNodes \ conn'.lost, Sent(conn.run, m)', NoneIn(pubsub', Of(conn.run, m))
          PROVE  StreamIsFresh(conn, m, nodeRun[conn.run][m])'
      <4>1. m # msg.node /\ m \in RunNodes \ conn.lost
        BY <3>2, <3>4
      <4>2. msg \notin Of(conn.run, m) /\ conn.run \in Runs
        BY <2>1, <4>1 DEF Of, Conns
      <4>3. Sent(conn.run, m) /\ NoneIn(pubsub, Of(conn.run, m))
        BY <1>4, <1>6, <3>2, <3>4, <4>2
      <4>4. StreamIsFresh(conn, m, nodeRun[conn.run][m])
        BY <2>1, <4>1, <4>3 DEF ConnIsFresh
      <4> QED BY <1>1, <3>2, <4>4 DEF StreamIsFresh, EventsAreFresh, About
    <3>5. ConnIsFresh(conn)'
      BY <3>2, <3>4 DEF ConnIsFresh, Of
    <3> QED BY <1>1, <1>5, <1>7, <3>3, <3>5 DEF RunInv, BackendTypes
  <2>3. CASE Len(conn.chan) # ChanSize
    <3> DEFINE u == [node |-> msg.node, status |-> msg.status]
    <3> DEFINE ch == Append(conn.chan, u)
    <3> DEFINE l == conn.lost \ {msg.node}
    <3>1. conn' = [conn EXCEPT !.chan = ch, !.lost = l]
      BY <1>9, <2>1, <2>3 DEF Run!dispatchUpdate, Conns
    <3>2. u \in Run!Update /\ u.status = msg.status /\ \A m \in RunNodes : u \in About(m) <=> m = msg.node
      BY <1>3 DEF Run!Update, About
    <3> HIDE DEF u
    <3>3. conn.chan \in Seq(Run!Update) /\ conn.lost \subseteq RunNodes /\ conn.run \in Runs
      BY <2>1 DEF Conns
    <3>4. ch \in Seq(Run!Update) /\ Len(ch) = Len(conn.chan) + 1 /\ Len(conn.chan) \in Nat
      BY <3>2, <3>3
    <3>5. Len(ch) <= ChanSize
      BY <2>1, <2>3, <3>4, RunAssumption DEF ConnOK
    <3>6. l \subseteq RunNodes
      BY <3>3
    <3>7. ASSUME NEW m \in RunNodes
          PROVE  /\ m = msg.node => LastIn(ch, About(m), msg.status)
                 /\ m # msg.node => /\ NoneIn(ch, About(m)) <=> NoneIn(conn.chan, About(m))
                                    /\ \A s : LastIn(ch, About(m), s) <=> LastIn(conn.chan, About(m), s)
      BY <3>2, <3>3, QueueAppend
    <3> HIDE DEF ch, l
    <3>8. /\ conn' \in Conns /\ conn'.lost = l /\ conn'.chan = ch
          /\ conn'.run = conn.run /\ conn'.phase = conn.phase
          /\ conn'.snapshot = conn.snapshot /\ conn'.events = conn.events
      BY <2>1, <3>1, <3>4, <3>6 DEF Conns
    <3>9. ConnOK(conn)'
      BY <2>1, <3>5, <3>8 DEF ConnOK
    <3>10. ASSUME NEW m \in RunNodes \ conn'.lost, Sent(conn.run, m)', NoneIn(pubsub', Of(conn.run, m))
           PROVE  StreamIsFresh(conn, m, nodeRun[conn.run][m])'
      <4>1. CASE m = msg.node
        <5>0. Sent(conn.run, m)
          BY <1>4, <3>8, <3>10
        <5>1. NoneIn(pubsub, Of(conn.run, m)) \/ msg.status = nodeRun[conn.run][m]
          BY <1>6, <3>3, <3>10, <5>0
        <5>2. ~NoneIn(pubsub, Of(conn.run, m))
          <6>1. msg \in Of(conn.run, m)
            BY <1>2, <1>9, <4>1 DEF Of
          <6> QED BY <1>0, <1>1, <6>1, QueueTail
        <5>3. LastIn(conn'.chan, About(m), nodeRun'[conn'.run][m])
          BY <1>1, <3>7, <3>8, <4>1, <5>1, <5>2
        <5> QED BY <5>3 DEF StreamIsFresh, About
      <4>2. CASE m # msg.node
        <5>1. m \in RunNodes \ conn.lost
          BY <3>8, <3>10, <4>2 DEF l
        <5>2. msg \notin Of(conn.run, m)
          BY <4>2 DEF Of
        <5>3. Sent(conn.run, m) /\ NoneIn(pubsub, Of(conn.run, m))
          BY <1>4, <1>6, <3>3, <3>8, <3>10, <5>2
        <5>4. StreamIsFresh(conn, m, nodeRun[conn.run][m])
          BY <2>1, <5>1, <5>3 DEF ConnIsFresh
        <5>5. /\ NoneIn(conn'.chan, About(m)) <=> NoneIn(conn.chan, About(m))
              /\ \A s : LastIn(conn'.chan, About(m), s) <=> LastIn(conn.chan, About(m), s)
          BY <3>7, <3>8, <4>2
        <5> QED BY <1>1, <3>8, <5>4, <5>5 DEF StreamIsFresh, EventsAreFresh, About
      <4> QED BY <4>1, <4>2
    <3>11. ConnIsFresh(conn)'
      BY <3>8, <3>10 DEF ConnIsFresh, Of
    <3> QED BY <1>1, <1>5, <1>7, <3>9, <3>11 DEF RunInv, BackendTypes
  <2> QED BY <2>2, <2>3
<1> QED BY <1>8, <1>9

\* A step of the page or of the handler of its stream.
LEMMA FrontStep ==
  ASSUME RunInv, UNCHANGED <<runStatus, nodeRun, attempts, task, untold, pubsub>>,
         runFlows' \in [Runs -> Run!FlowData \cup {Run!NoFlow}], runKey' \in Runs \cup {None},
         mounted' \in BOOLEAN, visits' \in 0 .. MaxVisits, mixed' \in BOOLEAN,
         conn' # None => ConnOK(conn)' /\ ConnIsFresh(conn)'
  PROVE  RunInv'
BY DEF RunInv, TasksOK, PubsubIsFresh, Sent, Writing, Of

\* The handler: it registers, reads, replays what it read and then passes on
\* what its channel holds.
LEMMA RunHandle ==
  ASSUME RunInv, Run!Handler, UNCHANGED <<runFlows, runKey, mounted, visits, mixed>>
  PROVE  RunInv'
<1>0. UNCHANGED <<runStatus, nodeRun, attempts, task, untold, pubsub>> /\ conn # None
  BY DEF Run!Handler, Run!RegisterClient, Run!GetWorkflowRunStatus, Run!SendNodeUpdates, Run!Stream,
     Run!runVars
<1>1. conn \in Conns /\ ConnOK(conn) /\ ConnIsFresh(conn) /\ conn.run \in Runs
  BY <1>0 DEF RunInv, ConnOK, Conns
<1>2. SUFFICES ConnOK(conn)' /\ ConnIsFresh(conn)'
  BY <1>0, FrontStep DEF RunInv
<1>3. nodeRun[conn.run] \in [RunNodes -> Run!NodeStatuses]
  BY <1>1 DEF RunInv
<1>4. CASE Run!RegisterClient
  <2>1. conn.phase = "requested" /\ conn' = [conn EXCEPT !.phase = "registered"]
    BY <1>4 DEF Run!RegisterClient
  <2>2. /\ conn' \in Conns /\ conn'.phase = "registered" /\ conn'.chan = conn.chan
        /\ conn'.run = conn.run /\ conn'.events = conn.events
    BY <1>1, <2>1 DEF Conns, Phases
  <2>3. conn'.chan = <<>> /\ conn'.events = <<>>
    BY <1>1, <2>1, <2>2 DEF ConnOK
  <2>4. ConnOK(conn)'
    BY <1>1, <2>2, <2>3 DEF ConnOK
  <2>5. \A n : NoneIn(conn'.chan, About(n))
    BY <2>3, QueueEmpty
  <2>6. ConnIsFresh(conn)'
    BY <2>2, <2>5 DEF ConnIsFresh, StreamIsFresh, About
  <2> QED BY <2>4, <2>6
<1>5. CASE Run!GetWorkflowRunStatus
  <2>1. conn.phase = "registered"
    BY <1>5 DEF Run!GetWorkflowRunStatus
  <2>2. CASE runStatus[conn.run] # "running"
    <3> DEFINE ev == Append(conn.events, Run!Completed)
    <3>1. conn' = [conn EXCEPT !.phase = "ended", !.events = ev]
      BY <1>1, <1>5, <2>2 DEF Run!GetWorkflowRunStatus, Conns
    <3>2. conn.events \in Seq(Run!Update \cup {Run!Completed})
      BY <1>1 DEF Conns
    <3>3. ev \in Seq(Run!Update \cup {Run!Completed})
      BY <3>2
    <3> HIDE DEF ev
    <3>4. /\ conn' \in Conns /\ conn'.phase = "ended" /\ conn'.chan = conn.chan /\ conn'.run = conn.run
      BY <1>1, <3>1, <3>3 DEF Conns, Phases
    <3>5. ConnOK(conn)'
      BY <1>1, <3>4 DEF ConnOK
    <3> QED BY <3>4, <3>5 DEF ConnIsFresh
  <2>3. CASE runStatus[conn.run] = "running"
    <3> DEFINE snap == nodeRun[conn.run]
    <3>1. conn' = [conn EXCEPT !.phase = "read", !.snapshot = snap]
      BY <1>1, <1>5, <2>3 DEF Run!GetWorkflowRunStatus
    <3> HIDE DEF snap
    <3>2. snap \in [RunNodes -> Run!NodeStatuses]
      BY <1>3 DEF snap
    <3>3. /\ conn' \in Conns /\ conn'.phase = "read" /\ conn'.chan = conn.chan /\ conn'.run = conn.run
          /\ conn'.events = conn.events /\ conn'.lost = conn.lost /\ conn'.snapshot = snap
      BY <1>1, <3>1, <3>2 DEF Conns, Phases
    <3>4. ConnOK(conn)'
      BY <1>1, <2>1, <3>3 DEF ConnOK
    <3>5. ASSUME NEW n \in RunNodes \ conn'.lost, Sent(conn.run, n)', NoneIn(pubsub', Of(conn'.run, n))
          PROVE  StreamIsFresh(conn, n, nodeRun[conn.run][n])'
      <4>1. Sent(conn.run, n) /\ NoneIn(pubsub, Of(conn.run, n)) /\ n \in RunNodes \ conn.lost
        BY <1>0, <3>3, <3>5 DEF Sent, Writing
      <4>2. StreamIsFresh(conn, n, nodeRun[conn.run][n])
        BY <1>1, <2>1, <4>1 DEF ConnIsFresh
      <4>3. conn'.snapshot[n] = nodeRun'[conn'.run][n]
        BY <1>0, <3>3 DEF snap
      <4>4. LastIn(conn'.chan, About(n), nodeRun'[conn'.run][n]) \/ NoneIn(conn'.chan, About(n))
        BY <1>0, <3>3, <4>2 DEF StreamIsFresh
      <4> QED BY <3>3, <4>3, <4>4 DEF StreamIsFresh, About
    <3>6. ConnIsFresh(conn)'
      BY <3>5 DEF ConnIsFresh, Of
    <3> QED BY <3>4, <3>6
  <2> QED BY <2>2, <2>3
<1>6. CASE Run!SendNodeUpdates
  <2> DEFINE N == Run!Cardinality(RunNodes)
  <2>1. PICK nodes \in Run!MapOrders :
          conn' = [conn EXCEPT !.phase = "streaming", !.snapshot = Run!NothingRead,
                               !.events = @ \o [i \in 1 .. N |->
                                  [node |-> nodes[i], status |-> conn.snapshot[nodes[i]]]]]
    BY <1>6 DEF Run!SendNodeUpdates
  <2> DEFINE replay == [i \in 1 .. N |-> [node |-> nodes[i], status |-> conn.snapshot[nodes[i]]]]
  <2>2. conn.phase = "read" /\ conn.events = <<>> /\ conn.snapshot \in [RunNodes -> Run!NodeStatuses]
    BY <1>1, <1>6 DEF Run!SendNodeUpdates, ConnOK, Conns
  <2>3. N \in Nat
    <3>1. N = Cardinality(RunNodes)
      BY Zenon DEF Run!Cardinality, Cardinality
    <3> QED BY <3>1, FS_CardinalityType, RunAssumption
  <2>4. nodes \in [1 .. N -> RunNodes] /\ \A n \in RunNodes : \E i \in 1 .. N : nodes[i] = n
    BY DEF Run!MapOrders
  <2> HIDE DEF N
  <2>5. replay \in Seq(Run!Update) /\ Len(replay) = N
    <3>1. replay \in [1 .. N -> Run!Update]
      BY <2>2, <2>4 DEF Run!Update
    <3> HIDE DEF replay
    <3> QED BY <2>3, <3>1
  <2>6. \A n \in RunNodes : LastIn(replay, About(n), conn.snapshot[n])
    <3> SUFFICES ASSUME NEW n \in RunNodes PROVE LastIn(replay, About(n), conn.snapshot[n])
      OBVIOUS
    <3>1. \A i \in 1 .. N : replay[i] = [node |-> nodes[i], status |-> conn.snapshot[nodes[i]]]
      OBVIOUS
    <3>2. \A i \in 1 .. N : replay[i] \in About(n) => replay[i].status = conn.snapshot[n]
      BY <3>1 DEF About
    <3>3. PICK i \in 1 .. N : nodes[i] = n
      BY <2>4
    <3>4. replay[i] \in About(n)
      <4>1. conn.snapshot[n] \in Run!NodeStatuses
        BY <2>2
      <4> QED BY <3>1, <3>3, <4>1 DEF About, Run!Update
    <3> HIDE DEF replay
    <3>5. ~NoneIn(replay, About(n))
      BY <2>5, <3>4 DEF NoneIn
    <3> QED BY <2>5, <3>2, <3>5, QueueUniform
  <2>7. <<>> \o replay = replay
    <3> HIDE DEF replay
    <3> QED BY <2>5
  <2> DEFINE ev == replay
  <2> DEFINE nothing == Run!NothingRead
  <2>8. conn' = [conn EXCEPT !.phase = "streaming", !.snapshot = nothing, !.events = ev]
    <3>1. conn' = [conn EXCEPT !.phase = "streaming", !.snapshot = nothing, !.events = conn.events \o replay]
      BY <1>1, <2>1 DEF Conns
    <3> HIDE DEF replay
    <3> QED BY <2>2, <2>7, <3>1
  <2>9. ev \in Seq(Run!Update \cup {Run!Completed})
    <3> HIDE DEF replay
    <3> QED BY <2>5
  <2>14. nothing \in [RunNodes -> Run!NodeStatuses]
    BY DEF Run!NothingRead, Run!NodeStatuses
  <2> HIDE DEF replay, ev, nothing
  <2>10. /\ conn' \in Conns /\ conn'.phase = "streaming" /\ conn'.chan = conn.chan /\ conn'.run = conn.run
         /\ conn'.events = ev /\ conn'.lost = conn.lost
    BY <1>1, <2>8, <2>9, <2>14 DEF Conns, Phases
  <2>11. ConnOK(conn)'
    BY <1>1, <2>10 DEF ConnOK
  <2>12. ASSUME NEW n \in RunNodes \ conn'.lost, Sent(conn.run, n)', NoneIn(pubsub', Of(conn'.run, n))
         PROVE  StreamIsFresh(conn, n, nodeRun[conn.run][n])'
    <3>1. Sent(conn.run, n) /\ NoneIn(pubsub, Of(conn.run, n)) /\ n \in RunNodes \ conn.lost
      BY <1>0, <2>10, <2>12 DEF Sent, Writing
    <3>2. StreamIsFresh(conn, n, nodeRun[conn.run][n])
      BY <1>1, <2>2, <3>1 DEF ConnIsFresh
    <3>3. conn.snapshot[n] = nodeRun[conn.run][n] => LastIn(conn'.events, About(n), nodeRun'[conn'.run][n])
      BY <1>0, <2>6, <2>10 DEF ev
    <3>4. \/ LastIn(conn'.chan, About(n), nodeRun'[conn'.run][n])
          \/ /\ NoneIn(conn'.chan, About(n))
             /\ LastIn(conn'.events, About(n), nodeRun'[conn'.run][n])
      BY <1>0, <2>2, <2>10, <3>2, <3>3 DEF StreamIsFresh
    <3> QED BY <2>10, <3>4 DEF StreamIsFresh, EventsAreFresh, About
  <2>13. ConnIsFresh(conn)'
    BY <2>12 DEF ConnIsFresh, Of
  <2> QED BY <2>11, <2>13
<1>7. CASE Run!Stream
  <2> DEFINE e == Head(conn.chan)
  <2> DEFINE ch == Tail(conn.chan)
  <2> DEFINE ev == Append(conn.events, e)
  <2>1. /\ conn.phase = "streaming" /\ conn.chan # <<>> /\ conn' = [conn EXCEPT !.chan = ch, !.events = ev]
    BY <1>1, <1>7 DEF Run!Stream, Conns
  <2>2. conn.chan \in Seq(Run!Update) /\ conn.events \in Seq(Run!Update \cup {Run!Completed})
    BY <1>1 DEF Conns
  <2>3. e \in Run!Update /\ ch \in Seq(Run!Update) /\ Len(ch) = Len(conn.chan) - 1
    BY <2>1, <2>2, QueueTail
  <2>4. e \in Run!Update \cup {Run!Completed}
    BY <2>3
  <2>5. ev \in Seq(Run!Update \cup {Run!Completed})
    <3> HIDE DEF e
    <3> QED BY <2>2, <2>4
  <2>6. Len(ch) <= ChanSize
    <3>1. Len(conn.chan) \in Nat /\ Len(conn.chan) <= ChanSize
      BY <1>1, <2>2 DEF ConnOK
    <3> QED BY <2>3, <3>1, RunAssumption
  <2>7. ASSUME NEW n \in RunNodes, NEW s, StreamIsFresh(conn, n, s)
        PROVE  \/ LastIn(ch, About(n), s)
               \/ NoneIn(ch, About(n)) /\ LastIn(ev, About(n), s)
               \/ NoneIn(ch, About(n)) /\ NoneIn(ev, About(n)) /\ (mixed = FALSE => runFlows[runKey].nodeStatus[n] = s)
    <3>1. CASE LastIn(conn.chan, About(n), s)
      <4>1. LastIn(ch, About(n), s) \/ (e \in About(n) /\ e.status = s /\ NoneIn(ch, About(n)))
        BY <2>1, <2>2, <3>1, QueueTail
      <4>2. e \in About(n) => LastIn(ev, About(n), e.status)
        <5> HIDE DEF e
        <5> QED BY <2>2, <2>4, QueueAppend
      <4> QED BY <4>1, <4>2
    <3>2. CASE NoneIn(conn.chan, About(n)) /\ EventsAreFresh(conn, n, s)
      <4>1. NoneIn(ch, About(n)) /\ e \notin About(n)
        BY <2>1, <2>2, <3>2, QueueTail
      <4>2. /\ NoneIn(ev, About(n)) <=> NoneIn(conn.events, About(n))
            /\ LastIn(ev, About(n), s) <=> LastIn(conn.events, About(n), s)
        <5> HIDE DEF e
        <5> QED BY <2>2, <2>4, <4>1, QueueAppend
      <4> QED BY <3>2, <4>1, <4>2 DEF EventsAreFresh
    <3> QED BY <2>1, <2>7, <3>1, <3>2 DEF StreamIsFresh
  <2> HIDE DEF e, ch, ev
  <2>8. /\ conn' \in Conns /\ conn'.phase = "streaming" /\ conn'.chan = ch /\ conn'.run = conn.run
        /\ conn'.events = ev /\ conn'.lost = conn.lost
    BY <1>1, <2>1, <2>3, <2>5 DEF Conns, Phases
  <2>9. ConnOK(conn)'
    BY <1>1, <2>6, <2>8 DEF ConnOK
  <2>10. ASSUME NEW n \in RunNodes \ conn'.lost, Sent(conn.run, n)', NoneIn(pubsub', Of(conn'.run, n))
         PROVE  StreamIsFresh(conn, n, nodeRun[conn.run][n])'
    <3>1. Sent(conn.run, n) /\ NoneIn(pubsub, Of(conn.run, n)) /\ n \in RunNodes \ conn.lost
      BY <1>0, <2>8, <2>10 DEF Sent, Writing
    <3>2. StreamIsFresh(conn, n, nodeRun[conn.run][n])
      BY <1>1, <2>1, <3>1 DEF ConnIsFresh
    <3> DEFINE s == nodeRun[conn.run][n]
    <3>3. \/ LastIn(conn'.chan, About(n), s)
          \/ NoneIn(conn'.chan, About(n)) /\ LastIn(conn'.events, About(n), s)
          \/ /\ NoneIn(conn'.chan, About(n)) /\ NoneIn(conn'.events, About(n))
             /\ mixed = FALSE => runFlows[runKey].nodeStatus[n] = s
      BY <2>7, <2>8, <3>2
    <3>4. nodeRun'[conn'.run][n] = s
      BY <1>0, <2>8
    <3> QED BY <2>8, <3>3, <3>4 DEF StreamIsFresh, EventsAreFresh, About
  <2>11. ConnIsFresh(conn)'
    BY <2>10 DEF ConnIsFresh, Of
  <2> QED BY <2>9, <2>11
<1> QED BY <1>4, <1>5, <1>6, <1>7 DEF Run!Handler

\* The flow of the page: new nodes keep the statuses of an earlier visit, and a
\* status may be set.
LEMMA RunFlows ==
  /\ \A key \in Runs : RunInv => Run!Initialized(key) \in Run!FlowData
  /\ \A f \in Run!FlowData :
       /\ Run!setNodes(f, RunNodes, [n \in RunNodes |-> EmptyConfig]) \in Run!FlowData
       /\ \A n \in RunNodes, s \in Run!NodeStatuses :
            /\ Run!setNodeStatus(f, n, s) \in Run!FlowData
            /\ Run!setNodeStatus(f, n, s).nodeStatus = [f.nodeStatus EXCEPT ![n] = s]
<1>1. Run!defaultFlowData \in Run!FlowData
  BY CanvasAssumption DEF Run!defaultFlowData, Run!FlowData, Run!Statuses
<1>2. ASSUME NEW key \in Runs, RunInv PROVE Run!Initialized(key) \in Run!FlowData
  BY <1>1, <1>2 DEF Run!Initialized, RunInv
<1>3. ASSUME NEW f \in Run!FlowData
      PROVE  Run!setNodes(f, RunNodes, [n \in RunNodes |-> EmptyConfig]) \in Run!FlowData
  <2> DEFINE cfg == [n \in RunNodes |-> IF n \in RunNodes THEN [m \in RunNodes |-> EmptyConfig][n] ELSE EmptyConfig]
  <2> DEFINE sel == Run!Detached(f, f.nodes)
  <2>1. cfg \in [RunNodes -> Configs]
    BY CanvasAssumption
  <2>2. sel \in Run!NodeRef \cup {None}
    <3>1. f.selectedNode \in Run!NodeRef \cup {None} /\ f.config \in [RunNodes -> Configs]
      BY DEF Run!FlowData
    <3>2. CASE f.selectedNode = None
      BY <3>2 DEF Run!Detached
    <3>3. CASE f.selectedNode # None
      <4>1. f.selectedNode \in Run!NodeRef
        BY <3>1, <3>3
      <4>2. f.config[f.selectedNode.id] \in Configs
        BY <3>1, <4>1 DEF Run!NodeRef
      <4>3. [f.selectedNode EXCEPT !.live = FALSE, !.config = f.config[f.selectedNode.id]] \in Run!NodeRef
        BY <4>1, <4>2 DEF Run!NodeRef
      <4> QED BY <3>3, <4>1, <4>3 DEF Run!Detached
    <3> QED BY <3>2, <3>3
  <2>3. Run!setNodes(f, RunNodes, [n \in RunNodes |-> EmptyConfig]) =
          [f EXCEPT !.nodes = RunNodes, !.config = cfg, !.selectedNode = sel]
    BY DEF Run!setNodes
  <2> HIDE DEF cfg, sel
  <2> QED BY <2>1, <2>2, <2>3 DEF Run!FlowData
<1>4. ASSUME NEW f \in Run!FlowData, NEW n \in RunNodes, NEW s \in Run!NodeStatuses
      PROVE  /\ Run!setNodeStatus(f, n, s) \in Run!FlowData
             /\ Run!setNodeStatus(f, n, s).nodeStatus = [f.nodeStatus EXCEPT ![n] = s]
  <2> DEFINE st == [f.nodeStatus EXCEPT ![n] = s]
  <2>1. st \in [RunNodes -> Run!Statuses]
    BY RunFlowFields DEF Run!Statuses, Run!NodeStatuses
  <2>2. Run!setNodeStatus(f, n, s) = [f EXCEPT !.nodeStatus = st]
    BY DEF Run!setNodeStatus, Run!FlowData
  <2> HIDE DEF st
  <2>3. Run!setNodeStatus(f, n, s) \in Run!FlowData /\ Run!setNodeStatus(f, n, s).nodeStatus = st
    BY <2>1, <2>2 DEF Run!FlowData
  <2> QED BY <2>3 DEF st
<1> QED BY <1>2, <1>3, <1>4

LEMMA RunVisits ==
  ASSUME RunInv, visits < MaxVisits, visits' = visits + 1 PROVE visits' \in 0 .. MaxVisits
<1>1. visits \in 0 .. MaxVisits
  BY DEF RunInv
<1> QED BY <1>1, RunAssumption

LEMMA RunMount ==
  ASSUME RunInv, NEW r \in Runs, Run!Mount(r)
  PROVE  RunInv'
<1> DEFINE f == Run!setNodes(Run!Initialized(r), RunNodes, [n \in RunNodes |-> EmptyConfig])
<1>1. /\ mounted' = TRUE /\ visits < MaxVisits /\ visits' = visits + 1 /\ mixed' = FALSE
      /\ runKey' = r /\ runFlows' = [runFlows EXCEPT ![r] = f]
      /\ conn' = Run!NewConn(r)
      /\ UNCHANGED <<runStatus, nodeRun, attempts, task, untold, pubsub>>
  BY DEF Run!Mount, Run!OpenRun, Run!initializeFlow, Run!runVars
<1>2. f \in Run!FlowData /\ f # Run!NoFlow
  BY RunFlows, RunFlowFields
<1> HIDE DEF f
<1>3. runFlows' \in [Runs -> Run!FlowData \cup {Run!NoFlow}] /\ runFlows'[r] = f
  BY <1>1, <1>2 DEF RunInv
<1> DEFINE none == <<>>
<1>4. none \in Seq(Run!Update) /\ none \in Seq(Run!Update \cup {Run!Completed}) /\ Len(none) = 0
  BY EmptySeq
<1>5. conn' = [run |-> r, phase |-> "requested", chan |-> none, snapshot |-> Run!NothingRead,
                  events |-> none, lost |-> {}]
  BY <1>1 DEF Run!NewConn
<1>6. Run!NothingRead \in [RunNodes -> Run!NodeStatuses]
  BY DEF Run!NothingRead, Run!NodeStatuses
<1>7. /\ conn' \in Conns /\ conn'.run = r /\ conn'.phase = "requested" /\ conn'.chan = none
      /\ conn'.events = none
  <2> HIDE DEF none
  <2> QED BY <1>4, <1>5, <1>6 DEF Conns, Phases
<1>8. ConnOK(conn)'
  <2>1. Len(none) <= ChanSize
    BY <1>4, RunAssumption
  <2>2. conn'.chan = <<>> /\ conn'.events = <<>> /\ Len(conn'.chan) <= ChanSize
    BY <1>7, <2>1
  <2>3. runKey' \in Runs /\ runFlows'[runKey'] # Run!NoFlow /\ conn'.run = runKey'
    BY <1>1, <1>2, <1>3, <1>7
  <2> HIDE DEF none
  <2> QED BY <1>7, <2>2, <2>3 DEF ConnOK, Run!NoFlow
<1>9. ConnIsFresh(conn)'
  BY <1>7 DEF ConnIsFresh
<1>10. visits' \in 0 .. MaxVisits
  BY <1>1, RunVisits
<1> QED BY <1>1, <1>3, <1>8, <1>9, <1>10, FrontStep

LEMMA RunSwitch ==
  ASSUME RunInv, NEW r \in Runs, Run!SwitchRun(r)
  PROVE  RunInv'
<1> DEFINE f == Run!Initialized(r)
<1>1. /\ mounted' = mounted /\ visits < MaxVisits /\ visits' = visits + 1 /\ mixed' = TRUE
      /\ runKey' = r /\ runFlows' = [runFlows EXCEPT ![r] = f]
      /\ UNCHANGED <<runStatus, nodeRun, attempts, task, untold, pubsub, conn>>
  BY DEF Run!SwitchRun, Run!OpenRun, Run!initializeFlow, Run!streamVars
<1>2. f \in Run!FlowData /\ f # Run!NoFlow
  BY RunFlows, RunFlowFields
<1> HIDE DEF f
<1>3. runFlows' \in [Runs -> Run!FlowData \cup {Run!NoFlow}] /\ runFlows'[r] = f
  BY <1>1, <1>2 DEF RunInv
<1>4. ASSUME conn # None PROVE ConnOK(conn)' /\ ConnIsFresh(conn)'
  <2>1. ConnOK(conn) /\ ConnIsFresh(conn)
    BY <1>4 DEF RunInv
  <2>2. ConnOK(conn)'
    BY <1>1, <1>2, <1>3, <2>1 DEF ConnOK, Run!NoFlow
  <2>3. ASSUME conn.phase \in {"registered", "read", "streaming"}, NEW n \in RunNodes \ conn.lost,
               Sent(conn.run, n)', NoneIn(pubsub', Of(conn.run, n))
        PROVE  StreamIsFresh(conn, n, nodeRun[conn.run][n])'
    <3>1. Sent(conn.run, n) /\ NoneIn(pubsub, Of(conn.run, n))
      BY <1>1, <2>3 DEF Sent, Writing
    <3>2. StreamIsFresh(conn, n, nodeRun[conn.run][n])
      BY <2>1, <2>3, <3>1 DEF ConnIsFresh
    <3> QED BY <1>1, <3>2 DEF StreamIsFresh, EventsAreFresh, About
  <2>4. ConnIsFresh(conn)'
    BY <1>1, <2>3 DEF ConnIsFresh, Of
  <2> QED BY <2>2, <2>4
<1>5. mounted' \in BOOLEAN /\ mixed' \in BOOLEAN
  BY <1>1 DEF RunInv
<1>6. visits' \in 0 .. MaxVisits
  BY <1>1, RunVisits
<1> QED BY <1>1, <1>3, <1>4, <1>5, <1>6, FrontStep

\* An event that arrives: of its node it shows the status, and the page shows
\* of every other node what it did.
LEMMA RunReceive ==
  ASSUME RunInv, Run!OnNodeUpdate
  PROVE  RunInv'
<1> DEFINE e == Head(conn.events)
<1> DEFINE ev == Tail(conn.events)
<1> DEFINE f == Run!setNodeStatus(Run!Current, e.node, e.status)
<1>1. /\ conn # None /\ conn.events # <<>> /\ e # Run!Completed
      /\ runFlows' = [runFlows EXCEPT ![runKey] = f] /\ runKey' = runKey
      /\ conn' = [conn EXCEPT !.events = Tail(@)]
      /\ UNCHANGED <<runStatus, nodeRun, attempts, task, untold, pubsub, mounted, visits, mixed>>
  BY DEF Run!OnNodeUpdate, Run!Event, Run!SetFlow, Run!Consumed, Run!runVars, Run!pageVars
<1>2. /\ runKey \in Runs /\ Run!Current = runFlows[runKey] /\ Run!Current \in Run!FlowData /\ conn \in Conns
      /\ ConnOK(conn) /\ ConnIsFresh(conn)
  BY <1>1, RunCurrent DEF RunInv
<1>3. conn.events \in Seq(Run!Update \cup {Run!Completed})
  BY <1>2 DEF Conns
<1>4. e \in Run!Update /\ ev \in Seq(Run!Update \cup {Run!Completed})
  BY <1>1, <1>3, QueueTail
<1>5. ASSUME NEW n \in RunNodes, NEW s
      PROVE  /\ NoneIn(conn.events, About(n)) => NoneIn(ev, About(n)) /\ e \notin About(n)
             /\ LastIn(conn.events, About(n), s) =>
                  LastIn(ev, About(n), s) \/ (e \in About(n) /\ e.status = s /\ NoneIn(ev, About(n)))
  BY <1>1, <1>3, QueueTail
<1>6. conn' = [conn EXCEPT !.events = ev]
  BY <1>1, <1>2 DEF Conns
<1> HIDE DEF e, ev
<1>7. e.node \in RunNodes /\ e.status \in Run!NodeStatuses
  BY <1>4 DEF Run!Update
<1>8. f \in Run!FlowData /\ f # Run!NoFlow /\ f.nodeStatus = [Run!Current.nodeStatus EXCEPT ![e.node] = e.status]
  BY <1>2, <1>7, RunFlows, RunFlowFields
<1>9. Run!Current.nodeStatus \in [RunNodes -> Run!Statuses]
  BY <1>2, RunFlowFields
<1>10. ASSUME NEW n \in RunNodes
       PROVE  /\ e \in About(n) => f.nodeStatus[n] = e.status
              /\ e \notin About(n) => f.nodeStatus[n] = Run!Current.nodeStatus[n]
  <2>1. e \in About(n) <=> n = e.node
    BY <1>4 DEF About
  <2> QED BY <1>7, <1>8, <1>9, <2>1
<1> HIDE DEF f
<1>11. runFlows' \in [Runs -> Run!FlowData \cup {Run!NoFlow}] /\ runFlows'[runKey] = f
  BY <1>1, <1>2, <1>8 DEF RunInv
<1>12. /\ conn' \in Conns /\ conn'.events = ev /\ conn'.chan = conn.chan /\ conn'.run = conn.run
       /\ conn'.phase = conn.phase /\ conn'.snapshot = conn.snapshot /\ conn'.lost = conn.lost
  BY <1>2, <1>4, <1>6 DEF Conns
<1>13. conn.phase \notin {"requested", "registered", "read"}
  BY <1>1, <1>2 DEF ConnOK
<1>14. ConnOK(conn)'
  BY <1>1, <1>2, <1>8, <1>11, <1>12, <1>13 DEF ConnOK, Run!NoFlow
<1>15. ASSUME NEW n \in RunNodes, NEW s, EventsAreFresh(conn, n, s)
       PROVE  \/ LastIn(ev, About(n), s)
              \/ NoneIn(ev, About(n)) /\ (mixed = FALSE => f.nodeStatus[n] = s)
  <2>1. CASE LastIn(conn.events, About(n), s)
    BY <1>5, <1>10, <2>1
  <2>2. CASE NoneIn(conn.events, About(n)) /\ (mixed = FALSE => runFlows[runKey].nodeStatus[n] = s)
    BY <1>2, <1>5, <1>10, <2>2
  <2> QED BY <1>15, <2>1, <2>2 DEF EventsAreFresh
<1>16. ASSUME conn'.phase \in {"registered", "read", "streaming"}, NEW n \in RunNodes \ conn'.lost,
              Sent(conn.run, n)', NoneIn(pubsub', Of(conn'.run, n))
       PROVE  StreamIsFresh(conn, n, nodeRun[conn.run][n])'
  <2>1. Sent(conn.run, n) /\ NoneIn(pubsub, Of(conn.run, n)) /\ n \in RunNodes \ conn.lost
    BY <1>1, <1>12, <1>16 DEF Sent, Writing
  <2>2. StreamIsFresh(conn, n, nodeRun[conn.run][n])
    BY <1>2, <1>12, <1>16, <2>1 DEF ConnIsFresh
  <2> DEFINE s == nodeRun[conn.run][n]
  <2>3. \/ LastIn(conn'.chan, About(n), s)
        \/ /\ NoneIn(conn'.chan, About(n))
           /\ conn'.phase = "read" => conn'.snapshot[n] = s
           /\ conn'.phase = "streaming" =>
                \/ LastIn(conn'.events, About(n), s)
                \/ NoneIn(conn'.events, About(n)) /\ (mixed' = FALSE => runFlows'[runKey'].nodeStatus[n] = s)
    <3>1. \/ LastIn(conn.chan, About(n), s)
          \/ /\ NoneIn(conn.chan, About(n))
             /\ conn.phase = "read" => conn.snapshot[n] = s
             /\ conn.phase = "streaming" => EventsAreFresh(conn, n, s)
      BY <2>2 DEF StreamIsFresh
    <3>2. EventsAreFresh(conn, n, s) =>
            \/ LastIn(conn'.events, About(n), s)
            \/ NoneIn(conn'.events, About(n)) /\ (mixed' = FALSE => runFlows'[runKey'].nodeStatus[n] = s)
      <4> HIDE DEF s
      <4> QED BY <1>1, <1>11, <1>12, <1>15, <1>16
    <3> HIDE DEF s
    <3> QED BY <1>12, <3>1, <3>2
  <2>4. nodeRun'[conn'.run][n] = s
    BY <1>1, <1>12
  <2> QED BY <2>3, <2>4 DEF StreamIsFresh, EventsAreFresh, About
<1>17. ConnIsFresh(conn)'
  BY <1>16 DEF ConnIsFresh, Of
<1>18. runKey' \in Runs \cup {None} /\ mounted' \in BOOLEAN /\ visits' \in 0 .. MaxVisits /\ mixed' \in BOOLEAN
  BY <1>1 DEF RunInv
<1> QED BY <1>1, <1>11, <1>14, <1>17, <1>18, FrontStep

LEMMA RunNextStep == RunInv /\ [Run!Next]_runVars => RunInv'
<1> SUFFICES ASSUME RunInv, [Run!Next]_runVars PROVE RunInv'
  OBVIOUS
<1>1. ASSUME Run!Executor, UNCHANGED <<runFlows, runKey, mounted, visits, mixed>> PROVE RunInv'
  <2>0. attempts \in [Runs -> [RunNodes -> 0 .. MaxAttempts]]
    BY DEF RunInv
  <2>1. ASSUME NEW h \in Handlers, NEW r \in Runs, NEW n \in RunNodes, Run!AcceptTask(h, r, n) PROVE RunInv'
    BY <1>1, <2>1, RunAccept
  <2>2. ASSUME NEW h \in Handlers, Run!StartNode(h) PROVE RunInv'
    <3> DEFINE r == task[h].run
    <3> DEFINE n == task[h].node
    <3> DEFINE k == task[h].retries + 1
    <3>1. task[h].phase = "accepted" /\ attempts' = [attempts EXCEPT ![r][n] = k] /\ Run!Write(h, "running")
      BY <2>2 DEF Run!StartNode
    <3>2. task[h].retries \in 0 .. MaxAttempts /\ task[h].retries # MaxAttempts
      BY <3>1, TaskFields DEF RunInv, TasksOK
    <3>3. k \in 0 .. MaxAttempts
      BY <3>2, RunAssumption
    <3> HIDE DEF r, n, k
    <3>4. attempts' \in [Runs -> [RunNodes -> 0 .. MaxAttempts]]
      BY <2>0, <3>1, <3>3
    <3>5. "running" \in Run!NodeStatuses
      BY DEF Run!NodeStatuses
    <3> QED BY <1>1, <3>1, <3>4, <3>5, RunWrite
  <2>3. ASSUME NEW h \in Handlers, NEW s \in Run!NodeStatuses, Run!FinishNode(h, s) PROVE RunInv'
    BY <1>1, <2>0, <2>3, RunWrite DEF Run!FinishNode
  <2>4. ASSUME NEW h \in Handlers, Run!Publish(h) \/ Run!PublishFails(h) PROVE RunInv'
    BY <1>1, <2>4, RunPublish
  <2>5. ASSUME NEW h \in Handlers, Run!HandlerStops(h) PROVE RunInv'
    BY <1>1, <2>5, RunStops
  <2>6. ASSUME NEW r \in Runs, Run!CompleteWorkflowRun(r) PROVE RunInv'
    BY <1>1, <2>6, RunComplete
  <2> QED BY <1>1, <2>1, <2>2, <2>3, <2>4, <2>5, <2>6 DEF Run!Executor
<1>2. CASE Run!Dispatch
  BY <1>2, RunDispatch DEF Run!Dispatch, Run!flowVars, Run!pageVars
<1>3. CASE Run!Handle
  BY <1>3, RunHandle DEF Run!Handle, Run!flowVars, Run!pageVars
<1>4. ASSUME conn' = None, UNCHANGED <<runStatus, nodeRun, attempts, task, untold, pubsub>>,
             runFlows' \in [Runs -> Run!FlowData \cup {Run!NoFlow}], runKey' = runKey,
             mounted' \in BOOLEAN, visits' = visits, mixed' = mixed
      PROVE  RunInv'
  <2>1. runKey' \in Runs \cup {None} /\ visits' \in 0 .. MaxVisits /\ mixed' \in BOOLEAN
    BY <1>4 DEF RunInv
  <2> QED BY <1>4, <2>1, FrontStep
<1>5. CASE Run!Unmount \/ Run!OnError
  <2>1. conn' = None /\ UNCHANGED <<runStatus, nodeRun, attempts, task, untold, pubsub>>
    BY <1>5 DEF Run!Unmount, Run!OnError, Run!UnregisterClient, Run!runVars
  <2>2. UNCHANGED <<runFlows, runKey, visits, mixed>> /\ (mounted' = FALSE \/ mounted' = mounted)
    BY <1>5 DEF Run!Unmount, Run!OnError, Run!flowVars, Run!pageVars
  <2>3. mounted' \in BOOLEAN /\ runFlows' \in [Runs -> Run!FlowData \cup {Run!NoFlow}]
    BY <2>2 DEF RunInv
  <2> QED BY <1>4, <2>1, <2>2, <2>3
<1>6. CASE Run!OnCompleted
  <2> DEFINE f == [Run!Current EXCEPT !.nodeStatus = [n \in RunNodes |-> IF n \in RunNodes THEN "success" ELSE @[n]]]
  <2>1. /\ conn # None /\ conn' = None /\ runFlows' = [runFlows EXCEPT ![runKey] = f] /\ runKey' = runKey
        /\ UNCHANGED <<runStatus, nodeRun, attempts, task, untold, pubsub, mounted, visits, mixed>>
    BY <1>6 DEF Run!OnCompleted, Run!UnregisterClient, Run!SetFlow, Run!runVars, Run!pageVars
  <2>2. Run!Current \in Run!FlowData /\ runKey \in Runs
    BY <2>1, RunCurrent
  <2>3. f \in Run!FlowData
    <3> DEFINE st == [n \in RunNodes |-> IF n \in RunNodes THEN "success" ELSE Run!Current.nodeStatus[n]]
    <3>1. st \in [RunNodes -> Run!Statuses]
      BY DEF Run!Statuses
    <3>2. f = [Run!Current EXCEPT !.nodeStatus = st]
      BY <2>2 DEF Run!FlowData
    <3> HIDE DEF st, f
    <3> QED BY <2>2, <3>1, <3>2 DEF Run!FlowData
  <2> HIDE DEF f
  <2>4. runFlows' \in [Runs -> Run!FlowData \cup {Run!NoFlow}] /\ mounted' \in BOOLEAN
    BY <2>1, <2>3 DEF RunInv
  <2> QED BY <1>4, <2>1, <2>4
<1>7. CASE UNCHANGED runVars
  BY <1>7 DEF RunInv, TasksOK, runVars, PubsubIsFresh, Sent, Writing, ConnOK, ConnIsFresh, StreamIsFresh, EventsAreFresh
<1> QED
  BY <1>1, <1>2, <1>3, <1>5, <1>6, <1>7, RunMount, RunSwitch, RunReceive
  DEF Run!Next, Run!Receive, Run!flowVars, Run!pageVars

LEMMA RunInvImplies == RunInv => Run!TypeOK /\ Run!SilentMeansTrue
<1> SUFFICES ASSUME RunInv PROVE Run!TypeOK /\ Run!SilentMeansTrue
  OBVIOUS
<1>1. Run!FlowTypeOK
  BY DEF RunInv, Run!FlowTypeOK
<1>2. Run!StreamTypeOK
  <2>1. conn # None => /\ conn.run \in Runs /\ conn.lost \subseteq RunNodes
                       /\ conn.phase \in Phases /\ Len(conn.chan) <= ChanSize
    BY DEF RunInv, ConnOK, Conns
  <2> QED BY <2>1 DEF RunInv, TasksOK, Run!StreamTypeOK, Phases
<1>3. Run!TypeOK
  BY <1>1, <1>2 DEF RunInv, Run!TypeOK
<1>4. ASSUME Run!Listening, Run!Silent, NEW n \in RunNodes \ Run!Lost
      PROVE  Run!getNodeStatus(n) = nodeRun[runKey][n]
  <2>1. conn # None /\ mixed = FALSE
    BY <1>4 DEF Run!Listening, RunInv
  <2>2. ConnOK(conn) /\ ConnIsFresh(conn) /\ conn.run = runKey
    BY <2>1 DEF RunInv, ConnOK
  <2>3. /\ conn.phase = "streaming" /\ conn.chan = <<>> /\ conn.events = <<>> /\ pubsub = <<>>
        /\ \A h \in Handlers : task[h].phase # "written"
    BY <1>4 DEF Run!Silent
  <2>4. n \notin conn.lost /\ <<runKey, n>> \notin untold
    BY <1>4 DEF Run!Lost
  <2>5. Sent(conn.run, n) /\ NoneIn(pubsub, Of(conn.run, n))
    BY <2>2, <2>3, <2>4, QueueEmpty DEF Sent, Writing
  <2>6. StreamIsFresh(conn, n, nodeRun[runKey][n])
    BY <2>2, <2>3, <2>4, <2>5 DEF ConnIsFresh
  <2>7. EventsAreFresh(conn, n, nodeRun[runKey][n])
    BY <2>3, <2>6, QueueEmpty DEF StreamIsFresh
  <2>8. runFlows[runKey].nodeStatus[n] = nodeRun[runKey][n]
    BY <2>1, <2>3, <2>7, QueueEmpty DEF EventsAreFresh
  <2> QED BY <2>1, <2>8, RunCurrent DEF Run!getNodeStatus
<1> QED BY <1>3, <1>4 DEF Run!SilentMeansTrue

\* Register, read, replay: however the statuses that are read and the messages
\* overlap, for any number of runs and nodes, any size of the channel and any
\* order in which Go visits a map, and any number of handlers that interleave, a
\* page that listens and for which nothing is on its way shows the stored status
\* of every node whose last message was not dropped and told what was stored.
THEOREM SilentAlwaysTrue == Spec => []SilentMeansTrue
<1>1. Init => RunInv
  BY RunInit DEF Init
<1>2. RunInv /\ [Next]_vars => RunInv'
  BY RunSteps, RunNextStep
<1>3. RunInv => SilentMeansTrue
  BY RunInvImplies DEF SilentMeansTrue
<1> QED BY <1>1, <1>2, <1>3, PTL DEF Spec

-----------------------------------------------------------------------------
(* The types of all screens.                                               *)

\* Every screen keeps its types, whatever is done on it.
THEOREM PagesTypeCorrect == Spec => []TypeOK
<1> DEFINE Inv == /\ screen \in Screens
                  /\ CanvasInv /\ PanelInv /\ InspectorInv /\ ShellInv /\ LibraryInv /\ RunInv
<1>1. Init => Inv
  BY CanvasInit, PanelInit, InspectorInit, ShellInit, LibraryInit, RunInit DEF Init
<1>2. Inv /\ [Next]_vars => Inv'
  <2> SUFFICES ASSUME Inv, [Next]_vars PROVE Inv'
    OBVIOUS
  <2>1. screen' = screen
    BY DEF Next, Others, vars
  <2>2. CanvasInv'
    BY CanvasSteps, CanvasNext
  <2>3. PanelInv'
    BY PanelSteps, PanelNextStep
  <2>4. InspectorInv'
    BY InspectorSteps, InspectorNext
  <2>5. ShellInv'
    BY ShellSteps, ShellNext
  <2>6. LibraryInv'
    BY LibrarySteps, LibraryNextStep
  <2>7. RunInv'
    BY RunSteps, RunNextStep
  <2> QED BY <2>1, <2>2, <2>3, <2>4, <2>5, <2>6, <2>7
<1>3. Inv => TypeOK
  <2> SUFFICES ASSUME Inv PROVE TypeOK
    OBVIOUS
  <2>1. Canvas!TypeOK /\ Panel!PanelTypeOK /\ Library!TypeOK /\ Run!TypeOK
    BY CanvasInvImplies, PanelInvImplies, LibraryInvImplies, RunInvImplies
  <2>2. Inspector!InspectorTypeOK /\ Shell!TypeOK
    BY DEF InspectorInv, ShellInv
  <2> QED BY <2>1, <2>2 DEF TypeOK, Screens
<1> HIDE DEF Inv
<1> QED BY <1>1, <1>2, <1>3, PTL DEF Spec
=============================================================================
