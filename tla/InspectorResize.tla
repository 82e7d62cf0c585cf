--------------------------- MODULE InspectorResize ---------------------------
(***************************************************************************)
(* The inspector as a resizable panel (InspectorPanel/index.tsx): its      *)
(* width, whether it is shown, the flag that the layout's keys toggle, and *)
(* the mouse on its collapse button.  Three effects write state that       *)
(* others depend on; React runs those whose dependencies changed after a   *)
(* render, with the values of that render, and renders again.  Commit is   *)
(* one such round.  Events come when no effect is due.  The mouse          *)
(* handlers see the values of the render that attached them.               *)
(***************************************************************************)
EXTENDS Integers

CONSTANTS minWidth, maxWidth,
          DragWidths     \* widths that a drag may ask for: startWidth - deltaX

VARIABLES
  page,                    \* "builder" or "run", the page around the panel
  toggleInspectorPanel,    \* the layout's flag, which outlives the panel
  showPanel, width, z,
  drag,                    \* what the mouse handlers hold while resizing
  overshot,                \* history: the width is from a drag past the edge
  seen                     \* dependencies of the last effects, Unmounted before
vars == <<page, toggleInspectorPanel, showPanel, width, z, drag, overshot, seen>>

Pages == {"builder", "run"}
Idle == [resizing |-> FALSE]
NotMoved == minWidth - 1 - maxWidth      \* newWidth is undefined; no width

Widths == {n \in DragWidths : n < maxWidth} \cup {0, minWidth, maxWidth}
Unmounted == [mounted |-> FALSE]
Deps == [toggle : BOOLEAN, width : Widths]

InspectorTypeOK ==
  /\ page \in Pages
  /\ toggleInspectorPanel \in BOOLEAN /\ showPanel \in BOOLEAN /\ z \in BOOLEAN
  /\ width \in Widths
  /\ drag \in [showPanel : BOOLEAN, width : Widths, newWidth : DragWidths \cup {NotMoved}] \cup {Idle}
  /\ overshot \in BOOLEAN
  /\ seen \in Deps \cup {Unmounted}

Init ==
  /\ page \in Pages
  /\ toggleInspectorPanel = TRUE /\ showPanel = TRUE
  /\ width = minWidth /\ z = FALSE
  /\ drag = Idle /\ overshot = FALSE
  /\ seen = Unmounted

-----------------------------------------------------------------------------
(* Effects.                                                                *)

Shown == [toggle |-> toggleInspectorPanel, width |-> width]
Settled == seen = Shown

ToggleChanged == seen = Unmounted \/ (seen # Unmounted /\ seen.toggle # toggleInspectorPanel)
WidthChanged == seen = Unmounted \/ (seen # Unmounted /\ seen.width # width)

\* Mutant: a width flips the flag instead of setting it.
CommitFlipsFlag ==
  /\ ~Settled
  /\ IF ToggleChanged
     THEN /\ width' = IF toggleInspectorPanel THEN minWidth ELSE 0
          /\ z' = (z /\ toggleInspectorPanel) /\ overshot' = FALSE
     ELSE UNCHANGED <<width, z, overshot>>
  /\ showPanel' = TRUE
  /\ toggleInspectorPanel' = IF WidthChanged THEN ~toggleInspectorPanel ELSE toggleInspectorPanel
  /\ seen' = Shown
  /\ UNCHANGED <<page, drag>>

\* One round: the flag decides the panel, then a width decides the flag, then
\* (on mounting) the run page closes the panel.  Later writes win.
Commit ==
  /\ ~Settled
  /\ IF ToggleChanged
     THEN /\ width' = IF toggleInspectorPanel THEN minWidth ELSE 0
          /\ z' = (z /\ toggleInspectorPanel) /\ overshot' = FALSE
     ELSE UNCHANGED <<width, z, overshot>>
  /\ showPanel' = IF WidthChanged /\ width # 0 THEN TRUE
                  ELSE IF ToggleChanged THEN toggleInspectorPanel ELSE showPanel
  /\ toggleInspectorPanel' = IF seen = Unmounted /\ page = "run" THEN FALSE
                             ELSE IF WidthChanged /\ width # 0 THEN TRUE
                             ELSE toggleInspectorPanel
  /\ seen' = Shown
  /\ UNCHANGED <<page, drag>>

-----------------------------------------------------------------------------
(* Events.                                                                 *)

\* Another page mounts a panel of its own; the layout and its flag stay.
Navigate(p) ==
  /\ Settled
  /\ page' = p
  /\ showPanel' = TRUE /\ width' = minWidth /\ z' = FALSE
  /\ drag' = Idle /\ overshot' = FALSE
  /\ seen' = Unmounted
  /\ UNCHANGED toggleInspectorPanel

\* The keys i and f of the layout.
SetToggle(v) ==
  /\ Settled
  /\ toggleInspectorPanel' = v
  /\ UNCHANGED <<page, showPanel, width, z, drag, overshot, seen>>

handleButtonMouseDown ==
  /\ Settled /\ drag = Idle
  /\ drag' = [showPanel |-> showPanel, width |-> width, newWidth |-> NotMoved]
  /\ UNCHANGED <<page, toggleInspectorPanel, showPanel, width, z, overshot, seen>>

\* A panel that was closed follows the mouse up to maxWidth, and to the other
\* side past the edge of the window: Math.max has one argument.  An open one
\* stays between the limits.
handleMouseMove(n) ==
  /\ Settled /\ drag # Idle
  /\ drag' = [drag EXCEPT !.newWidth = n]
  /\ width' = IF n >= maxWidth THEN maxWidth
              ELSE IF drag.showPanel /\ n <= minWidth THEN minWidth ELSE n
  /\ z' = (z \/ (~drag.showPanel /\ n >= minWidth))
  /\ overshot' = (~drag.showPanel /\ n < 0)
  /\ UNCHANGED <<page, toggleInspectorPanel, showPanel, seen>>

\* Mutant: a drag that ends between closed and minWidth is left there.
HoldLeavesWidth ==
  /\ Settled /\ drag # Idle
  /\ drag' = Idle
  /\ UNCHANGED <<page, toggleInspectorPanel, showPanel, width, z, overshot, seen>>

\* Released after more than 300 ms.
handleMouseUpHold ==
  /\ Settled /\ drag # Idle
  /\ IF drag.newWidth # NotMoved /\ drag.newWidth < minWidth /\ drag.newWidth > 0
     THEN width' = minWidth /\ overshot' = FALSE ELSE UNCHANGED <<width, overshot>>
  /\ drag' = Idle
  /\ UNCHANGED <<page, toggleInspectorPanel, showPanel, z, seen>>

\* Released sooner: a click.
handleMouseUpClick ==
  /\ Settled /\ drag # Idle
  /\ z' = (z /\ ~drag.showPanel)
  /\ showPanel' = ~showPanel
  /\ width' = IF drag.width # 0 THEN 0 ELSE minWidth
  /\ drag' = Idle /\ overshot' = FALSE
  /\ UNCHANGED <<page, toggleInspectorPanel, seen>>

Next ==
  \/ Commit
  \/ \E p \in Pages : Navigate(p)
  \/ \E v \in BOOLEAN : SetToggle(v)
  \/ handleButtonMouseDown
  \/ \E n \in DragWidths : handleMouseMove(n)
  \/ handleMouseUpHold
  \/ handleMouseUpClick

\* React runs the effects of a committed render without being asked again.
Spec == Init /\ [][Next]_vars /\ WF_vars(Commit)

-----------------------------------------------------------------------------
(* Properties.                                                             *)

\* When the mouse is up and the effects are done, the panel has no width or one
\* between its limits: every drag, click and key may interleave, and the mouse
\* handlers work with values of an earlier render.  The one way out is a closed
\* panel that was dragged past the edge of the window: its negative width is no
\* CSS length, the browser drops it, and the panel is as wide as its content.
WidthIsLegal ==
  Settled /\ drag = Idle => width = 0 \/ width \in minWidth .. maxWidth \/ overshot

\* A panel that the layout has switched off takes no room: the two effects that
\* copy the flag to the width and the width to the flag agree in the end.
OffIsClosed == Settled /\ drag = Idle /\ ~toggleInspectorPanel => width = 0

=============================================================================
