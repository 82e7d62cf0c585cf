--------------------------- MODULE WorkspaceShell ----------------------------
(***************************************************************************)
(* The frame around the pages: the sidebar with its cookie (ui/sidebar.tsx,*)
(* use-mobile.ts), the theme (useThemeStore.ts), the panels of the canvas  *)
(* layout with their keyboard shortcuts (_workflow_canvas/route.tsx) and   *)
(* the search field of the block panel (SearchBar.tsx), whose DOM focus is *)
(* set by an effect and by a timer.  The layout is around two pages, the   *)
(* builder and the page of a run, and stays while the user goes from one   *)
(* to the other; only the builder has a block panel.  An action is a       *)
(* browser event with the renders and effects it causes.                   *)
(***************************************************************************)

CONSTANTS NoCookie

VARIABLES
  open, openMobile, isMobile,    \* the sidebar, its mobile sheet, the viewport
  sidebarCookie,
  theme, themeCookie,
  page,                          \* the page; the layout is around two of them
  toggleBlockPanel, toggleInspectorPanel, searchFocused,
  prevPanelOpen, timer,          \* the search field's ref and pending timeout
  focus                          \* the element that has the keyboard

sidebarVars == <<open, openMobile, isMobile, sidebarCookie>>
themeVars == <<theme, themeCookie>>
layoutVars == <<toggleBlockPanel, toggleInspectorPanel, searchFocused, prevPanelOpen, timer>>
vars == <<open, openMobile, isMobile, sidebarCookie, theme, themeCookie, page,
          toggleBlockPanel, toggleInspectorPanel, searchFocused, prevPanelOpen, timer, focus>>

TypeOK ==
  /\ {open, openMobile, isMobile} \subseteq BOOLEAN
  /\ page \in {"builder", "run", "other"}
  /\ {toggleBlockPanel, toggleInspectorPanel, searchFocused, prevPanelOpen, timer} \subseteq BOOLEAN
  /\ sidebarCookie \in BOOLEAN \cup {NoCookie}
  /\ theme \in {"light", "dark"} /\ themeCookie \in {"light", "dark", NoCookie}
  /\ focus \in {"body", "search", "field"}

-----------------------------------------------------------------------------
(* The sidebar.                                                            *)

setOpen(value) == open' = value /\ sidebarCookie' = value

toggleSidebar ==
  IF isMobile THEN openMobile' = ~openMobile /\ UNCHANGED <<open, isMobile, sidebarCookie>>
  ELSE setOpen(~open) /\ UNCHANGED <<openMobile, isMobile>>

\* Ctrl or Cmd with b, in any element.
KeyCtrlB ==
  /\ toggleSidebar
  /\ UNCHANGED <<themeVars, page, layoutVars, focus>>

CloseSheet ==
  /\ isMobile /\ openMobile
  /\ openMobile' = FALSE
  /\ UNCHANGED <<open, isMobile, sidebarCookie, themeVars, page, layoutVars, focus>>

\* The viewport crosses MOBILE_BREAKPOINT.
ResizeViewport ==
  /\ isMobile' = ~isMobile
  /\ UNCHANGED <<open, openMobile, sidebarCookie, themeVars, page, layoutVars, focus>>

-----------------------------------------------------------------------------
(* The search field.                                                       *)

\* Mutant: losing the focus tells nobody.
BlurIsSilent(target) == target = "search" \/ searchFocused

\* onFocus and onBlur of the field: the flag once the focus is on target.
FlagAfter(target) == IF focus = "search" \/ target = "search" THEN target = "search"
                     ELSE searchFocused

\* A render with the flag f and the panel p, the focus being on target.  The
\* effect of the field runs when one of them changed, after the cleanup of the
\* last one; a panel that was closed gets its transition's time before the field
\* is focused, and the ref is not updated then.
SearchBar(f, p, target) ==
  LET wasClosed == ~prevPanelOpen /\ p
  IN /\ searchFocused' = f
     /\ toggleBlockPanel' = p
     /\ IF page # "builder" \/ (f = searchFocused /\ p = toggleBlockPanel)
        THEN focus' = target /\ UNCHANGED <<prevPanelOpen, timer>>
        ELSE IF f /\ wasClosed
             THEN timer' = TRUE /\ focus' = target /\ UNCHANGED prevPanelOpen
             ELSE /\ timer' = FALSE
                  /\ prevPanelOpen' = p
                  /\ focus' = IF f THEN "search" ELSE target

TimerFires ==
  /\ timer
  /\ timer' = FALSE
  /\ focus' = "search"
  /\ UNCHANGED <<sidebarVars, themeVars, page, toggleBlockPanel, toggleInspectorPanel,
                 searchFocused, prevPanelOpen>>

\* The user moves the focus: clicks the canvas, another field, or the search
\* field while the panel shows it.
MoveFocus(target) ==
  /\ page # "other" /\ target # focus
  /\ target = "search" => page = "builder" /\ toggleBlockPanel
  /\ SearchBar(FlagAfter(target), toggleBlockPanel, target)
  /\ UNCHANGED <<sidebarVars, themeVars, page, toggleInspectorPanel>>

-----------------------------------------------------------------------------
(* The shortcuts of the canvas layout, on both of its pages: none of them  *)
(* in a text field.                                                        *)

Shortcut == page # "other" /\ focus = "body"

KeySlash ==
  /\ Shortcut
  /\ SearchBar(TRUE, TRUE, focus)
  /\ UNCHANGED <<sidebarVars, themeVars, page, toggleInspectorPanel>>

KeyF ==
  LET shown == ~(toggleBlockPanel \/ toggleInspectorPanel \/ open)
  IN /\ Shortcut
     /\ setOpen(shown)
     /\ toggleInspectorPanel' = shown
     /\ SearchBar(searchFocused, shown, focus)
     /\ UNCHANGED <<openMobile, isMobile, themeVars, page>>

KeyB ==
  /\ Shortcut
  /\ SearchBar(searchFocused, ~toggleBlockPanel, focus)
  /\ UNCHANGED <<sidebarVars, themeVars, page, toggleInspectorPanel>>

KeyI ==
  /\ Shortcut
  /\ toggleInspectorPanel' = ~toggleInspectorPanel
  /\ UNCHANGED <<sidebarVars, themeVars, page, toggleBlockPanel, searchFocused,
                 prevPanelOpen, timer, focus>>

\* The menu button of the builder's header takes the focus and the panel away.
CollapseButton ==
  /\ page = "builder"
  /\ SearchBar(FlagAfter("body"), ~toggleBlockPanel, "body")
  /\ UNCHANGED <<sidebarVars, themeVars, page, toggleInspectorPanel>>

-----------------------------------------------------------------------------
(* The theme, and the pages.                                               *)

toggleTheme ==
  /\ theme' = IF theme = "light" THEN "dark" ELSE "light"
  /\ themeCookie' = theme'
  /\ UNCHANGED <<sidebarVars, page, layoutVars, focus>>

getInitialTheme == IF themeCookie = NoCookie THEN "light" ELSE themeCookie

\* The inspector shows itself on the builder, and the page of a run closes it.
MountInspector(p) == toggleInspectorPanel' = (p # "run")

\* A layout that comes up shows the panels of its page and closes the sidebar.
MountLayout(p) ==
  /\ toggleBlockPanel' = TRUE /\ MountInspector(p)
  /\ searchFocused' = FALSE /\ prevPanelOpen' = TRUE /\ timer' = FALSE
  /\ focus' = "body"

OpenCanvas(p) ==
  /\ page = "other"
  /\ page' = p
  /\ MountLayout(p)
  /\ setOpen(FALSE)
  /\ UNCHANGED <<openMobile, isMobile, themeVars>>

\* From one page of the layout to the other.  A field that is taken out of the
\* page loses the focus and its timer, and React tells nobody; one that comes up
\* with the flag set takes the focus at once.
SwitchPage(p) ==
  /\ page # "other" /\ p # page
  /\ page' = p
  /\ MountInspector(p)
  /\ prevPanelOpen' = toggleBlockPanel /\ timer' = FALSE
  /\ focus' = IF p = "builder" /\ searchFocused THEN "search" ELSE "body"
  /\ UNCHANGED <<sidebarVars, themeVars, toggleBlockPanel, searchFocused>>

\* Another page: the layout and its timer are gone.
LeaveCanvas ==
  /\ page # "other"
  /\ page' = "other"
  /\ MountLayout("other")
  /\ UNCHANGED <<sidebarVars, themeVars>>

\* The page is loaded again: SidebarProvider is given no state and starts
\* with defaultOpen.
Reload ==
  /\ IF page # "other" THEN setOpen(FALSE) ELSE open' = TRUE /\ UNCHANGED sidebarCookie
  /\ openMobile' = FALSE
  /\ theme' = getInitialTheme
  /\ MountLayout(page)
  /\ UNCHANGED <<isMobile, themeCookie, page>>

-----------------------------------------------------------------------------
Init ==
  /\ open = TRUE /\ openMobile = FALSE /\ isMobile \in BOOLEAN
  /\ sidebarCookie = NoCookie
  /\ theme = "light" /\ themeCookie = NoCookie
  /\ page = "other"
  /\ toggleBlockPanel = TRUE /\ toggleInspectorPanel = TRUE
  /\ searchFocused = FALSE /\ prevPanelOpen = TRUE /\ timer = FALSE
  /\ focus = "body"

Next ==
  \/ KeyCtrlB \/ CloseSheet \/ ResizeViewport
  \/ TimerFires \/ \E e \in {"body", "search", "field"} : MoveFocus(e)
  \/ KeySlash \/ KeyF \/ KeyB \/ KeyI \/ CollapseButton
  \/ toggleTheme \/ LeaveCanvas \/ Reload
  \/ \E p \in {"builder", "run"} : OpenCanvas(p) \/ SwitchPage(p)

\* The browser runs a timeout that is not cleared.
Spec == Init /\ [][Next]_vars /\ WF_vars(TimerFires)

-----------------------------------------------------------------------------
(* Properties.                                                             *)

\* "/ to search" is never dead on the builder: setSearchFocused(true) runs the
\* effect that focuses the field only if the flag was false, so whenever the
\* field has neither the focus nor a pending timer the flag is false.  On the
\* page of a run "/" sets a flag that nobody reads; it stays set, and the builder
\* that comes up next takes the focus for it.
SlashNeverDead == page = "builder" /\ searchFocused => timer \/ focus = "search"

\* A pending timer belongs to a panel that is open: closing the panel, moving
\* the focus or leaving the builder clears it.
TimerOnlyWhileOpen == timer => searchFocused /\ toggleBlockPanel /\ page = "builder"

\* The flag is set and the field has not got the focus yet.
SearchWaits == page = "builder" /\ searchFocused /\ focus # "search"

=============================================================================
