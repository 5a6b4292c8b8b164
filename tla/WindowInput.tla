---------------------------- MODULE WindowInput ----------------------------
(***************************************************************************)
(* The mouse and the focus in one window: priv::window::on_native_event of *)
(* win32_window.cc, the capture and the tracking it asks the system for,   *)
(* and the buttons and text edits it routes events to.                     *)
(*                                                                         *)
(* A message is one step, as its handler runs to the end in the thread of  *)
(* the window.  The view under the pointer comes with the message; it is   *)
(* in the content only after a WM_MOUSEMOVE was delivered.  Pads stand for *)
(* views of the application that handle every press and release.  A        *)
(* TrackMouseEvent that fails is left out, and so are the keys, which      *)
(* change nothing here.                                                    *)
(*                                                                         *)
(* A careful application takes no view away from under the pointer, the    *)
(* capture or the focus, puts no button into another, and never has        *)
(* cancel_interaction called.  The first time it does one of these makes   *)
(* it careless for good.                                                   *)
(*                                                                         *)
(* A definition named X_mut_Y is the slip Y in X, seeded to see that the   *)
(* properties notice it; the specification never uses one.                 *)
(***************************************************************************)
EXTENDS Naturals, FiniteSets

CONSTANTS
  Buttons, Edits, Pads,  \* the views of the application
  Content,               \* the content view, a plain view
  None                   \* the null view

Controls == Buttons \cup Edits \cup Pads
Views == Controls \cup {Content}

ASSUME ConstantsAssumption ==
  /\ Content \notin Controls /\ None \notin Views
  /\ Buttons \cap Edits = {} /\ Buttons \cap Pads = {} /\ Edits \cap Pads = {}

VARIABLES
  above,     \* each view and its ancestors, by parent_
  enabled,   \* buttons with enabled_
  editable,  \* edits with editable_
  hovered,   \* buttons with hovered_
  pressed,   \* buttons with pressed_
  focused,   \* edits with focused_
  hover,     \* hover_view_
  capture,   \* capture_view_
  focus,     \* focus_view_
  down,      \* mouse_buttons_down_
  native,    \* the window has the mouse capture of the system
  tracking,  \* tracking_mouse_leave_
  clicked,   \* the button whose on_click_ the last step called
  conduct    \* of the application so far

controls == <<above, enabled, editable, conduct>>
vars == <<controls, hovered, pressed, focused, hover, capture, focus, down, native,
          tracking, clicked>>

MouseButtons == {"left", "right"}

TypeOK ==
  /\ above \in [Views -> SUBSET Views]
  /\ enabled \subseteq Buttons /\ hovered \subseteq Buttons /\ pressed \subseteq Buttons
  /\ editable \subseteq Edits /\ focused \subseteq Edits
  /\ hover \in Views \cup {None}
  /\ capture \in Controls \cup {None}
  /\ focus \in Controls \cup {None}
  /\ down \subseteq MouseButtons
  /\ native \in BOOLEAN /\ tracking \in BOOLEAN
  /\ clicked \in Buttons \cup {None}
  /\ conduct \in {"careful", "careless"}

\* The application does something, careful or not.
Does(isCareful) == conduct' = IF isCareful THEN conduct ELSE "careless"

\* The views an event for v is offered to.
Above(v) == IF v = None THEN {} ELSE above[v]

Shown == {v \in Views : Content \in Above(v)}

\* What hit_test may find.
Hits == IF tracking THEN Shown \cup {None} ELSE {None}

\* route_mouse_event: the first view of S that is offered an event for v.
Nearest(v, S) == {h \in Above(v) \cap S : Above(v) \cap S \subseteq Above(h)}

----------------------------------------------------------------------------
(* update_hover_view: leaving and entering are offered to every ancestor,  *)
(* as no view handles them.                                                *)

HoveredAfter_mut_LeafOnly(h, on, from, to) ==
  IF from = to THEN h ELSE (h \ {from}) \cup (Above(to) \cap on)

HoveredAfter(h, on, from, to) ==
  IF from = to THEN h ELSE (h \ Above(from)) \cup (Above(to) \cap on)

PressedAfter_mut_Stays(p, from, to) == p

PressedAfter(p, from, to) == IF from = to THEN p ELSE p \ Above(from)

UpdateHover(v) ==
  /\ hover' = v
  /\ hovered' = HoveredAfter(hovered, enabled, hover, v)

ClearCapture == capture' = None /\ down' = {} /\ native' = FALSE

\* set_focus_view
SetFocus_mut_Silent(v) ==
  LET next == IF v \in Edits \ editable THEN None ELSE v
  IN  /\ focus' = next
      /\ focused' = focused \cup ({next} \cap Edits)

SetFocus(v) ==
  LET next == IF v \in Edits \ editable THEN None ELSE v
  IN  /\ focus' = next
      /\ focused' = IF next = focus THEN focused
                    ELSE (focused \ {focus}) \cup ({next} \cap Edits)

----------------------------------------------------------------------------
(* The messages. *)

MouseMove(v) ==
  /\ v \in Shown \cup {None}
  /\ tracking' = TRUE
  /\ clicked' = None
  /\ \/ /\ capture = None
        /\ UpdateHover(v)
        /\ pressed' = PressedAfter(pressed, hover, v)
     \/ /\ capture # None
        /\ UNCHANGED <<hover, hovered, pressed>>
  /\ UNCHANGED <<controls, focused, capture, focus, down, native>>

MouseLeave ==
  /\ tracking
  /\ tracking' = FALSE
  /\ clicked' = None
  /\ UpdateHover(None)
  /\ pressed' = PressedAfter(pressed, hover, None)
  /\ UNCHANGED <<controls, focused, capture, focus, down, native>>

Presses(b) == Pads \cup IF b = "left" THEN enabled \cup Edits ELSE {}

ButtonDown(v, b) ==
  /\ v \in Hits /\ b \in MouseButtons \ down
  /\ UpdateHover(v)
  /\ clicked' = None
  /\ LET handler == Nearest(v, Presses(b))
         held == PressedAfter(pressed, hover, v)
     IN  \/ /\ handler = {}
            /\ pressed' = held
            /\ UNCHANGED <<focused, capture, focus, down, native>>
         \/ \E h \in handler :
              /\ pressed' = held \cup ({h} \cap Buttons)
              /\ capture' = h
              /\ down' = down \cup {b}
              /\ native' = TRUE
              /\ SetFocus(h)
  /\ UNCHANGED <<controls, tracking>>

\* What on_click_ does: nothing of this window, disables its button, or has
\* cancel_interaction called.
Callbacks == {"nothing", "disables", "cancels"}

Releases(b) == Pads \cup IF b = "left" THEN pressed \cap enabled ELSE {}

\* The target of a release: the capture, wherever the pointer is.
Target(v) == IF capture # None THEN capture ELSE v

ButtonUp_mut_KeepsCapture(v, b) ==
  /\ v \in Hits /\ b \in MouseButtons
  /\ LET clicks == Nearest(Target(v), Releases(b)) \cap Buttons
     IN  /\ clicked' \in IF clicks = {} THEN {None} ELSE clicks
         /\ pressed' = PressedAfter(pressed \ clicks, hover, v)
  /\ down' = down \ {b}
  /\ UpdateHover(v)
  /\ UNCHANGED <<controls, focused, focus, capture, native, tracking>>

ButtonUp(v, b) ==
  /\ v \in Hits /\ b \in MouseButtons
  /\ LET handler == Nearest(Target(v), Releases(b))
         clicks == handler \cap Buttons
     IN  \E does \in IF clicks = {} THEN {"nothing"} ELSE Callbacks :
          LET was == IF does = "cancels" THEN None ELSE hover
              held == IF does = "cancels" THEN {} ELSE down \ {b}
              still == IF does = "disables" THEN hovered \ clicks ELSE hovered
          IN  /\ Does(does # "cancels")
              /\ clicked' \in IF clicks = {} THEN {None} ELSE clicks
              /\ enabled' = IF does = "disables" THEN enabled \ clicks ELSE enabled
              /\ down' = held
              /\ capture' = IF held = {} THEN None ELSE capture
              /\ native' = (native /\ held # {})
              /\ focus' = IF does = "cancels" THEN None ELSE focus
              /\ hover' = v
              /\ hovered' = HoveredAfter(still, enabled', was, v)
              /\ pressed' = PressedAfter(pressed \ clicks, was, v)
  /\ UNCHANGED <<above, editable, focused, tracking>>

\* WM_KILLFOCUS; on_window_activate(false) does the same.
KillFocus ==
  /\ ClearCapture
  /\ SetFocus(None)
  /\ UpdateHover(None)
  /\ pressed' = PressedAfter(pressed, hover, None)
  /\ clicked' = None
  /\ UNCHANGED <<controls, tracking>>

\* WM_CAPTURECHANGED: another window took the capture.
CaptureChanged ==
  /\ native
  /\ ClearCapture
  /\ clicked' = None
  /\ UNCHANGED <<controls, hovered, pressed, focused, hover, focus, tracking>>

----------------------------------------------------------------------------
(* What the application calls. *)

\* clear_interaction_state
CancelInteraction ==
  /\ Does(FALSE)
  /\ ClearCapture
  /\ hover' = None /\ focus' = None
  /\ clicked' = None
  /\ UNCHANGED <<above, enabled, editable, hovered, pressed, focused, tracking>>

\* The content view is replaced by an empty one.
SetContentView ==
  /\ Does(hover = None)
  /\ ClearCapture
  /\ hover' = None
  /\ SetFocus(None)
  /\ above' = [u \in Views |-> IF u = Content THEN above[u] ELSE above[u] \ {Content}]
  /\ clicked' = None
  /\ UNCHANGED <<enabled, editable, hovered, pressed, tracking>>

InUse(v) == \E u \in {hover, capture, focus} : v \in Above(u)

NestsButtons(p, v) ==
  above[p] \cap Buttons # {} /\ \E b \in Buttons : v \in above[b]

AddChild(p, v) ==
  /\ above[v] = {v} /\ v \notin above[p]
  /\ Does(~InUse(v) /\ ~NestsButtons(p, v))
  /\ above' = [u \in Views |-> IF v \in above[u] THEN above[u] \cup above[p] ELSE above[u]]
  /\ clicked' = None
  /\ UNCHANGED <<enabled, editable, hovered, pressed, focused, hover, capture, focus,
                 down, native, tracking>>

RemoveChild(v) ==
  /\ above[v] # {v}
  /\ Does(~InUse(v))
  /\ above' = [u \in Views |-> IF v \in above[u] THEN {w \in above[u] : v \in above[w]}
                                               ELSE above[u]]
  /\ clicked' = None
  /\ UNCHANGED <<enabled, editable, hovered, pressed, focused, hover, capture, focus,
                 down, native, tracking>>

Enable_mut_KeepsPress(b) ==
  /\ enabled' = IF b \in enabled THEN enabled \ {b} ELSE enabled \cup {b}
  /\ hovered' = hovered \ {b}
  /\ clicked' = None
  /\ UNCHANGED <<above, editable, pressed, focused, hover, capture, focus, down, native,
                 tracking, conduct>>

\* button::enabled
Enable(b) ==
  /\ enabled' = IF b \in enabled THEN enabled \ {b} ELSE enabled \cup {b}
  /\ hovered' = hovered \ {b}
  /\ pressed' = pressed \ {b}
  /\ clicked' = None
  /\ UNCHANGED <<above, editable, focused, hover, capture, focus, down, native, tracking,
                 conduct>>

\* text_edit::set_editable
SetEditable(e) ==
  /\ editable' = IF e \in editable THEN editable \ {e} ELSE editable \cup {e}
  /\ clicked' = None
  /\ UNCHANGED <<above, enabled, hovered, pressed, focused, hover, capture, focus, down,
                 native, tracking, conduct>>

Init ==
  /\ above = [v \in Views |-> {v}]
  /\ enabled = Buttons /\ editable = Edits
  /\ hovered = {} /\ pressed = {} /\ focused = {}
  /\ hover = None /\ capture = None /\ focus = None
  /\ down = {} /\ native = FALSE /\ tracking = FALSE
  /\ clicked = None
  /\ conduct = "careful"

Next ==
  \/ \E v \in Views \cup {None} : MouseMove(v)
  \/ \E v \in Views \cup {None}, b \in MouseButtons : ButtonDown(v, b) \/ ButtonUp(v, b)
  \/ MouseLeave
  \/ KillFocus
  \/ CaptureChanged
  \/ CancelInteraction
  \/ SetContentView
  \/ \E p \in Views, v \in Controls : AddChild(p, v)
  \/ \E v \in Controls : RemoveChild(v)
  \/ \E b \in Buttons : Enable(b)
  \/ \E e \in Edits : SetEditable(e)

Spec == Init /\ [][Next]_vars
----------------------------------------------------------------------------
\* The window holds the capture of the system, and a view the capture of the window,
\* exactly while a button of the mouse is down that a view handled (win32_window.cc
\* 457-463, 562-565, 595-598).
CaptureHeld == (native <=> capture # None) /\ (capture = None <=> down = {})

\* While the application is careful no button stays highlighted or pressed away from the
\* pointer (win32_window.cc 419-439, button.cc 262-306).
UnderPointer == conduct = "careful" => hovered \cup pressed \subseteq Above(hover)

\* The system will tell when the pointer leaves a hovered view, by a WM_MOUSELEAVE at
\* the latest (win32_window.cc 495-511).
HoverEnds == hover # None => tracking

\* While the application is careful a text edit thinks it has the focus exactly when the
\* window does (win32_window.cc 441-455).
FocusMatches == conduct = "careful" => focused = {focus} \cap Edits

\* A disabled button is neither highlighted nor pressed, and forgets a press for good
\* (button.cc 286-328).
DisabledIsIdle == hovered \cup pressed \subseteq enabled

\* While the application is careful a click comes from a press of the same button with no
\* other view pressed since: nothing else has the capture, and the pointer was over no
\* view outside the button (win32_window.cc 572-602, button.cc 262-284).
ClickIsOwnPress ==
  [][conduct = "careful" /\ clicked' # None
       => capture \in {None, clicked'} /\ clicked' \in Above(hover)]_vars
============================================================================
