----------------------------- MODULE DockPlaces -----------------------------
(***************************************************************************)
(* What docking promises a user, with no tree: each view is nowhere, in    *)
(* one dock of the application, or alone in one floating window that       *)
(* remembers the dock to return it to.                                     *)
(***************************************************************************)
CONSTANTS Views, AppDocks, Floats, None

VARIABLES
  place,  \* the dock or floating window that shows each view
  home    \* for a floating view, the dock its window goes back to

placeVars == <<place, home>>

Move(c, d, h) ==
  /\ place' = [place EXCEPT ![c] = d]
  /\ home' = [home EXCEPT ![c] = h]

Dock(c, d) == place[c] = None /\ Move(c, d, None)

Undock(c) == place[c] \in AppDocks /\ Move(c, None, None)

Float(c, w, d) ==
  /\ place[c] \in {None, d}
  /\ \A x \in Views : place[x] # w
  /\ Move(c, w, d)

\* Back to any dock the caller names.
Redock(c, d) == place[c] \in Floats /\ Move(c, d, None)

\* The window is closed, and nobody names a dock: the view goes home.
Close(c) == place[c] \in Floats /\ Move(c, home[c], None)

Init ==
  /\ place = [c \in Views |-> None]
  /\ home = [c \in Views |-> None]

Next ==
  \E c \in Views :
    \/ Undock(c) \/ Close(c)
    \/ \E d \in AppDocks : Dock(c, d) \/ Redock(c, d) \/ \E w \in Floats : Float(c, w, d)

Spec == Init /\ [][Next]_placeVars
============================================================================
