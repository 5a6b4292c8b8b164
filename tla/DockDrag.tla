------------------------------ MODULE DockDrag ------------------------------
(***************************************************************************)
(* Dragging docked views by their headers: dock_item_host_view's mouse     *)
(* handlers and the drop preview (view/dock_view.cc 30-322), driven by the *)
(* capture logic of window (platform/win/win32_window.cc), on top of the   *)
(* docking tree.                                                           *)
(*                                                                         *)
(* A host stays under one dock for its whole life, so the window it was    *)
(* pressed in (drag_source_window_) is its dock's.  The pointer is         *)
(* abstracted to what the handlers ask of it: whether it has left the drag *)
(* threshold, and over which zone of the remembered dock it is.  A press   *)
(* inside a host that a content view takes (button, text_edit) gives the   *)
(* content the capture; its moves, and its release if the content does not *)
(* take that, still bubble up to the host.                                 *)
(*                                                                         *)
(* Events that reach a host after it was destroyed (a double click floats  *)
(* the view while its old host holds the capture) have no effect here.     *)
(* The application does not itself undock or move the view under the       *)
(* pointer while a press on its host lasts.                                *)
(***************************************************************************)
EXTENDS Docking

VARIABLES
  gesture,  \* header_pressed_ and dragging_ of every host
  capture,  \* capture_view_ of the window that has the mouse, as a host and
            \* whether the host itself or a view inside it took the press
  preview   \* drop_preview_state()

dragVars == <<tree, win, gesture, capture, preview>>

NoCapture == [host |-> None, by |-> "none"]
NoPreview == [target |-> None, pos |-> Fill]

DragTypeOK ==
  /\ TypeOK
  /\ gesture \in [Host -> {"idle", "pressed", "dragging"}]
  /\ capture \in [host : Host, by : {"header", "content"}] \cup {NoCapture}
  /\ preview \in [target : AppDocks, pos : Position] \cup {NoPreview}

Live(h) == tree.item[h] # None

\* A new host starts idle, whatever happened to an earlier one of its name.
Survivors(t, g) == [h \in Host |-> IF t.item[h] = None THEN "idle" ELSE g[h]]

\* cancel_interaction on the windows of the given docks.
CaptureOutside(docks) ==
  IF capture # NoCapture /\ capture.host[1] \in docks THEN NoCapture ELSE capture

----------------------------------------------------------------------------
(* Pressing. *)

\* The header is hit, or a press on content that nothing inside takes.
PressHeader(h) ==
  /\ Live(h) /\ capture = NoCapture
  /\ gesture' = [gesture EXCEPT ![h] = "pressed"]
  /\ capture' = [host |-> h, by |-> "header"]
  /\ UNCHANGED <<tree, win, preview>>

\* A view inside the host takes the press; the host never hears of it.
PressContent(h) ==
  /\ Live(h) /\ capture = NoCapture
  /\ capture' = [host |-> h, by |-> "content"]
  /\ UNCHANGED <<tree, win, gesture, preview>>

\* The second press of a double click floats a docked view or redocks a floating
\* one; the capture then goes to the host that is gone with its old place.
DoubleClick(h) ==
  /\ Live(h) /\ capture = NoCapture
  /\ \/ h[1] \in AppDocks /\ UndockToWindow(h[1], h[2])
        /\ capture' = [host |-> h, by |-> "header"]
     \/ h[1] \in Floats /\ CloseFloat(h[1])
        /\ capture' = NoCapture
  /\ gesture' = Survivors(tree', gesture)
  /\ UNCHANGED preview

\* What a press means later is decided by the host's own flags.
Pressed(h) == Live(h) /\ gesture[h] # "idle"

\* Only the capture keeps a button down for a move to count as a drag.
Moving(h) == Pressed(h) /\ capture.host = h

DragPast_mut_KeepsPreview(h) ==
  /\ Moving(h)
  /\ gesture' = [gesture EXCEPT ![h] = "dragging"]
  /\ \/ UNCHANGED preview
     \/ h[1] \in Floats /\ preview' \in [target : {win[h[1]].target} \ {None}, pos : Position]
  /\ UNCHANGED <<tree, win, capture>>

\* Past the threshold.  Only a floating window's header drives the preview: the
\* zone of the dock it came from under the pointer, or nothing.
DragPast(h) ==
  /\ Moving(h)
  /\ gesture' = [gesture EXCEPT ![h] = "dragging"]
  /\ IF h[1] \in AppDocks THEN UNCHANGED preview
     ELSE preview' \in {NoPreview} \cup
                       [target : {win[h[1]].target} \ {None}, pos : Position]
  /\ UNCHANGED <<tree, win, capture>>

----------------------------------------------------------------------------
(* Releasing. *)

Drop_mut_GoesHome(h) ==
  IF gesture[h] # "dragging" \/ (h[1] \in Floats /\ preview.target = None)
  THEN UNCHANGED <<tree, win>>
  ELSE IF h[1] \in Floats THEN RedockTo(h[1], win[h[1]].target, win[h[1]].pos)
  ELSE UndockToWindow(h[1], h[2])

\* The host takes the release: a pressed header only goes back to idle; a drag
\* redocks a floating window where the preview is, or floats a docked view,
\* which a preview redocks at once.
Drop(h) ==
  LET d == h[1]  c == h[2]
      shown == preview.target # None
  IN
  IF gesture[h] # "dragging" \/ (d \in Floats /\ ~shown)
  THEN UNCHANGED <<tree, win>>
  ELSE IF d \in Floats THEN RedockTo(d, preview.target, preview.pos)
  ELSE IF ~shown THEN UndockToWindow(d, c)
  ELSE \E w \in Floats :
         /\ ~win[w].open
         /\ tree' = RedockView(FloatView(tree, w, c), w, c, preview.target, preview.pos)
         /\ UNCHANGED win

\* A release goes to the captured view or, after the window has forgotten the
\* capture, to the view under the pointer: the flags of the host outlive it.
Release(h) ==
  /\ Pressed(h) /\ capture.host \in {h, None}
  /\ Drop(h)
  /\ gesture' = Survivors(tree', [gesture EXCEPT ![h] = "idle"])
  /\ capture' = NoCapture
  /\ preview' = NoPreview

\* A release the host does not act on: taken by the content, or the host is
\* idle or gone.
ReleaseElsewhere ==
  /\ capture # NoCapture
  /\ ~(capture.by = "header" /\ Moving(capture.host))
  /\ capture' = NoCapture
  /\ UNCHANGED <<tree, win, gesture, preview>>

\* WM_KILLFOCUS, WM_CAPTURECHANGED: the window forgets the capture, the host and
\* the preview are not told.
LoseCapture ==
  /\ capture # NoCapture
  /\ capture' = NoCapture
  /\ UNCHANGED <<tree, win, gesture, preview>>

----------------------------------------------------------------------------
(* The application's own calls, between the user's events. *)

NotUnderPointer(c) == capture.host = None \/ capture.host \notin Dock \X {c}

\* undock_to_window cancels the interaction of the window it takes the view from.
AppMoves ==
  \/ /\ UNCHANGED capture
     /\ \/ \E d \in AppDocks, c \in Views, p \in Position :
             NotUnderPointer(c) /\ AppDock(d, c, p)
        \/ \E d \in AppDocks, c \in Views : NotUnderPointer(c) /\ AppUndock(d, c)
  \/ \E d \in AppDocks, c \in Views :
       /\ NotUnderPointer(c) /\ UndockToWindow(d, c)
       /\ capture' = CaptureOutside({d})

\* redock_to, with close()'s own dock or another, cancels the interaction of both
\* windows it touches.
WindowCloses ==
  \E w \in Floats, d \in AppDocks, p \in Position :
    /\ RedockTo(w, d, p)
    /\ capture' = CaptureOutside({w, d})

AppStep ==
  /\ AppMoves \/ WindowCloses
  /\ gesture' = Survivors(tree', gesture)
  /\ UNCHANGED preview

DragInit ==
  /\ Init
  /\ gesture = [h \in Host |-> "idle"]
  /\ capture = NoCapture
  /\ preview = NoPreview

DragNext ==
  \/ \E h \in Host : PressHeader(h) \/ PressContent(h) \/ DoubleClick(h)
  \/ \E h \in Host : DragPast(h) \/ Release(h)
  \/ ReleaseElsewhere
  \/ LoseCapture
  \/ AppStep

DragSpec == DragInit /\ [][DragNext]_dragVars
----------------------------------------------------------------------------
\* While a floating window is dragged by its header the preview marks the dock
\* that window remembers or nothing, whatever an earlier, interrupted drag left
\* behind (dock_view.cc 113-133).
PreviewBelongsToDragged ==
  \A w \in Floats, c \in Views :
    /\ capture = [host |-> <<w, c>>, by |-> "header"]
    /\ gesture[<<w, c>>] = "dragging"
    => preview.target \in {None, win[w].target}

\* A drop docks the view where the preview was, in the zone it showed: the
\* preview is read before it is cleared (dock_view.cc 283-316).
DropsWherePreviewed ==
  [][\A w \in Floats :
       /\ win[w].open /\ ~win'[w].open
       /\ preview.target # None /\ preview' = NoPreview
       => tree'.item[<<preview.target, win[w].hosted>>] = preview.pos]_dragVars

\* Releasing a view dragged out of a dock leaves it in a floating window
\* (dock_native_drag_smoke_test.cc waits for that second window).
DraggedOutFloats ==
  [][\A d \in AppDocks, c \in Views :
       /\ capture = [host |-> <<d, c>>, by |-> "header"] /\ capture' = NoCapture
       /\ gesture[<<d, c>>] = "dragging" /\ gesture'[<<d, c>>] = "idle"
       => PlaceOf(c)' \in Floats]_dragVars
============================================================================
