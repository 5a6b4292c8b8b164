--------------------------- MODULE PartialRedraw ---------------------------
(***************************************************************************)
(* How a window's pixels follow its views: the update region that          *)
(* request_redraw and WM_SIZE grow and WM_PAINT consumes                   *)
(* (platform/win/win32_window.cc, win32_app.cc), and the back buffers of   *)
(* the swap chain with the damage recorded for each                        *)
(* (platform/win/win32_graphics_context.cc).                               *)
(*                                                                         *)
(* A window is a strip of cells and a rectangle an interval of them, so    *)
(* the rectangle around two others may hold cells of neither.  Instead of  *)
(* pixels the model keeps which cells do not show the scene as it is.      *)
(*                                                                         *)
(* The swap chain is FLIP_DISCARD: what a buffer holds after it has been   *)
(* presented may be lost.  Presents rotate through the buffers.            *)
(*                                                                         *)
(* A definition named X_mut_Y is the slip Y in X, seeded to see that the   *)
(* properties notice it; the specification never uses one.                 *)
(***************************************************************************)
EXTENDS Naturals, FiniteSets

CONSTANT MaxWidth  \* bounds the width of the window

ASSUME ConstantsAssumption == MaxWidth \in Nat \ {0}

Buffers == {0, 1}           \* BUFFERRED_FRAMES
ForceFullPercent == 85      \* kForceFullDamageRatio

VARIABLES
  width,    \* width_ of the context and of the frame
  live,     \* live_resizing_
  frame,    \* frame_index_
  damage,   \* backbuffer_damage_
  valid,    \* backbuffer_damage_valid_
  invalid,  \* the update region the system keeps for the window
  stale,    \* per buffer, the cells that differ from the scene
  screen,   \* the cells of the screen that differ from the scene
  lapse     \* since the whole window was last shown, or was all to be painted, a
            \* present failed or views changed without asking for a redraw

vars == <<width, live, frame, damage, valid, invalid, stale, screen, lapse>>

Strip(w) == 1..w
All == Strip(width)

Around(S) == {c \in All : \E a, b \in S : a <= c /\ c <= b}

TypeOK ==
  /\ width \in 1..MaxWidth
  /\ live \in BOOLEAN
  /\ frame \in Buffers
  /\ damage \in [Buffers -> SUBSET All]
  /\ valid \in [Buffers -> BOOLEAN]
  /\ invalid \in SUBSET All
  /\ stale \in [Buffers -> SUBSET All]
  /\ screen \in SUBSET All
  /\ lapse \in BOOLEAN

----------------------------------------------------------------------------
(* win32_graphics_context.cc *)

Expand_mut_OnlyAsked(dirty) == Around(dirty)

\* expand_dirty_rect: what has to be drawn to make the current buffer good --
\* everything if it never was, else what is asked and what the others got.
Expand(dirty) ==
  LET others   == {i \in Buffers \ {frame} : valid[i]}
      together == Around(dirty \cup UNION {damage[i] : i \in others})
  IN  IF dirty = {} THEN {}
      ELSE IF ~valid[frame] \/ 100 * Cardinality(together) >= ForceFullPercent * width
      THEN All
      ELSE together

\* What each buffer is behind by once the cells S have changed, and what the
\* current one still is after the draw.
Behind(S) == [i \in Buffers |-> stale[i] \cup S]

Missed(asked, S) == Behind(S)[frame] \ Expand(asked)

Recorded_mut_OnlyAsked(asked) == IF valid[frame] THEN Around(asked) ELSE All

Recorded(asked) == IF valid[frame] THEN Expand(asked) ELSE All

\* synchronize, when Present succeeds.  Outside the presented rectangle the
\* system shows the new buffer or the old screen.
Presented(asked, S) ==
  LET missed == Missed(asked, S)
      shown  == Recorded(asked)
  IN  /\ damage' = [damage EXCEPT ![frame] = shown]
      /\ valid' = [valid EXCEPT ![frame] = TRUE]
      /\ frame' = 1 - frame
      /\ lapse' = FALSE
      /\ screen' \in {missed, ((screen \cup S) \ shown) \cup (missed \cap shown)}
      /\ stale' \in {[Behind(S) EXCEPT ![frame] = kept] : kept \in {missed, All}}

\* An early return, of draw before anything is drawn or of synchronize after:
\* nothing is recorded, and the same buffer is next.
NotPresented(asked, S) ==
  /\ lapse' = TRUE
  /\ stale' \in {Behind(S), [Behind(S) EXCEPT ![frame] = Missed(asked, S)]}
  /\ screen' = screen \cup S
  /\ UNCHANGED <<frame, damage, valid>>

----------------------------------------------------------------------------
(* win32_window.cc, win32_app.cc *)

\* draw, of a rectangle or, with none given or while the window is resized, of
\* the whole window, after the cells S have changed.
Draw(asked, S) ==
  /\ Presented(asked, S) \/ NotPresented(asked, S)
  /\ UNCHANGED <<width, live>>

\* WM_PAINT: the region is validated whatever becomes of the drawing.
Paint ==
  /\ invalid # {}
  /\ invalid' = {}
  /\ Draw(IF live THEN All ELSE Around(invalid), {})

\* A button is pressed, hovered or disabled: it draws the window there and then.
ChangeAndDraw(a, b) ==
  /\ Draw(All, a..b)
  /\ UNCHANGED invalid

Outdated(S) ==
  /\ stale' = Behind(S)
  /\ screen' = screen \cup S
  /\ UNCHANGED <<width, live, frame, damage, valid>>

\* A text_edit changes and calls mark_draw_dirty: its rectangle is to be painted.
Change(a, b) ==
  /\ Outdated(a..b)
  /\ invalid' = invalid \cup a..b
  /\ UNCHANGED lapse

\* add_child, remove_child and mark_layout_dirty change what the next draw shows.
ChangeSilently(a, b) ==
  /\ lapse' = TRUE
  /\ Outdated(a..b)
  /\ UNCHANGED invalid

Resize_mut_NotInvalidated(w) ==
  /\ width' = w
  /\ damage' = [i \in Buffers |-> {}]
  /\ valid' = [i \in Buffers |-> FALSE]
  /\ frame' \in Buffers
  /\ stale' = [i \in Buffers |-> Strip(w)]
  /\ screen' = Strip(w)
  /\ invalid' = invalid \cap Strip(w)
  /\ lapse' = FALSE
  /\ UNCHANGED live

\* WM_SIZE: new buffers, and the whole window is to be painted again.
Resize(w) ==
  /\ width' = w
  /\ damage' = [i \in Buffers |-> {}]
  /\ valid' = [i \in Buffers |-> FALSE]
  /\ frame' \in Buffers
  /\ stale' = [i \in Buffers |-> Strip(w)]
  /\ screen' = Strip(w)
  /\ invalid' = Strip(w)
  /\ lapse' = FALSE
  /\ UNCHANGED live

SameSize ==
  /\ invalid' = All
  /\ lapse' = FALSE
  /\ UNCHANGED <<width, live, frame, damage, valid, stale, screen>>

EnterSizeMove ==
  /\ live' = TRUE
  /\ UNCHANGED <<width, frame, damage, valid, invalid, stale, screen, lapse>>

ExitSizeMove ==
  /\ live' = FALSE
  /\ invalid' = All
  /\ lapse' = FALSE
  /\ UNCHANGED <<width, frame, damage, valid, stale, screen>>

\* The window has just been shown: show() makes the whole of it invalid.
Init ==
  /\ width \in 1..MaxWidth
  /\ live = FALSE
  /\ frame = 0
  /\ damage = [i \in Buffers |-> {}]
  /\ valid = [i \in Buffers |-> FALSE]
  /\ invalid = All
  /\ stale = [i \in Buffers |-> All]
  /\ screen = All
  /\ lapse = FALSE

Next ==
  \/ Paint
  \/ \E a, b \in All : Change(a, b) \/ ChangeSilently(a, b) \/ ChangeAndDraw(a, b)
  \/ \E w \in 1..MaxWidth : w # width /\ Resize(w)
  \/ SameSize
  \/ EnterSizeMove
  \/ ExitSizeMove

Spec == Init /\ [][Next]_vars

\* The message loop sends WM_PAINT whenever it has nothing else to do, and it is
\* assumed to come to that.
FairSpec == Spec /\ WF_vars(Paint)
----------------------------------------------------------------------------
\* What is recorded for a presented buffer is never less than the window: each
\* draw takes over the damage of the other buffer and is itself recorded with
\* it, so the damage of the first frame is never shed and no draw after it is
\* partial (win32_graphics_context.cc 632-701).
DamageIsWhole == \A i \in Buffers : valid[i] => damage[i] = All

\* A successful present leaves the whole screen as the scene is, whatever went
\* wrong before: a failed present, contents the swap chain discarded, or a view
\* that changed without asking for a redraw.
PresentShowsAll == [][frame' # frame /\ valid'[frame] => screen' = {}]_vars

\* Without a lapse, what the screen shows wrongly is in the update region, so a paint
\* will come for it, however the window was resized (win32_window.cc 859-874,
\* win32_app.cc 200-224).
ScreenCurrent == ~lapse => screen \subseteq invalid

\* Each cell that no longer shows the scene is redrawn in the end, unless there is a
\* lapse (win32_app.cc 200-224).
OutdatedIsRedrawn ==
  \A c \in 1..MaxWidth : ~lapse /\ c \in screen ~> lapse \/ c \notin screen
============================================================================
