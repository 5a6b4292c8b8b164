------------------------------ MODULE TextEdit ------------------------------
(***************************************************************************)
(* Text edits (view/text_edit.cc) in the windows that show them: the text, *)
(* the caret and the selection, the focus a window gives, and the timers   *)
(* of the windows (platform/win/win32_window.cc) that make carets blink.   *)
(*                                                                         *)
(* Everything runs in one thread, a message or a call at a time.  A        *)
(* SetTimer that fails is left out.  A WM_TIMER that comes after its timer *)
(* was stopped finds nothing, as a window uses no identifier twice, and so *)
(* is no step here.                                                        *)
(*                                                                         *)
(* What the code relies on and does not check is a guard here: no edit is  *)
(* moved or removed while it thinks it has the focus, which it does for    *)
(* good if its window closes then; none is destroyed in a window; and no   *)
(* cancel_interaction takes the focus away.  Docking with the mouse keeps  *)
(* to it, as the press on a title takes the focus from the edit first.     *)
(* And on_text_changed_, called halfway through insert_text, leaves the    *)
(* focus alone and makes no edit read-only for a moment only.              *)
(*                                                                         *)
(* A definition named X_mut_Y is the slip Y in X, seeded to see that the   *)
(* properties notice it; the specification never uses one.                 *)
(***************************************************************************)
EXTENDS Naturals, Sequences, FiniteSets

CONSTANTS
  Edits, Windows,
  Letters,      \* the characters in use
  Newline,      \* the letter that ends a line
  None,         \* no window, no edit, no position
  MaxText,      \* bounds the length of each edit's text
  MaxTimer      \* bounds the timers a window ever starts

ASSUME ConstantsAssumption ==
  /\ Newline \in Letters
  /\ None \notin Edits \cup Windows \cup Nat
  /\ MaxText \in [Edits -> Nat]
  /\ MaxTimer \in Nat \ {0}

VARIABLES
  edit,      \* the members of each text_edit
  alive,     \* the edits not destroyed
  place,     \* owning_window of each edit
  focus,     \* focus_view_ of each window
  timers,    \* timers_ of each window: <<identifier, the edit its callback is of>>
  nextTimer, \* next_timer_id_ of each window
  open       \* the windows with a native window

views == <<alive, place, focus, open>>
vars == <<edit, views, timers, nextTimer>>

EditState ==
  [text: Seq(Letters), cursor: Nat,
   from: Nat, to: Nat,               \* selection_start_, selection_end_
   last: Nat \cup {None},            \* last_edit_pos_, once has_last_edit_pos_
   editable: BOOLEAN, focused: BOOLEAN, visible: BOOLEAN,  \* caret_visible_
   timer: Nat]                       \* caret_timer_id_, 0 for none

TypeOK ==
  /\ edit \in [Edits -> EditState]
  /\ \A e \in Edits : edit[e].to <= edit[e].cursor /\ edit[e].cursor <= Len(edit[e].text)
  /\ alive \subseteq Edits
  /\ place \in [Edits -> Windows \cup {None}]
  /\ focus \in [Windows -> Edits \cup {None}]
  /\ timers \in [Windows -> SUBSET ((1..MaxTimer) \X Edits)]
  /\ nextTimer \in [Windows -> 1..(MaxTimer + 1)]
  /\ open \subseteq Windows

----------------------------------------------------------------------------
(* What the operations make of one edit s. *)

\* reset_caret_blink
Blink(s) == [s EXCEPT !.visible = s.editable /\ s.focused]

\* The caret at p with nothing selected: what every edit ends with.
At(s, p) == Blink([s EXCEPT !.cursor = p, !.from = p, !.to = p, !.last = p])

MoveCursor_mut_NoClamp(s, p) == At(s, p)

MoveCursor(s, p) == At(s, IF p > Len(s.text) THEN Len(s.text) ELSE p)

SelectAll(s) ==
  LET end == Len(s.text)
  IN  Blink([s EXCEPT !.from = 0, !.to = end, !.cursor = end, !.last = end])

HasSelection(s) == s.from # s.to

\* string::erase
Erase(t, i, n) == SubSeq(t, 1, i) \o SubSeq(t, i + n + 1, Len(t))

DeleteSelection(s) ==
  LET start == IF s.from < s.to THEN s.from ELSE s.to
      end == IF s.from < s.to THEN s.to ELSE s.from
  IN  At([s EXCEPT !.text = Erase(@, start, end - start)], start)

SetText(s, t) == IF s.text = t THEN s ELSE At([s EXCEPT !.text = t], Len(t))

Insert(s, c) ==
  At([s EXCEPT !.text = SubSeq(@, 1, s.cursor) \o <<c>> \o SubSeq(@, s.cursor + 1, Len(@))],
     s.cursor + 1)

Backspace(s) ==
  IF HasSelection(s) THEN DeleteSelection(s)
  ELSE IF s.cursor = 0 THEN s
  ELSE At([s EXCEPT !.text = Erase(@, s.cursor - 1, 1)], s.cursor - 1)

DeleteForward(s) ==
  IF HasSelection(s) THEN DeleteSelection(s)
  ELSE IF s.cursor >= Len(s.text) THEN s
  ELSE At([s EXCEPT !.text = Erase(@, s.cursor, 1)], s.cursor)

\* stop_caret_blink_timer and start_caret_blink_timer, of an edit in window w.
Stopped(s) == [s EXCEPT !.timer = 0]

Started(s, w) ==
  IF s.editable /\ s.focused /\ s.timer = 0 /\ w # None
  THEN [s EXCEPT !.timer = nextTimer[w]]
  ELSE s

\* on_focus_changed
Blurred(s) == Stopped([s EXCEPT !.focused = FALSE, !.visible = FALSE])

Focused(s, w) ==
  Started(MoveCursor([s EXCEPT !.focused = TRUE], IF s.last = None THEN s.cursor ELSE s.last), w)

SetEditable(s, on, w) ==
  IF on THEN LET t == [s EXCEPT !.editable = TRUE]
             IN  IF s.focused THEN Started(Blink(t), w) ELSE t
        ELSE Stopped([s EXCEPT !.editable = FALSE, !.visible = FALSE])

----------------------------------------------------------------------------
(* The lines of a text and the caret among them, as draw needs them. *)

Lines(t) ==
  LET rest[i \in 1..(Len(t) + 1)] ==
        LET ends == {j \in i..Len(t) : t[j] = Newline}
            end == CHOOSE j \in ends : \A k \in ends : j <= k
        IN  IF ends = {} THEN <<SubSeq(t, i, Len(t))>>
            ELSE <<SubSeq(t, i, end - 1)>>
                 \o (IF end = Len(t) THEN << <<>> >> ELSE rest[end + 1])
  IN  IF t = <<>> THEN <<>> ELSE rest[1]

\* cursor_line_column: the line and column after each number of characters.
LineColumn_mut_ColumnRunsOn(t, p) ==
  LET at[i \in 0..Len(t)] ==
        IF i = 0 THEN <<0, 0>>
        ELSE LET last == at[i - 1]
             IN  IF t[i] = Newline THEN <<last[1] + 1, last[2]>> ELSE <<last[1], last[2] + 1>>
  IN  at[IF p <= Len(t) THEN p ELSE Len(t)]

LineColumn(t, p) ==
  LET at[i \in 0..Len(t)] ==
        IF i = 0 THEN <<0, 0>>
        ELSE LET last == at[i - 1]
             IN  IF t[i] = Newline THEN <<last[1] + 1, 0>> ELSE <<last[1], last[2] + 1>>
  IN  at[IF p <= Len(t) THEN p ELSE Len(t)]

\* should_draw_caret
DrawsCaret(e) == edit[e].editable /\ edit[e].focused /\ edit[e].visible

----------------------------------------------------------------------------
(* The timers of the windows when an edit e becomes r: stop_timer with the *)
(* identifier it had, start_timer with the one it has, both of the window  *)
(* it is in now.                                                           *)

TimersAfter(all, e, r) ==
  LET w == place[e]
      id == edit[e].timer
  IN  IF w = None \/ r.timer = id THEN all
      ELSE [all EXCEPT ![w] =
              {t \in @ : t[1] # id} \cup IF r.timer = 0 THEN {} ELSE {<<r.timer, e>>}]

\* A timer was started if an edit has the identifier that is next in its window.
CountAfter(e, r) ==
  LET w == place[e]
  IN  IF w = None \/ r.timer \in {0, edit[e].timer} THEN nextTimer
      ELSE [nextTimer EXCEPT ![w] = @ + 1]

Becomes(e, r) ==
  /\ e \in alive
  /\ Len(r.text) <= MaxText[e] /\ r.timer <= MaxTimer
  /\ edit' = [edit EXCEPT ![e] = r]
  /\ timers' = TimersAfter(timers, e, r)
  /\ nextTimer' = CountAfter(e, r)
  /\ UNCHANGED views

----------------------------------------------------------------------------
(* The keys of the focused edit, and the same calls made by the            *)
(* application.                                                            *)

Texts == [x \in Edits |-> UNION {[1..n -> Letters] : n \in 0..MaxText[x]}]

\* What on_text_changed_ may put there, with room for a letter, when it is called halfway
\* because a selection is deleted.
TextsHalfway(e) ==
  IF HasSelection(edit[e]) THEN {t \in Texts[e] : Len(t) < MaxText[e]} ELSE {}

\* insert_text, when nothing happens halfway.
TypeLetter(e, c) ==
  LET s == edit[e]
  IN  /\ s.editable
      /\ Becomes(e, Insert(IF HasSelection(s) THEN DeleteSelection(s) ELSE s, c))

TypeInto_mut_AtTheEnd(e, c, t, p) ==
  LET s == edit[e]
      bare == DeleteSelection(s)
  IN  /\ s.editable /\ t \in TextsHalfway(e)
      /\ Becomes(e, Insert(At([bare EXCEPT !.text = t], Len(t)), c))

\* insert_text that deletes a selection calls on_text_changed_ halfway.  Whatever that
\* calls, it leaves some text t and the caret at some p, marked or not, and the letter goes
\* there; not even an edit made read-only is left as it is.
TypeInto(e, c, t, p) ==
  LET s == edit[e]
      bare == DeleteSelection(s)
  IN  /\ s.editable /\ t \in TextsHalfway(e)
      /\ \E now \in {bare, SetEditable(bare, FALSE, place[e])} :
           Becomes(e, Insert(At([now EXCEPT !.text = t], p), c))

PressBackspace(e) == edit[e].editable /\ Becomes(e, Backspace(edit[e]))

PressDelete(e) == edit[e].editable /\ Becomes(e, DeleteForward(edit[e]))

\* The arrows, Home and End, and move_cursor.
MoveTo(e, p) == Becomes(e, MoveCursor(edit[e], p))

PressSelectAll(e) == Becomes(e, SelectAll(edit[e]))

ReplaceText(e, t) == Becomes(e, SetText(edit[e], t))

MakeEditable_mut_ForgetsTimer(e) ==
  LET s == edit[e]
  IN  Becomes(e, IF s.editable THEN Stopped([s EXCEPT !.editable = FALSE, !.visible = FALSE])
                 ELSE Blink([s EXCEPT !.editable = TRUE]))

MakeEditable(e) == Becomes(e, SetEditable(edit[e], ~edit[e].editable, place[e]))

----------------------------------------------------------------------------
(* The focus of a window *)

\* set_focus_view: the edit that had the focus first, then the one that gets it.
SetFocus(w, v) ==
  LET old == focus[w]
      new == IF v # None /\ edit[v].editable THEN v ELSE None
      out == IF old = None THEN edit ELSE [edit EXCEPT ![old] = Blurred(@)]
      left == IF old = None THEN timers ELSE TimersAfter(timers, old, Blurred(edit[old]))
      got == Focused(out[new], w)
  IN  /\ focus' = [focus EXCEPT ![w] = new]
      /\ IF new = old THEN UNCHANGED <<edit, timers, nextTimer>>
         ELSE IF new = None THEN edit' = out /\ timers' = left /\ UNCHANGED nextTimer
         ELSE /\ got.timer <= MaxTimer
              /\ edit' = [out EXCEPT ![new] = got]
              /\ timers' = TimersAfter(left, new, got)
              /\ nextTimer' = CountAfter(new, got)

\* The left button goes down on e.  The click has activated the window, so no other has
\* the focus any more.
Press(w, e) ==
  /\ e \in alive /\ place[e] = w
  /\ \A u \in Windows \ {w} : focus[u] = None
  /\ IF focus[w] = e /\ edit[e].editable
     THEN /\ edit' = [edit EXCEPT ![e] = Blink(@)]
          /\ UNCHANGED <<focus, timers, nextTimer>>
     ELSE SetFocus(w, e)
  /\ UNCHANGED <<alive, place, open>>

\* WM_KILLFOCUS, a window deactivated, or a click on a view that takes the focus.
LoseFocus(w) ==
  /\ focus[w] # None
  /\ SetFocus(w, None)
  /\ UNCHANGED <<alive, place, open>>

\* WM_TIMER, with a timer the window knows.
Fire(w, e) ==
  /\ e \in alive
  /\ \E t \in timers[w] : t[2] = e
  /\ LET s == edit[e]
     IN  Becomes(e, IF s.editable /\ s.focused THEN [s EXCEPT !.visible = ~@] ELSE Stopped(s))

----------------------------------------------------------------------------
(* Views come and go *)

\* add_child under a view of window w.
PutIn(e, w) ==
  /\ e \in alive /\ w \in open /\ place[e] # w
  /\ ~edit[e].focused
  /\ place' = [place EXCEPT ![e] = w]
  /\ UNCHANGED <<edit, alive, focus, timers, nextTimer, open>>

\* remove_child
RemoveChild(e) ==
  /\ e \in alive /\ place[e] # None
  /\ ~edit[e].focused
  /\ place' = [place EXCEPT ![e] = None]
  /\ UNCHANGED <<edit, alive, focus, timers, nextTimer, open>>

Destroy(e) ==
  /\ e \in alive
  /\ place[e] = None /\ \A w \in Windows : focus[w] # e
  /\ alive' = alive \ {e}
  /\ edit' = [edit EXCEPT ![e] = Stopped(@)]
  /\ timers' = TimersAfter(timers, e, Stopped(edit[e]))
  /\ UNCHANGED <<place, focus, nextTimer, open>>

Close_mut_KeepsTimers(w) ==
  /\ w \in open
  /\ open' = open \ {w}
  /\ focus' = [focus EXCEPT ![w] = None]
  /\ place' = [e \in Edits |-> IF place[e] = w THEN None ELSE place[e]]
  /\ UNCHANGED <<edit, alive, timers, nextTimer>>

\* close: the timers first, then the focus, of which no view is told, then the views.
Close(w) ==
  /\ w \in open
  /\ open' = open \ {w}
  /\ timers' = [timers EXCEPT ![w] = {}]
  /\ focus' = [focus EXCEPT ![w] = None]
  /\ place' = [e \in Edits |-> IF place[e] = w THEN None ELSE place[e]]
  /\ UNCHANGED <<edit, alive, nextTimer>>

----------------------------------------------------------------------------
Init ==
  /\ edit = [e \in Edits |->
              [text |-> <<>>, cursor |-> 0, from |-> 0, to |-> 0, last |-> None,
               editable |-> TRUE, focused |-> FALSE, visible |-> FALSE, timer |-> 0]]
  /\ alive = Edits
  /\ place = [e \in Edits |-> None]
  /\ focus = [w \in Windows |-> None]
  /\ timers = [w \in Windows |-> {}]
  /\ nextTimer = [w \in Windows |-> 1]
  /\ open = Windows

\* What changes the text of an edit or moves its caret.
Keys(e) ==
  \/ \E c \in Letters : TypeLetter(e, c)
  \/ \E t \in TextsHalfway(e) : \E p \in 0..Len(t), c \in Letters : TypeInto(e, c, t, p)
  \/ \E p \in 0..MaxText[e] : MoveTo(e, p)
  \/ \E t \in Texts[e] : ReplaceText(e, t)
  \/ PressBackspace(e)
  \/ PressDelete(e)
  \/ PressSelectAll(e)

Next ==
  \/ \E e \in Edits :
       \/ Keys(e)
       \/ MakeEditable(e)
       \/ RemoveChild(e)
       \/ Destroy(e)
  \/ \E w \in Windows, e \in Edits : Press(w, e) \/ PutIn(e, w) \/ Fire(w, e)
  \/ \E w \in Windows : LoseFocus(w) \/ Close(w)

\* The system sends WM_TIMER for as long as a timer runs.
Fairness == \A w \in Windows, e \in Edits : WF_vars(Fire(w, e))

Spec == Init /\ [][Next]_vars
FairSpec == Spec /\ Fairness
----------------------------------------------------------------------------
\* The timers of a window are those of the carets that blink there: one for each editable
\* edit of it that has the focus, under the identifier that edit will stop it by, and none
\* for an edit that is gone (text_edit.cc 186-202, 243-256, 471-500, win32_window.cc
\* 876-933).
CaretTimers ==
  \A w \in Windows :
    timers[w] = {<<edit[e].timer, e>> :
                   e \in {x \in alive : place[x] = w /\ edit[x].focused /\ edit[x].editable}}

\* Where the line after the first n ones begins in the text they are the lines of.
LineStart(lines, n) ==
  LET start[k \in 0..Len(lines)] == IF k = 0 THEN 0 ELSE start[k - 1] + Len(lines[k]) + 1
  IN  start[n]

\* The caret is drawn on a line there is, at a column of that line, and as many characters
\* into the text as its position says (text_edit.cc 103-119, 420-455).
CaretOnItsLine ==
  \A e \in Edits :
    LET lines == IF edit[e].text = <<>> THEN << <<>> >> ELSE Lines(edit[e].text)
        at == LineColumn(edit[e].text, edit[e].cursor)
    IN  /\ at[1] < Len(lines)
        /\ at[2] <= Len(lines[at[1] + 1])
        /\ edit[e].cursor = LineStart(lines, at[1]) + at[2]

\* What each edit is, whatever positions it keeps: the characters before its caret and those
\* after it, or all of them marked.
Buffer(e) ==
  INSTANCE TextBuffer WITH
    before <- SubSeq(edit[e].text, 1, edit[e].cursor),
    after <- SubSeq(edit[e].text, edit[e].cursor + 1, Len(edit[e].text)),
    marked <- HasSelection(edit[e])

\* Each key and call does to the buffer what is promised of it, and the focus no more than
\* to take the mark away.
KeysAsPromised(e) ==
  /\ focus' # focus => Buffer(e)!Unmark \/ UNCHANGED Buffer(e)!vars
  /\ MakeEditable(e) => UNCHANGED Buffer(e)!vars
  /\ PressBackspace(e) => Buffer(e)!Backspace
  /\ PressDelete(e) => Buffer(e)!DeleteForward
  /\ PressSelectAll(e) => Buffer(e)!MarkAll
  /\ \A p \in 0..MaxText[e] : MoveTo(e, p) => Buffer(e)!MoveTo(p)
  /\ \A t \in Texts[e] : ReplaceText(e, t) => Buffer(e)!Replace(t)
  /\ \A c \in Letters : TypeLetter(e, c) => Buffer(e)!Type(c)
  /\ \A t \in TextsHalfway(e) : \A p \in 0..Len(t), c \in Letters :
       TypeInto(e, c, t, p) => Buffer(e)!TypeInto(SubSeq(t, 1, p), SubSeq(t, p + 1, Len(t)), c)

\* Each edit is a TextBuffer, and each operation the one of its name: a letter goes where the
\* caret is, be it after on_text_changed_ has put another text or the caret elsewhere
\* (text_edit.cc 188-204, 279-383).
EditsAsPromised ==
  /\ \A e \in Edits : Buffer(e)!Init
  /\ [][\A e \in Edits : edit'[e] # edit[e] =>
            KeysAsPromised(e) /\ (Buffer(e)!Next \/ UNCHANGED Buffer(e)!vars)]_vars

\* An edit that has the focus of its window, and may show a caret there.
Ready(e) ==
  /\ e \in alive /\ place[e] # None
  /\ edit[e].focused /\ edit[e].editable

\* The caret of an edit that has the focus is never on or off for good (text_edit.cc
\* 471-489).
Blinks ==
  \A e \in Edits :
    /\ Ready(e) /\ DrawsCaret(e) ~> ~(Ready(e) /\ DrawsCaret(e))
    /\ Ready(e) /\ ~DrawsCaret(e) ~> ~Ready(e) \/ DrawsCaret(e)
=============================================================================
