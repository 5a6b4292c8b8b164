# Verification of IrisCode

IrisCode is the start of an IDE: `common` (processes, sockets, handles, files)
and `coreui` (windows, views, docking, drawing on Direct3D through Skia), with
platform code for Windows. This directory holds TLA+ models of the parts that
keep state which is hard to keep right, the TLC runs that check them on small
instances, and TLAPS proofs for instances of every size.

    tlc -config MCDocking.cfg MCDocking      model-checks
    tlapm DockingProofs.tla                  checks the proofs

## The system

| component | state it keeps | operations | what is hard |
|---|---|---|---|
| view tree (`coreui/view.cc`) | `parent_`, `subviews_`, a cached graphics context per view | `add_child`, `remove_child`, `detach_child`, `set_gfx_context` | the two directions of the tree and the cache must agree over any sequence of calls |
| docking (`view/dock_view.cc`, `dock_window.cc`) | `docked_items_` of each dock; `hosted_view_`, `last_dock_target_/position_` of each floating window | `dock`, `undock`, `undock_to_window`, `set_hosted_view`, `redock_to`, `close` | lists that duplicate what the tree says; `close` and `redock_to` call each other |
| dragging (`view/dock_view.cc`, `platform/win/win32_window.cc`) | `header_pressed_`, `dragging_`, `capture_view_`, the global drop preview | `mouse_down/move/up`, lost captures, `cancel_interaction` | drags that are interrupted half way; handlers that destroy the view they run in |
| application (`app.cc`, `win32_app.cc`, `window.cc`) | delegate and whether it is initialised, activation flags, window registry, exit flags | `set_delegate`, `run`, activation, `add_window`, `remove_window`, `close` | notifications that come back in; the end announced from three places |
| redraw and presentation (`win32_window.cc`, `win32_graphics_context.cc`) | update region, damage and validity per back buffer, current buffer | `request_redraw`, `WM_PAINT`, `draw`, `expand_dirty_rect`, `synchronize`, `resize` | two buffers of different age, presents that fail, changes nobody announces |
| window input (`win32_window.cc`) | capture, hovered and focused view, pressed buttons, timers | routing of mouse, key and timer messages | targets that go away between two messages |
| process set (`common/os.cc`) | running and finished processes, completion port | `add`, `do_work`, `next_finished`, `clear`, interrupts | completions that arrive for deleted processes, a control handler in another thread |
| handle table (`common/handle.cc`) | id counter, queue of freed handles | `new_process`, `new_file`, `free` | slots that are reused; generations that wrap |
| text editing (`view/text_edit.cc`) | text, caret, selection, last position, focus, caret timer | keys, `set_text`, `set_editable`, `on_focus_changed`, `WM_TIMER` | positions kept beside the text; a callback in the middle of an edit; timers of windows that close |
| downloads (`common/download.cc`) | the file, its MD5, the transfer | `download_url` | every step can fail; what was read is used after a wait; processes that share the file |
| reference counts (`common/ref.hpp`), GPU fence, sockets | counters, fences, transfers | | see "Not modelled" |

Components call each other synchronously on the UI thread. Dragging drives
docking; docking closes windows; closing a window calls into the application
registry, which may end the program; every change of a view ends in a redraw
request for the window named by the view's cached context. Archives, hashes,
binary walkers, parsers, controls that only draw, the compositor wrapper and the
stubs keep no state worth a model (`PROJECT.json` lists them all).

## Modules

### Docking, DockPlaces, DockingProofs

`Docking` models the view tree, the docks and the floating windows in one
variable `tree` (parents, children, contexts, dock items) and one variable `win`
(the floating windows). Operators translate the C++ functions one for one
(`AddChild`, `RemoveChild`, `DetachChild`, `DockView`, `UndockView`, `Loosen` and
`HostView` for `set_hosted_view`, `RedockView` for `redock_to`); actions are the
calls an application or the window system makes. A dock item's host view is
named `<<dock, content>>`, since a dock holds at most one host per content, and
a floating window shares a name with its root dock. The order of the lists, Yoga
and reference counts are left out. Only the mode that shows native windows is
modelled: `IRIS_DOCK_TEST_DISABLE_NATIVE_SHOW` keeps a redocked window alive for
its test. A view inside a floating window is not floated again: its window would
remember a dock that may be freed before it.

`Disciplined` says whether the application undocks a docked view before it docks,
nests or floats it elsewhere. The code does not demand it, and most
of what docking promises needs it.

`DockPlaces` is the abstract specification: every view is nowhere, in one dock,
or alone in one floating window that knows where to go back to. It tells apart a window
that is closed (`Close`), whose view goes home, from one whose view is sent back to a dock
the caller names (`Redock`). `DocksAsPromised` says the tree implements it, with `place` the
dock whose host holds the view and `home` the target of the floating window, and that each
`CloseFloat` is a `Close`: a refinement alone would take it for any `Redock`.

### DockDrag

`DockDrag` extends `Docking` with the user: `gesture` (`header_pressed_` and
`dragging_` of each host), `capture` (`capture_view_`) and `preview`
(`drop_preview_state()`). `PressHeader`, `DragPast` and `Release` are the host's
mouse handlers, `PressContent` and `ReleaseElsewhere` what the window routes to
others, `LoseCapture` is `WM_KILLFOCUS` and `WM_CAPTURECHANGED`. A window without a capture gives a
release to the view under the pointer, and the flags of a host outlive its capture, so
`Release` asks for the flags and not for the capture; a move counts as a drag only while a
button is down, which is while the capture lasts. The application docks, undocks, floats and
redocks between the user's events; floating and redocking cancel the interaction of the
windows concerned. The pointer is reduced to what the handlers ask of it. Events that reach a destroyed host have no effect, nesting is
left to `Docking`, and the application does not move the view that is being
pressed.

### AppLifecycle, AppLifecycleProofs

`AppLifecycle` keeps the fields of `priv::app`, the windows, and in `told` what
each delegate has heard. A delegate's `init()` may show a window, which sends
`WM_ACTIVATEAPP` back into the app before `init()` has returned, so the rest of
each function of `app.cc` is a frame on the stack `calls`. `Openers`
are the delegates that do this; `settled` remembers whether the program has
installed one delegate, once, which some of the properties ask for.

### PartialRedraw, PartialRedrawProofs

`PartialRedraw` reduces a window to a strip of cells and keeps which cells of the
screen and of either back buffer no longer show the scene. `Expand` is
`expand_dirty_rect`, `Presented` a draw that was presented and `NotPresented` one that ended
early, in `draw` before anything was drawn or in `synchronize` after; `Paint` is `WM_PAINT`. The swap chain may lose what a presented buffer held
(`FLIP_DISCARD`); presents alternate between the two buffers, which is the flip
model's rule and an assumption here.

The model settles how the code works: the damage recorded for a frame is the
enlarged rectangle, which contains the damage of the frame before, so the whole
window recorded for the first frame is never shed. No draw is ever partial
(`DamageIsWhole`). That costs time, and it is also why a failed present, a discarded
buffer or an unannounced layout change is repaired by the next present
(`PresentShowsAll`).

### SubProcessSet, JobSet, SubProcessSetProofs

`SubProcessSet` is `sub_process_set` as built for Windows. `proc` keeps for each
object its pipe, its pending read, its child and `m_buf`; `port` is the completion
port, `where` and `finished` the two lists. `DoWork` takes one packet and does what
`on_pipe_ready` and `move_if_done` do with it; the child is `Writes` and
`Exits`, which also complete a read that pends. An object's name is
its address, so a packet for a deleted one would be followed to a new one. That can happen to
a process that could not be started, whose connection packet is queued when the caller gets
it: the guard of `Delete` has the caller keep it until the packet was taken out, which the
code gives it no way to know. The
repository has no caller of `clear()`; the one modelled stops after it.

`JobSet` is the abstract specification: a process runs, becomes ready, and is
handed out once, in the order they became ready. `WorksAsPromised` says the pipes
and packets implement it.

### WindowInput, WindowInputProofs

`WindowInput` is `priv::window::on_native_event` for the mouse and the focus, with the
handlers of `button` and what a `text_edit` keeps of the focus. `above` gives each
view its ancestors; `hover`, `capture` and `focus` are the window's three pointers;
`native` and `tracking` are the system's side of capture and `TrackMouseEvent`.
Pads are application views that handle every press.

`conduct` says whether the application has so far been careful: took no view away from
under the pointer, the capture or the focus, nested no buttons, and never had
`cancel_interaction` called. Otherwise a button may stay lit or pressed, and an edit
may think it has the focus: `clear_interaction_state` resets the pointers and tells
nobody. No text of the repository says otherwise, so care is a condition of
`UnderPointer`, `FocusMatches` and `ClickIsOwnPress`, and its lack no finding.

### HandleTable, HandleTableProofs

`HandleTable` is `common/handle.cc`: a counter of ids and a priority queue of freed
handles, kept as the number of times each is queued. `NewId` and `Reuse` are the two
branches of the constructor, `Free` is `free()`. `uses` and `asked` record how often an
id was given out and for what type; the code has neither.

### TextEdit, TextBuffer, TextEditProofs

`TextEdit` is `text_edit` with the windows its edits are in. `edit` keeps the members
of each edit; `place` is its `owning_window()`; `focus`, `timers` and `nextTimer` are
`focus_view_`, `timers_` and `next_timer_id_` of each window. `Insert`, `Backspace`,
`DeleteSelection`, `SetText` and the others make of one edit what the functions of those
names do; `TimersAfter` and `CountAfter` do what an edit that changes does to its window's
timers. `TypeInto` is `insert_text` when `delete_selection` calls `on_text_changed_` halfway:
the callback leaves any text, the caret anywhere in it, and the edit as it was or read-only,
and `insert_text` goes on with that; `TypeLetter` is `insert_text` otherwise. `Lines` and `LineColumn` are the two loops
`draw` puts the caret by, as functions of the number of turns; `LineStart` adds up line
lengths to say where in the text a line begins.

What the code relies on without checking is a guard: no edit is moved or removed
while it thinks it has the focus, it is destroyed only outside a window, and nothing
calls `cancel_interaction` with the focus in use; the callback in the middle of an edit leaves
the focus alone and makes no edit read-only for a moment only. Otherwise the edit stops its timer in a
window that does not have it, which ends a timer of another edit if one goes by the same
identifier there. An edit whose window closed under it is not told that it lost the focus,
so the model puts it in no window again.

`TextBuffer` is the abstract specification: the characters before the caret, those
after it, and whether all are marked. `EditsAsPromised` says each edit implements it,
whatever its four positions are, and operation by operation (`KeysAsPromised`): Backspace
does what `TextBuffer!Backspace` says, a typed letter `Type` or, after the callback, `TypeInto`
with what the callback left. Without the second part `Replace` would stand for every step that
ends with the caret at the end.

### Download, DownloadProofs

`Download` is `winhttp_download` as several processes run it for one url and one
path: `Start` hashes the file, `Respond` is the request and its headers, `Place` finds the
path and compares the hashes, `Create`, `Receive` and `Finish` write the file,
`NoResponse`, `CreateFails` and `Stop` are the failures. Hashing fails when the file cannot be
opened, which leaves the digest empty. The directory of the file is made when it is missing;
when that fails, so does `Create`. `server` changes at any time.
A file is a sequence of pieces, `<<version, i>>`, or `Gap` where a process wrote
beyond an end that another had cut off. MD5 is taken to tell contents apart.
`alone`, `unread`, `written` and `spoiled` are history variables: the code has none of them.

Three things the code does are followed and not judged, as no text of the repository
speaks of them. A body that ends early and a `WriteFile` that fails are answered with
`succeed`. A failed read leaves part of the file, and its handle open. And
`GetFileAttributesA` of a file that is not there has the directory bit, so that a first
download from a server that names its file looks for a path inside that file and fails.

## Runs

| run | bounds | shows |
|---|---|---|
| docking | 3 views, 2 docks, 2 windows, 2 positions, disciplined | the tree, the items, the windows and the contexts agree; the tree implements `DockPlaces`, and a closed window's view goes home |
| docking_stale | 2 views, 2 docks, 2 windows, any application | finding: redocking can lose the view |
| dock_drag | 2 views, 2 docks, 2 windows | gestures mixed with calls keep the tree; a drop lands where it was shown |
| dock_drag_floats | as above | finding: a stale preview keeps a view from floating |
| app_lifecycle | 2 delegates, one whose `init()` shows a window, 2 windows | order and completeness of the notifications, one end, with delegates replaced at will; the loop ends |
| partial_redraw | width up to 3, any presents and changes | no partial draw; each present shows all; without a lapse outdated cells are due for painting and are painted |
| process_set | 2 processes, 2 bytes of output each | one operation per running process, output complete, each handed out once; implements `JobSet` |
| window_input | a button, an edit, a pad | captures agree, and a button that is disabled forgets its press; while the application is careful hover, press and focus agree, and a click ends a press of its own |
| handle_table | 3 ids, 4 uses of each, generations modulo 3 | an id has one owner, generations count uses across the wrap |
| text_edit | 2 edits, one of them with up to 2 letters, 2 windows, 2 timers each | each operation does to text, caret and selection what `TextBuffer` says, whatever a callback does halfway; timers are those of the carets that blink; the caret is drawn where it is; it blinks |
| download | 2 processes, versions of 2 and 1 pieces, any failures, any number of calls | calls that are undisturbed answer truly and, where they can read it, empty no file that is up to date; overlapping ones that all end leave a whole file |
| handle_types | 2 ids, 3 uses of each | finding: a reused slot keeps its old type |

Two docks and two windows are the least with which a view can be in the wrong
one; three views are the least with a view inside a docked view beside another.
`MaxDepth` bounds the walks by the longest chain there can be (`SubtreeIs` proves it enough).
Width 3 lets two changed cells enclose one that is not, and two cells are few enough
to be drawn alone.
`MaxInits` caps a counter of `init()` calls, not the calls. Two processes share the
port and the queue; two bytes let a read find some output and leave some. One button
and a pad can nest either way and take each other's releases; two buttons have too many
nestings for TLC, and the theorems cover them.
Four uses and three generations have every id wrap. With two letters, one of which ends
lines, there are empty lines, a last newline and a selection of more than one letter; the
second edit and window are there to take over focus and timers. A version of two pieces
is left half written, and one of one piece is shorter than what it replaces.

The types of `Docking`, `DockDrag`, `AppLifecycle`, `PartialRedraw`, `WindowInput` and
`HandleTable` are proved and not run.

That pointers, lists and hosts agree under any application, that a floating window
holds its view alone, and that a `WM_MOUSELEAVE` is due while a view is hovered
(`HostsMatchItems`, `FloatsHoldTheirView`, `HoverEnds`) is proved and left out of the runs.
Deadlock is not checked where the model may stop: a program whose loop has
returned, a caller that has cleared its set, ids that are out of uses.

The application may stop at any time, so only four specifications state fairness.
`AppLifecycle`: a call that has begun returns, and `WM_QUIT` stays in the queue
until `GetMessage` is called again (strong fairness, as calls interrupt the
loop). `PartialRedraw`: `WM_PAINT` is sent when the queue is empty, and the loop is
assumed to come to that. `SubProcessSet`: a caller that
waits for results goes on calling `do_work` and `next_finished` (weak fairness of
both, until `clear()`); that a child ends is never assumed. `TextEdit`: the system sends
`WM_TIMER` for as long as a timer runs.

## Proofs

Each safety property the runs check is also proved, for every value of the constants, and
two of the liveness properties; the last paragraph says which are not and why. Every proof
has the same form: an inductive invariant, one lemma per operation that keeps it, and the
properties as its consequences.

`DockingProofs` is about any number of views, docks and windows, for `Docking` and
`DockDrag` alike:

- `TreeInv` says parents and lists mirror each other, hosts hang under their own dock
  exactly while listed, and docks are roots. It holds without discipline and gives types,
  `ParentsMatchSubviews` and `HostsMatchItems`.
- `DockInv` adds, for a disciplined application, that items match the tree and that an open
  window's item is its hosted view alone; each operation is shown to move one view and leave
  the places of the others. It gives `ItemsMatchTree`, `FloatsHoldTheirView`,
  `RedockKeepsTheView` and the refinement of `DockPlaces`. That a close goes home
  (`CloseGoesHome`) rests on an open window's target being a dock of the application, where
  the view then is.
- `NestInv` gives `NoCycles` (`NeverCyclic`) for any application. `Grounded` says that every
  set of nodes has one whose parent is outside it. That is a cycle's absence said of whole
  sets, so a step is checked without walking a chain; only the theorem itself walks one.
  `Shaped` is there because `set_gfx_context` and the hosts between dock and view take part
  in every step. The one thing asked of the application is the guard of `AppAddChild`: it
  nests no view in a subview of its own.
- `CtxInv` gives `ContextFollowsTree` (`ContextAlwaysFollows`) for a disciplined application.
  A node has its parent's context, and an open floating window's dock its window's; what
  makes it inductive is `Rooted`, that nothing outside the tree of a floating window keeps
  that window's context, since closing a
  window clears the contexts of what is in its tree and of nothing else. A step may break `Rooted` for the one node it is about to link again, which is why
  `Rooted` and `SameContext` name a node they except.
- `DragInv` gives `PreviewBelongsToDragged` and `DropsWherePreviewed` for any application,
  docking calls between the user's events included. It needs that a host whose header is
  pressed is listed in its dock, which in turn needs `OnlyHosted`: a floating dock lists no
  view but the one its window hosts, so a drop that closes the window frees no other pressed
  host.
- `DragSpec` under discipline: `DragStepIs` says each step with the mouse changes the views
  as a step of `Docking` does, or is a `Jump`: a docked view dropped while a preview shows
  floats and redocks within one handler. `JumpMoves` shows that nothing of the window in
  between is left, so `DockInv` and `CtxInv` are kept (`DragKeepsDocks`,
  `DragKeepsTheView`). Links, hosts and `NoCycles` hold for any application
  (`DragKeepsLinks`, `DragNeverCyclic`).
- `DragsImplementPlaces` is finding 2 stated for every instance: `DragSpec` implements
  `DockPlaces` but for the one step `GoesToPreview`, and a close goes home. `DraggedOutAlwaysLands`: a view
  dragged out of a dock ends in a floating window if no preview shows, else in the
  preview's dock.

`Subtree` and `Ancestors` are walks of `MaxDepth` steps. Statements about them are proved
by contradiction from the least number of steps at which they fail (`LeastNumber`, from the
well-foundedness of the naturals). `SubtreeIs` says that `Subtree` is closed
under subviews: with two levels for dock and host, one more per view is always enough.

`PartialRedrawProofs` proves types, `DamageIsWhole` and `PresentShowsAll` for any
width. The strengthening is that once the current buffer was presented, both
were; without it the induction fails at a buffer whose only predecessor was never
recorded. `ScreenCurrent` speaks of the time without a `lapse`: a present that
failed or a change without a request, since the whole window was last shown or invalid.

`WindowInputProofs` proves types, `CaptureHeld`, `HoverEnds` and `DisabledIsIdle` for any
application, and `UnderPointer`, `FocusMatches` and `ClickIsOwnPress` while it is careful,
with any views in any nesting. The strengthening, `PressInv`, says that
nothing on the way from the hovered view to a pressed button could have taken the
press, nor has the capture; without it the induction meets a release that
reaches a button it does not belong to.

`HandleTableProofs` proves the three invariants of `HandleTable` for any number of
ids, uses and generations. `OneHandlePerId` is inductive with types and "an id not
given out was not used"; `GenIsAge` needs in addition that counting modulo a number
agrees with counting first (`SuccessorRemainder`).

`AppLifecycleProofs` proves, for any delegates and windows and however deep handlers nest,
`InitComesFirst`, `ActiveInForeground`, `EndsOnce`, `DelegateUpToDate` and
`DelegateHearsTheEnd`. What each delegate has heard lags behind the fields of `app` by what
is still on the stack, so the strengthening is about the stack: `Stack` says which calls may
be pending at all and that a notification has an initialisation before it, `Initiation` that
a delegate is not taken for initialised before its `init()` was called, `Ending` that at
most one call is about to announce the end and then nobody has heard of it, and `Belief` that
the only delegate ever installed is wrong about the app only while the one call that puts it
right is pending.

`SubProcessSetProofs` proves types, `OneOperation` and `OutputComplete` for any processes and
any output, and that the set implements `JobSet` with `JobMap`. `Sound` ties each process to
its packets: it has at most one queued, a pipe that runs reads exactly while none is, and
every byte written is in the pipe, in the packet or in the buffer. `OutputComplete` fails to
be inductive without that sum, since `move_if_done` looks only at whether the pipe is gone.

`TextEditProofs` proves types, `CaretTimers` and the refinement of `TextBuffer` for any edits,
windows, letters and lengths. `Positions` says an edit selects nothing or everything, with
the caret at the selection's end; `Focusing` that a window and the edit with its focus know
of each other, and the edit has a timer if it may be edited; `Running` that a window's timers
are those of that edit. `EditsImplementBuffers` has one step per operation. It cuts a text at
its caret (`Before`, `After`) and needs `Positions` to see that `delete_selection` removes all
there is and that the focus brings the caret back to where it was.

`CaretOnItsLine` is about the two loops of `draw`, which are recursive functions of the
number of turns, so what they compute is proved like the walks above. `CutAtNewlines` says
what it is to be the lines of a text: joined by newlines they are the text, and no line
has one. `LinesAreTheText` proves that `lines()` gives such a cut for every
text, the empty line after a last newline included; from that, the line and column
`LineColumn` counts up to a position are those of the line that holds it.

Liveness is proved for `OutdatedIsRedrawn` (`OutdatedGetsRedrawn`) and `Blinks`
(`CaretsBlink`), where one fair action reaches the goal. `ENABLED` has no prover here, so
both theorems assume fairness with the guard spelled out in its place (`PaintComes`,
`TimersCome`): again and again the action cannot be taken, or it is taken. The runs check
the same properties under `WF` itself. The argument is in the invariants: until the goal is
reached `ScreenCurrent` keeps the update region from being empty, and `CaretTimers` keeps
the timer running.

`DownloadProofs` proves types, `OverlapEndsWhole`, `AnswersTrue` and `NoNeedlessDownload` for
any processes and versions of any lengths. For calls that are `alone`, the digest taken at
the start, if one was, is still the file's (`DigestCurrent`) and the file is what the call has written
(`OwnFile`). For overlapping calls `Merging` says that each piece of the version they write
is right or one of them has yet to come to it; without it nothing is known of the file
between two writers, one of which emptied it under the other.

The assumptions are those named `ConstantsAssumption`, which keep names of different kinds
apart and bounds natural numbers, and `NoneAssumption` of `Download`, that `None` is neither
a file nor a digest.

Only model-checked are `ExitEndsTheLoop`, `EndedIsHandedOut` and `InterruptArrives`. Each
counts down a stack of calls or the packets ahead in a queue of any length, which takes an
induction over temporal formulas; it is beyond these provers.

## Findings

1. `docking_stale`: `dock()` trusts `docked_items_` over the tree. After a docked
   view was docked or nested elsewhere, redocking it to the first dock returns true
   and leaves it in no dock.
2. `dock_drag_floats`: the drop preview is global and survives an interrupted drag;
   the next view dragged out of a dock redocks at once (`DragsImplementPlaces`).
3. `handle_types`: `handle::handle` sets `type_` and then assigns the whole freed slot
   over it, so a reused slot keeps its type: `new_process()` after a file was freed returns a
   handle of type file, and `new_file()` after a process one of type process (TLC's trace).

## Plan

What was planned is modelled, checked and proved. Next would be the three liveness
properties left to TLC, with a prover that has induction over temporal formulas;
`DockDrag` with nesting, which needs the handlers of nested headers; and, if the fence
gets a stated promise, the frames of `win32_graphics_context.cc`.

## Not modelled

- GPU fence (`win32_graphics_context.cc`): contexts signal one fence with values of
  their own, so one may not wait for its frame. Each wait ends, since a context waits for
  what it has just queued, and a resize or shutdown is preceded by a submit that waits in
  any case; how many frames are ahead, the code does not promise.
- Sockets (`ntsocket.cc`): `connect`, `recv` and `shutdown` are one wait each under a mutex.
  The loop of `send` puts the count of the last write in the place of the sum (line 752), so
  it repeats the same bytes after a short write, and no more could be shown of it.
- Reference counts (`ref.hpp`): `release` decrements atomically and then reads the count
  again (line 101), so two threads that release at once may both find it zero. Nothing
  says which threads may share an object; with one the counts are right by construction.
- Pointers and iterators to what is gone: `last_dock_target_` when a view of a floating
  window floats again (`dock_window.cc:79`), a host that its own handler frees
  (`dock_view.cc:317`), the iterator `window_proc` keeps over the handlers
  (`win32_app.cc:99`), packets of processes that `clear()` deleted (`os.cc:1960`).
- The class `downloader`, which nothing calls; `install_sdk`, which extracts whatever
  `download_url` left.
- Archives, hashes, arguments, configuration, logging: sequential transformations or I/O.
- The compositor and the controls that only draw.
