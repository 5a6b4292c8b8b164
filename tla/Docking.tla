------------------------------ MODULE Docking ------------------------------
(***************************************************************************)
(* The docking tree of coreui: view::add_child / remove_child /            *)
(* detach_child (view.cc), dock_view::dock / undock / undock_to_window     *)
(* (view/dock_view.cc) and dock_window::set_hosted_view / redock_to /      *)
(* close (dock_window.cc), as the application drives them from the UI      *)
(* thread.                                                                 *)
(*                                                                         *)
(* A view is a node with a parent_ pointer, a subviews_ list and a cached  *)
(* graphics context.  dock_view::dock wraps every docked view in a host    *)
(* view of its own; a dock_view holds at most one host per content, so the *)
(* pair <<dock, content>> names the host.  A dock_window owns exactly one  *)
(* root dock_view, so one name stands for the window and its root dock,    *)
(* and a graphics context is named by its window.                          *)
(*                                                                         *)
(* Left out: the order inside subviews_ and docked_items_ (z-order and     *)
(* layout only), the Yoga nodes that mirror the tree, reference counts.    *)
(* The application's own docks live as long as the program.                *)
(*                                                                         *)
(* A definition named X_mut_Y is the slip Y in X, seeded to see that the   *)
(* properties notice it; the specification never uses one.                 *)
(***************************************************************************)
EXTENDS Naturals, FiniteSets

CONSTANTS
  Views,            \* the views an application docks and nests
  AppDocks,         \* dock_views the application created, one per main window
  Floats,           \* floating dock_windows that may be open at one time
  Position,         \* enum dock_position
  Fill,             \* dock_position::fill
  None,             \* nullptr, and "not docked"
  Disciplined       \* TRUE: the application undocks a view before it docks, nests
                    \* or floats it elsewhere; FALSE: it does so at any time

Dock == AppDocks \cup Floats
Host == Dock \X Views
Node == Views \cup Dock \cup Host

ASSUME ConstantsAssumption ==
  /\ IsFiniteSet(Views)
  /\ Fill \in Position
  /\ Disciplined \in BOOLEAN
  /\ None \notin Node \cup Position
  /\ AppDocks \cap Floats = {}
  /\ Views \cap Dock = {}
  /\ (Views \cup Dock) \cap Host = {}

VARIABLES
  tree,   \* parent_, subviews_, gfx_ctx_ of every view; docked_items_ of every dock
  win     \* the dock_windows: open or not, hosted_view_, last_dock_target_/position_

vars == <<tree, win>>

Tree == [parent : [Node -> Node \cup {None}],
         kids   : [Node -> SUBSET Node],
         ctx    : [Node -> Dock \cup {None}],
         item   : [Host -> Position \cup {None}]]

Window == [open   : BOOLEAN,
           hosted : Views \cup {None},
           target : Dock \cup {None},
           pos    : Position]

NoWindow == [open |-> FALSE, hosted |-> None, target |-> None, pos |-> Fill]

TypeOK ==
  /\ tree \in Tree
  /\ win \in [Floats -> Window]

----------------------------------------------------------------------------
(* Walking the tree.  A chain dock > host > view > ... > view has at most  *)
(* one node per view and two more.                                         *)

MaxDepth == Cardinality(Views) + 2

Subtree(t, v) ==
  LET reach[n \in 0..MaxDepth] ==
        IF n = 0 THEN {v} ELSE reach[n - 1] \cup UNION {t.kids[u] : u \in reach[n - 1]}
  IN  reach[MaxDepth]

Ancestors(parent, v) ==
  LET up[n \in 0..MaxDepth] ==
        IF n = 0 THEN {parent[v]} \ {None}
        ELSE up[n - 1] \cup ({parent[u] : u \in up[n - 1]} \ {None})
  IN  up[MaxDepth]

\* The nearest dock_view above a view, if any: two steps up from a docked view,
\* else wherever the chain ends (docks are roots, so there is at most one).
OwnerDocks(parent, v) ==
  IF parent[v] \in Host THEN {parent[parent[v]]} ELSE Ancestors(parent, v) \cap Dock

----------------------------------------------------------------------------
(* view.cc *)

SetGfxContext(t, v, w) ==
  [t EXCEPT !.ctx = [u \in Node |-> IF u \in Subtree(t, v) THEN w ELSE t.ctx[u]]]

Unlink_mut_KeepsParent(t, p, v) == [t EXCEPT !.kids[p] = @ \ {v}]

Unlink(t, p, v) == [t EXCEPT !.kids[p] = @ \ {v}, !.parent[v] = None]

\* detach_child leaves the cached graphics context of the subtree alone.
DetachChild(t, p, v) == IF v \in t.kids[p] THEN Unlink(t, p, v) ELSE t

RemoveChild(t, p, v) ==
  IF v \in t.kids[p] THEN SetGfxContext(Unlink(t, p, v), v, None) ELSE t

Link(t, p, v) == [t EXCEPT !.kids[p] = @ \cup {v}, !.parent[v] = p]

AddChild_mut_StaysInOld(t, p, v) ==
  IF v \in t.kids[p] THEN t ELSE SetGfxContext(Link(t, p, v), v, t.ctx[p])

AddChild_mut_NoContext(t, p, v) ==
  IF v \in t.kids[p] THEN t
  ELSE Link(IF t.parent[v] # None THEN RemoveChild(t, t.parent[v], v) ELSE t, p, v)

AddChild(t, p, v) ==
  LET old     == t.parent[v]
      removed == IF old \in Node \ {p} THEN RemoveChild(t, old, v) ELSE t
  IN  IF v \in t.kids[p] THEN t
      ELSE SetGfxContext(Link(removed, p, v), v, removed.ctx[p])

----------------------------------------------------------------------------
(* view/dock_view.cc *)

\* A content this dock already lists only gets a new position, wherever it is.
DockView(t, d, c, p) ==
  LET h == <<d, c>>
  IN  IF t.item[h] # None THEN [t EXCEPT !.item[h] = p]
      ELSE AddChild([AddChild(t, h, c) EXCEPT !.item[h] = p], d, h)

\* The host is destroyed with its item; the content is detached from it only
\* if it is still there.
UndockView(t, d, c) ==
  LET h     == <<d, c>>
      freed == IF t.parent[c] = h THEN DetachChild(t, h, c) ELSE t
  IN  IF t.item[h] = None THEN t
      ELSE [RemoveChild(freed, d, h) EXCEPT !.item[h] = None]

DockPositionOf(t, d, c) == IF t.item[<<d, c>>] = None THEN Fill ELSE t.item[<<d, c>>]

----------------------------------------------------------------------------
(* dock_window.cc *)

\* The constructor gives a new window's root dock the window's context.
NewWindow(t, w) == SetGfxContext(t, w, w)

Loosen_mut_OnlyDetaches(t, c) ==
  IF t.parent[c] # None THEN DetachChild(t, t.parent[c], c) ELSE t

\* The first half of set_hosted_view: the view comes out of the nearest dock
\* above it, else off its parent.  A view the dock does not list stays put.
Loosen(t, c) ==
  LET owner == OwnerDocks(t.parent, c)
  IN  IF owner # {} THEN UndockView(t, CHOOSE d \in owner : TRUE, c)
      ELSE IF t.parent[c] # None THEN DetachChild(t, t.parent[c], c)
      ELSE t

\* set_hosted_view on a new window.
HostView(t, w, c) == DockView(Loosen(t, c), w, c, Fill)

\* undock_to_window records this dock as the target; set_hosted_view overrides
\* it with the dock the view really was in.
HomeOf(t, d, c) ==
  LET owner == OwnerDocks(t.parent, c)
      home  == IF owner # {} THEN CHOOSE o \in owner : TRUE ELSE d
  IN  [dock |-> home, pos |-> DockPositionOf(t, home, c)]

FloatView(t, w, c) == HostView(NewWindow(t, w), w, c)

FloatWindow(t, d, c) ==
  [open |-> TRUE, hosted |-> c, target |-> HomeOf(t, d, c).dock, pos |-> HomeOf(t, d, c).pos]

\* redock_to: out of the root dock, into the target, then close() -- which now
\* finds no hosted view -- clears the context of the window's tree.
RedockView(t, w, c, d, p) ==
  SetGfxContext(DockView(UndockView(t, w, c), d, c, p), w, None)

----------------------------------------------------------------------------
(* The operations an application or the window system starts. *)

Docked(t, c) == \E d \in Dock : t.item[<<d, c>>] # None

AppDock(d, c, p) ==
  /\ Disciplined => ~Docked(tree, c) \/ tree.item[<<d, c>>] # None
  /\ tree' = DockView(tree, d, c, p)
  /\ UNCHANGED win

AppUndock(d, c) ==
  /\ tree.item[<<d, c>>] # None
  /\ tree' = UndockView(tree, d, c)
  /\ UNCHANGED win

\* Nesting a view in itself or in one of its own subviews is a caller's error.
AppAddChild(p, v) ==
  /\ p \notin Subtree(tree, v)
  /\ v \notin tree.kids[p]
  /\ Disciplined => ~Docked(tree, v)
  /\ tree' = AddChild(tree, p, v)
  /\ UNCHANGED win

AppRemoveChild(p, v) ==
  /\ v \in tree.kids[p]
  /\ tree' = RemoveChild(tree, p, v)
  /\ UNCHANGED win

\* A view inside a floating window is not floated again: its new window would
\* remember a root dock that dies with the old one (dock_window.cc 79, 33-34).
UndockToWindow(d, c) ==
  /\ OwnerDocks(tree.parent, c) \subseteq AppDocks
  /\ Disciplined => ~Docked(tree, c) \/ tree.item[<<d, c>>] # None
  /\ \E w \in Floats :
       /\ ~win[w].open
       /\ tree' = FloatView(tree, w, c)
       /\ win' = [win EXCEPT ![w] = FloatWindow(tree, d, c)]

\* redock_to(target, position), also behind redock_from_window and a drop.
RedockTo(w, d, p) ==
  /\ win[w].open
  /\ win[w].hosted # None
  /\ tree' = RedockView(tree, w, win[w].hosted, d, p)
  /\ win' = [win EXCEPT ![w] = NoWindow]

CloseFloat_mut_AnyDock(w) ==
  /\ win[w].target # None
  /\ \E d \in AppDocks : RedockTo(w, d, win[w].pos)

\* close(), as the title bar or the system menu reaches it: a window that
\* hosts a view and knows where it came from redocks it and closes on the way.
CloseFloat(w) ==
  /\ win[w].target # None
  /\ RedockTo(w, win[w].target, win[w].pos)

----------------------------------------------------------------------------
Init ==
  /\ tree = [parent |-> [v \in Node |-> None],
             kids   |-> [v \in Node |-> {}],
             ctx    |-> [v \in Node |-> IF v \in AppDocks THEN v ELSE None],
             item   |-> [h \in Host |-> None]]
  /\ win = [w \in Floats |-> NoWindow]

Next ==
  \/ \E d \in AppDocks, c \in Views, p \in Position : AppDock(d, c, p)
  \/ \E d \in AppDocks, c \in Views : AppUndock(d, c)
  \/ \E p, v \in Views : AppAddChild(p, v)
  \/ \E p, v \in Views : AppRemoveChild(p, v)
  \/ \E d \in AppDocks, c \in Views : UndockToWindow(d, c)
  \/ \E w \in Floats, d \in AppDocks, p \in Position : RedockTo(w, d, p)
  \/ \E w \in Floats : CloseFloat(w)

Spec == Init /\ [][Next]_vars
----------------------------------------------------------------------------
(* What the tree promises. *)

\* Parent pointers and subview lists agree, for every sequence of calls
\* (view.cc 119-166: each mutator writes both).
ParentsMatchSubviews ==
  \A p, v \in Node : v \in tree.kids[p] <=> tree.parent[v] = p

\* A host is linked under its dock exactly while the dock lists its item, and
\* shelters nothing but its own content (dock_view.cc 487-527).
HostsMatchItems ==
  \A d \in Dock, c \in Views :
    /\ tree.parent[<<d, c>>] = IF tree.item[<<d, c>>] = None THEN None ELSE d
    /\ tree.kids[<<d, c>>] \subseteq IF tree.item[<<d, c>>] = None THEN {} ELSE {c}

\* No chain of parents comes back to where it started, so mark_layout_dirty and
\* set_gfx_context, which walk it, terminate (view.cc 79-84, 366-371).
NoCycles == \A v \in Node : v \notin Ancestors(tree.parent, v)

\* A dock lists a view exactly while the view sits in that dock's host: there
\* are no stale items, and no view is listed twice (dock_view.cc 487-527).
ItemsMatchTree ==
  \A d \in Dock, c \in Views :
    tree.item[<<d, c>>] # None <=> tree.parent[c] = <<d, c>>

\* An open floating window shows its hosted_view_ and nothing else, filling its
\* root dock, and remembers a dock of the application to go back to; a closed
\* one holds no view (dock_window.cc 59-146).
FloatsHoldTheirView ==
  \A w \in Floats :
    IF win[w].open
    THEN /\ win[w].hosted # None
         /\ win[w].target \in AppDocks
         /\ \A c \in Views :
              tree.item[<<w, c>>] = IF c = win[w].hosted THEN Fill ELSE None
    ELSE win[w] = NoWindow /\ \A c \in Views : tree.item[<<w, c>>] = None

\* A view in a window's tree carries that window's graphics context, which is
\* what owning_window() answers from; nothing keeps the context of a closed
\* floating window (view.cc 79-84, 133, 148, win32_window.cc 917-931).
ContextFollowsTree ==
  \A v \in Node :
    /\ \A d \in OwnerDocks(tree.parent, v) : tree.ctx[v] = d
    /\ tree.ctx[v] \in Floats => win[tree.ctx[v]].open

\* When a floating window closes, by close(), a drop or redock_from_window, the
\* view it hosted is left in the host of a dock of an application window
\* (dock_window.cc 115-146; dock_drag_test.cc 97-99 asserts it of redock_to).
RedockKeepsTheView ==
  [][\A w \in Floats :
       win[w].open /\ ~win'[w].open =>
         \E d \in AppDocks : tree'.parent[win[w].hosted] = <<d, win[w].hosted>>]_vars

----------------------------------------------------------------------------
(* Where the tree puts each view: DockPlaces is what docking promises.     *)

PlaceOf(c) ==
  IF tree.parent[c] \in Host THEN tree.parent[c][1] ELSE None

HomeDock(c) == IF PlaceOf(c) \in Floats THEN win[PlaceOf(c)].target ELSE None

Places == INSTANCE DockPlaces WITH
            place <- [c \in Views |-> PlaceOf(c)],
            home  <- [c \in Views |-> HomeDock(c)]

\* Every step of the tree puts the views where the simple account of docking
\* says: a view is in one place at a time, a step moves at most one view, a
\* floating window remembers the dock its view came from until it closes, and a
\* close() - not a redock_to, which goes where it is told - returns the view to
\* that dock (dock_view.cc 529-555, dock_window.cc 33-41, 115-146).
DocksAsPromised ==
  /\ Places!Spec
  /\ [][\A w \in Floats : CloseFloat(w) => Places!Close(win[w].hosted)]_vars
============================================================================
