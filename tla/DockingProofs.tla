--------------------------- MODULE DockingProofs ---------------------------
(***************************************************************************)
(* Theorems about Docking and DockDrag, for any sets of views, docks and   *)
(* floating windows.  While parent pointers and subview lists agree, the   *)
(* parent pointers determine the lists, so each mutator is first           *)
(* characterised by what it does to the parent pointers, the docked items  *)
(* and the contexts; the invariants are then proved from those             *)
(* characterisations alone.  What the code walks, up or down the tree, is  *)
(* given by a number of steps, and statements about every such number are  *)
(* proved from the least one that would refute them (LeastNumber).         *)
(***************************************************************************)
EXTENDS DockDrag, FiniteSetTheorems, WellFoundedInduction, TLAPS

LinksAgree(t) == \A p, v \in Node : v \in t.kids[p] <=> t.parent[v] = p

HostsLinked(t) ==
  \A d \in Dock, c \in Views :
    /\ t.parent[<<d, c>>] = IF t.item[<<d, c>>] = None THEN None ELSE d
    /\ \A u \in Node : t.parent[u] = <<d, c>> => u = c /\ t.item[<<d, c>>] # None

\* s is t with the view v under p (p may be None) and nothing else moved.
Moved(s, t, v, p) ==
  /\ s \in Tree
  /\ LinksAgree(s)
  /\ s.item = t.item
  /\ \A u \in Node : s.parent[u] = IF u = v THEN p ELSE t.parent[u]

GoodTree(t) == t \in Tree /\ LinksAgree(t) /\ HostsLinked(t)

----------------------------------------------------------------------------
(* The mutators of view.cc. *)

LEMMA NodeFacts ==
  /\ None \notin Node
  /\ \A d \in Dock, c \in Views :
       <<d, c>> \in Node /\ <<d, c>> \in Host /\ <<d, c>> # c /\ <<d, c>> # d
  /\ \A v \in Views : v \in Node /\ v \notin Dock /\ v \notin Host
  /\ \A d \in Dock : d \in Node /\ d \notin Host
  /\ AppDocks \subseteq Dock /\ Floats \subseteq Dock
  /\ \A h \in Host : h \notin Dock
BY ConstantsAssumption DEF Node, Host, Dock

\* set_gfx_context changes contexts only.
LEMMA ContextOnly ==
  ASSUME NEW t \in Tree, NEW v \in Node, NEW w \in Dock \cup {None}
  PROVE  /\ SetGfxContext(t, v, w) \in Tree
         /\ SetGfxContext(t, v, w).parent = t.parent
         /\ SetGfxContext(t, v, w).kids = t.kids
         /\ SetGfxContext(t, v, w).item = t.item
<1> DEFINE f == [u \in Node |-> IF u \in Subtree(t, v) THEN w ELSE t.ctx[u]]
<1>1. f \in [Node -> Dock \cup {None}]
  BY DEF Tree
<1>2. SetGfxContext(t, v, w) = [t EXCEPT !.ctx = f]
  BY DEF SetGfxContext
<1> HIDE DEF f
<1>3. QED BY <1>1, <1>2 DEF Tree

LEMMA UnlinkEffect ==
  ASSUME NEW t \in Tree, LinksAgree(t), NEW p \in Node, NEW v \in Node, v \in t.kids[p]
  PROVE  /\ Unlink(t, p, v) \in Tree
         /\ LinksAgree(Unlink(t, p, v))
         /\ Unlink(t, p, v).parent = [t.parent EXCEPT ![v] = None]
         /\ Unlink(t, p, v).item = t.item
<1> DEFINE s == Unlink(t, p, v)
<1>1. /\ s.parent = [t.parent EXCEPT ![v] = None]
      /\ s.kids = [t.kids EXCEPT ![p] = @ \ {v}]
      /\ s.ctx = t.ctx /\ s.item = t.item
  BY DEF Unlink, Tree
<1>2. /\ t.parent \in [Node -> Node \cup {None}] /\ t.kids \in [Node -> SUBSET Node]
      /\ t.ctx \in [Node -> Dock \cup {None}] /\ t.item \in [Host -> Position \cup {None}]
  BY DEF Tree
<1> HIDE DEF s
<1>3. s.parent \in [Node -> Node \cup {None}] /\ s.kids \in [Node -> SUBSET Node]
  BY <1>1, <1>2
<1>4. s \in Tree
  BY <1>2, <1>3 DEF Tree, Unlink, s
<1>5. ASSUME NEW q \in Node, NEW u \in Node
      PROVE  u \in s.kids[q] <=> s.parent[u] = q
  <2>1. s.kids[q] = IF q = p THEN t.kids[q] \ {v} ELSE t.kids[q]
    BY <1>1, <1>2
  <2>2. s.parent[u] = IF u = v THEN None ELSE t.parent[u]
    BY <1>1, <1>2
  <2>3. (u \in t.kids[q] <=> t.parent[u] = q) /\ t.parent[v] = p
    BY DEF LinksAgree
  <2>4. QED BY <2>1, <2>2, <2>3, NodeFacts
<1>6. QED BY <1>1, <1>4, <1>5 DEF s, LinksAgree

LEMMA DetachEffect ==
  ASSUME NEW t \in Tree, LinksAgree(t), NEW p \in Node, NEW v \in Node
  PROVE  Moved(DetachChild(t, p, v), t, v, IF t.parent[v] = p THEN None ELSE t.parent[v])
<1>1. v \in t.kids[p] <=> t.parent[v] = p
  BY DEF LinksAgree
<1>2. CASE v \in t.kids[p]
  <2>1. DetachChild(t, p, v) = Unlink(t, p, v)
    BY <1>2 DEF DetachChild
  <2> DEFINE s == Unlink(t, p, v)
  <2>2. /\ s \in Tree /\ LinksAgree(s) /\ s.item = t.item
        /\ s.parent = [t.parent EXCEPT ![v] = None]
    BY <1>2, UnlinkEffect
  <2> HIDE DEF s
  <2>3. QED BY <1>1, <1>2, <2>1, <2>2 DEF Moved, Tree, s
<1>3. CASE v \notin t.kids[p]
  BY <1>1, <1>3 DEF DetachChild, Moved
<1>4. QED BY <1>2, <1>3

LEMMA RemoveEffect ==
  ASSUME NEW t \in Tree, LinksAgree(t), NEW p \in Node, NEW v \in Node
  PROVE  Moved(RemoveChild(t, p, v), t, v, IF t.parent[v] = p THEN None ELSE t.parent[v])
<1>1. v \in t.kids[p] <=> t.parent[v] = p
  BY DEF LinksAgree
<1>2. CASE v \in t.kids[p]
  <2> DEFINE s == Unlink(t, p, v)
  <2>1. RemoveChild(t, p, v) = SetGfxContext(s, v, None)
    BY <1>2 DEF RemoveChild
  <2>2. /\ s \in Tree /\ LinksAgree(s) /\ s.item = t.item
        /\ s.parent = [t.parent EXCEPT ![v] = None]
    BY <1>2, UnlinkEffect
  <2> HIDE DEF s
  <2>3. /\ SetGfxContext(s, v, None) \in Tree
        /\ SetGfxContext(s, v, None).parent = s.parent
        /\ SetGfxContext(s, v, None).kids = s.kids
        /\ SetGfxContext(s, v, None).item = s.item
    BY <2>2, ContextOnly
  <2>4. LinksAgree(SetGfxContext(s, v, None))
    BY <2>2, <2>3 DEF LinksAgree
  <2>5. QED BY <1>1, <1>2, <2>1, <2>2, <2>3, <2>4 DEF Moved, Tree
<1>3. CASE v \notin t.kids[p]
  BY <1>1, <1>3 DEF RemoveChild, Moved
<1>4. QED BY <1>2, <1>3

\* add_child leaves the view under its new parent, wherever it was before.
LEMMA AddEffect ==
  ASSUME NEW t \in Tree, LinksAgree(t), NEW p \in Node, NEW v \in Node
  PROVE  Moved(AddChild(t, p, v), t, v, p)
<1> DEFINE old == t.parent[v]
           removed == IF old \in Node \ {p} THEN RemoveChild(t, old, v) ELSE t
           linked == Link(removed, p, v)
<1>1. CASE v \in t.kids[p]
  <2>1. t.parent[v] = p
    BY <1>1 DEF LinksAgree
  <2>2. QED BY <1>1, <2>1 DEF AddChild, Moved
<1>2. CASE v \notin t.kids[p]
  <2>1. t.parent[v] # p
    BY <1>2 DEF LinksAgree
  <2>2. Moved(removed, t, v, None)
    <3>1. CASE old \in Node \ {p}
      BY <3>1, RemoveEffect
    <3>2. CASE old \notin Node \ {p}
      <4>1. old = None
        BY <2>1, <3>2 DEF Tree
      <4>2. QED BY <3>2, <4>1 DEF Moved
    <3>3. QED BY <3>1, <3>2
  <2>3. AddChild(t, p, v) = SetGfxContext(linked, v, removed.ctx[p])
    BY <1>2 DEF AddChild
  <2> HIDE DEF removed
  <2>4. /\ removed \in Tree /\ LinksAgree(removed) /\ removed.item = t.item
        /\ \A u \in Node : removed.parent[u] = IF u = v THEN None ELSE t.parent[u]
    BY <2>2 DEF Moved
  <2>5. /\ linked \in Tree
        /\ linked.parent = [removed.parent EXCEPT ![v] = p]
        /\ linked.item = removed.item
    BY <2>4 DEF Link, Tree
  <2>6. LinksAgree(linked)
    <3> SUFFICES ASSUME NEW q \in Node, NEW u \in Node
                 PROVE  u \in linked.kids[q] <=> linked.parent[u] = q
      BY DEF LinksAgree
    <3>1. linked.kids[q] = IF q = p THEN removed.kids[q] \cup {v} ELSE removed.kids[q]
      BY <2>4 DEF Link, Tree
    <3>2. linked.parent[u] = IF u = v THEN p ELSE removed.parent[u]
      BY <2>4, <2>5 DEF Tree
    <3>3. u \in removed.kids[q] <=> removed.parent[u] = q
      BY <2>4 DEF LinksAgree
    <3>4. removed.parent[v] = None /\ None # q
      BY <2>4, NodeFacts
    <3>5. QED BY <3>1, <3>2, <3>3, <3>4
  <2>7. removed.ctx[p] \in Dock \cup {None}
    BY <2>4 DEF Tree
  <2> HIDE DEF linked
  <2>8. LET s == SetGfxContext(linked, v, removed.ctx[p])
        IN  s \in Tree /\ s.parent = linked.parent /\ s.kids = linked.kids /\ s.item = linked.item
    BY <2>5, <2>7, ContextOnly
  <2>9. LinksAgree(AddChild(t, p, v))
    BY <2>3, <2>6, <2>8 DEF LinksAgree
  <2>10. QED BY <2>3, <2>4, <2>5, <2>8, <2>9 DEF Moved, Tree
<1>3. QED BY <1>1, <1>2

----------------------------------------------------------------------------
(* dock and undock. *)

LEMMA ItemTyped ==
  ASSUME NEW t \in Tree, NEW h \in Host, NEW p \in Position \cup {None}
  PROVE  LET s == [t EXCEPT !.item[h] = p]
         IN  /\ s \in Tree
             /\ s.item = [t.item EXCEPT ![h] = p]
             /\ s.parent = t.parent /\ s.kids = t.kids /\ s.ctx = t.ctx
BY DEF Tree

LEMMA DockEffect ==
  ASSUME NEW t, GoodTree(t), NEW d \in Dock, NEW c \in Views, NEW p \in Position
  PROVE  LET h == <<d, c>>  s == DockView(t, d, c, p)
         IN  /\ GoodTree(s)
             /\ \A g \in Host : s.item[g] = IF g = h THEN p ELSE t.item[g]
             /\ \A u \in Node :
                  s.parent[u] = IF t.item[h] # None THEN t.parent[u]
                                ELSE IF u = h THEN d
                                ELSE IF u = c THEN h ELSE t.parent[u]
<1> DEFINE h == <<d, c>>
           s == DockView(t, d, c, p)
           a == AddChild(t, h, c)
           b == [a EXCEPT !.item[h] = p]
<1>1. /\ t \in Tree /\ LinksAgree(t) /\ HostsLinked(t)
      /\ h \in Host /\ h \in Node /\ c \in Node /\ d \in Node /\ p # None
      /\ h # c /\ h # d /\ c # d /\ h = <<d, c>>
  BY NodeFacts, ConstantsAssumption DEF GoodTree
<1>2. CASE t.item[h] # None
  <2>1. s = [t EXCEPT !.item[h] = p]
    BY <1>2 DEF DockView
  <2> HIDE DEF h
  <2>2. s \in Tree /\ s.item = [t.item EXCEPT ![h] = p] /\ s.parent = t.parent /\ s.kids = t.kids
    BY <1>1, <2>1, ItemTyped
  <2>3. LinksAgree(s)
    BY <1>1, <2>2 DEF LinksAgree
  <2>4. \A g \in Host : s.item[g] = None <=> t.item[g] = None
    BY <1>1, <1>2, <2>2 DEF Tree
  <2> HIDE DEF s
  <2>5. HostsLinked(s)
    <3> SUFFICES ASSUME NEW e \in Dock, NEW x \in Views
                 PROVE  /\ s.parent[<<e, x>>] = IF s.item[<<e, x>>] = None THEN None ELSE e
                        /\ \A u \in Node : s.parent[u] = <<e, x>> =>
                             u = x /\ s.item[<<e, x>>] # None
      BY DEF HostsLinked
    <3>1. /\ t.parent[<<e, x>>] = IF t.item[<<e, x>>] = None THEN None ELSE e
          /\ \A u \in Node : t.parent[u] = <<e, x>> => u = x /\ t.item[<<e, x>>] # None
      BY <1>1 DEF HostsLinked
    <3>2. t.item[<<e, x>>] = None <=> s.item[<<e, x>>] = None
      BY <2>4, NodeFacts
    <3>3. QED BY <2>2, <3>1, <3>2
  <2>6. \A g \in Host : s.item[g] = IF g = h THEN p ELSE t.item[g]
    BY <1>1, <2>2 DEF Tree
  <2>7. QED BY <1>2, <2>2, <2>3, <2>5, <2>6 DEF GoodTree, h, s
<1>3. CASE t.item[h] = None
  <2>1. s = AddChild(b, d, h)
    BY <1>3 DEF DockView
  <2> HIDE DEF h
  <2>2. Moved(a, t, c, h)
    BY <1>1, AddEffect
  <2> HIDE DEF a
  <2>3a. /\ a \in Tree /\ LinksAgree(a) /\ a.item = t.item
        /\ \A u \in Node : a.parent[u] = IF u = c THEN h ELSE t.parent[u]
    BY <2>2 DEF Moved
  <2>3. b \in Tree /\ b.item = [a.item EXCEPT ![h] = p] /\ b.parent = a.parent /\ b.kids = a.kids
    BY <1>1, <2>3a, ItemTyped
  <2>4. LinksAgree(b)
    BY <2>3a, <2>3 DEF LinksAgree
  <2> HIDE DEF b
  <2>5. Moved(s, b, h, d)
    BY <1>1, <2>1, <2>3, <2>4, AddEffect
  <2> HIDE DEF s
  <2>5a. /\ s \in Tree /\ LinksAgree(s) /\ s.item = b.item
        /\ \A u \in Node : s.parent[u] = IF u = h THEN d ELSE b.parent[u]
    BY <2>5 DEF Moved
  <2>6. s.item = [t.item EXCEPT ![h] = p]
    BY <2>3, <2>3a, <2>5a
  <2>7. ASSUME NEW u \in Node
        PROVE  s.parent[u] = IF u = h THEN d ELSE IF u = c THEN h ELSE t.parent[u]
    BY <2>3, <2>3a, <2>5a
  <2>8. HostsLinked(s)
    <3> SUFFICES ASSUME NEW e \in Dock, NEW x \in Views
                 PROVE  /\ s.parent[<<e, x>>] = IF s.item[<<e, x>>] = None THEN None ELSE e
                        /\ \A u \in Node : s.parent[u] = <<e, x>> =>
                             u = x /\ s.item[<<e, x>>] # None
      BY DEF HostsLinked
    <3>1. s.item[<<e, x>>] = IF <<e, x>> = h THEN p ELSE t.item[<<e, x>>]
      BY <1>1, <2>6, NodeFacts DEF Tree
    <3>2. /\ t.parent[<<e, x>>] = IF t.item[<<e, x>>] = None THEN None ELSE e
          /\ \A u \in Node : t.parent[u] = <<e, x>> => u = x /\ t.item[<<e, x>>] # None
      BY <1>1 DEF HostsLinked
    <3>3. <<e, x>> \in Node /\ <<e, x>> # c /\ <<e, x>> # d
      BY NodeFacts
    <3>4. <<e, x>> = h <=> e = d /\ x = c
      BY <1>1
    <3>5. QED BY <1>1, <1>3, <2>7, <3>1, <3>2, <3>3, <3>4
  <2>9. \A g \in Host : s.item[g] = IF g = h THEN p ELSE t.item[g]
    BY <1>1, <2>6 DEF Tree
  <2>10. QED BY <1>3, <2>5a, <2>7, <2>8, <2>9 DEF GoodTree, s, h
<1>4. QED BY <1>2, <1>3

LEMMA UndockEffect ==
  ASSUME NEW t, GoodTree(t), NEW d \in Dock, NEW c \in Views
  PROVE  LET h == <<d, c>>  s == UndockView(t, d, c)
         IN  /\ GoodTree(s)
             /\ \A g \in Host : s.item[g] = IF g = h THEN None ELSE t.item[g]
             /\ \A u \in Node :
                  s.parent[u] = IF u = h \/ t.parent[u] = h THEN None ELSE t.parent[u]
<1> DEFINE h == <<d, c>>
           s == UndockView(t, d, c)
           a == IF t.parent[c] = h THEN DetachChild(t, h, c) ELSE t
           b == RemoveChild(a, d, h)
<1>1. /\ t \in Tree /\ LinksAgree(t) /\ HostsLinked(t)
      /\ h \in Host /\ h \in Node /\ c \in Node /\ d \in Node
      /\ h # c /\ h # d /\ c # d /\ None # h /\ h = <<d, c>>
  BY NodeFacts DEF GoodTree
<1>2. /\ t.parent[h] = IF t.item[h] = None THEN None ELSE d
      /\ \A u \in Node : t.parent[u] = h => u = c /\ t.item[h] # None
  BY <1>1 DEF HostsLinked
<1>3. CASE t.item[h] = None
  <2>1. s = t
    BY <1>3 DEF UndockView
  <2>2. QED BY <1>1, <1>2, <1>3, <2>1
<1>4. CASE t.item[h] # None
  <2>1. s = [b EXCEPT !.item[h] = None]
    BY <1>4 DEF UndockView
  <2> HIDE DEF h
  <2>2. /\ a \in Tree /\ LinksAgree(a) /\ a.item = t.item
        /\ \A u \in Node : a.parent[u] = IF t.parent[u] = h THEN None ELSE t.parent[u]
    <3>1. CASE t.parent[c] = h
      <4>1. Moved(a, t, c, None)
        BY <1>1, <3>1, DetachEffect
      <4>2. QED BY <1>2, <3>1, <4>1 DEF Moved
    <3>2. CASE t.parent[c] # h
      BY <1>1, <1>2, <3>2
    <3>3. QED BY <3>1, <3>2
  <2> HIDE DEF a
  <2>2a. a.parent[h] = d
    BY <1>1, <1>2, <1>4, <2>2
  <2>2b. Moved(b, a, h, None)
    BY <1>1, <2>2, <2>2a, RemoveEffect
  <2> HIDE DEF b
  <2>3. /\ b \in Tree /\ LinksAgree(b) /\ b.item = a.item
        /\ \A u \in Node : b.parent[u] = IF u = h THEN None ELSE a.parent[u]
    BY <2>2b DEF Moved
  <2>4. s \in Tree /\ s.item = [b.item EXCEPT ![h] = None] /\ s.parent = b.parent /\ s.kids = b.kids
    BY <1>1, <2>1, <2>3, ItemTyped
  <2> HIDE DEF s
  <2>5. LinksAgree(s)
    BY <2>3, <2>4 DEF LinksAgree
  <2>6. s.item = [t.item EXCEPT ![h] = None]
    BY <2>2, <2>3, <2>4
  <2>7. ASSUME NEW u \in Node
        PROVE  s.parent[u] = IF u = h \/ t.parent[u] = h THEN None ELSE t.parent[u]
    BY <2>2, <2>3, <2>4
  <2>8. HostsLinked(s)
    <3> SUFFICES ASSUME NEW e \in Dock, NEW x \in Views
                 PROVE  /\ s.parent[<<e, x>>] = IF s.item[<<e, x>>] = None THEN None ELSE e
                        /\ \A u \in Node : s.parent[u] = <<e, x>> =>
                             u = x /\ s.item[<<e, x>>] # None
      BY DEF HostsLinked
    <3>1. s.item[<<e, x>>] = IF <<e, x>> = h THEN None ELSE t.item[<<e, x>>]
      BY <1>1, <2>6, NodeFacts DEF Tree
    <3>2. /\ t.parent[<<e, x>>] = IF t.item[<<e, x>>] = None THEN None ELSE e
          /\ \A u \in Node : t.parent[u] = <<e, x>> => u = x /\ t.item[<<e, x>>] # None
      BY <1>1 DEF HostsLinked
    <3>3. <<e, x>> \in Node /\ None # <<e, x>> /\ e # h
      BY <1>1, NodeFacts
    <3>4. QED BY <1>1, <2>7, <3>1, <3>2, <3>3
  <2>9. \A g \in Host : s.item[g] = IF g = h THEN None ELSE t.item[g]
    BY <1>1, <2>6 DEF Tree
  <2>10. QED BY <2>4, <2>5, <2>7, <2>8, <2>9 DEF GoodTree, s, h
<1>5. QED BY <1>3, <1>4


----------------------------------------------------------------------------
(* Floating a view and redocking it. *)

LEMMA ContextKeepsTree ==
  ASSUME NEW t, GoodTree(t), NEW v \in Node, NEW w \in Dock \cup {None}
  PROVE  /\ GoodTree(SetGfxContext(t, v, w))
         /\ SetGfxContext(t, v, w).parent = t.parent
         /\ SetGfxContext(t, v, w).item = t.item
<1> DEFINE s == SetGfxContext(t, v, w)
<1>1. t \in Tree /\ LinksAgree(t) /\ HostsLinked(t)
  BY DEF GoodTree
<1>2. s \in Tree /\ s.parent = t.parent /\ s.kids = t.kids /\ s.item = t.item
  BY <1>1, ContextOnly
<1> HIDE DEF s
<1>3. LinksAgree(s)
  BY <1>1, <1>2 DEF LinksAgree
<1>4. HostsLinked(s)
  <2> SUFFICES ASSUME NEW d \in Dock, NEW c \in Views
               PROVE  /\ s.parent[<<d, c>>] = IF s.item[<<d, c>>] = None THEN None ELSE d
                      /\ \A u \in Node : s.parent[u] = <<d, c>> =>
                           u = c /\ s.item[<<d, c>>] # None
    BY DEF HostsLinked
  <2>1. /\ t.parent[<<d, c>>] = IF t.item[<<d, c>>] = None THEN None ELSE d
        /\ \A u \in Node : t.parent[u] = <<d, c>> => u = c /\ t.item[<<d, c>>] # None
    BY <1>1 DEF HostsLinked
  <2>2. QED BY <1>2, <2>1
<1>5. GoodTree(s)
  BY <1>2, <1>3, <1>4 DEF GoodTree
<1>6. QED BY <1>2, <1>5 DEF s

\* Moving a view from a parent that is no host to another disturbs no host.
LEMMA MovedKeepsTree ==
  ASSUME NEW t, GoodTree(t), NEW s, NEW v \in Views, NEW p \in Views \cup {None},
         Moved(s, t, v, p)
  PROVE  GoodTree(s)
<1> SUFFICES ASSUME NEW e \in Dock, NEW x \in Views
             PROVE  /\ s.parent[<<e, x>>] = IF s.item[<<e, x>>] = None THEN None ELSE e
                    /\ \A u \in Node : s.parent[u] = <<e, x>> =>
                         u = x /\ s.item[<<e, x>>] # None
  BY DEF GoodTree, HostsLinked, Moved
<1>1. /\ s.item = t.item
      /\ \A u \in Node : s.parent[u] = IF u = v THEN p ELSE t.parent[u]
  BY DEF Moved
<1>2. /\ t.parent[<<e, x>>] = IF t.item[<<e, x>>] = None THEN None ELSE e
      /\ \A u \in Node : t.parent[u] = <<e, x>> => u = x /\ t.item[<<e, x>>] # None
  BY DEF GoodTree, HostsLinked
<1>3. <<e, x>> \in Node /\ <<e, x>> # v /\ p # <<e, x>>
  BY NodeFacts
<1>4. QED BY <1>1, <1>2, <1>3

LEMMA AddEffectOnViews ==
  ASSUME NEW t, GoodTree(t), NEW p \in Views, NEW v \in Views
  PROVE  /\ GoodTree(AddChild(t, p, v))
         /\ Moved(AddChild(t, p, v), t, v, p)
<1>1. Moved(AddChild(t, p, v), t, v, p)
  BY AddEffect, NodeFacts DEF GoodTree
<1>2. QED BY <1>1, MovedKeepsTree

LEMMA RemoveEffectOnViews ==
  ASSUME NEW t, GoodTree(t), NEW p \in Views, NEW v \in Views, v \in t.kids[p]
  PROVE  /\ GoodTree(RemoveChild(t, p, v))
         /\ Moved(RemoveChild(t, p, v), t, v, None)
         /\ t.parent[v] = p
<1>1. t.parent[v] = p
  BY NodeFacts DEF GoodTree, LinksAgree
<1>2. Moved(RemoveChild(t, p, v), t, v, None)
  BY <1>1, RemoveEffect, NodeFacts DEF GoodTree
<1>3. QED BY <1>1, <1>2, MovedKeepsTree

LEMMA RedockEffect ==
  ASSUME NEW t, GoodTree(t), NEW w \in Floats, NEW c \in Views, NEW d \in Dock, NEW p \in Position,
         d # w
  PROVE  LET s == RedockView(t, w, c, d, p)
         IN  /\ GoodTree(s)
             /\ \A g \in Host : s.item[g] = IF g = <<d, c>> THEN p
                                            ELSE IF g = <<w, c>> THEN None ELSE t.item[g]
             /\ t.item[<<d, c>>] = None =>
                  \A u \in Node : s.parent[u] =
                    IF u = <<d, c>> THEN d ELSE IF u = c THEN <<d, c>>
                    ELSE IF u = <<w, c>> THEN None ELSE t.parent[u]
<1> DEFINE a == UndockView(t, w, c)
           b == DockView(a, d, c, p)
           s == SetGfxContext(b, w, None)
<1>1. s = RedockView(t, w, c, d, p)
  BY DEF RedockView
<1>2. w \in Dock /\ w \in Node /\ c \in Node
  BY NodeFacts
<1>3. /\ GoodTree(a)
      /\ \A g \in Host : a.item[g] = IF g = <<w, c>> THEN None ELSE t.item[g]
      /\ \A u \in Node :
           a.parent[u] = IF u = <<w, c>> \/ t.parent[u] = <<w, c>> THEN None ELSE t.parent[u]
  BY <1>2, UndockEffect
<1> HIDE DEF a
<1>4. /\ GoodTree(b)
      /\ \A g \in Host : b.item[g] = IF g = <<d, c>> THEN p ELSE a.item[g]
      /\ \A u \in Node :
           b.parent[u] = IF a.item[<<d, c>>] # None THEN a.parent[u]
                         ELSE IF u = <<d, c>> THEN d
                         ELSE IF u = c THEN <<d, c>> ELSE a.parent[u]
  BY <1>3, DockEffect
<1> HIDE DEF b
<1>5. GoodTree(s) /\ s.parent = b.parent /\ s.item = b.item
  BY <1>2, <1>4, ContextKeepsTree
<1> HIDE DEF s
<1>6. ASSUME t.item[<<d, c>>] = None, NEW u \in Node
      PROVE  s.parent[u] = IF u = <<d, c>> THEN d ELSE IF u = c THEN <<d, c>>
                           ELSE IF u = <<w, c>> THEN None ELSE t.parent[u]
  <2>1. a.item[<<d, c>>] = None
    <3>1. <<d, c>> \in Host /\ <<d, c>> # <<w, c>>
      BY NodeFacts
    <3>2. QED BY <1>3, <1>6, <3>1 DEF GoodTree, Tree
  <2>2. t.parent[u] = <<w, c>> => u = c
    BY <1>2 DEF GoodTree, HostsLinked
  <2>3. QED BY <1>3, <1>4, <1>5, <2>1, <2>2
<1>7. QED BY <1>1, <1>3, <1>4, <1>5, <1>6


\* What set_hosted_view starts from: the view taken out of where it was.
LEMMA LooseEffect ==
  ASSUME NEW t, GoodTree(t), NEW c \in Views, OwnerDocks(t.parent, c) \subseteq Dock
  PROVE  LET s == Loosen(t, c)
         IN  /\ GoodTree(s)
             /\ (\A e \in Dock : t.item[<<e, c>>] # None <=> t.parent[c] = <<e, c>>) =>
                  /\ \A e \in Dock, x \in Views :
                       s.item[<<e, x>>] = IF x = c THEN None ELSE t.item[<<e, x>>]
                  /\ \A u \in Views \ {c} : s.parent[u] = t.parent[u]
<1> DEFINE s == Loosen(t, c)
           o == OwnerDocks(t.parent, c)
           matched == \A e \in Dock : t.item[<<e, c>>] # None <=> t.parent[c] = <<e, c>>
<1>1. /\ t \in Tree /\ LinksAgree(t) /\ HostsLinked(t) /\ c \in Node
      /\ t.parent[c] \in Node \cup {None}
  BY NodeFacts DEF GoodTree, Tree
<1>2. ASSUME matched, t.parent[c] \in Host
      PROVE  \E e \in Dock : /\ t.parent[c] = <<e, c>> /\ o = {e}
                             /\ \A x \in Dock : x # e => t.item[<<x, c>>] = None
  <2>1. PICK e \in Dock, x \in Views : t.parent[c] = <<e, x>>
    BY <1>2 DEF Host
  <2>2. x = c /\ t.item[<<e, x>>] # None /\ t.parent[<<e, x>>] = e
    BY <1>1, <2>1 DEF HostsLinked
  <2>3. o = {e}
    BY <1>2, <2>1, <2>2 DEF OwnerDocks
  <2>4. \A y \in Dock : y # e => t.item[<<y, c>>] = None
    BY <1>2, <2>1, <2>2
  <2>5. QED BY <2>1, <2>2, <2>3, <2>4
<1>3. ASSUME matched, t.parent[c] \notin Host, NEW e \in Dock
      PROVE  t.item[<<e, c>>] = None /\ \A u \in Node : t.parent[u] # <<e, c>>
  BY <1>1, <1>3, NodeFacts DEF HostsLinked
<1>4. CASE o # {}
  <2> DEFINE d == CHOOSE e \in o : TRUE
  <2>1. d \in Dock /\ d \in o /\ s = UndockView(t, d, c)
    BY <1>4 DEF Loosen
  <2> HIDE DEF d, s
  <2>2. /\ GoodTree(s)
        /\ \A g \in Host : s.item[g] = IF g = <<d, c>> THEN None ELSE t.item[g]
        /\ \A u \in Node :
             s.parent[u] = IF u = <<d, c>> \/ t.parent[u] = <<d, c>> THEN None ELSE t.parent[u]
    BY <2>1, UndockEffect
  <2>3. ASSUME matched, NEW e \in Dock, NEW x \in Views
        PROVE  s.item[<<e, x>>] = IF x = c THEN None ELSE t.item[<<e, x>>]
    <3>1. <<e, x>> \in Host /\ (<<e, x>> = <<d, c>> <=> e = d /\ x = c)
      BY NodeFacts
    <3>2. x = c /\ e # d => t.item[<<e, x>>] = None
      BY <1>2, <1>3, <2>1, <2>3
    <3>3. QED BY <2>2, <3>1, <3>2
  <2>4. ASSUME NEW u \in Views \ {c} PROVE s.parent[u] = t.parent[u]
    <3>1. u \in Node /\ u # <<d, c>> /\ u # c
      BY <2>1, NodeFacts
    <3>1a. t.parent[u] # <<d, c>>
      BY <1>1, <2>1, <3>1 DEF HostsLinked
    <3>2. QED BY <2>2, <3>1, <3>1a
  <2>5. QED BY <2>2, <2>3, <2>4 DEF s
<1>5. CASE o = {}
  <2>1. t.parent[c] \notin Host
    BY <1>5 DEF OwnerDocks
  <2>2. CASE t.parent[c] # None
    <3>1. s = DetachChild(t, t.parent[c], c)
      BY <1>5, <2>2 DEF Loosen
    <3> HIDE DEF s
    <3>2. t.parent[c] \in Node
      BY <1>1, <2>2
    <3>3. Moved(s, t, c, None)
      BY <1>1, <3>1, <3>2, DetachEffect
    <3>4. GoodTree(s)
      BY <3>3, MovedKeepsTree
    <3>5. s.item = t.item /\ \A u \in Views \ {c} : s.parent[u] = t.parent[u]
      BY <3>3, NodeFacts DEF Moved
    <3>6. QED BY <1>3, <2>1, <3>4, <3>5 DEF s
  <2>3. CASE t.parent[c] = None
    BY <1>3, <1>5, <2>1, <2>3 DEF Loosen
  <2>4. QED BY <2>2, <2>3
<1>6. QED BY <1>4, <1>5

\* s is t with c alone in floating window w.
Floated(s, t, w, c) ==
  /\ \A e \in Dock, x \in Views :
       s.item[<<e, x>>] = IF x # c THEN t.item[<<e, x>>] ELSE IF e = w THEN Fill ELSE None
  /\ \A u \in Views : s.parent[u] = IF u = c THEN <<w, c>> ELSE t.parent[u]

MatchedItem(t, c) == \A e \in Dock : t.item[<<e, c>>] # None <=> t.parent[c] = <<e, c>>

LEMMA FloatEffect ==
  ASSUME NEW t, GoodTree(t), NEW w \in Floats, NEW c \in Views,
         OwnerDocks(t.parent, c) \subseteq AppDocks
  PROVE  LET s == FloatView(t, w, c)
         IN  /\ GoodTree(s)
             /\ MatchedItem(t, c) /\ t.item[<<w, c>>] = None => Floated(s, t, w, c)
<1> DEFINE n == NewWindow(t, w)
           l == Loosen(n, c)
           s == FloatView(t, w, c)
<1>1. s = DockView(l, w, c, Fill)
  BY DEF FloatView, HostView
<1>2. w \in Dock /\ w \in Node /\ c \in Node /\ Fill \in Position
  BY NodeFacts, ConstantsAssumption
<1>3. GoodTree(n) /\ n.parent = t.parent /\ n.item = t.item
  BY <1>2, ContextKeepsTree DEF NewWindow
<1> HIDE DEF n
<1>4. /\ GoodTree(l)
      /\ (\A e \in Dock : n.item[<<e, c>>] # None <=> n.parent[c] = <<e, c>>) =>
           /\ \A e \in Dock, x \in Views :
                l.item[<<e, x>>] = IF x = c THEN None ELSE n.item[<<e, x>>]
           /\ \A u \in Views \ {c} : l.parent[u] = n.parent[u]
  BY <1>3, NodeFacts, LooseEffect
<1>5. /\ GoodTree(l)
      /\ (\A e \in Dock : t.item[<<e, c>>] # None <=> t.parent[c] = <<e, c>>) =>
           /\ \A e \in Dock, x \in Views :
                l.item[<<e, x>>] = IF x = c THEN None ELSE t.item[<<e, x>>]
           /\ \A u \in Views \ {c} : l.parent[u] = t.parent[u]
  BY <1>3, <1>4
<1> HIDE DEF l
<1>6. /\ GoodTree(s)
      /\ \A g \in Host : s.item[g] = IF g = <<w, c>> THEN Fill ELSE l.item[g]
      /\ \A u \in Node :
           s.parent[u] = IF l.item[<<w, c>>] # None THEN l.parent[u]
                         ELSE IF u = <<w, c>> THEN w
                         ELSE IF u = c THEN <<w, c>> ELSE l.parent[u]
  BY <1>1, <1>2, <1>5, DockEffect
<1> HIDE DEF s
<1>7. ASSUME \A e \in Dock : t.item[<<e, c>>] # None <=> t.parent[c] = <<e, c>>
      PROVE  /\ \A e \in Dock, x \in Views :
                  s.item[<<e, x>>] = IF x # c THEN t.item[<<e, x>>]
                                     ELSE IF e = w THEN Fill ELSE None
             /\ \A u \in Views : s.parent[u] = IF u = c THEN <<w, c>> ELSE t.parent[u]
  <2>1. ASSUME NEW e \in Dock, NEW x \in Views
        PROVE  s.item[<<e, x>>] = IF x # c THEN t.item[<<e, x>>]
                                  ELSE IF e = w THEN Fill ELSE None
    <3>1. <<e, x>> \in Host /\ (<<e, x>> = <<w, c>> <=> e = w /\ x = c)
      BY NodeFacts
    <3>2. QED BY <1>5, <1>6, <1>7, <3>1
  <2>2. ASSUME NEW u \in Views
        PROVE  s.parent[u] = IF u = c THEN <<w, c>> ELSE t.parent[u]
    <3>1. u \in Node /\ u # <<w, c>>
      BY <1>2, NodeFacts
    <3>2. QED BY <1>2, <1>5, <1>6, <1>7, <3>1
  <2>3. QED BY <2>1, <2>2
<1>8. QED BY <1>6, <1>7 DEF s, Floated, MatchedItem


----------------------------------------------------------------------------
(* For every application, disciplined or not. *)

TreeInv ==
  /\ GoodTree(tree)
  /\ win \in [Floats -> Window]
  /\ \A w \in Floats : win[w].target \in AppDocks \cup {None}

LEMMA FloatWindowTyped ==
  ASSUME NEW t, t \in Tree, NEW d \in AppDocks, NEW c \in Views,
         OwnerDocks(t.parent, c) \subseteq AppDocks
  PROVE  /\ FloatWindow(t, d, c) \in Window
         /\ FloatWindow(t, d, c).open = TRUE
         /\ FloatWindow(t, d, c).hosted = c
         /\ FloatWindow(t, d, c).target \in AppDocks
<1> DEFINE o == OwnerDocks(t.parent, c)
           h == IF o # {} THEN CHOOSE x \in o : TRUE ELSE d
<1>1. h \in AppDocks
  OBVIOUS
<1>2. HomeOf(t, d, c) = [dock |-> h, pos |-> DockPositionOf(t, h, c)]
  BY DEF HomeOf
<1> HIDE DEF h
<1>3. <<h, c>> \in Host
  BY <1>1, NodeFacts
<1>4. DockPositionOf(t, h, c) \in Position
  BY <1>3, ConstantsAssumption DEF DockPositionOf, Tree
<1>5. QED BY <1>1, <1>2, <1>4 DEF FloatWindow, Window, Dock

LEMMA NoWindowTyped == NoWindow \in Window /\ NoWindow.target = None /\ NoWindow.open = FALSE
BY ConstantsAssumption DEF NoWindow, Window

LEMMA TreeInvInit == Init => TreeInv
<1> SUFFICES ASSUME Init PROVE TreeInv
  OBVIOUS
<1>1. /\ tree.parent = [v \in Node |-> None]
      /\ tree.kids = [v \in Node |-> {}]
      /\ tree.item = [h \in Host |-> None]
      /\ tree \in Tree
  <2>1. [v \in Node |-> IF v \in AppDocks THEN v ELSE None] \in [Node -> Dock \cup {None}]
    BY NodeFacts
  <2>2. QED BY <2>1 DEF Init, Tree
<1>2. LinksAgree(tree)
  BY <1>1, NodeFacts DEF LinksAgree
<1>3. HostsLinked(tree)
  <2>1. \A d \in Dock, c \in Views : <<d, c>> \in Host /\ <<d, c>> \in Node /\ None # <<d, c>>
    BY NodeFacts
  <2>2. QED BY <1>1, <2>1 DEF HostsLinked
<1>4. QED BY <1>1, <1>2, <1>3, NoWindowTyped DEF Init, TreeInv, GoodTree

LEMMA TreeInvStep == TreeInv /\ [Next]_vars => TreeInv'
<1> SUFFICES ASSUME TreeInv, [Next]_vars PROVE TreeInv'
  OBVIOUS
<1> USE DEF TreeInv
<1>1. ASSUME NEW d \in AppDocks, NEW c \in Views, NEW p \in Position, AppDock(d, c, p)
      PROVE  TreeInv'
  BY <1>1, DockEffect, NodeFacts DEF AppDock
<1>2. ASSUME NEW d \in AppDocks, NEW c \in Views, AppUndock(d, c)
      PROVE  TreeInv'
  BY <1>2, UndockEffect, NodeFacts DEF AppUndock
<1>3. ASSUME NEW p \in Views, NEW v \in Views, AppAddChild(p, v)
      PROVE  TreeInv'
  BY <1>3, AddEffectOnViews DEF AppAddChild
<1>4. ASSUME NEW p \in Views, NEW v \in Views, AppRemoveChild(p, v)
      PROVE  TreeInv'
  BY <1>4, RemoveEffectOnViews DEF AppRemoveChild
<1>5. ASSUME NEW d \in AppDocks, NEW c \in Views, UndockToWindow(d, c)
      PROVE  TreeInv'
  <2>1. PICK w \in Floats : /\ tree' = FloatView(tree, w, c)
                            /\ win' = [win EXCEPT ![w] = FloatWindow(tree, d, c)]
    BY <1>5 DEF UndockToWindow
  <2>2. OwnerDocks(tree.parent, c) \subseteq AppDocks
    BY <1>5 DEF UndockToWindow
  <2>3. GoodTree(tree')
    BY <2>1, <2>2, FloatEffect
  <2>4. FloatWindow(tree, d, c) \in Window /\ FloatWindow(tree, d, c).target \in AppDocks
    BY <2>2, FloatWindowTyped DEF GoodTree
  <2>5. QED BY <2>1, <2>3, <2>4 DEF GoodTree, LinksAgree, HostsLinked
<1>6. ASSUME NEW w \in Floats, NEW d \in AppDocks, NEW p \in Position, RedockTo(w, d, p)
      PROVE  TreeInv'
  <2>1. /\ tree' = RedockView(tree, w, win[w].hosted, d, p)
        /\ win' = [win EXCEPT ![w] = NoWindow]
        /\ win[w].hosted \in Views
    BY <1>6 DEF RedockTo, Window
  <2>2. d \in Dock /\ d # w
    BY NodeFacts, ConstantsAssumption
  <2>3. GoodTree(tree')
    BY <2>1, <2>2, RedockEffect
  <2>4. QED BY <2>1, <2>3, NoWindowTyped DEF GoodTree, LinksAgree, HostsLinked
<1>7. ASSUME NEW w \in Floats, CloseFloat(w)
      PROVE  TreeInv'
  <2>1. win[w].target \in AppDocks /\ win[w].pos \in Position
    BY <1>7 DEF CloseFloat, Window
  <2>2. QED BY <1>6, <1>7, <2>1 DEF CloseFloat
<1>8. CASE UNCHANGED vars
  BY <1>8 DEF vars, GoodTree, LinksAgree, HostsLinked
<1>9. QED BY <1>1, <1>2, <1>3, <1>4, <1>5, <1>6, <1>7, <1>8 DEF Next

LEMMA TreeInvAlways == Spec => []TreeInv
BY TreeInvInit, TreeInvStep, PTL DEF Spec

LEMMA TreeInvMeaning == TreeInv => TypeOK /\ ParentsMatchSubviews /\ HostsMatchItems
<1> SUFFICES ASSUME TreeInv PROVE TypeOK /\ ParentsMatchSubviews /\ HostsMatchItems
  OBVIOUS
<1>1. TypeOK /\ ParentsMatchSubviews
  BY DEF TreeInv, GoodTree, LinksAgree, TypeOK, ParentsMatchSubviews
<1>2. HostsMatchItems
  <2> SUFFICES ASSUME NEW d \in Dock, NEW c \in Views
               PROVE  /\ tree.parent[<<d, c>>] = IF tree.item[<<d, c>>] = None THEN None ELSE d
                      /\ tree.kids[<<d, c>>] \subseteq IF tree.item[<<d, c>>] = None THEN {} ELSE {c}
    BY DEF HostsMatchItems
  <2>1. <<d, c>> \in Node /\ tree.kids[<<d, c>>] \subseteq Node
    BY NodeFacts DEF TreeInv, GoodTree, Tree
  <2>2. \A u \in Node : u \in tree.kids[<<d, c>>] <=> tree.parent[u] = <<d, c>>
    BY <2>1 DEF TreeInv, GoodTree, LinksAgree
  <2>3. /\ tree.parent[<<d, c>>] = IF tree.item[<<d, c>>] = None THEN None ELSE d
        /\ \A u \in Node : tree.parent[u] = <<d, c>> => u = c /\ tree.item[<<d, c>>] # None
    BY DEF TreeInv, GoodTree, HostsLinked
  <2>4. QED BY <2>1, <2>2, <2>3
<1>3. QED BY <1>1, <1>2

\* The state keeps its shape.
THEOREM TypeCorrect == Spec => []TypeOK
BY TreeInvAlways, TreeInvMeaning, PTL

\* Parent pointers and subview lists agree whatever the application does.
THEOREM ParentsAlwaysMatch == Spec => []ParentsMatchSubviews
BY TreeInvAlways, TreeInvMeaning, PTL

\* A host is in the tree exactly while its dock lists it, and holds no stranger.
THEOREM HostsAlwaysMatch == Spec => []HostsMatchItems
BY TreeInvAlways, TreeInvMeaning, PTL


----------------------------------------------------------------------------
(* For a disciplined application: no stale items.                          *)

MatchedItems(t) ==
  \A d \in Dock, c \in Views : t.item[<<d, c>>] # None <=> t.parent[c] = <<d, c>>

DockInv == TreeInv /\ ItemsMatchTree /\ FloatsHoldTheirView

\* From t to s only the view c moves: into dock d's host (None: out of all of
\* them), where its one item has the position p.
OnlyMoves(s, t, c, d, p) ==
  /\ \A e \in Dock, x \in Views :
       s.item[<<e, x>>] = IF x # c THEN t.item[<<e, x>>] ELSE IF e = d THEN p ELSE None
  /\ \A x \in Views : x # c => s.parent[x] = t.parent[x]
  /\ \A e \in Dock : s.parent[c] = <<e, c>> <=> e = d

LEMMA MatchedMoves ==
  ASSUME NEW s, NEW t, MatchedItems(t), NEW c \in Views, NEW d, NEW p, p # None,
         OnlyMoves(s, t, c, d, p)
  PROVE  MatchedItems(s)
<1> SUFFICES ASSUME NEW e \in Dock, NEW x \in Views
             PROVE  s.item[<<e, x>>] # None <=> s.parent[x] = <<e, x>>
  BY DEF MatchedItems
<1>1. CASE x = c
  BY <1>1 DEF OnlyMoves
<1>2. CASE x # c
  <2>1. s.item[<<e, x>>] = t.item[<<e, x>>] /\ s.parent[x] = t.parent[x]
    BY <1>2 DEF OnlyMoves
  <2>2. QED BY <2>1 DEF MatchedItems
<1>3. QED BY <1>1, <1>2

LEMMA DockInvInit == Init => DockInv
<1> SUFFICES ASSUME Init PROVE DockInv
  OBVIOUS
<1>1. TreeInv
  BY TreeInvInit
<1>2. \A d \in Dock, c \in Views : tree.item[<<d, c>>] = None /\ tree.parent[c] # <<d, c>>
  BY NodeFacts DEF Init
<1>3. \A w \in Floats : win[w] = NoWindow
  BY DEF Init
<1>4. QED BY <1>1, <1>2, <1>3, NodeFacts, NoWindowTyped
          DEF DockInv, ItemsMatchTree, FloatsHoldTheirView

LEMMA RedockKeepsDocks ==
  ASSUME DockInv, NEW w \in Floats, NEW d \in AppDocks, NEW p \in Position, RedockTo(w, d, p)
  PROVE  /\ ItemsMatchTree' /\ FloatsHoldTheirView'
         /\ win[w].hosted \in Views
         /\ tree.parent[win[w].hosted] = <<w, win[w].hosted>>
         /\ \A u \in Views : tree'.parent[u] =
              IF u = win[w].hosted THEN <<d, win[w].hosted>> ELSE tree.parent[u]
<1> DEFINE c == win[w].hosted
<1>1. /\ tree' = RedockView(tree, w, c, d, p)
      /\ win' = [win EXCEPT ![w] = NoWindow]
      /\ win[w].open /\ c \in Views
      /\ GoodTree(tree) /\ win \in [Floats -> Window]
  BY DEF RedockTo, Window, DockInv, TreeInv
<1>2. /\ d \in Dock /\ w \in Dock /\ d # w /\ c \in Node /\ p # None /\ Fill # None
      /\ d \notin Floats
  BY <1>1, NodeFacts, ConstantsAssumption
<1>3. \A x \in Views : tree.item[<<w, x>>] = IF x = c THEN Fill ELSE None
  BY <1>1 DEF DockInv, FloatsHoldTheirView
<1> HIDE DEF c
<1>4. tree.parent[c] = <<w, c>>
  BY <1>1, <1>2, <1>3 DEF DockInv, ItemsMatchTree
<1>5. \A e \in Dock : e # w => tree.item[<<e, c>>] = None
  BY <1>1, <1>2, <1>4 DEF DockInv, ItemsMatchTree
<1>6. /\ \A g \in Host : tree'.item[g] = IF g = <<d, c>> THEN p
                                         ELSE IF g = <<w, c>> THEN None ELSE tree.item[g]
      /\ \A u \in Node : tree'.parent[u] =
           IF u = <<d, c>> THEN d ELSE IF u = c THEN <<d, c>>
           ELSE IF u = <<w, c>> THEN None ELSE tree.parent[u]
  BY <1>1, <1>2, <1>5, RedockEffect
<1>7. ASSUME NEW u \in Views
      PROVE  tree'.parent[u] = IF u = c THEN <<d, c>> ELSE tree.parent[u]
  <2>1. u \in Node /\ u # <<d, c>> /\ u # <<w, c>>
    BY <1>1, <1>2, NodeFacts
  <2>2. QED BY <1>6, <2>1
<1>8. ASSUME NEW e \in Dock, NEW x \in Views
      PROVE  tree'.item[<<e, x>>] = IF x # c THEN tree.item[<<e, x>>]
                                    ELSE IF e = d THEN p ELSE None
  <2>1. /\ <<e, x>> \in Host
        /\ (<<e, x>> = <<d, c>> <=> e = d /\ x = c)
        /\ (<<e, x>> = <<w, c>> <=> e = w /\ x = c)
    BY NodeFacts
  <2>2. QED BY <1>2, <1>5, <1>6, <2>1
<1>9. ItemsMatchTree'
  <2> SUFFICES ASSUME NEW e \in Dock, NEW x \in Views
               PROVE  tree'.item[<<e, x>>] # None <=> tree'.parent[x] = <<e, x>>
    BY DEF ItemsMatchTree
  <2>1. CASE x = c
    BY <1>2, <1>7, <1>8, <2>1
  <2>2. CASE x # c
    BY <1>7, <1>8, <2>2 DEF DockInv, ItemsMatchTree
  <2>3. QED BY <2>1, <2>2
<1>10. FloatsHoldTheirView'
  <2> SUFFICES ASSUME NEW y \in Floats
               PROVE  IF win'[y].open
                      THEN /\ win'[y].hosted # None
                           /\ win'[y].target \in AppDocks
                           /\ \A x \in Views :
                                tree'.item[<<y, x>>] = IF x = win'[y].hosted THEN Fill ELSE None
                      ELSE win'[y] = NoWindow /\ \A x \in Views : tree'.item[<<y, x>>] = None
    BY DEF FloatsHoldTheirView
  <2>1. y \in Dock /\ y # d
    BY <1>2, NodeFacts
  <2>2. CASE y = w
    BY <1>1, <1>3, <1>8, <2>1, <2>2, NoWindowTyped
  <2>3. CASE y # w
    <3>1. win'[y] = win[y]
      BY <1>1, <2>3
    <3>2. \A x \in Views : tree'.item[<<y, x>>] = tree.item[<<y, x>>]
      BY <1>5, <1>8, <2>1, <2>3
    <3>3. QED BY <3>1, <3>2 DEF DockInv, FloatsHoldTheirView
  <2>4. QED BY <2>2, <2>3
<1>11. QED BY <1>1, <1>4, <1>7, <1>9, <1>10 DEF c

\* What each operation of a disciplined application moves: d is the dock the
\* view ends in, None where it ends in none.
LEMMA AppDockMoves ==
  ASSUME DockInv, Disciplined, NEW d \in AppDocks, NEW c \in Views, NEW p \in Position,
         AppDock(d, c, p)
  PROVE  /\ OnlyMoves(tree', tree, c, d, p)
         /\ \A e \in Dock : e # d => tree.item[<<e, c>>] = None
<1> DEFINE h == <<d, c>>
<1>1. /\ tree' = DockView(tree, d, c, p) /\ GoodTree(tree)
      /\ d \in Dock /\ c \in Node /\ p # None
      /\ ~Docked(tree, c) \/ tree.item[h] # None
  BY NodeFacts, ConstantsAssumption DEF AppDock, DockInv, TreeInv
<1>2. /\ \A g \in Host : tree'.item[g] = IF g = h THEN p ELSE tree.item[g]
      /\ \A u \in Node : tree'.parent[u] = IF tree.item[h] # None THEN tree.parent[u]
                                           ELSE IF u = h THEN d
                                           ELSE IF u = c THEN h ELSE tree.parent[u]
  BY <1>1, DockEffect
<1>3. \A e \in Dock : e # d => tree.item[<<e, c>>] = None
  BY <1>1 DEF Docked, DockInv, ItemsMatchTree
<1>4. \A e \in Dock, x \in Views :
        /\ <<e, x>> \in Host /\ x \in Node /\ x # h
        /\ <<e, x>> = h <=> e = d /\ x = c
  BY <1>1, NodeFacts
<1>5. ASSUME NEW e \in Dock PROVE tree'.parent[c] = <<e, c>> <=> e = d
  <2>1. tree'.parent[c] = IF tree.item[h] # None THEN tree.parent[c] ELSE h
    BY <1>1, <1>2, <1>4
  <2>2. tree.item[h] # None => tree.parent[c] = h
    BY <1>1 DEF DockInv, ItemsMatchTree
  <2>3. QED BY <2>1, <2>2
<1>6. ASSUME NEW e \in Dock, NEW x \in Views
      PROVE  tree'.item[<<e, x>>] = IF x # c THEN tree.item[<<e, x>>]
                                    ELSE IF e = d THEN p ELSE None
  <2>1. /\ <<e, x>> \in Host
        /\ <<e, x>> = h <=> e = d /\ x = c
    BY <1>4
  <2>2. QED BY <1>2, <1>3, <2>1
<1>7. ASSUME NEW x \in Views, x # c PROVE tree'.parent[x] = tree.parent[x]
  <2>1. x \in Node /\ x # h
    BY <1>1, <1>4
  <2>2. QED BY <1>2, <1>7, <2>1
<1>8. QED BY <1>3, <1>5, <1>6, <1>7 DEF OnlyMoves

LEMMA AppUndockMoves ==
  ASSUME DockInv, NEW d \in AppDocks, NEW c \in Views, AppUndock(d, c)
  PROVE  /\ OnlyMoves(tree', tree, c, None, Fill)
         /\ tree.parent[c] = <<d, c>>
         /\ \A e \in Dock : e # d => tree.item[<<e, c>>] = None
<1> DEFINE h == <<d, c>>
<1>1. /\ tree' = UndockView(tree, d, c) /\ GoodTree(tree)
      /\ d \in Dock /\ c \in Node /\ None \notin Dock /\ tree.item[h] # None
  BY NodeFacts DEF AppUndock, DockInv, TreeInv, Node
<1>2. /\ \A g \in Host : tree'.item[g] = IF g = h THEN None ELSE tree.item[g]
      /\ \A u \in Node : tree'.parent[u] =
           IF u = h \/ tree.parent[u] = h THEN None ELSE tree.parent[u]
  BY <1>1, UndockEffect
<1>3. tree.parent[c] = h /\ \A e \in Dock : e # d => tree.item[<<e, c>>] = None
  BY <1>1 DEF DockInv, ItemsMatchTree
<1>4. \A e \in Dock, x \in Views :
        /\ <<e, x>> \in Host /\ x \in Node /\ x # h /\ <<e, x>> # None
        /\ <<e, x>> = h <=> e = d /\ x = c
  BY <1>1, NodeFacts
<1>5. ASSUME NEW x \in Views, x # c PROVE tree.parent[x] # h
  <2>1. \A u \in Node : tree.parent[u] = h => u = c
    BY <1>1 DEF GoodTree, HostsLinked
  <2>2. QED BY <1>5, <2>1, NodeFacts
<1>6. ASSUME NEW e \in Dock, NEW x \in Views
      PROVE  tree'.item[<<e, x>>] = IF x # c THEN tree.item[<<e, x>>] ELSE None
  <2>1. /\ <<e, x>> \in Host
        /\ <<e, x>> = h <=> e = d /\ x = c
    BY <1>4
  <2>2. QED BY <1>2, <1>3, <2>1
<1>7. ASSUME NEW x \in Views, x # c PROVE tree'.parent[x] = tree.parent[x]
  <2>1. x \in Node /\ x # h
    BY <1>1, <1>4
  <2>2. QED BY <1>2, <1>5, <1>7, <2>1
<1>8. ASSUME NEW e \in Dock PROVE tree'.parent[c] # <<e, c>>
  BY <1>1, <1>2, <1>3, <1>4
<1>9. ASSUME NEW e \in Dock PROVE e # None
  BY <1>1, <1>9
<1>10. QED BY <1>3, <1>6, <1>7, <1>8, <1>9 DEF OnlyMoves

\* A view that nests in another, or leaves it, was and stays in no dock.
LEMMA NestingMoves ==
  ASSUME DockInv, Disciplined, NEW p \in Views, NEW v \in Views,
         AppAddChild(p, v) \/ AppRemoveChild(p, v)
  PROVE  /\ OnlyMoves(tree', tree, v, None, Fill)
         /\ \A e \in Dock : tree.item[<<e, v>>] = None
<1>1. PICK q \in Views \cup {None} : Moved(tree', tree, v, q)
  BY AddEffectOnViews, RemoveEffectOnViews DEF AppAddChild, AppRemoveChild, DockInv, TreeInv
<1>2. v \in Node /\ \A e \in Dock : <<e, v>> \notin Views \cup {None} /\ e # None
  <2>1. \A x \in Views : x \notin Host
    BY NodeFacts
  <2>2. \A e \in Dock : <<e, v>> \in Host /\ <<e, v>> # None /\ e # None
    BY NodeFacts
  <2>3. QED BY <2>1, <2>2, NodeFacts
<1>3. \A e \in Dock : tree.item[<<e, v>>] = None
  <2>1. CASE AppAddChild(p, v)
    BY <2>1 DEF AppAddChild, Docked
  <2>2. CASE AppRemoveChild(p, v)
    BY <1>2, <2>2, RemoveEffectOnViews DEF AppRemoveChild, DockInv, TreeInv, ItemsMatchTree
  <2>3. QED BY <2>1, <2>2
<1>4. tree'.item = tree.item /\ tree'.parent[v] = q
  BY <1>1, <1>2 DEF Moved
<1>5. \A x \in Views : x # v => tree'.parent[x] = tree.parent[x]
  BY <1>1, NodeFacts DEF Moved
<1>6. QED BY <1>2, <1>3, <1>4, <1>5 DEF OnlyMoves

\* The window that opens was closed, so it shows nothing but the view, which
\* comes from the dock it will go back to or from none.
LEMMA UndockToWindowMoves ==
  ASSUME DockInv, Disciplined, NEW d \in AppDocks, NEW c \in Views, UndockToWindow(d, c)
  PROVE  \E w \in Floats :
           /\ OnlyMoves(tree', tree, c, w, Fill)
           /\ win' = [win EXCEPT ![w] = FloatWindow(tree, d, c)]
           /\ ~win[w].open
           /\ \A e \in Dock : tree.item[<<e, c>>] # None =>
                /\ e = FloatWindow(tree, d, c).target
                /\ e \in AppDocks
<1> DEFINE o == OwnerDocks(tree.parent, c)
           home == FloatWindow(tree, d, c).target
<1>1. PICK w \in Floats : /\ ~win[w].open
                          /\ tree' = FloatView(tree, w, c)
                          /\ win' = [win EXCEPT ![w] = FloatWindow(tree, d, c)]
  BY DEF UndockToWindow
<1>2. /\ GoodTree(tree) /\ o \subseteq AppDocks
      /\ \A e \in Dock : tree.item[<<e, c>>] # None <=> tree.parent[c] = <<e, c>>
  BY DEF UndockToWindow, DockInv, TreeInv, ItemsMatchTree
<1>3. w \in Dock /\ c \in Node /\ tree.item[<<w, c>>] = None
  BY <1>1, NodeFacts DEF DockInv, FloatsHoldTheirView
<1>4. Floated(tree', tree, w, c)
  BY <1>1, <1>2, <1>3, FloatEffect DEF MatchedItem
<1>5. OnlyMoves(tree', tree, c, w, Fill)
  <2>1. \A e \in Dock : tree'.parent[c] = <<e, c>> <=> e = w
    BY <1>4 DEF Floated
  <2>2. QED BY <1>4, <2>1 DEF OnlyMoves, Floated
<1>6. ASSUME NEW e \in Dock, tree.item[<<e, c>>] # None
      PROVE  e = home /\ e \in AppDocks
  <2>1. tree.parent[c] = <<e, c>> /\ <<e, c>> \in Host /\ tree.parent[<<e, c>>] = e
    BY <1>2, <1>6, NodeFacts DEF GoodTree, HostsLinked
  <2>2. o = {e}
    BY <2>1 DEF OwnerDocks
  <2>3. QED BY <1>2, <2>2 DEF FloatWindow, HomeOf
<1>7. QED BY <1>1, <1>5, <1>6

LEMMA ItemsStayMatched ==
  ASSUME DockInv, NEW c \in Views, NEW d, NEW p, p # None, OnlyMoves(tree', tree, c, d, p)
  PROVE  ItemsMatchTree'
<1>1. MatchedItems(tree)
  BY DEF DockInv, ItemsMatchTree, MatchedItems
<1>2. MatchedItems(tree')
  BY <1>1, MatchedMoves
<1>3. QED BY <1>2 DEF ItemsMatchTree, MatchedItems

\* A view moving between nowhere and the application's docks disturbs no window.
LEMMA FloatsUndisturbed ==
  ASSUME DockInv, NEW c \in Views, NEW d \in AppDocks \cup {None}, NEW p,
         OnlyMoves(tree', tree, c, d, p), win' = win,
         \A e \in Dock : e # d => e \in AppDocks \/ tree.item[<<e, c>>] = None
  PROVE  FloatsHoldTheirView'
<1> SUFFICES ASSUME NEW w \in Floats, NEW x \in Views
             PROVE  tree'.item[<<w, x>>] = tree.item[<<w, x>>]
  BY DEF DockInv, FloatsHoldTheirView
<1>1. w \in Dock /\ w # d /\ w \notin AppDocks
  BY ConstantsAssumption, NodeFacts
<1>2. QED BY <1>1 DEF OnlyMoves

LEMMA DockInvStep == Disciplined /\ DockInv /\ [Next]_vars => DockInv'
<1> SUFFICES ASSUME Disciplined, DockInv, [Next]_vars PROVE DockInv'
  OBVIOUS
<1> DEFINE Rest == ItemsMatchTree' /\ FloatsHoldTheirView'
<1>1. TreeInv'
  BY TreeInvStep DEF DockInv
<1>2. Fill # None /\ \A p \in Position : p # None
  BY ConstantsAssumption
<1>3. ASSUME NEW d \in AppDocks, NEW c \in Views, NEW p \in Position, AppDock(d, c, p)
      PROVE  Rest
  BY <1>2, <1>3, AppDockMoves, ItemsStayMatched, FloatsUndisturbed DEF AppDock
<1>4. ASSUME NEW d \in AppDocks, NEW c \in Views, AppUndock(d, c)
      PROVE  Rest
  <2>1. /\ OnlyMoves(tree', tree, c, None, Fill)
        /\ \A e \in Dock : e # d => tree.item[<<e, c>>] = None
    BY <1>4, AppUndockMoves
  <2>2. \A e \in Dock : e # None => e \in AppDocks \/ tree.item[<<e, c>>] = None
    BY <2>1
  <2>3. QED BY <1>2, <1>4, <2>1, <2>2, ItemsStayMatched, FloatsUndisturbed DEF AppUndock
<1>5. ASSUME NEW p \in Views, NEW v \in Views, AppAddChild(p, v) \/ AppRemoveChild(p, v)
      PROVE  Rest
  BY <1>2, <1>5, NestingMoves, ItemsStayMatched, FloatsUndisturbed
  DEF AppAddChild, AppRemoveChild
<1>6. ASSUME NEW d \in AppDocks, NEW c \in Views, UndockToWindow(d, c)
      PROVE  Rest
  <2>1. PICK w \in Floats :
           /\ OnlyMoves(tree', tree, c, w, Fill)
           /\ win' = [win EXCEPT ![w] = FloatWindow(tree, d, c)]
           /\ ~win[w].open
           /\ \A e \in Dock : tree.item[<<e, c>>] # None => e \in AppDocks
    BY <1>6, UndockToWindowMoves
  <2>2. /\ FloatWindow(tree, d, c).open = TRUE
        /\ FloatWindow(tree, d, c).hosted = c
        /\ FloatWindow(tree, d, c).target \in AppDocks
        /\ c # None
    <3>1. tree \in Tree /\ OwnerDocks(tree.parent, c) \subseteq AppDocks
      BY <1>6 DEF UndockToWindow, DockInv, TreeInv, GoodTree
    <3>2. c # None
      BY NodeFacts
    <3>3. QED BY <3>1, <3>2, FloatWindowTyped
  <2>3. ASSUME NEW y \in Floats
        PROVE  IF win'[y].open
               THEN /\ win'[y].hosted # None
                    /\ win'[y].target \in AppDocks
                    /\ \A x \in Views :
                         tree'.item[<<y, x>>] = IF x = win'[y].hosted THEN Fill ELSE None
               ELSE win'[y] = NoWindow /\ \A x \in Views : tree'.item[<<y, x>>] = None
    <3>1. y \in Dock /\ y \notin AppDocks /\ tree.item[<<y, c>>] = None
      BY <2>1, ConstantsAssumption, NodeFacts
    <3>2. CASE y = w
      <4>1. win'[y] = FloatWindow(tree, d, c)
        BY <2>1, <3>2 DEF DockInv, TreeInv
      <4>2. \A x \in Views : tree.item[<<y, x>>] = None
        BY <2>1, <3>2 DEF DockInv, FloatsHoldTheirView
      <4>3. \A x \in Views : tree'.item[<<y, x>>] = IF x = c THEN Fill ELSE None
        BY <2>1, <3>1, <3>2, <4>2 DEF OnlyMoves
      <4>4. QED BY <2>2, <4>1, <4>3
    <3>3. CASE y # w
      <4>1. win'[y] = win[y]
        BY <2>1, <3>3
      <4>2. \A x \in Views : tree'.item[<<y, x>>] = tree.item[<<y, x>>]
        BY <2>1, <3>1, <3>3 DEF OnlyMoves
      <4>3. QED BY <4>1, <4>2 DEF DockInv, FloatsHoldTheirView
    <3>4. QED BY <3>2, <3>3
  <2>4. FloatsHoldTheirView'
    BY <2>3 DEF FloatsHoldTheirView
  <2>5. QED BY <1>2, <2>1, <2>4, ItemsStayMatched
<1>7. ASSUME NEW w \in Floats, NEW d \in AppDocks, NEW p \in Position, RedockTo(w, d, p)
      PROVE  Rest
  BY <1>7, RedockKeepsDocks
<1>8. ASSUME NEW w \in Floats, CloseFloat(w)
      PROVE  Rest
  <2>1. win[w].target \in AppDocks /\ win[w].pos \in Position
    BY <1>8 DEF CloseFloat, Window, DockInv, TreeInv
  <2>2. QED BY <1>7, <1>8, <2>1 DEF CloseFloat
<1>9. ASSUME UNCHANGED vars PROVE Rest
  BY <1>9 DEF vars, DockInv, ItemsMatchTree, FloatsHoldTheirView
<1>10. QED BY <1>1, <1>3, <1>4, <1>5, <1>6, <1>7, <1>8, <1>9 DEF Next, DockInv

LEMMA DockInvAlways == Disciplined => (Spec => []DockInv)
<1>1. CASE Disciplined
  <2>1. Disciplined /\ DockInv /\ [Next]_vars => DockInv'
    BY DockInvStep
  <2>2. DockInv /\ [Next]_vars => DockInv'
    BY <1>1, <2>1
  <2>3. QED BY DockInvInit, <2>2, PTL DEF Spec
<1>2. QED BY <1>1

\* While the application undocks before it moves a view, no dock lists a view
\* that sits elsewhere, and no view is listed twice.
THEOREM ItemsAlwaysMatch == Disciplined => (Spec => []ItemsMatchTree)
<1>1. DockInv => ItemsMatchTree
  BY DEF DockInv
<1>2. QED BY <1>1, DockInvAlways, PTL

\* Under the same discipline an open floating window always shows its view and
\* knows a dock of the application to return it to.
THEOREM FloatsAlwaysHold == Disciplined => (Spec => []FloatsHoldTheirView)
<1>1. DockInv => FloatsHoldTheirView
  BY DEF DockInv
<1>2. QED BY <1>1, DockInvAlways, PTL

----------------------------------------------------------------------------
(* Steps: what closing a floating window does, and the simple account. *)

\* The one host that can hold a view names the dock that shows it.
LEMMA HostNamesDock ==
  ASSUME NEW t, GoodTree(t), NEW c \in Views
  PROVE  LET q == IF t.parent[c] \in Host THEN t.parent[c][1] ELSE None
         IN  /\ q \in Dock \cup {None}
             /\ \A e \in Dock : q = e <=> t.parent[c] = <<e, c>>
<1>1. CASE t.parent[c] \in Host
  <2>1. PICK e \in Dock, x \in Views : t.parent[c] = <<e, x>>
    BY <1>1 DEF Host
  <2>2. x = c
    BY <2>1, NodeFacts DEF GoodTree, HostsLinked
  <2>3. QED BY <1>1, <2>1, <2>2
<1>2. CASE t.parent[c] \notin Host
  <2>1. \A e \in Dock : e # None /\ <<e, c>> \in Host
    BY NodeFacts
  <2>2. QED BY <1>2, <2>1
<1>3. QED BY <1>1, <1>2

LEMMA PlaceIs ==
  ASSUME DockInv, NEW c \in Views
  PROVE  /\ PlaceOf(c) \in Dock \cup {None}
         /\ \A e \in Dock : PlaceOf(c) = e <=> tree.parent[c] = <<e, c>>
BY HostNamesDock DEF DockInv, TreeInv, PlaceOf

KeepsTheView ==
  \A w \in Floats :
    win[w].open /\ ~win'[w].open =>
      \E d \in AppDocks : tree'.parent[win[w].hosted] = <<d, win[w].hosted>>

LEMMA RedockKeepsStep ==
  ASSUME Disciplined, DockInv, Next
  PROVE  KeepsTheView
<1> SUFFICES ASSUME NEW w \in Floats, win[w].open, ~win'[w].open
             PROVE  \E d \in AppDocks : tree'.parent[win[w].hosted] = <<d, win[w].hosted>>
  BY DEF KeepsTheView
<1>1. ASSUME NEW y \in Floats, NEW d \in AppDocks, NEW p \in Position, RedockTo(y, d, p)
      PROVE  \E e \in AppDocks : tree'.parent[win[w].hosted] = <<e, win[w].hosted>>
  <2>1. w = y
    BY <1>1 DEF RedockTo
  <2>2. QED BY <1>1, <2>1, RedockKeepsDocks
<1>2. ASSUME NEW y \in Floats, CloseFloat(y)
      PROVE  \E e \in AppDocks : tree'.parent[win[w].hosted] = <<e, win[w].hosted>>
  <2>1. win[y].target \in AppDocks /\ win[y].pos \in Position
    BY <1>2 DEF CloseFloat, Window, DockInv, TreeInv
  <2>2. QED BY <1>1, <1>2, <2>1 DEF CloseFloat
<1>3. ASSUME NEW d \in AppDocks, NEW c \in Views, UndockToWindow(d, c)
      PROVE  FALSE
  <2>1. PICK y \in Floats : ~win[y].open /\ win' = [win EXCEPT ![y] = FloatWindow(tree, d, c)]
    BY <1>3, UndockToWindowMoves
  <2>2. win'[w] = win[w]
    BY <2>1
  <2>3. QED BY <2>2
<1>4. win' # win
  OBVIOUS
<1>5. QED BY <1>1, <1>2, <1>3, <1>4
          DEF Next, AppDock, AppUndock, AppAddChild, AppRemoveChild

\* A window that closes leaves its view in a dock of the application.
THEOREM RedockAlwaysKeeps == Disciplined => (Spec => RedockKeepsTheView)
<1>1. ASSUME Disciplined PROVE Spec => [][KeepsTheView]_vars
  <2>1. DockInv /\ [Next]_vars => [KeepsTheView]_vars
    BY <1>1, RedockKeepsStep
  <2>2. Spec => []DockInv
    BY <1>1, DockInvAlways
  <2>3. QED BY <2>1, <2>2, PTL DEF Spec
<1>2. QED BY <1>1 DEF RedockKeepsTheView, KeepsTheView

PlaceMap == [c \in Views |-> PlaceOf(c)]
HomeMap == [c \in Views |-> HomeDock(c)]

\* In the simple account the view c goes to d, remembering h.
Goes(c, d, h) ==
  /\ PlaceMap' = [PlaceMap EXCEPT ![c] = d]
  /\ HomeMap' = [HomeMap EXCEPT ![c] = h]

\* A view that moves, with the windows of the others unchanged, goes to d.
LEMMA MovesAreGoes ==
  ASSUME DockInv, DockInv', NEW c \in Views, NEW d \in Dock \cup {None},
         \A x \in Views : x # c => tree'.parent[x] = tree.parent[x],
         \A e \in Dock : tree'.parent[c] = <<e, c>> <=> e = d,
         \A x \in Views : x # c /\ PlaceOf(x) \in Floats => win'[PlaceOf(x)] = win[PlaceOf(x)]
  PROVE  Goes(c, d, IF d \in Floats THEN win'[d].target ELSE None)
<1> DEFINE h == IF d \in Floats THEN win'[d].target ELSE None
<1>1. PlaceOf(c)' = d
  <2>1. /\ PlaceOf(c)' \in Dock \cup {None}
        /\ \A e \in Dock : PlaceOf(c)' = e <=> tree'.parent[c] = <<e, c>>
    <3>1. GoodTree(tree')
      BY DEF DockInv, TreeInv
    <3>2. QED BY <3>1, HostNamesDock DEF PlaceOf
  <2>2. None \notin Dock
    BY NodeFacts DEF Node
  <2>3. QED BY <2>1, <2>2
<1>2. ASSUME NEW x \in Views, x # c
      PROVE  PlaceOf(x)' = PlaceOf(x) /\ HomeDock(x)' = HomeDock(x)
  <2>1. PlaceOf(x)' = PlaceOf(x)
    BY <1>2 DEF PlaceOf
  <2>2. QED BY <1>2, <2>1 DEF HomeDock
<1>3. HomeDock(c)' = h
  BY <1>1 DEF HomeDock
<1>4. PlaceMap' = [PlaceMap EXCEPT ![c] = d]
  BY <1>1, <1>2 DEF PlaceMap
<1>5. HomeMap' = [HomeMap EXCEPT ![c] = h]
  BY <1>2, <1>3 DEF HomeMap
<1>6. QED BY <1>4, <1>5 DEF Goes

\* The view a floating window hosted goes to the dock the redock names.
LEMMA RedockGoes ==
  ASSUME DockInv, DockInv', NEW w \in Floats, NEW d \in AppDocks, NEW p \in Position, RedockTo(w, d, p)
  PROVE  /\ win[w].hosted \in Views
         /\ PlaceOf(win[w].hosted) = w
         /\ Goes(win[w].hosted, d, None)
<1> DEFINE c == win[w].hosted
<1>1. /\ c \in Views /\ tree.parent[c] = <<w, c>>
      /\ \A u \in Views : tree'.parent[u] = IF u = c THEN <<d, c>> ELSE tree.parent[u]
  BY RedockKeepsDocks
<1>2. /\ win' = [win EXCEPT ![w] = NoWindow]
      /\ \A x \in Views : x # c => tree.item[<<w, x>>] = None
      /\ d \in Dock /\ d \notin Floats /\ w \in Dock
  BY ConstantsAssumption, NodeFacts DEF RedockTo, DockInv, FloatsHoldTheirView
<1> HIDE DEF c
<1>3. \A x \in Views : x # c => PlaceOf(x) # w
  BY <1>2, PlaceIs DEF DockInv, ItemsMatchTree
<1>4. Goes(c, d, None)
  <2>1. \A x \in Views : x # c /\ PlaceOf(x) \in Floats => win'[PlaceOf(x)] = win[PlaceOf(x)]
    BY <1>2, <1>3
  <2>2. \A x \in Views : x # c => tree'.parent[x] = tree.parent[x]
    BY <1>1
  <2>3. \A e \in Dock : tree'.parent[c] = <<e, c>> <=> e = d
    BY <1>1
  <2>4. QED BY <1>1, <1>2, <2>1, <2>2, <2>3, MovesAreGoes
<1>5. PlaceOf(c) = w
  BY <1>1, <1>2, PlaceIs
<1>6. QED BY <1>1, <1>4, <1>5 DEF c

LEMMA GoesIsMove ==
  ASSUME NEW c \in Views, NEW d, NEW h, Goes(c, d, h)
  PROVE  Places!Move(c, d, h)
BY DEF Goes, Places!Move, PlaceMap, HomeMap

\* A close takes the view to the dock the window remembers, its home.
LEMMA CloseGoesHome ==
  ASSUME DockInv, DockInv', NEW w \in Floats, CloseFloat(w)
  PROVE  /\ win[w].hosted \in Views
         /\ Places!Close(win[w].hosted)
<1> DEFINE c == win[w].hosted
<1>1. win[w].target \in AppDocks /\ win[w].pos \in Position
  BY DEF CloseFloat, Window, DockInv, TreeInv
<1>2. /\ c \in Views /\ PlaceOf(c) = w
      /\ Goes(c, win[w].target, None)
  BY <1>1, RedockGoes DEF CloseFloat
<1> HIDE DEF c
<1>3. HomeMap[c] = win[w].target /\ PlaceMap[c] = w
  BY <1>2 DEF HomeMap, HomeDock, PlaceMap
<1>4. Places!Move(c, win[w].target, None)
  BY <1>1, <1>2, GoesIsMove
<1>5. Places!Close(c)
  BY <1>3, <1>4 DEF Places!Close, PlaceMap, HomeMap
<1>6. QED BY <1>2, <1>5 DEF c

LEMMA StepsAsPromised ==
  Disciplined /\ DockInv /\ DockInv' /\ [Next]_vars =>
    \/ Places!Next
    \/ PlaceMap' = PlaceMap /\ HomeMap' = HomeMap
<1> DEFINE Promised == Places!Next \/ (PlaceMap' = PlaceMap /\ HomeMap' = HomeMap)
<1> SUFFICES ASSUME Disciplined, DockInv, DockInv', [Next]_vars PROVE Promised
  OBVIOUS
<1>1. ASSUME NEW c \in Views, NEW d, NEW h, Goes(c, d, h)
      PROVE  Places!Move(c, d, h)
  BY <1>1, GoesIsMove
<1>2. ASSUME NEW d \in AppDocks, NEW c \in Views, NEW p \in Position, AppDock(d, c, p)
      PROVE  Promised
  <2>1. /\ OnlyMoves(tree', tree, c, d, p) /\ win' = win
        /\ \A e \in Dock : e # d => tree.item[<<e, c>>] = None
        /\ d \in Dock /\ d \notin Floats
    BY <1>2, AppDockMoves, ConstantsAssumption, NodeFacts DEF AppDock
  <2>2. Goes(c, d, None)
    BY <2>1, MovesAreGoes DEF OnlyMoves
  <2>3. PlaceOf(c) \in {None, d}
    BY <2>1, PlaceIs DEF DockInv, ItemsMatchTree
  <2>4. CASE PlaceOf(c) = None
    BY <1>1, <2>2, <2>4 DEF Places!Next, Places!Dock
  <2>5. CASE PlaceOf(c) = d
    <3>1. HomeMap[c] = None
      BY <2>1, <2>5 DEF HomeMap, HomeDock
    <3>2. PlaceMap[c] = d
      BY <2>5 DEF PlaceMap
    <3>3. QED BY <2>2, <3>1, <3>2 DEF Goes, PlaceMap, HomeMap
  <2>6. QED BY <2>3, <2>4, <2>5
<1>3. ASSUME NEW d \in AppDocks, NEW c \in Views, AppUndock(d, c)
      PROVE  Promised
  <2>1. /\ OnlyMoves(tree', tree, c, None, Fill) /\ win' = win
        /\ tree.parent[c] = <<d, c>>
        /\ d \in Dock /\ None \notin Floats
    BY <1>3, AppUndockMoves, NodeFacts DEF AppUndock, Node, Dock
  <2>2. Goes(c, None, None)
    BY <2>1, MovesAreGoes DEF OnlyMoves
  <2>3. PlaceOf(c) = d
    BY <2>1, PlaceIs
  <2>4. QED BY <1>1, <2>2, <2>3 DEF Places!Next, Places!Undock
<1>4. ASSUME NEW p \in Views, NEW v \in Views, AppAddChild(p, v) \/ AppRemoveChild(p, v)
      PROVE  Promised
  <2>1. /\ OnlyMoves(tree', tree, v, None, Fill) /\ win' = win
        /\ \A e \in Dock : tree.item[<<e, v>>] = None
        /\ None \notin Floats
    BY <1>4, NestingMoves, NodeFacts DEF AppAddChild, AppRemoveChild, Node, Dock
  <2>2. Goes(v, None, None)
    BY <2>1, MovesAreGoes DEF OnlyMoves
  <2>3. PlaceOf(v) = None
    BY <2>1, PlaceIs DEF DockInv, ItemsMatchTree
  <2>4. HomeMap[v] = None /\ PlaceMap[v] = None
    BY <2>1, <2>3 DEF HomeMap, HomeDock, PlaceMap
  <2>5. QED BY <2>2, <2>4 DEF Goes, PlaceMap, HomeMap
<1>5. ASSUME NEW d \in AppDocks, NEW c \in Views, UndockToWindow(d, c)
      PROVE  Promised
  <2>1. PICK w \in Floats :
           /\ OnlyMoves(tree', tree, c, w, Fill)
           /\ win' = [win EXCEPT ![w] = FloatWindow(tree, d, c)]
           /\ ~win[w].open
           /\ \A e \in Dock : tree.item[<<e, c>>] # None => e = FloatWindow(tree, d, c).target
    BY <1>5, UndockToWindowMoves
  <2> DEFINE o == FloatWindow(tree, d, c).target
  <2>2. o \in AppDocks /\ w \in Dock
    BY <1>5, FloatWindowTyped, NodeFacts DEF UndockToWindow, DockInv, TreeInv, GoodTree
  <2>3. win'[w].target = o
    BY <2>1 DEF DockInv, TreeInv
  <2>4. \A x \in Views : PlaceOf(x) # w
    BY <2>1, <2>2, PlaceIs DEF DockInv, FloatsHoldTheirView, ItemsMatchTree
  <2>5. Goes(c, w, o)
    <3>1. \A x \in Views : PlaceOf(x) \in Floats => win'[PlaceOf(x)] = win[PlaceOf(x)]
      BY <2>1, <2>4
    <3>2. QED BY <2>1, <2>2, <2>3, <3>1, MovesAreGoes DEF OnlyMoves
  <2>6. PlaceOf(c) \in {None, o}
    BY <2>1, PlaceIs DEF DockInv, ItemsMatchTree
  <2> HIDE DEF o
  <2>7. QED BY <1>1, <2>2, <2>4, <2>5, <2>6 DEF Places!Next, Places!Float
<1>6. ASSUME NEW w \in Floats, NEW d \in AppDocks, NEW p \in Position, RedockTo(w, d, p)
      PROVE  Promised
  <2> DEFINE c == win[w].hosted
  <2>1. c \in Views /\ PlaceOf(c) = w /\ Goes(c, d, None)
    BY <1>6, RedockGoes
  <2> HIDE DEF c
  <2>2. QED BY <1>1, <2>1 DEF Places!Next, Places!Redock
<1>7. ASSUME NEW w \in Floats, CloseFloat(w)
      PROVE  Promised
  <2>1. QED BY <1>7, CloseGoesHome DEF Places!Next
<1>8. ASSUME UNCHANGED vars PROVE Promised
  BY <1>8 DEF vars, PlaceMap, HomeMap, PlaceOf, HomeDock
<1>9. QED BY <1>2, <1>3, <1>4, <1>5, <1>6, <1>7, <1>8 DEF Next

LEMMA InitIsPlaces == Init => Places!Init
<1> SUFFICES ASSUME Init PROVE Places!Init
  OBVIOUS
<1>1. \A c \in Views : PlaceOf(c) = None
  BY NodeFacts DEF Init, PlaceOf, Node
<1>2. \A c \in Views : HomeDock(c) = None
  BY <1>1, NodeFacts DEF HomeDock, Node
<1>3. QED BY <1>1, <1>2 DEF Places!Init

\* The docking tree implements the simple account of where a view is, and its
\* close() the account's.
THEOREM DockingImplementsPlaces == Disciplined => (Spec => DocksAsPromised)
<1>1. Init => Places!Init
  BY InitIsPlaces
<1>2. ASSUME Disciplined PROVE Spec => DocksAsPromised
  <2>1. DockInv /\ DockInv' /\ [Next]_vars => [Places!Next]_Places!placeVars
    BY <1>2, StepsAsPromised DEF Places!placeVars, PlaceMap, HomeMap
  <2> DEFINE Closes == \A w \in Floats : CloseFloat(w) => Places!Close(win[w].hosted)
  <2>2. DockInv /\ DockInv' => [Closes]_vars
    BY CloseGoesHome
  <2>3. Spec => []DockInv
    BY <1>2, DockInvAlways
  <2> HIDE DEF Closes
  <2>4. QED BY <1>1, <2>1, <2>2, <2>3, PTL DEF Spec, DocksAsPromised, Places!Spec, Closes
<1>3. QED BY <1>2

----------------------------------------------------------------------------
(* Walking the tree: what Subtree and Ancestors compute.  Both repeat a    *)
(* step MaxDepth times; the least number at which something fails stands   *)
(* in for induction.                                                       *)

LEMMA LeastNumber ==
  ASSUME NEW S \in SUBSET Nat, S # {}
  PROVE  \E n \in S : \A m \in S : ~(m < n)
<1> DEFINE R == {ss \in Nat \X Nat : ss[1] < ss[2]}
<1>1. OpToRel(<, Nat) = R
  BY DEF OpToRel
<1>2. IsWellFoundedOn(R, Nat)
  BY <1>1, NatLessThanWellFounded
<1>3. \E x \in S : \A y \in S : ~(<<y, x>> \in R)
  <2> HIDE DEF R
  <2>1. QED BY <1>2, WFMin
<1>4. QED BY <1>3

LEMMA UpTo ==
  ASSUME NEW N \in Nat, NEW S, 0 \in S, \A n \in 1..N : n - 1 \in S => n \in S
  PROVE  \A n \in 0..N : n \in S
<1> DEFINE T == {n \in 0..N : n \notin S}
<1>1. SUFFICES ASSUME T # {} PROVE FALSE
  OBVIOUS
<1>2. PICK n \in T : \A m \in T : ~(m < n)
  <2>1. T \in SUBSET Nat
    OBVIOUS
  <2> HIDE DEF T
  <2>2. QED BY <1>1, <2>1, LeastNumber
<1>3. n \in 1..N /\ n - 1 \in 0..N /\ n - 1 < n
  BY <1>2
<1>4. n - 1 \in S
  BY <1>2, <1>3
<1>5. QED BY <1>2, <1>3, <1>4

Iteration(g, X, F, a, N) ==
  g \in [0..N -> X] /\ g[0] = a /\ \A n \in 1..N : g[n] = F[g[n - 1]]

LEMMA Iterates ==
  ASSUME NEW X, NEW F, \A x \in X : F[x] \in X, NEW a \in X, NEW N \in Nat
  PROVE  \E g : Iteration(g, X, F, a, N)
<1> DEFINE Good(m, g) == g \in [0..m -> X] /\ g[0] = a /\ \A n \in 1..m : g[n] = F[g[n - 1]]
           S == {m \in Nat : \E g : Good(m, g)}
<1>1. 0 \in S
  <2>1. Good(0, [n \in 0..0 |-> a])
    OBVIOUS
  <2>2. QED BY <2>1
<1>2. ASSUME NEW m \in 1..N, m - 1 \in S PROVE m \in S
  <2>1. PICK g : Good(m - 1, g)
    BY <1>2
  <2> DEFINE h == [n \in 0..m |-> IF n = m THEN F[g[m - 1]] ELSE g[n]]
  <2>2. g[m - 1] \in X
    BY <2>1
  <2>3. h \in [0..m -> X]
    BY <2>1, <2>2
  <2>4. h[0] = a
    BY <2>1
  <2>5. ASSUME NEW n \in 1..m PROVE h[n] = F[h[n - 1]]
    <3>1. n \in 0..m /\ n - 1 \in 0..m /\ n - 1 # m /\ m \in Nat
      OBVIOUS
    <3>2. h[n - 1] = g[n - 1]
      BY <3>1
    <3>3. CASE n = m
      BY <3>1, <3>2, <3>3
    <3>4. CASE n # m
      <4>1. n \in 1..(m - 1)
        BY <3>1, <3>4
      <4>2. h[n] = g[n] /\ g[n] = F[g[n - 1]]
        BY <2>1, <3>1, <3>4, <4>1
      <4>3. QED BY <3>2, <4>2
    <3>5. QED BY <3>3, <3>4
  <2>6. Good(m, h)
    BY <2>3, <2>4, <2>5
  <2> HIDE DEF h
  <2>7. m \in Nat
    OBVIOUS
  <2>8. QED BY <2>6, <2>7
<1> HIDE DEF S
<1>3. N \in S
  BY <1>1, <1>2, UpTo
<1>4. QED BY <1>3 DEF S, Iteration

LEMMA DepthIs == MaxDepth \in Nat /\ MaxDepth = Cardinality(Views) + 2 /\ Cardinality(Views) \in Nat
BY ConstantsAssumption, FS_CardinalityType DEF MaxDepth

\* Subtree: the view, and at each step the subviews of what was reached.
LEMMA SubtreeWalk ==
  ASSUME NEW t \in Tree, NEW v \in Node
  PROVE  \E f \in [0..MaxDepth -> SUBSET Node] :
           /\ f[0] = {v}
           /\ \A n \in 1..MaxDepth : f[n] = f[n - 1] \cup UNION {t.kids[u] : u \in f[n - 1]}
           /\ Subtree(t, v) = f[MaxDepth]
<1> DEFINE N == MaxDepth
           Body(g) == [n \in 0..N |-> IF n = 0 THEN {v}
                                      ELSE g[n - 1] \cup UNION {t.kids[u] : u \in g[n - 1]}]
           f == CHOOSE g : g = Body(g)
           F == [S \in SUBSET Node |-> S \cup UNION {t.kids[u] : u \in S}]
<1>1. Subtree(t, v) = f[N]
  BY DEF Subtree
<1>2. t.kids \in [Node -> SUBSET Node]
  BY DEF Tree
<1>3. N \in Nat
  BY DepthIs
<1>4. ASSUME NEW S \in SUBSET Node
      PROVE  S \cup UNION {t.kids[u] : u \in S} \in SUBSET Node
  BY <1>2
<1>5. F \in [SUBSET Node -> SUBSET Node]
  BY <1>4
<1> HIDE DEF N
<1>6. \E g : g = Body(g)
  <2> HIDE DEF F
  <2>1. PICK g \in [0..N -> SUBSET Node] : g[0] = {v} /\ \A n \in 1..N : g[n] = F[g[n - 1]]
    <3> DEFINE X == SUBSET Node
               a == {v}
    <3>1. (\A x \in X : F[x] \in X) /\ a \in X
      BY <1>5
    <3> HIDE DEF X, a
    <3>2. \E g : Iteration(g, X, F, a, N)
      BY <1>3, <3>1, Iterates
    <3>3. QED BY <3>2 DEF Iteration, X, a
  <2>2. ASSUME NEW n \in 0..N
        PROVE  g[n] = IF n = 0 THEN {v} ELSE g[n - 1] \cup UNION {t.kids[u] : u \in g[n - 1]}
    <3>1. CASE n = 0
      BY <2>1, <3>1
    <3>2. CASE n # 0
      <4>1. n \in 1..N /\ n - 1 \in 0..N
        BY <1>3, <3>2
      <4>2. g[n - 1] \in SUBSET Node /\ g[n] = F[g[n - 1]]
        BY <2>1, <4>1
      <4>3. QED BY <3>2, <4>2 DEF F
    <3>3. QED BY <3>1, <3>2
  <2>3. g = Body(g)
    BY <2>1, <2>2
  <2>4. QED BY <2>3
<1>7. f = Body(f)
  BY <1>6
<1> HIDE DEF f
<1>8. /\ f[0] = {v}
      /\ \A n \in 1..N : f[n] = f[n - 1] \cup UNION {t.kids[u] : u \in f[n - 1]}
  BY <1>3, <1>7
<1>9. \A n \in 0..N : f[n] \in SUBSET Node
  <2> DEFINE S == {n \in Nat : f[n] \in SUBSET Node}
  <2>1. 0 \in S
    BY <1>8
  <2>2. ASSUME NEW n \in 1..N, n - 1 \in S PROVE n \in S
    BY <1>4, <1>8, <2>2
  <2> HIDE DEF S
  <2>3. \A n \in 0..N : n \in S
    BY <1>3, <2>1, <2>2, UpTo
  <2>4. QED BY <2>3 DEF S
<1>10. f \in [0..N -> SUBSET Node]
  <2>1. f = [n \in 0..N |-> f[n]]
    BY <1>7
  <2>2. QED BY <1>9, <2>1
<1>11. QED BY <1>1, <1>8, <1>10 DEF N

\* Ancestors: the parent, and at each step the parents of what was reached.
LEMMA AncestorsWalk ==
  ASSUME NEW parent \in [Node -> Node \cup {None}], NEW v \in Node
  PROVE  \E f \in [0..MaxDepth -> SUBSET Node] :
           /\ f[0] = {parent[v]} \ {None}
           /\ \A n \in 1..MaxDepth :
                f[n] = f[n - 1] \cup ({parent[u] : u \in f[n - 1]} \ {None})
           /\ Ancestors(parent, v) = f[MaxDepth]
<1> DEFINE N == MaxDepth
           Body(g) == [n \in 0..N |-> IF n = 0 THEN {parent[v]} \ {None}
                                      ELSE g[n - 1] \cup ({parent[u] : u \in g[n - 1]} \ {None})]
           f == CHOOSE g : g = Body(g)
           F == [S \in SUBSET Node |-> S \cup ({parent[u] : u \in S} \ {None})]
<1>1. Ancestors(parent, v) = f[N]
  BY DEF Ancestors
<1>2. {parent[v]} \ {None} \in SUBSET Node
  OBVIOUS
<1>3. N \in Nat
  BY DepthIs
<1>4. ASSUME NEW S \in SUBSET Node
      PROVE  S \cup ({parent[u] : u \in S} \ {None}) \in SUBSET Node
  OBVIOUS
<1>5. F \in [SUBSET Node -> SUBSET Node]
  BY <1>4
<1> HIDE DEF N
<1>6. \E g : g = Body(g)
  <2> HIDE DEF F
  <2>1. PICK g \in [0..N -> SUBSET Node] :
          g[0] = {parent[v]} \ {None} /\ \A n \in 1..N : g[n] = F[g[n - 1]]
    <3> DEFINE X == SUBSET Node
               a == {parent[v]} \ {None}
    <3>1. (\A x \in X : F[x] \in X) /\ a \in X
      BY <1>2, <1>5
    <3> HIDE DEF X, a
    <3>2. \E g : Iteration(g, X, F, a, N)
      BY <1>3, <3>1, Iterates
    <3>3. QED BY <3>2 DEF Iteration, X, a
  <2>2. ASSUME NEW n \in 0..N
        PROVE  g[n] = IF n = 0 THEN {parent[v]} \ {None}
                      ELSE g[n - 1] \cup ({parent[u] : u \in g[n - 1]} \ {None})
    <3>1. CASE n = 0
      BY <2>1, <3>1
    <3>2. CASE n # 0
      <4>1. n \in 1..N /\ n - 1 \in 0..N
        BY <1>3, <3>2
      <4>2. g[n - 1] \in SUBSET Node /\ g[n] = F[g[n - 1]]
        BY <2>1, <4>1
      <4>3. QED BY <3>2, <4>2 DEF F
    <3>3. QED BY <3>1, <3>2
  <2>3. g = Body(g)
    BY <2>1, <2>2
  <2>4. QED BY <2>3
<1>7. f = Body(f)
  BY <1>6
<1> HIDE DEF f
<1>8. /\ f[0] = {parent[v]} \ {None}
      /\ \A n \in 1..N : f[n] = f[n - 1] \cup ({parent[u] : u \in f[n - 1]} \ {None})
  BY <1>3, <1>7
<1>9. \A n \in 0..N : f[n] \in SUBSET Node
  <2> DEFINE S == {n \in Nat : f[n] \in SUBSET Node}
  <2>1. 0 \in S
    BY <1>2, <1>8
  <2>2. ASSUME NEW n \in 1..N, n - 1 \in S PROVE n \in S
    BY <1>4, <1>8, <2>2
  <2> HIDE DEF S
  <2>3. \A n \in 0..N : n \in S
    BY <1>3, <2>1, <2>2, UpTo
  <2>4. QED BY <2>3 DEF S
<1>10. f \in [0..N -> SUBSET Node]
  <2>1. f = [n \in 0..N |-> f[n]]
    BY <1>7
  <2>2. QED BY <1>9, <2>1
<1>11. QED BY <1>1, <1>8, <1>10 DEF N

\* A host sits under a dock or nowhere, a dock is a root, and a view's subviews
\* are views: a walk down can find something new only once per view, after the
\* two levels of dock and host.
Layered(t) ==
  /\ \A d \in Dock : t.parent[d] = None
  /\ \A h \in Host : t.parent[h] \in Dock \cup {None}
  /\ \A c \in Views : t.parent[c] \notin Dock

\* So Subtree is all there is below a view.
LEMMA SubtreeIs ==
  ASSUME NEW t \in Tree, LinksAgree(t), Layered(t), NEW v \in Node
  PROVE  /\ Subtree(t, v) \subseteq Node
         /\ v \in Subtree(t, v)
         /\ \A u \in Subtree(t, v) : t.kids[u] \subseteq Subtree(t, v)
         /\ \A u \in Subtree(t, v) : u # v => t.parent[u] \in Subtree(t, v)
<1> DEFINE N == MaxDepth
<1>1. PICK f \in [0..N -> SUBSET Node] :
        /\ f[0] = {v}
        /\ \A n \in 1..N : f[n] = f[n - 1] \cup UNION {t.kids[u] : u \in f[n - 1]}
        /\ Subtree(t, v) = f[N]
  BY SubtreeWalk
<1>2. N \in Nat /\ N = Cardinality(Views) + 2 /\ Cardinality(Views) \in Nat
  BY DepthIs
<1>3. t.kids \in [Node -> SUBSET Node] /\ t.parent \in [Node -> Node \cup {None}]
  BY DEF Tree
<1>4. \A u, x \in Node : x \in t.kids[u] <=> t.parent[x] = u
  BY DEF LinksAgree
<1> HIDE DEF N
<1>5. ASSUME NEW n \in 1..N
      PROVE  /\ n \in 0..N /\ n - 1 \in 0..N
             /\ f[n] \in SUBSET Node /\ f[n - 1] \in SUBSET Node
             /\ f[n] = f[n - 1] \cup UNION {t.kids[u] : u \in f[n - 1]}
  <2>1. n \in 0..N /\ n - 1 \in 0..N
    BY <1>2
  <2>2. QED BY <1>1, <2>1
<1>6. v \in f[N] /\ \A u \in f[N] : u # v => t.parent[u] \in f[N]
  <2> DEFINE S == {n \in 0..N : v \in f[n] /\ \A u \in f[n] : u # v => t.parent[u] \in f[n]}
  <2>1. 0 \in S
    BY <1>1, <1>2
  <2>2. ASSUME NEW n \in 1..N, n - 1 \in S PROVE n \in S
    <3>1. v \in f[n] /\ f[n - 1] \subseteq f[n]
      BY <1>5, <2>2
    <3>2. ASSUME NEW u \in f[n], u # v PROVE t.parent[u] \in f[n]
      <4>1. CASE u \in f[n - 1]
        BY <2>2, <3>1, <3>2, <4>1
      <4>2. CASE u \notin f[n - 1]
        <5>1. PICK q \in f[n - 1] : u \in t.kids[q]
          BY <1>5, <4>2
        <5>2. t.parent[u] = q
          BY <1>4, <1>5, <5>1
        <5>3. QED BY <3>1, <5>1, <5>2
      <4>3. QED BY <4>1, <4>2
    <3>3. QED BY <1>5, <3>1, <3>2
  <2> HIDE DEF S
  <2>3. \A n \in 0..N : n \in S
    BY <1>2, <2>1, <2>2, UpTo
  <2>4. N \in S
    BY <1>2, <2>3
  <2>5. QED BY <2>4 DEF S
<1>7. ASSUME NEW u \in f[N], NEW x \in t.kids[u], x \notin f[N] PROVE FALSE
  \* Once a step finds nothing new, no later one does.
  <2>1. ASSUME NEW n \in 1..N, f[n] = f[n - 1] PROVE FALSE
    <3> DEFINE S == {m \in 0..N : m >= n => f[m] = f[n]}
    <3>1. 0 \in S
      BY <1>2
    <3>2. ASSUME NEW m \in 1..N, m - 1 \in S PROVE m \in S
      <4>1. CASE m - 1 >= n
        BY <1>5, <2>1, <3>2, <4>1
      <4>2. CASE ~(m - 1 >= n)
        BY <1>5, <4>2
      <4>3. QED BY <4>1, <4>2
    <3> HIDE DEF S
    <3>3. \A m \in 0..N : m \in S
      BY <1>2, <3>1, <3>2, UpTo
    <3>4. N \in S /\ N >= n
      BY <1>2, <3>3
    <3>5. f[N] = f[n]
      BY <3>4 DEF S
    <3>6. x \in f[n]
      BY <1>5, <1>7, <2>1, <3>5
    <3>7. QED BY <1>7, <3>5, <3>6
  \* What a step after the first finds is a view.
  <2>2. ASSUME NEW n \in 1..N, NEW y \in f[n], y \notin f[n - 1], n # 1
        PROVE  y \in Views
    <3>1. PICK q \in f[n - 1] : y \in t.kids[q]
      BY <1>5, <2>2
    <3>2. n - 1 \in 1..N
      BY <1>2, <2>2
    <3>3. /\ f[n - 1] = f[n - 2] \cup UNION {t.kids[z] : z \in f[n - 2]}
          /\ f[n - 2] \in SUBSET Node
      <4>1. (n - 1) - 1 = n - 2
        OBVIOUS
      <4>2. QED BY <1>5, <3>2, <4>1
    <3>4. q \notin f[n - 2]
      <4>1. q \in f[n - 2] => y \in f[n - 1]
        BY <3>1, <3>3
      <4>2. QED BY <2>2, <4>1
    <3>5. PICK z \in f[n - 2] : q \in t.kids[z]
      BY <3>1, <3>3, <3>4
    <3>6. q \in Node /\ y \in Node /\ z \in Node /\ t.parent[q] = z /\ t.parent[y] = q
      BY <1>3, <1>4, <1>5, <3>1, <3>3, <3>5
    <3>7. q \notin Dock
      BY <3>6, NodeFacts DEF Layered
    <3>8. y \notin Dock /\ y \notin Host
      BY <3>6, <3>7, NodeFacts DEF Layered
    <3>9. QED BY <3>6, <3>8 DEF Node
  \* So there would be more of them than there are views.
  <2> DEFINE S == {n \in 0..N : n # 0 => Cardinality(f[n] \cap Views) >= n - 1}
  <2>3. 0 \in S
    BY <1>2
  <2>4. ASSUME NEW n \in 1..N, n - 1 \in S PROVE n \in S
    <3>1. IsFiniteSet(f[n] \cap Views) /\ Cardinality(f[n] \cap Views) \in Nat
      <4>1. IsFiniteSet(Views) /\ f[n] \cap Views \subseteq Views
        BY ConstantsAssumption
      <4>2. QED BY <4>1, FS_Subset, FS_CardinalityType
    <3>2. CASE n = 1
      BY <1>2, <3>1, <3>2
    <3>3. CASE n # 1
      <4> DEFINE A == f[n - 1] \cap Views
                 B == f[n] \cap Views
      <4>1. PICK y \in f[n] : y \notin f[n - 1]
        BY <1>5, <2>1
      <4>2. y \in B /\ y \notin A /\ A \subseteq B
        BY <1>5, <2>2, <3>3, <4>1
      <4>3. IsFiniteSet(B) /\ Cardinality(B) \in Nat
        BY <3>1
      <4>4. Cardinality(A) >= (n - 1) - 1
        BY <1>2, <2>4, <3>3
      <4> HIDE DEF A, B
      <4>5. /\ IsFiniteSet(A) /\ Cardinality(A) <= Cardinality(B)
            /\ Cardinality(A) = Cardinality(B) => A = B
        BY <4>2, <4>3, FS_Subset
      <4>6. Cardinality(A) \in Nat /\ Cardinality(A) < Cardinality(B)
        BY <4>2, <4>3, <4>5, FS_CardinalityType
      <4>7. Cardinality(B) >= n - 1
        BY <4>3, <4>4, <4>6
      <4>8. QED BY <1>5, <4>7 DEF B
    <3>4. QED BY <3>2, <3>3
  <2> HIDE DEF S
  <2>5. \A n \in 0..N : n \in S
    BY <1>2, <2>3, <2>4, UpTo
  <2>6. N \in S
    BY <1>2, <2>5
  <2>7. Cardinality(f[N] \cap Views) >= N - 1
    BY <1>2, <2>6 DEF S
  <2>8. Cardinality(f[N] \cap Views) <= Cardinality(Views) /\ Cardinality(f[N] \cap Views) \in Nat
    <3>1. IsFiniteSet(Views) /\ f[N] \cap Views \subseteq Views
      BY ConstantsAssumption
    <3>2. QED BY <3>1, FS_Subset, FS_CardinalityType
  <2>9. QED BY <1>2, <2>7, <2>8
<1>8. f[N] \in SUBSET Node
  BY <1>1, <1>2
<1>9. \A u \in f[N] : t.kids[u] \subseteq f[N]
  BY <1>7
<1>10. QED BY <1>1, <1>6, <1>8, <1>9

----------------------------------------------------------------------------
(* Contexts.  A node and its parent carry the same graphics context; a     *)
(* node that is no parent's, other than a window's own root dock, carries  *)
(* no floating window's.  The mutators pass through trees in which one     *)
(* node, about to be linked again, is excepted from the latter.            *)

SameContext(t, v) ==
  \A u \in Node \ {v} : t.parent[u] # None => t.ctx[u] = t.ctx[t.parent[u]]

Shaped(t) == t \in Tree /\ LinksAgree(t) /\ Layered(t) /\ SameContext(t, None)

Rooted(t, v) ==
  \A u \in Node \ {v} : t.ctx[u] \in Floats => u = t.ctx[u] \/ t.parent[u] # None

DocksKeep(s, t) == \A d \in Dock : s.ctx[d] = t.ctx[d]

LEMMA HostPairs ==
  /\ \A h \in Host : h[1] \in Dock /\ h[2] \in Views /\ h = <<h[1], h[2]>>
  /\ \A d \in Dock, c \in Views : <<d, c>> \in Host /\ <<d, c>>[1] = d /\ <<d, c>>[2] = c
  /\ Dock = AppDocks \cup Floats /\ AppDocks \cap Floats = {}
BY ConstantsAssumption DEF Host, Dock

LEMMA OwnersAreDocks ==
  ASSUME NEW t, GoodTree(t), NEW c \in Views
  PROVE  OwnerDocks(t.parent, c) \subseteq Dock
<1>1. CASE t.parent[c] \in Host
  <2>1. PICK e \in Dock, x \in Views : t.parent[c] = <<e, x>>
    BY <1>1 DEF Host
  <2>2. t.item[<<e, x>>] # None /\ t.parent[<<e, x>>] = e
    BY <2>1, NodeFacts DEF GoodTree, HostsLinked
  <2>3. OwnerDocks(t.parent, c) = {e}
    BY <1>1, <2>1, <2>2 DEF OwnerDocks
  <2>4. QED BY <2>3
<1>2. CASE t.parent[c] \notin Host
  BY <1>2 DEF OwnerDocks
<1>3. QED BY <1>1, <1>2

\* DockEffect and RedockEffect, as far as the docked items go.
LEMMA DockItems ==
  ASSUME NEW t, GoodTree(t), NEW d \in Dock, NEW c \in Views, NEW p \in Position
  PROVE  /\ GoodTree(DockView(t, d, c, p))
         /\ \A g \in Host : DockView(t, d, c, p).item[g] = IF g = <<d, c>> THEN p ELSE t.item[g]
<1> DEFINE s == DockView(t, d, c, p)
<1>1. /\ GoodTree(s)
      /\ \A g \in Host : s.item[g] = IF g = <<d, c>> THEN p ELSE t.item[g]
      /\ \A u \in Node :
           s.parent[u] = IF t.item[<<d, c>>] # None THEN t.parent[u]
                         ELSE IF u = <<d, c>> THEN d
                         ELSE IF u = c THEN <<d, c>> ELSE t.parent[u]
  BY DockEffect
<1> HIDE DEF s
<1>2. QED BY <1>1 DEF s

LEMMA RedockItems ==
  ASSUME NEW t, GoodTree(t), NEW w \in Floats, NEW c \in Views, NEW d \in Dock, NEW p \in Position,
         d # w
  PROVE  /\ GoodTree(RedockView(t, w, c, d, p))
         /\ \A g \in Host : RedockView(t, w, c, d, p).item[g] =
              IF g = <<d, c>> THEN p ELSE IF g = <<w, c>> THEN None ELSE t.item[g]
<1> DEFINE s == RedockView(t, w, c, d, p)
<1>1. /\ GoodTree(s)
      /\ \A g \in Host : s.item[g] = IF g = <<d, c>> THEN p
                                     ELSE IF g = <<w, c>> THEN None ELSE t.item[g]
      /\ t.item[<<d, c>>] = None =>
           \A u \in Node : s.parent[u] =
             IF u = <<d, c>> THEN d ELSE IF u = c THEN <<d, c>>
             ELSE IF u = <<w, c>> THEN None ELSE t.parent[u]
  BY RedockEffect
<1> HIDE DEF s
<1>2. QED BY <1>1 DEF s

\* Taking a view out of where it is lists nothing anew.
LEMMA LooseItems ==
  ASSUME NEW t, GoodTree(t), NEW c \in Views
  PROVE  /\ GoodTree(Loosen(t, c))
         /\ \A g \in Host : Loosen(t, c).item[g] \in {t.item[g], None}
<1> DEFINE o == OwnerDocks(t.parent, c)
           s == Loosen(t, c)
<1>1. o \subseteq Dock
  BY OwnersAreDocks
<1>2. GoodTree(s)
  BY <1>1, LooseEffect
<1>3. ASSUME NEW g \in Host PROVE s.item[g] \in {t.item[g], None}
  <2>1. CASE o # {}
    <3> DEFINE d == CHOOSE e \in o : TRUE
    <3>1. d \in Dock /\ s = UndockView(t, d, c)
      BY <1>1, <2>1 DEF Loosen
    <3> HIDE DEF d, s
    <3>2. s.item[g] = IF g = <<d, c>> THEN None ELSE t.item[g]
      BY <3>1, UndockEffect
    <3>3. QED BY <3>2
  <2>2. CASE o = {} /\ t.parent[c] # None
    <3>1. s = DetachChild(t, t.parent[c], c)
      BY <2>2 DEF Loosen
    <3> HIDE DEF s
    <3>2. t \in Tree /\ LinksAgree(t) /\ c \in Node /\ t.parent[c] \in Node
      BY <2>2, NodeFacts DEF GoodTree, Tree
    <3>3. s.item = t.item
      BY <3>1, <3>2, DetachEffect DEF Moved
    <3>4. QED BY <3>3
  <2>3. CASE o = {} /\ t.parent[c] = None
    BY <2>3 DEF Loosen
  <2>4. QED BY <2>1, <2>2, <2>3
<1>4. QED BY <1>2, <1>3

LEMMA NodeSets ==
  /\ Views \subseteq Node /\ Dock \subseteq Node /\ Host \subseteq Node
  /\ None \notin Node /\ None \notin Dock /\ None \notin Host
  /\ Views \cap Dock = {} /\ Views \cap Host = {} /\ Dock \cap Host = {}
BY ConstantsAssumption DEF Node

\* s is t with the context w given to the subtree of v.
Recoloured(s, t, v, w) ==
  /\ Shaped(s)
  /\ s.parent = t.parent /\ s.item = t.item
  /\ s.ctx[v] = w
  /\ \A u \in Node : s.ctx[u] = t.ctx[u] \/ (s.ctx[u] = w /\ (u = v \/ t.parent[u] # None))
  /\ \A d \in Dock : d # v => s.ctx[d] = t.ctx[d]

\* The context given to a whole subtree, whose root has no parent or a parent
\* with that very context.
LEMMA SetContextEffect ==
  ASSUME NEW t \in Tree, LinksAgree(t), Layered(t), NEW v \in Node, NEW w \in Dock \cup {None},
         SameContext(t, v), t.parent[v] = None \/ t.ctx[t.parent[v]] = w
  PROVE  Recoloured(SetGfxContext(t, v, w), t, v, w)
<1> DEFINE s == SetGfxContext(t, v, w)
           R == Subtree(t, v)
<1>1. /\ R \subseteq Node /\ v \in R
      /\ \A u \in R : t.kids[u] \subseteq R
      /\ \A u \in R : u # v => t.parent[u] \in R
  BY SubtreeIs
<1>2. s \in Tree /\ s.parent = t.parent /\ s.kids = t.kids /\ s.item = t.item
  BY ContextOnly
<1>3. \A u \in Node : s.ctx[u] = IF u \in R THEN w ELSE t.ctx[u]
  BY DEF SetGfxContext, Tree
<1>4. /\ t.parent \in [Node -> Node \cup {None}] /\ None \notin Node
      /\ \A p, u \in Node : u \in t.kids[p] <=> t.parent[u] = p
  BY NodeFacts DEF Tree, LinksAgree
<1> HIDE DEF s, R
<1>5. LinksAgree(s) /\ Layered(s)
  BY <1>2 DEF LinksAgree, Layered
<1>6. ASSUME NEW u \in Node, t.parent[u] # None PROVE s.ctx[u] = s.ctx[t.parent[u]]
  <2>1. t.parent[u] \in Node
    BY <1>4, <1>6
  <2>2. CASE u = v
    BY <1>1, <1>3, <1>6, <2>1, <2>2
  <2>3. CASE u # v /\ u \in R
    BY <1>1, <1>3, <2>1, <2>3
  <2>4. CASE u # v /\ u \notin R
    <3>1. t.parent[u] \notin R
      BY <1>1, <1>4, <2>1, <2>4
    <3>2. t.ctx[u] = t.ctx[t.parent[u]]
      BY <1>6, <2>4 DEF SameContext
    <3>3. QED BY <1>3, <2>1, <2>4, <3>1, <3>2
  <2>5. QED BY <2>2, <2>3, <2>4
<1>7. Shaped(s)
  BY <1>2, <1>5, <1>6 DEF Shaped, SameContext
<1>8. ASSUME NEW u \in Node
      PROVE  s.ctx[u] = t.ctx[u] \/ (s.ctx[u] = w /\ (u = v \/ t.parent[u] # None))
  BY <1>1, <1>3, <1>4
<1>9. ASSUME NEW d \in Dock, d # v PROVE s.ctx[d] = t.ctx[d]
  <2>1. d \in Node /\ t.parent[d] = None
    BY NodeFacts DEF Layered
  <2>2. d \notin R
    BY <1>1, <1>4, <1>9, <2>1
  <2>3. QED BY <1>3, <2>1, <2>2
<1>10. s.ctx[v] = w
  BY <1>1, <1>3
<1>11. QED BY <1>2, <1>7, <1>8, <1>9, <1>10 DEF s, Recoloured

LEMMA UnlinkContext ==
  ASSUME NEW t, Shaped(t), NEW p \in Node, NEW v \in Node, v \in t.kids[p]
  PROVE  LET s == Unlink(t, p, v)
         IN  /\ Shaped(s)
             /\ s.ctx = t.ctx /\ s.item = t.item
             /\ s.parent = [t.parent EXCEPT ![v] = None]
<1> DEFINE s == Unlink(t, p, v)
<1>1. /\ s \in Tree /\ LinksAgree(s) /\ s.item = t.item
      /\ s.parent = [t.parent EXCEPT ![v] = None]
  BY UnlinkEffect DEF Shaped
<1>2. s.ctx = t.ctx
  BY DEF Unlink, Shaped, Tree
<1>3. t.parent \in [Node -> Node \cup {None}]
  BY DEF Shaped, Tree
<1> HIDE DEF s
<1>4. \A u \in Node : s.parent[u] = IF u = v THEN None ELSE t.parent[u]
  BY <1>1, <1>3
<1>5. Layered(s)
  BY <1>4, NodeSets DEF Shaped, Layered
<1>6. SameContext(s, None)
  BY <1>2, <1>4 DEF Shaped, SameContext
<1>7. QED BY <1>1, <1>2, <1>5, <1>6 DEF Shaped, s

LEMMA DetachContext ==
  ASSUME NEW t, Shaped(t), NEW p \in Node, NEW v \in Node
  PROVE  LET s == DetachChild(t, p, v)
         IN  Shaped(s) /\ s.ctx = t.ctx /\ s.item = t.item /\ (Rooted(t, v) => Rooted(s, v))
<1>1. CASE v \in t.kids[p]
  <2> DEFINE s == Unlink(t, p, v)
  <2>1. DetachChild(t, p, v) = s
    BY <1>1 DEF DetachChild
  <2>2. /\ Shaped(s) /\ s.ctx = t.ctx /\ s.item = t.item
        /\ s.parent = [t.parent EXCEPT ![v] = None]
    BY <1>1, UnlinkContext
  <2> HIDE DEF s
  <2>3. Rooted(t, v) => Rooted(s, v)
    BY <2>2 DEF Rooted, Shaped, Tree
  <2>4. QED BY <2>1, <2>2, <2>3
<1>2. CASE v \notin t.kids[p]
  BY <1>2 DEF DetachChild
<1>3. QED BY <1>1, <1>2

LEMMA RemoveContext ==
  ASSUME NEW t, Shaped(t), NEW p \in Node, NEW v \in Node, v \notin Dock
  PROVE  LET s == RemoveChild(t, p, v)
         IN  /\ Shaped(s) /\ DocksKeep(s, t)
             /\ \A u \in Node : s.ctx[u] \in {t.ctx[u], None}
             /\ \A x : Rooted(t, x) => Rooted(s, x)
<1>1. CASE v \in t.kids[p]
  <2> DEFINE a == Unlink(t, p, v)
             s == SetGfxContext(a, v, None)
  <2>1. RemoveChild(t, p, v) = s
    BY <1>1 DEF RemoveChild
  <2>2. /\ Shaped(a) /\ a.ctx = t.ctx /\ a.item = t.item
        /\ a.parent = [t.parent EXCEPT ![v] = None]
    BY <1>1, UnlinkContext
  <2> HIDE DEF a
  <2>3. \A u \in Node : a.parent[u] = IF u = v THEN None ELSE t.parent[u]
    BY <2>2 DEF Shaped, Tree
  <2>4. /\ SameContext(a, v) /\ a.parent[v] = None
        /\ a \in Tree /\ LinksAgree(a) /\ Layered(a)
    BY <2>2, <2>3, NodeSets DEF Shaped, SameContext
  <2>5a. Recoloured(s, a, v, None)
    BY <2>4, SetContextEffect
  <2> HIDE DEF s
  <2>5. /\ Shaped(s)
        /\ s.parent = a.parent /\ s.item = a.item
        /\ s.ctx[v] = None
        /\ \A u \in Node : s.ctx[u] = a.ctx[u] \/ (s.ctx[u] = None /\ (u = v \/ a.parent[u] # None))
        /\ \A d \in Dock : d # v => s.ctx[d] = a.ctx[d]
    BY <2>5a DEF Recoloured
  <2> HIDE DEF s
  <2>6. DocksKeep(s, t) /\ \A u \in Node : s.ctx[u] \in {t.ctx[u], None}
    BY <2>2, <2>5 DEF DocksKeep
  <2>7. None \notin Floats
    BY NodeFacts
  <2>8. ASSUME NEW x, Rooted(t, x) PROVE Rooted(s, x)
    BY <2>3, <2>5, <2>6, <2>7, <2>8 DEF Rooted
  <2>9. QED BY <2>1, <2>5, <2>6, <2>8
<1>2. CASE v \notin t.kids[p]
  BY <1>2 DEF RemoveChild, DocksKeep
<1>3. QED BY <1>1, <1>2

LEMMA AddContext ==
  ASSUME NEW t, Shaped(t), NEW p \in Node, NEW v \in Node, v \notin Dock,
         v \in Host => p \in Dock, v \in Views => p \notin Dock
  PROVE  LET s == AddChild(t, p, v)
         IN  Shaped(s) /\ DocksKeep(s, t) /\ (Rooted(t, v) => Rooted(s, None))
<1>1. CASE v \in t.kids[p]
  <2>1. t.parent[v] = p /\ p # None
    BY <1>1, NodeFacts DEF Shaped, LinksAgree
  <2>2. Rooted(t, v) => Rooted(t, None)
    BY <2>1 DEF Rooted
  <2>3. QED BY <1>1, <2>2 DEF AddChild, DocksKeep
<1>2. CASE v \notin t.kids[p]
  <2> DEFINE old == t.parent[v]
             removed == IF old \in Node \ {p} THEN RemoveChild(t, old, v) ELSE t
             linked == Link(removed, p, v)
             w == removed.ctx[p]
             s == SetGfxContext(linked, v, w)
  <2>1. AddChild(t, p, v) = s
    BY <1>2 DEF AddChild
  <2>2. old # p /\ old \in Node \cup {None}
    BY <1>2 DEF Shaped, LinksAgree, Tree
  <2>3. /\ Shaped(removed) /\ DocksKeep(removed, t)
        /\ Rooted(t, v) => Rooted(removed, v)
        /\ removed.parent[v] = None
    <3>1. CASE old \in Node \ {p}
      <4>1. Moved(RemoveChild(t, old, v), t, v, None)
        BY <3>1, RemoveEffect DEF Shaped
      <4>2. QED BY <3>1, <4>1, RemoveContext DEF Moved
    <3>2. CASE old \notin Node \ {p}
      BY <2>2, <3>2 DEF DocksKeep
    <3>3. QED BY <3>1, <3>2
  <2> HIDE DEF removed
  <2>4. /\ removed \in Tree /\ LinksAgree(removed) /\ Layered(removed) /\ SameContext(removed, None)
        /\ removed.parent \in [Node -> Node \cup {None}]
        /\ removed.kids \in [Node -> SUBSET Node]
        /\ removed.ctx \in [Node -> Dock \cup {None}]
    BY <2>3 DEF Shaped, Tree
  <2>5. /\ linked \in Tree
        /\ linked.parent = [removed.parent EXCEPT ![v] = p]
        /\ linked.kids = [removed.kids EXCEPT ![p] = @ \cup {v}]
        /\ linked.ctx = removed.ctx
    BY <2>4 DEF Link, Tree
  <2> HIDE DEF linked
  <2>6. \A u \in Node : linked.parent[u] = IF u = v THEN p ELSE removed.parent[u]
    BY <2>4, <2>5
  <2>7. LinksAgree(linked)
    <3> SUFFICES ASSUME NEW q \in Node, NEW u \in Node
                 PROVE  u \in linked.kids[q] <=> linked.parent[u] = q
      BY DEF LinksAgree
    <3>1. linked.kids[q] = IF q = p THEN removed.kids[q] \cup {v} ELSE removed.kids[q]
      BY <2>4, <2>5
    <3>2. (u \in removed.kids[q] <=> removed.parent[u] = q) /\ None # q
      BY <2>4, NodeFacts DEF LinksAgree
    <3>3. QED BY <2>3, <2>6, <3>1, <3>2
  <2>8. Layered(linked)
    BY <2>4, <2>6, NodeSets DEF Layered
  <2>9. SameContext(linked, v)
    BY <2>4, <2>5, <2>6, NodeSets DEF SameContext
  <2>10. w \in Dock \cup {None} /\ linked.ctx[linked.parent[v]] = w
    BY <2>4, <2>5, <2>6
  <2> HIDE DEF w
  <2>11. /\ Shaped(s)
         /\ s.parent = linked.parent /\ s.item = linked.item
         /\ s.ctx[v] = w
         /\ \A u \in Node : s.ctx[u] = linked.ctx[u]
                            \/ (s.ctx[u] = w /\ (u = v \/ linked.parent[u] # None))
         /\ \A d \in Dock : d # v => s.ctx[d] = linked.ctx[d]
    <3>1. Recoloured(s, linked, v, w)
      BY <2>5, <2>7, <2>8, <2>9, <2>10, SetContextEffect
    <3> HIDE DEF s
    <3>2. QED BY <3>1 DEF Recoloured
  <2> HIDE DEF s
  <2>12. DocksKeep(s, t)
    BY <2>3, <2>5, <2>11 DEF DocksKeep
  <2>13. ASSUME Rooted(t, v) PROVE Rooted(s, None)
    <3> SUFFICES ASSUME NEW u \in Node, s.ctx[u] \in Floats
                 PROVE  u = s.ctx[u] \/ s.parent[u] # None
      BY DEF Rooted
    <3>1. CASE u = v
      BY <2>6, <2>11, <3>1, NodeFacts
    <3>2. CASE u # v
      <4>1. linked.parent[u] = removed.parent[u] /\ linked.ctx[u] = removed.ctx[u]
        BY <2>5, <2>6, <3>2
      <4>2. removed.ctx[u] \in Floats => u = removed.ctx[u] \/ removed.parent[u] # None
        BY <2>3, <2>13, <3>2 DEF Rooted
      <4>3. QED BY <2>11, <3>2, <4>1, <4>2
    <3>3. QED BY <3>1, <3>2
  <2>14. QED BY <2>1, <2>11, <2>12, <2>13
<1>3. QED BY <1>1, <1>2

LEMMA ItemContext ==
  ASSUME NEW t, Shaped(t), NEW h \in Host, NEW p \in Position \cup {None}
  PROVE  LET s == [t EXCEPT !.item[h] = p]
         IN  Shaped(s) /\ s.ctx = t.ctx /\ s.parent = t.parent /\ \A x : Rooted(t, x) => Rooted(s, x)
<1> DEFINE s == [t EXCEPT !.item[h] = p]
<1>1. s \in Tree /\ s.parent = t.parent /\ s.kids = t.kids /\ s.ctx = t.ctx
  BY ItemTyped DEF Shaped
<1> HIDE DEF s
<1>2. Shaped(s)
  BY <1>1 DEF Shaped, LinksAgree, Layered, SameContext
<1>3. \A x : Rooted(t, x) => Rooted(s, x)
  BY <1>1 DEF Rooted
<1>4. QED BY <1>1, <1>2, <1>3 DEF s

LEMMA DockContext ==
  ASSUME NEW t, Shaped(t), NEW d \in Dock, NEW c \in Views, NEW p \in Position
  PROVE  LET s == DockView(t, d, c, p)
         IN  /\ Shaped(s) /\ DocksKeep(s, t)
             /\ t.item[<<d, c>>] # None => \A x : Rooted(t, x) => Rooted(s, x)
             /\ t.item[<<d, c>>] = None => (Rooted(t, c) => Rooted(s, None))
<1> DEFINE h == <<d, c>>
           a == AddChild(t, h, c)
           b == [a EXCEPT !.item[h] = p]
           s == DockView(t, d, c, p)
<1>1. h \in Host /\ h = <<d, c>>
  BY HostPairs
<1> HIDE DEF h
<1>2. CASE t.item[h] # None
  <2>1. s = [t EXCEPT !.item[h] = p]
    BY <1>2 DEF DockView, h
  <2> HIDE DEF s
  <2>2. Shaped(s) /\ s.ctx = t.ctx /\ \A x : Rooted(t, x) => Rooted(s, x)
    BY <1>1, <2>1, ItemContext
  <2>3. QED BY <1>1, <1>2, <2>2 DEF DocksKeep, s
<1>3. CASE t.item[h] = None
  <2>1. s = AddChild(b, d, h)
    BY <1>3 DEF DockView, h
  <2> HIDE DEF s
  <2>2. c \in Node /\ h \in Node /\ d \in Node /\ c \notin Dock /\ c \notin Host
        /\ h \notin Dock /\ h \notin Views
    BY <1>1, NodeSets
  <2>3. Shaped(a) /\ DocksKeep(a, t) /\ (Rooted(t, c) => Rooted(a, None))
    BY <2>2, AddContext
  <2> HIDE DEF a
  <2>4. Shaped(b) /\ b.ctx = a.ctx /\ \A x : Rooted(a, x) => Rooted(b, x)
    BY <1>1, <2>3, ItemContext
  <2> HIDE DEF b
  <2>5. Rooted(b, None) => Rooted(b, h)
    BY NodeSets DEF Rooted
  <2>6. Shaped(s) /\ DocksKeep(s, b) /\ (Rooted(b, h) => Rooted(s, None))
    BY <2>1, <2>2, <2>4, AddContext
  <2>7. DocksKeep(s, t)
    BY <2>3, <2>4, <2>6 DEF DocksKeep
  <2>8. QED BY <1>1, <1>3, <2>3, <2>4, <2>5, <2>6, <2>7 DEF s
<1>4. QED BY <1>2, <1>3

LEMMA UndockContext ==
  ASSUME NEW t, Shaped(t), NEW d \in Dock, NEW c \in Views
  PROVE  LET s == UndockView(t, d, c)
         IN  /\ Shaped(s) /\ DocksKeep(s, t)
             /\ s.ctx[c] \in {t.ctx[c], None}
             /\ Rooted(t, c) => Rooted(s, c)
<1> DEFINE h == <<d, c>>
           a == IF t.parent[c] = h THEN DetachChild(t, h, c) ELSE t
           b == RemoveChild(a, d, h)
           s == UndockView(t, d, c)
<1>1. /\ h \in Host /\ h \in Node /\ h \notin Dock /\ c \in Node /\ d \in Node
      /\ None \in Position \cup {None}
  BY HostPairs, NodeSets
<1>2. CASE t.item[h] = None
  BY <1>2 DEF UndockView, DocksKeep
<1>3. CASE t.item[h] # None
  <2>1. s = [b EXCEPT !.item[h] = None]
    BY <1>3 DEF UndockView
  <2> HIDE DEF s, h
  <2>2. Shaped(a) /\ a.ctx = t.ctx /\ (Rooted(t, c) => Rooted(a, c))
    BY <1>1, DetachContext
  <2> HIDE DEF a
  <2>3. /\ Shaped(b) /\ DocksKeep(b, a)
        /\ \A u \in Node : b.ctx[u] \in {a.ctx[u], None}
        /\ \A x : Rooted(a, x) => Rooted(b, x)
    BY <1>1, <2>2, RemoveContext
  <2> HIDE DEF b
  <2>4. Shaped(s) /\ s.ctx = b.ctx /\ \A x : Rooted(b, x) => Rooted(s, x)
    BY <1>1, <2>1, <2>3, ItemContext
  <2>5. DocksKeep(s, t) /\ s.ctx[c] \in {t.ctx[c], None}
    BY <1>1, <2>2, <2>3, <2>4 DEF DocksKeep
  <2>6. QED BY <2>2, <2>3, <2>4, <2>5 DEF s
<1>4. QED BY <1>2, <1>3

LEMMA LooseContext ==
  ASSUME NEW t, GoodTree(t), Shaped(t), NEW c \in Views
  PROVE  LET s == Loosen(t, c)
         IN  Shaped(s) /\ DocksKeep(s, t) /\ (Rooted(t, c) => Rooted(s, c))
<1> DEFINE o == OwnerDocks(t.parent, c)
           s == Loosen(t, c)
<1>1. o \subseteq Dock
  BY OwnersAreDocks
<1>2. CASE o # {}
  <2> DEFINE d == CHOOSE e \in o : TRUE
  <2>1. d \in Dock /\ s = UndockView(t, d, c)
    BY <1>1, <1>2 DEF Loosen
  <2> HIDE DEF d, s
  <2>2. QED BY <2>1, UndockContext DEF s
<1>3. CASE o = {} /\ t.parent[c] # None
  <2>1. s = DetachChild(t, t.parent[c], c)
    BY <1>3 DEF Loosen
  <2>2. c \in Node /\ t.parent[c] \in Node
    BY <1>3, NodeSets DEF Shaped, Tree
  <2> HIDE DEF s
  <2>3. Shaped(s) /\ s.ctx = t.ctx /\ (Rooted(t, c) => Rooted(s, c))
    BY <2>1, <2>2, DetachContext
  <2>4. QED BY <2>3 DEF DocksKeep, s
<1>4. CASE o = {} /\ t.parent[c] = None
  BY <1>4 DEF Loosen, DocksKeep
<1>5. QED BY <1>2, <1>3, <1>4

----------------------------------------------------------------------------
(* No cycles.  Every set of nodes has one whose parent is outside it: this *)
(* says so of all chains at once, without walking any of them.             *)

Grounded(parent) == \A S \in SUBSET Node : S # {} => \E v \in S : parent[v] \notin S

LEMMA CutGrounded ==
  ASSUME NEW q, NEW r, Grounded(q), \A u \in Node : r[u] \in {q[u], None}
  PROVE  Grounded(r)
<1> SUFFICES ASSUME NEW S \in SUBSET Node, S # {} PROVE \E v \in S : r[v] \notin S
  BY DEF Grounded
<1>1. PICK v \in S : q[v] \notin S
  BY DEF Grounded
<1>2. r[v] \notin S
  BY <1>1, NodeSets
<1>3. QED BY <1>2

\* A view put into a fresh host under a root.
LEMMA DockGrounded ==
  ASSUME NEW q, NEW r, Grounded(q), NEW d \in Node, NEW h \in Node, NEW c \in Node,
         r[h] = d, r[c] = h, r[d] = None,
         \A u \in Node \ {h, c} : r[u] = q[u]
  PROVE  Grounded(r)
<1> SUFFICES ASSUME NEW S \in SUBSET Node, \A v \in S : r[v] \in S, S # {} PROVE FALSE
  BY DEF Grounded
<1>1. d \notin S
  BY NodeSets
<1>2. h \notin S /\ c \notin S
  BY <1>1
<1>3. PICK v \in S : q[v] \notin S
  BY DEF Grounded
<1>4. QED BY <1>2, <1>3

\* A node put under one that is not below it: R is what is below.
LEMMA LinkGrounded ==
  ASSUME NEW q, NEW r, Grounded(q), NEW p \in Node, NEW v \in Node,
         NEW R \in SUBSET Node, v \in R, p \notin R,
         \A u \in Node : q[u] \in R => u \in R,
         \A u \in Node : r[u] = IF u = v THEN p ELSE q[u]
  PROVE  Grounded(r)
<1> SUFFICES ASSUME NEW S \in SUBSET Node, \A u \in S : r[u] \in S, S # {} PROVE FALSE
  BY DEF Grounded
<1>1. S \ R # {}
  <2>1. CASE v \in S
    BY <2>1
  <2>2. CASE v \notin S
    <3>1. \A u \in S : q[u] \in S
      BY <2>2
    <3>2. QED BY <3>1 DEF Grounded
  <2>3. QED BY <2>1, <2>2
<1>2. PICK u \in S \ R : q[u] \notin S \ R
  BY <1>1 DEF Grounded
<1>3. u # v /\ q[u] \in S
  BY <1>2
<1>4. q[u] \in R
  BY <1>2, <1>3
<1>5. QED BY <1>2, <1>4

\* What a walk upwards reaches is reached along a chain, and a chain that comes
\* back to where it started is not grounded.
LEMMA GroundedNoCycle ==
  ASSUME NEW parent \in [Node -> Node \cup {None}], Grounded(parent), NEW v \in Node
  PROVE  v \notin Ancestors(parent, v)
<1> DEFINE N == MaxDepth
           Chain(S, u) == S \in SUBSET Node /\ v \in S /\ \A y \in S : parent[y] \in S \cup {u}
<1>1. PICK f \in [0..N -> SUBSET Node] :
        /\ f[0] = {parent[v]} \ {None}
        /\ \A n \in 1..N : f[n] = f[n - 1] \cup ({parent[u] : u \in f[n - 1]} \ {None})
        /\ Ancestors(parent, v) = f[N]
  BY AncestorsWalk
<1>2. N \in Nat
  BY DepthIs
<1> HIDE DEF N
<1> DEFINE T == {n \in 0..N : \A u \in f[n] : \E S : Chain(S, u)}
<1>3. 0 \in T
  <2>1. ASSUME NEW u \in f[0] PROVE \E S : Chain(S, u)
    <3>1. Chain({v}, u)
      BY <1>1, <2>1
    <3>2. QED BY <3>1
  <2>2. QED BY <1>2, <2>1
<1>4. ASSUME NEW n \in 1..N, n - 1 \in T PROVE n \in T
  <2>1. n \in 0..N /\ n - 1 \in 0..N /\ f[n - 1] \in SUBSET Node
    BY <1>1, <1>2
  <2>2. ASSUME NEW u \in f[n] PROVE \E S : Chain(S, u)
    <3>1. CASE u \in f[n - 1]
      BY <1>4, <3>1
    <3>2. CASE u \notin f[n - 1]
      <4>1. PICK w \in f[n - 1] : u = parent[w]
        BY <1>1, <3>2
      <4>2. PICK S : Chain(S, w)
        BY <1>4, <4>1
      <4>3. Chain(S \cup {w}, u)
        BY <2>1, <4>1, <4>2
      <4>4. QED BY <4>3
    <3>3. QED BY <3>1, <3>2
  <2>3. QED BY <2>1, <2>2
<1> HIDE DEF T
<1>5. N \in T
  BY <1>2, <1>3, <1>4, UpTo
<1>6. ASSUME v \in f[N] PROVE FALSE
  <2>1. PICK S : Chain(S, v)
    BY <1>5, <1>6 DEF T
  <2>2. S \in SUBSET Node /\ S # {} /\ \A y \in S : parent[y] \in S
    BY <2>1
  <2>3. QED BY <2>2 DEF Grounded
<1>7. QED BY <1>1, <1>6

LEMMA DockViewGrounded ==
  ASSUME NEW t, GoodTree(t), Layered(t), Grounded(t.parent),
         NEW d \in Dock, NEW c \in Views, NEW p \in Position
  PROVE  Grounded(DockView(t, d, c, p).parent)
<1> DEFINE h == <<d, c>>
           s == DockView(t, d, c, p)
<1>1. /\ GoodTree(s)
      /\ \A g \in Host : s.item[g] = IF g = h THEN p ELSE t.item[g]
      /\ \A u \in Node :
           s.parent[u] = IF t.item[h] # None THEN t.parent[u]
                         ELSE IF u = h THEN d
                         ELSE IF u = c THEN h ELSE t.parent[u]
  BY DockEffect
<1>2. /\ h \in Node /\ c \in Node /\ d \in Node /\ h # c /\ d # h /\ d # c
      /\ t.parent[d] = None
  BY NodeFacts DEF Layered
<1> HIDE DEF s, h
<1>3. CASE t.item[h] # None
  <2>1. \A u \in Node : s.parent[u] \in {t.parent[u], None}
    BY <1>1, <1>3
  <2>2. Grounded(s.parent)
    BY <2>1, CutGrounded
  <2>3. QED BY <2>2 DEF s
<1>4. CASE t.item[h] = None
  <2>1. /\ s.parent[h] = d /\ s.parent[c] = h /\ s.parent[d] = None
        /\ \A u \in Node \ {h, c} : s.parent[u] = t.parent[u]
    BY <1>1, <1>2, <1>4
  <2>2. Grounded(s.parent)
    BY <1>2, <2>1, DockGrounded
  <2>3. QED BY <2>2 DEF s
<1>5. QED BY <1>3, <1>4

LEMMA UndockGrounded ==
  ASSUME NEW t, GoodTree(t), Grounded(t.parent), NEW d \in Dock, NEW c \in Views
  PROVE  Grounded(UndockView(t, d, c).parent)
<1> DEFINE s == UndockView(t, d, c)
<1>1. /\ GoodTree(s)
      /\ \A g \in Host : s.item[g] = IF g = <<d, c>> THEN None ELSE t.item[g]
      /\ \A u \in Node :
           s.parent[u] = IF u = <<d, c>> \/ t.parent[u] = <<d, c>> THEN None ELSE t.parent[u]
  BY UndockEffect
<1> HIDE DEF s
<1>2. Grounded(s.parent)
  BY <1>1, CutGrounded
<1>3. QED BY <1>2 DEF s

LEMMA LooseGrounded ==
  ASSUME NEW t, GoodTree(t), Grounded(t.parent), NEW c \in Views
  PROVE  Grounded(Loosen(t, c).parent)
<1> DEFINE o == OwnerDocks(t.parent, c)
           s == Loosen(t, c)
<1>1. o \subseteq Dock
  BY OwnersAreDocks
<1>2. CASE o # {}
  <2> DEFINE d == CHOOSE e \in o : TRUE
  <2>1. d \in Dock /\ s = UndockView(t, d, c)
    BY <1>1, <1>2 DEF Loosen
  <2> HIDE DEF d, s
  <2>2. QED BY <2>1, UndockGrounded DEF s
<1>3. CASE o = {} /\ t.parent[c] # None
  <2>1. s = DetachChild(t, t.parent[c], c)
    BY <1>3 DEF Loosen
  <2>2. c \in Node /\ t.parent[c] \in Node /\ t \in Tree /\ LinksAgree(t)
    BY <1>3, NodeSets DEF GoodTree, Tree
  <2> HIDE DEF s
  <2>3. \A u \in Node : s.parent[u] \in {t.parent[u], None}
    <3>1. Moved(s, t, c, None)
      BY <2>1, <2>2, DetachEffect
    <3>2. QED BY <3>1 DEF Moved
  <2>4. Grounded(s.parent)
    BY <2>3, CutGrounded
  <2>5. QED BY <2>4 DEF s
<1>4. CASE o = {} /\ t.parent[c] = None
  BY <1>4 DEF Loosen
<1>5. QED BY <1>2, <1>3, <1>4

----------------------------------------------------------------------------
(* Floating and redocking, as far as shape and contexts go.                *)

Nested(t) == GoodTree(t) /\ Shaped(t) /\ Grounded(t.parent)

\* A root dock given the context w.
LEMMA RootRecoloured ==
  ASSUME NEW t, Nested(t), NEW d \in Dock, NEW w \in Dock \cup {None}
  PROVE  /\ Nested(SetGfxContext(t, d, w))
         /\ Recoloured(SetGfxContext(t, d, w), t, d, w)
<1> DEFINE s == SetGfxContext(t, d, w)
<1>1. /\ t \in Tree /\ LinksAgree(t) /\ Layered(t) /\ d \in Node
      /\ SameContext(t, d) /\ t.parent[d] = None
  BY NodeSets DEF Nested, Shaped, Layered, SameContext
<1>2. Recoloured(s, t, d, w)
  BY <1>1, SetContextEffect
<1>3. GoodTree(s)
  BY <1>1, ContextKeepsTree DEF Nested
<1> HIDE DEF s
<1>4. Nested(s)
  BY <1>2, <1>3 DEF Nested, Recoloured
<1>5. QED BY <1>2, <1>4 DEF s

LEMMA FloatContext ==
  ASSUME NEW t, Nested(t), NEW w \in Floats, NEW c \in Views
  PROVE  LET s == FloatView(t, w, c)
         IN  /\ Nested(s)
             /\ s.ctx[w] = w
             /\ \A d \in Dock : d # w => s.ctx[d] = t.ctx[d]
             /\ t.item[<<w, c>>] = None /\ Rooted(t, None) => Rooted(s, None)
<1> DEFINE n == NewWindow(t, w)
           l == Loosen(n, c)
           s == FloatView(t, w, c)
<1>1. w \in Dock /\ w \in Node /\ Fill \in Position /\ <<w, c>> \in Host
  BY HostPairs, NodeSets, ConstantsAssumption
<1>2. s = DockView(l, w, c, Fill)
  BY DEF FloatView, HostView
<1>3. Nested(n) /\ Recoloured(n, t, w, w)
  BY <1>1, RootRecoloured DEF NewWindow
<1> HIDE DEF n
<1>4. Rooted(t, None) => Rooted(n, c)
  BY <1>3, NodeSets DEF Recoloured, Rooted
<1>5. /\ GoodTree(l) /\ Shaped(l) /\ DocksKeep(l, n) /\ Grounded(l.parent)
      /\ Rooted(n, c) => Rooted(l, c)
      /\ \A g \in Host : l.item[g] \in {n.item[g], None}
  BY <1>3, LooseContext, LooseGrounded, LooseItems DEF Nested
<1> HIDE DEF l, s
<1>6. /\ Shaped(s) /\ DocksKeep(s, l)
      /\ l.item[<<w, c>>] # None => \A x : Rooted(l, x) => Rooted(s, x)
      /\ l.item[<<w, c>>] = None => (Rooted(l, c) => Rooted(s, None))
  BY <1>1, <1>2, <1>5, DockContext
<1>7. GoodTree(s) /\ Grounded(s.parent)
  BY <1>1, <1>2, <1>5, DockItems, DockViewGrounded DEF Shaped
<1>8. s.ctx[w] = w /\ \A d \in Dock : d # w => s.ctx[d] = t.ctx[d]
  BY <1>1, <1>3, <1>5, <1>6 DEF DocksKeep, Recoloured
<1>9. ASSUME t.item[<<w, c>>] = None, Rooted(t, None) PROVE Rooted(s, None)
  <2>1. l.item[<<w, c>>] = None
    BY <1>1, <1>3, <1>5, <1>9 DEF Recoloured
  <2>2. QED BY <1>4, <1>5, <1>6, <1>9, <2>1
<1>10. QED BY <1>6, <1>7, <1>8, <1>9 DEF Nested, s

LEMMA RedockContext ==
  ASSUME NEW t, Nested(t), NEW w \in Floats, NEW c \in Views, NEW d \in Dock, NEW p \in Position,
         d # w
  PROVE  LET s == RedockView(t, w, c, d, p)
         IN  /\ Nested(s)
             /\ s.ctx[w] = None
             /\ \A e \in Dock : e # w => s.ctx[e] = t.ctx[e]
             /\ t.item[<<d, c>>] = None /\ Rooted(t, None) => Rooted(s, None)
<1> DEFINE a == UndockView(t, w, c)
           b == DockView(a, d, c, p)
           s == RedockView(t, w, c, d, p)
<1>1. w \in Dock /\ w \in Node /\ <<d, c>> \in Host /\ <<d, c>> # <<w, c>>
  BY HostPairs, NodeSets
<1>2. s = SetGfxContext(b, w, None)
  BY DEF RedockView
<1>3. Rooted(t, None) => Rooted(t, c)
  BY NodeSets DEF Rooted
<1>4. /\ Shaped(a) /\ DocksKeep(a, t) /\ (Rooted(t, c) => Rooted(a, c)) /\ Grounded(a.parent)
  BY <1>1, UndockContext, UndockGrounded DEF Nested
<1>5. GoodTree(a) /\ \A g \in Host : a.item[g] = IF g = <<w, c>> THEN None ELSE t.item[g]
  <2>1. /\ GoodTree(a)
        /\ \A g \in Host : a.item[g] = IF g = <<w, c>> THEN None ELSE t.item[g]
        /\ \A u \in Node :
             a.parent[u] = IF u = <<w, c>> \/ t.parent[u] = <<w, c>> THEN None ELSE t.parent[u]
    BY <1>1, UndockEffect DEF Nested
  <2>2. QED BY <2>1
<1> HIDE DEF a
<1>6. /\ Shaped(b) /\ DocksKeep(b, a)
      /\ a.item[<<d, c>>] # None => \A x : Rooted(a, x) => Rooted(b, x)
      /\ a.item[<<d, c>>] = None => (Rooted(a, c) => Rooted(b, None))
  BY <1>4, DockContext
<1>7. Nested(b)
  BY <1>4, <1>5, <1>6, DockItems, DockViewGrounded DEF Shaped, Nested
<1> HIDE DEF b, s
<1>8. Nested(s) /\ Recoloured(s, b, w, None)
  BY <1>1, <1>2, <1>7, RootRecoloured
<1>9. Rooted(b, None) => Rooted(s, None)
  BY <1>8, NodeSets, NodeFacts DEF Recoloured, Rooted
<1>10. s.ctx[w] = None /\ \A e \in Dock : e # w => s.ctx[e] = t.ctx[e]
  BY <1>4, <1>6, <1>8 DEF DocksKeep, Recoloured
<1>11. ASSUME t.item[<<d, c>>] = None, Rooted(t, None) PROVE Rooted(s, None)
  BY <1>1, <1>3, <1>4, <1>5, <1>6, <1>9, <1>11
<1>12. QED BY <1>8, <1>10, <1>11 DEF s

----------------------------------------------------------------------------
(* For every application: no chain of parents comes back to its start.     *)

NestInv == TreeInv /\ Shaped(tree) /\ Grounded(tree.parent)

LEMMA NestInvInit == Init => NestInv
<1> SUFFICES ASSUME Init PROVE NestInv
  OBVIOUS
<1>1. TreeInv
  BY TreeInvInit
<1>2. \A v \in Node : tree.parent[v] = None
  BY DEF Init
<1>3. Layered(tree) /\ SameContext(tree, None)
  BY <1>2, NodeSets DEF Layered, SameContext
<1>4. Grounded(tree.parent)
  BY <1>2, NodeSets DEF Grounded
<1>5. QED BY <1>1, <1>3, <1>4 DEF NestInv, TreeInv, GoodTree, Shaped

LEMMA AddGrounded ==
  ASSUME NestInv, NEW p \in Views, NEW v \in Views, AppAddChild(p, v)
  PROVE  Grounded(tree'.parent)
<1> DEFINE R == Subtree(tree, v)
<1>1. /\ GoodTree(tree) /\ tree \in Tree /\ LinksAgree(tree) /\ Layered(tree)
      /\ Grounded(tree.parent) /\ v \in Node /\ p \in Node
  BY NodeSets DEF NestInv, TreeInv, GoodTree, Shaped
<1>2. /\ R \subseteq Node /\ v \in R
      /\ \A u \in R : tree.kids[u] \subseteq R
  BY <1>1, SubtreeIs
<1>3. p \notin R /\ tree' = AddChild(tree, p, v)
  BY DEF AppAddChild
<1>4. \A u \in Node : tree'.parent[u] = IF u = v THEN p ELSE tree.parent[u]
  BY <1>1, <1>3, AddEffectOnViews DEF Moved
<1>5. \A u \in Node : tree.parent[u] \in R => u \in R
  BY <1>1, <1>2 DEF LinksAgree
<1> HIDE DEF R
<1>6. QED BY <1>1, <1>2, <1>3, <1>4, <1>5, LinkGrounded

LEMMA NestInvStep == NestInv /\ [Next]_vars => NestInv'
<1> SUFFICES ASSUME NestInv, [Next]_vars PROVE NestInv'
  OBVIOUS
<1> DEFINE Goal == Shaped(tree') /\ Grounded(tree'.parent)
<1>1. /\ TreeInv' /\ TreeInv /\ Nested(tree)
      /\ GoodTree(tree) /\ Shaped(tree) /\ Grounded(tree.parent) /\ Layered(tree)
      /\ win \in [Floats -> Window]
  BY TreeInvStep DEF NestInv, TreeInv, Shaped, Nested
<1> SUFFICES Goal
  BY <1>1 DEF NestInv, Shaped, Grounded, LinksAgree, Layered, SameContext
<1>2. ASSUME NEW d \in AppDocks, NEW c \in Views, NEW p \in Position, AppDock(d, c, p)
      PROVE  Goal
  <2>1. tree' = DockView(tree, d, c, p) /\ d \in Dock
    BY <1>2, HostPairs DEF AppDock
  <2>2. QED BY <1>1, <2>1, DockContext, DockViewGrounded
<1>3. ASSUME NEW d \in AppDocks, NEW c \in Views, AppUndock(d, c)
      PROVE  Goal
  <2>1. tree' = UndockView(tree, d, c) /\ d \in Dock
    BY <1>3, HostPairs DEF AppUndock
  <2>2. QED BY <1>1, <2>1, UndockContext, UndockGrounded
<1>4. ASSUME NEW p \in Views, NEW v \in Views, AppAddChild(p, v)
      PROVE  Goal
  <2>1. /\ tree' = AddChild(tree, p, v)
        /\ v \in Node /\ p \in Node /\ v \notin Dock /\ v \notin Host /\ p \notin Dock
    BY <1>4, NodeSets DEF AppAddChild
  <2>2. Shaped(tree')
    BY <1>1, <2>1, AddContext
  <2>3. QED BY <1>4, <2>2, AddGrounded
<1>5. ASSUME NEW p \in Views, NEW v \in Views, AppRemoveChild(p, v)
      PROVE  Goal
  <2>1. /\ tree' = RemoveChild(tree, p, v) /\ v \in tree.kids[p]
        /\ v \in Node /\ p \in Node /\ v \notin Dock
    BY <1>5, NodeSets DEF AppRemoveChild
  <2>2. Shaped(tree')
    BY <1>1, <2>1, RemoveContext
  <2>3. \A u \in Node : tree'.parent[u] \in {tree.parent[u], None}
    BY <1>1, <2>1, RemoveEffectOnViews DEF Moved
  <2>4. QED BY <1>1, <2>2, <2>3, CutGrounded
<1>6. ASSUME NEW d \in AppDocks, NEW c \in Views, UndockToWindow(d, c)
      PROVE  Goal
  <2>1. PICK w \in Floats : tree' = FloatView(tree, w, c)
    BY <1>6 DEF UndockToWindow
  <2>2. Nested(FloatView(tree, w, c))
    BY <1>1, FloatContext
  <2>3. QED BY <2>1, <2>2 DEF Nested
<1>7. ASSUME NEW w \in Floats, NEW d \in AppDocks, NEW p \in Position, RedockTo(w, d, p)
      PROVE  Goal
  <2>1. /\ tree' = RedockView(tree, w, win[w].hosted, d, p)
        /\ win[w].hosted \in Views /\ d \in Dock /\ d # w
    BY <1>1, <1>7, HostPairs DEF RedockTo, Window
  <2>2. Nested(RedockView(tree, w, win[w].hosted, d, p))
    BY <1>1, <2>1, RedockContext
  <2>3. QED BY <2>1, <2>2 DEF Nested
<1>8. ASSUME NEW w \in Floats, CloseFloat(w)
      PROVE  Goal
  <2>1. win[w].target \in AppDocks /\ win[w].pos \in Position
    BY <1>1, <1>8 DEF CloseFloat, TreeInv, Window
  <2>2. QED BY <1>7, <1>8, <2>1 DEF CloseFloat
<1>9. CASE UNCHANGED vars
  <2>1. tree' = tree
    BY <1>9 DEF vars
  <2>2. QED BY <1>1, <2>1
<1>10. QED BY <1>2, <1>3, <1>4, <1>5, <1>6, <1>7, <1>8, <1>9 DEF Next

LEMMA NestInvAlways == Spec => []NestInv
BY NestInvInit, NestInvStep, PTL DEF Spec

LEMMA NestedNoCycles == NestInv => NoCycles
<1> SUFFICES ASSUME NestInv, NEW v \in Node PROVE v \notin Ancestors(tree.parent, v)
  BY DEF NoCycles
<1>1. tree.parent \in [Node -> Node \cup {None}] /\ Grounded(tree.parent)
  BY DEF NestInv, Shaped, Tree
<1>2. QED BY <1>1, GroundedNoCycle

\* Whatever the application calls, in whatever order, short of nesting a view in
\* its own subview, no view becomes its own ancestor: the walks of view.cc end.
THEOREM NeverCyclic == Spec => []NoCycles
BY NestedNoCycles, NestInvAlways, PTL

----------------------------------------------------------------------------
(* For a disciplined application: every view carries its window's context. *)

CtxInv ==
  /\ Rooted(tree, None)
  /\ \A d \in AppDocks : tree.ctx[d] = d
  /\ \A w \in Floats : tree.ctx[w] = IF win[w].open THEN w ELSE None

LEMMA CtxInvInit == Init => CtxInv
BY NodeSets, HostPairs, NoWindowTyped DEF Init, CtxInv, Rooted

LEMMA CtxInvStep == Disciplined /\ DockInv /\ NestInv /\ CtxInv /\ [Next]_vars => CtxInv'
<1> SUFFICES ASSUME Disciplined, DockInv, NestInv, CtxInv, [Next]_vars PROVE CtxInv'
  OBVIOUS
<1>1. /\ Nested(tree) /\ GoodTree(tree) /\ Shaped(tree) /\ Rooted(tree, None)
      /\ win \in [Floats -> Window]
      /\ \A d \in AppDocks : d \in Dock /\ d \notin Floats /\ tree.ctx[d] = d
      /\ \A w \in Floats : w \in Dock /\ tree.ctx[w] = IF win[w].open THEN w ELSE None
  BY HostPairs DEF NestInv, TreeInv, CtxInv, Nested
<1>2. \A c \in Views : Rooted(tree, c)
  BY <1>1, NodeSets DEF Rooted
<1>3. ASSUME win' = win, DocksKeep(tree', tree), Rooted(tree', None) PROVE CtxInv'
  BY <1>1, <1>3 DEF CtxInv, DocksKeep, Rooted
<1>4. ASSUME NEW d \in AppDocks, NEW c \in Views, NEW p \in Position, AppDock(d, c, p)
      PROVE  CtxInv'
  <2>1. tree' = DockView(tree, d, c, p) /\ win' = win
    BY <1>4 DEF AppDock
  <2>2. /\ Shaped(tree') /\ DocksKeep(tree', tree)
        /\ tree.item[<<d, c>>] # None => \A x : Rooted(tree, x) => Rooted(tree', x)
        /\ tree.item[<<d, c>>] = None => (Rooted(tree, c) => Rooted(tree', None))
    BY <1>1, <2>1, DockContext
  <2>3. Rooted(tree', None)
    BY <1>1, <1>2, <2>2
  <2>4. QED BY <1>3, <2>1, <2>2, <2>3
<1>5. ASSUME NEW d \in AppDocks, NEW c \in Views, AppUndock(d, c)
      PROVE  CtxInv'
  <2>1. tree' = UndockView(tree, d, c) /\ win' = win /\ d \in Dock
    BY <1>1, <1>5 DEF AppUndock
  <2>2. /\ Shaped(tree') /\ DocksKeep(tree', tree)
        /\ tree'.ctx[c] \in {tree.ctx[c], None}
        /\ Rooted(tree, c) => Rooted(tree', c)
    BY <1>1, <2>1, UndockContext
  <2>3. tree.ctx[c] = d
    <3>1. tree.parent[c] = <<d, c>>
      BY <1>5, AppUndockMoves
    <3>2. tree.parent[<<d, c>>] = d
      BY <1>1, <1>5, <2>1 DEF AppUndock, GoodTree, HostsLinked
    <3>3. c \in Node /\ <<d, c>> \in Node /\ d # None /\ <<d, c>> # None
      BY <2>1, NodeFacts, NodeSets
    <3>4. \A u \in Node : tree.parent[u] # None => tree.ctx[u] = tree.ctx[tree.parent[u]]
      BY <1>1, NodeSets DEF Shaped, SameContext
    <3>5. tree.ctx[c] = tree.ctx[<<d, c>>] /\ tree.ctx[<<d, c>>] = tree.ctx[d]
      BY <3>1, <3>2, <3>3, <3>4
    <3>6. QED BY <1>1, <3>5
  <2>4. tree'.ctx[c] \notin Floats
    BY <1>1, <2>2, <2>3, NodeSets
  <2>5. Rooted(tree', None)
    BY <1>2, <2>2, <2>4 DEF Rooted
  <2>6. QED BY <1>3, <2>1, <2>2, <2>5
<1>6. ASSUME NEW p \in Views, NEW v \in Views, AppAddChild(p, v)
      PROVE  CtxInv'
  <2>1. /\ tree' = AddChild(tree, p, v) /\ win' = win
        /\ v \in Node /\ p \in Node /\ v \notin Dock /\ v \notin Host /\ p \notin Dock
    BY <1>6, NodeSets DEF AppAddChild
  <2>2. DocksKeep(tree', tree) /\ (Rooted(tree, v) => Rooted(tree', None))
    BY <1>1, <2>1, AddContext
  <2>3. QED BY <1>2, <1>3, <2>1, <2>2
<1>7. ASSUME NEW p \in Views, NEW v \in Views, AppRemoveChild(p, v)
      PROVE  CtxInv'
  <2>1. /\ tree' = RemoveChild(tree, p, v) /\ win' = win
        /\ v \in Node /\ p \in Node /\ v \notin Dock
    BY <1>7, NodeSets DEF AppRemoveChild
  <2>2. DocksKeep(tree', tree) /\ \A x : Rooted(tree, x) => Rooted(tree', x)
    BY <1>1, <2>1, RemoveContext
  <2>3. QED BY <1>1, <1>3, <2>1, <2>2
<1>8. ASSUME NEW d \in AppDocks, NEW c \in Views, UndockToWindow(d, c)
      PROVE  CtxInv'
  <2>1. PICK w \in Floats : /\ ~win[w].open
                            /\ tree' = FloatView(tree, w, c)
                            /\ win' = [win EXCEPT ![w] = FloatWindow(tree, d, c)]
    BY <1>8 DEF UndockToWindow
  <2>2. /\ Nested(tree')
        /\ tree'.ctx[w] = w
        /\ \A e \in Dock : e # w => tree'.ctx[e] = tree.ctx[e]
        /\ tree.item[<<w, c>>] = None /\ Rooted(tree, None) => Rooted(tree', None)
    BY <1>1, <2>1, FloatContext
  <2>3. tree.item[<<w, c>>] = None
    BY <2>1 DEF DockInv, FloatsHoldTheirView
  <2>4. win'[w].open /\ \A y \in Floats : y # w => win'[y] = win[y]
    BY <1>1, <2>1 DEF FloatWindow
  <2>5. \A e \in AppDocks : tree'.ctx[e] = e
    BY <1>1, <2>2
  <2>6. \A y \in Floats : tree'.ctx[y] = IF win'[y].open THEN y ELSE None
    BY <1>1, <2>2, <2>4
  <2>7. QED BY <1>1, <2>2, <2>3, <2>5, <2>6 DEF CtxInv, Rooted
<1>9. ASSUME NEW w \in Floats, NEW d \in AppDocks, NEW p \in Position, RedockTo(w, d, p)
      PROVE  CtxInv'
  <2> DEFINE c == win[w].hosted
  <2>1. /\ tree' = RedockView(tree, w, c, d, p) /\ win' = [win EXCEPT ![w] = NoWindow]
        /\ d \in Dock /\ d # w
    BY <1>1, <1>9 DEF RedockTo
  <2>2. c \in Views /\ tree.parent[c] = <<w, c>>
    BY <1>9, RedockKeepsDocks
  <2> HIDE DEF c
  <2>3. /\ Nested(tree')
        /\ tree'.ctx[w] = None
        /\ \A e \in Dock : e # w => tree'.ctx[e] = tree.ctx[e]
        /\ tree.item[<<d, c>>] = None /\ Rooted(tree, None) => Rooted(tree', None)
    BY <1>1, <2>1, <2>2, RedockContext
  <2>4. tree.item[<<d, c>>] = None
    <3>1. <<d, c>> # <<w, c>>
      BY <2>1
    <3>2. QED BY <2>1, <2>2, <3>1 DEF DockInv, ItemsMatchTree
  <2>5. ~win'[w].open /\ \A y \in Floats : y # w => win'[y] = win[y]
    BY <1>1, <2>1, NoWindowTyped
  <2>6. \A e \in AppDocks : tree'.ctx[e] = e
    BY <1>1, <2>3
  <2>7. \A y \in Floats : tree'.ctx[y] = IF win'[y].open THEN y ELSE None
    BY <1>1, <2>3, <2>5
  <2>8. QED BY <1>1, <2>3, <2>4, <2>6, <2>7 DEF CtxInv, Rooted
<1>10. ASSUME NEW w \in Floats, CloseFloat(w)
      PROVE  CtxInv'
  <2>1. win[w].target \in AppDocks /\ win[w].pos \in Position
    BY <1>1, <1>10 DEF CloseFloat, NestInv, TreeInv, Window
  <2>2. QED BY <1>9, <1>10, <2>1 DEF CloseFloat
<1>11. CASE UNCHANGED vars
  BY <1>11 DEF vars, CtxInv, Rooted
<1>12. QED BY <1>4, <1>5, <1>6, <1>7, <1>8, <1>9, <1>10, <1>11 DEF Next

\* All a walk upwards reaches is a parent, and carries the context it left from.
LEMMA AncestorsContext ==
  ASSUME NEW t, Shaped(t), NEW v \in Node
  PROVE  \A u \in Ancestors(t.parent, v) :
           t.ctx[u] = t.ctx[v] /\ \E y \in Node : t.parent[y] = u
<1> DEFINE N == MaxDepth
           parent == t.parent
           Above(u) == t.ctx[u] = t.ctx[v] /\ \E y \in Node : parent[y] = u
<1>1. /\ parent \in [Node -> Node \cup {None}]
      /\ \A u \in Node : parent[u] # None => t.ctx[u] = t.ctx[parent[u]]
  BY NodeSets DEF Shaped, Tree, SameContext
<1> HIDE DEF parent
<1>2. PICK f \in [0..N -> SUBSET Node] :
        /\ f[0] = {parent[v]} \ {None}
        /\ \A n \in 1..N : f[n] = f[n - 1] \cup ({parent[u] : u \in f[n - 1]} \ {None})
        /\ Ancestors(parent, v) = f[N]
  BY <1>1, AncestorsWalk
<1>3. N \in Nat
  BY DepthIs
<1> HIDE DEF N
<1> DEFINE T == {n \in 0..N : \A u \in f[n] : Above(u)}
<1>4. 0 \in T
  <2>1. ASSUME NEW u \in f[0] PROVE Above(u)
    BY <1>1, <1>2, <2>1
  <2>2. QED BY <1>3, <2>1
<1>5. ASSUME NEW n \in 1..N, n - 1 \in T PROVE n \in T
  <2>1. n \in 0..N /\ n - 1 \in 0..N /\ f[n - 1] \in SUBSET Node
    BY <1>2, <1>3
  <2>2. ASSUME NEW u \in f[n] PROVE Above(u)
    <3>1. CASE u \in f[n - 1]
      BY <1>5, <3>1
    <3>2. CASE u \notin f[n - 1]
      <4>1. PICK y \in f[n - 1] : u = parent[y] /\ parent[y] # None
        BY <1>2, <3>2
      <4>2. t.ctx[y] = t.ctx[v] /\ y \in Node
        BY <1>5, <2>1, <4>1
      <4>3. QED BY <1>1, <4>1, <4>2
    <3>3. QED BY <3>1, <3>2
  <2>3. QED BY <2>1, <2>2
<1> HIDE DEF T
<1>6. N \in T
  BY <1>3, <1>4, <1>5, UpTo
<1>7. QED BY <1>2, <1>6 DEF T, parent

\* A dock with anything below it is an application's or an open window's.
LEMMA DockContextIs ==
  ASSUME DockInv, NestInv, CtxInv, NEW y \in Node, tree.parent[y] \in Dock
  PROVE  tree.ctx[tree.parent[y]] = tree.parent[y]
<1> DEFINE d == tree.parent[y]
<1>1. y \in Host
  BY NodeSets DEF NestInv, Shaped, Layered, Node
<1>2. PICK e \in Dock, x \in Views : y = <<e, x>>
  BY <1>1 DEF Host
<1>3. d = e /\ tree.item[<<e, x>>] # None
  BY <1>2, NodeSets DEF NestInv, TreeInv, GoodTree, HostsLinked
<1>4. CASE e \in AppDocks
  BY <1>3, <1>4 DEF CtxInv
<1>5. CASE e \in Floats
  <2>1. win[e].open
    BY <1>3, <1>5 DEF DockInv, FloatsHoldTheirView
  <2>2. QED BY <1>3, <1>5, <2>1 DEF CtxInv
<1>6. QED BY <1>4, <1>5, HostPairs

LEMMA ContextFollows ==
  ASSUME DockInv, NestInv, CtxInv
  PROVE  ContextFollowsTree
<1>1. /\ Shaped(tree) /\ GoodTree(tree) /\ Grounded(tree.parent)
      /\ tree.parent \in [Node -> Node \cup {None}]
      /\ \A u \in Node : tree.parent[u] # None => tree.ctx[u] = tree.ctx[tree.parent[u]]
  BY NodeSets DEF NestInv, TreeInv, Shaped, Tree, SameContext
<1>2. ASSUME NEW v \in Node, NEW d \in OwnerDocks(tree.parent, v) PROVE tree.ctx[v] = d
  <2>1. CASE tree.parent[v] \in Host
    <3>1. d = tree.parent[tree.parent[v]]
      BY <1>2, <2>1 DEF OwnerDocks
    <3>2. PICK e \in Dock, x \in Views : tree.parent[v] = <<e, x>>
      BY <2>1 DEF Host
    <3>3. tree.item[<<e, x>>] # None /\ tree.parent[<<e, x>>] = e
      BY <1>1, <3>2 DEF GoodTree, HostsLinked
    <3>4. tree.parent[v] \in Node /\ d = e /\ d # None /\ tree.parent[v] # None
      BY <2>1, <3>1, <3>2, <3>3, NodeSets
    <3>5. tree.ctx[v] = tree.ctx[tree.parent[v]] /\ tree.ctx[tree.parent[v]] = tree.ctx[d]
      BY <1>1, <3>1, <3>4
    <3>6. tree.ctx[d] = d
      BY <3>1, <3>4, DockContextIs
    <3>7. QED BY <3>5, <3>6
  <2>2. CASE tree.parent[v] \notin Host
    <3>1. d \in Ancestors(tree.parent, v) /\ d \in Dock
      BY <1>2, <2>2 DEF OwnerDocks
    <3>2. tree.ctx[d] = tree.ctx[v] /\ \E y \in Node : tree.parent[y] = d
      BY <1>1, <3>1, AncestorsContext
    <3>3. tree.ctx[d] = d
      BY <3>1, <3>2, DockContextIs
    <3>4. QED BY <3>2, <3>3
  <2>3. QED BY <2>1, <2>2
<1>3. ASSUME NEW v \in Node, tree.ctx[v] \in Floats PROVE win[tree.ctx[v]].open
  <2> DEFINE w == tree.ctx[v]
             S == {u \in Node : tree.ctx[u] = w}
  <2>1. PICK u \in S : tree.parent[u] \notin S
    <3>1. S \in SUBSET Node /\ S # {}
      OBVIOUS
    <3> HIDE DEF S
    <3>2. QED BY <1>1, <3>1 DEF Grounded
  <2>2. tree.parent[u] = None
    BY <1>1, <2>1
  <2>3. u = w
    BY <1>3, <2>1, <2>2, NodeSets DEF CtxInv, Rooted
  <2>4. tree.ctx[w] = w /\ w # None
    BY <2>1, <2>3, NodeSets
  <2>5. QED BY <1>3, <2>4 DEF CtxInv
<1>4. QED BY <1>2, <1>3 DEF ContextFollowsTree

\* While the application undocks before it moves a view, owning_window() answers
\* every view in a window's tree with that window, and no view with one that is
\* closed.
THEOREM ContextAlwaysFollows == Disciplined => (Spec => []ContextFollowsTree)
<1>1. CASE Disciplined
  <2>1. DockInv /\ NestInv /\ CtxInv /\ [Next]_vars => CtxInv'
    BY <1>1, CtxInvStep
  <2>2. DockInv /\ NestInv /\ CtxInv => ContextFollowsTree
    BY ContextFollows
  <2>3. Spec => []DockInv
    BY <1>1, DockInvAlways
  <2>4. QED BY <2>1, <2>2, <2>3, CtxInvInit, NestInvAlways, PTL DEF Spec
<1>2. QED BY <1>1

----------------------------------------------------------------------------
(* Dragging, for every application: what a drag finds when it ends.        *)


LEMMA FloatItems ==
  ASSUME NEW t, GoodTree(t), NEW w \in Floats, NEW c \in Views
  PROVE  /\ GoodTree(FloatView(t, w, c))
         /\ \A g \in Host : g # <<w, c>> => FloatView(t, w, c).item[g] \in {t.item[g], None}
<1> DEFINE n == NewWindow(t, w)
           l == Loosen(n, c)
           s == FloatView(t, w, c)
<1>1. w \in Dock /\ w \in Node /\ Fill \in Position
  BY NodeFacts, ConstantsAssumption
<1>2. GoodTree(n) /\ n.item = t.item
  BY <1>1, ContextKeepsTree DEF NewWindow
<1>3. s = DockView(l, w, c, Fill)
  BY DEF FloatView, HostView
<1> HIDE DEF n
<1>4. GoodTree(l) /\ \A g \in Host : l.item[g] \in {n.item[g], None}
  BY <1>2, LooseItems
<1> HIDE DEF l, s
<1>5. GoodTree(s) /\ \A g \in Host : s.item[g] = IF g = <<w, c>> THEN Fill ELSE l.item[g]
  BY <1>1, <1>3, <1>4, DockItems
<1>6. QED BY <1>2, <1>4, <1>5 DEF s

\* Only the hosted view of an open floating window sits in a floating dock.
OnlyHosted ==
  \A w \in Floats, c \in Views :
    tree.item[<<w, c>>] # None => win[w].open /\ win[w].hosted = c

\* A drop of a docked view where a preview still shows: it is floated, and
\* redocked at once.
PreviewDrop(w, c, d, p) ==
  /\ ~win[w].open
  /\ tree' = RedockView(FloatView(tree, w, c), w, c, d, p)
  /\ UNCHANGED win

\* The host of c in dock e is dragged and released.
Jump(w, e, c) ==
  /\ Live(<<e, c>>) /\ capture.host \in {<<e, c>>, None}
  /\ gesture[<<e, c>>] = "dragging"
  /\ preview.target # None
  /\ PreviewDrop(w, c, preview.target, preview.pos)

TreeStep ==
  \/ \E d \in AppDocks, c \in Views, p \in Position : AppDock(d, c, p)
  \/ \E d \in AppDocks, c \in Views : AppUndock(d, c)
  \/ \E d \in AppDocks, c \in Views : UndockToWindow(d, c)
  \/ \E w \in Floats, d \in AppDocks, p \in Position : RedockTo(w, d, p)
  \/ \E w \in Floats, e \in AppDocks, c \in Views : Jump(w, e, c)
  \/ UNCHANGED vars

LEMMA PreviewDropEffect ==
  ASSUME TreeInv, NEW w \in Floats, NEW c \in Views, NEW d \in AppDocks, NEW p \in Position,
         PreviewDrop(w, c, d, p)
  PROVE  /\ TreeInv'
         /\ \A g \in Host : g # <<d, c>> => tree'.item[g] \in {tree.item[g], None}
<1> DEFINE a == FloatView(tree, w, c)
           s == RedockView(a, w, c, d, p)
<1>1. GoodTree(tree) /\ tree' = s /\ win' = win
  BY DEF TreeInv, PreviewDrop
<1>2. d \in Dock /\ d # w
  BY NodeFacts, ConstantsAssumption
<1>3. GoodTree(a) /\ \A g \in Host : g # <<w, c>> => a.item[g] \in {tree.item[g], None}
  BY <1>1, FloatItems
<1> HIDE DEF a
<1>4. /\ GoodTree(s)
      /\ \A g \in Host : s.item[g] = IF g = <<d, c>> THEN p
                                     ELSE IF g = <<w, c>> THEN None ELSE a.item[g]
  BY <1>2, <1>3, RedockItems
<1> HIDE DEF s
<1>5. GoodTree(tree')
  BY <1>1, <1>4
<1>6. TreeInv'
  BY <1>1, <1>5 DEF TreeInv, GoodTree, LinksAgree, HostsLinked
<1>7. QED BY <1>1, <1>3, <1>4, <1>6

LEMMA PreviewTyped ==
  ASSUME DragTypeOK
  PROVE  /\ NoPreview.target = None
         /\ preview.target \in AppDocks \cup {None}
         /\ preview.target # None => preview.pos \in Position
BY DEF DragTypeOK, NoPreview

LEMMA TreeStepKeeps ==
  ASSUME TreeInv, OnlyHosted, DragTypeOK, TreeStep
  PROVE  TreeInv' /\ OnlyHosted'
<1>1. GoodTree(tree) /\ win \in [Floats -> Window]
  BY DEF TreeInv
<1>2. ASSUME win' = win, \A g \in Host : g[1] \in Floats => tree'.item[g] \in {tree.item[g], None}
      PROVE  OnlyHosted'
  BY <1>2, HostPairs DEF OnlyHosted
<1>3. ASSUME NEW d \in AppDocks, NEW c \in Views, NEW p \in Position, AppDock(d, c, p)
      PROVE  TreeInv' /\ OnlyHosted'
  <2>1. TreeInv' /\ win' = win
    BY <1>3, TreeInvStep DEF AppDock, Next
  <2>2. tree' = DockView(tree, d, c, p) /\ d \in Dock
    BY <1>3, HostPairs DEF AppDock
  <2>3. \A g \in Host : tree'.item[g] = IF g = <<d, c>> THEN p ELSE tree.item[g]
    BY <1>1, <2>2, DockItems
  <2>4. QED BY <1>2, <2>1, <2>3, HostPairs
<1>4. ASSUME NEW d \in AppDocks, NEW c \in Views, AppUndock(d, c)
      PROVE  TreeInv' /\ OnlyHosted'
  <2>1. TreeInv' /\ win' = win
    BY <1>4, TreeInvStep DEF AppUndock, Next
  <2>2. tree' = UndockView(tree, d, c) /\ d \in Dock
    BY <1>4, HostPairs DEF AppUndock
  <2>3. \A g \in Host : tree'.item[g] = IF g = <<d, c>> THEN None ELSE tree.item[g]
    BY <1>1, <2>2, UndockEffect
  <2>4. QED BY <1>2, <2>1, <2>3
<1>5. ASSUME NEW d \in AppDocks, NEW c \in Views, UndockToWindow(d, c)
      PROVE  TreeInv' /\ OnlyHosted'
  <2>1. TreeInv'
    BY <1>5, TreeInvStep DEF Next
  <2>2. PICK y \in Floats : /\ ~win[y].open
                            /\ tree' = FloatView(tree, y, c)
                            /\ win' = [win EXCEPT ![y] = FloatWindow(tree, d, c)]
    BY <1>5 DEF UndockToWindow
  <2>3. \A g \in Host : g # <<y, c>> => tree'.item[g] \in {tree.item[g], None}
    BY <1>1, <2>2, FloatItems
  <2>4. /\ win'[y].open /\ win'[y].hosted = c
        /\ \A w \in Floats : w # y => win'[w] = win[w]
    BY <1>1, <2>2 DEF FloatWindow
  <2>5. ASSUME NEW w \in Floats, NEW x \in Views, tree'.item[<<w, x>>] # None
        PROVE  win'[w].open /\ win'[w].hosted = x
    <3>1. <<w, x>> \in Host /\ (<<w, x>> = <<y, c>> <=> w = y /\ x = c)
      BY HostPairs
    <3>2. CASE <<w, x>> = <<y, c>>
      BY <2>4, <3>1, <3>2
    <3>3. CASE <<w, x>> # <<y, c>>
      <4>1. win[w].open /\ win[w].hosted = x
        BY <2>3, <2>5, <3>1, <3>3 DEF OnlyHosted
      <4>2. QED BY <2>2, <2>4, <4>1
    <3>4. QED BY <3>2, <3>3
  <2>6. QED BY <2>1, <2>5 DEF OnlyHosted
<1>6. ASSUME NEW y \in Floats, NEW d \in AppDocks, NEW p \in Position, RedockTo(y, d, p)
      PROVE  TreeInv' /\ OnlyHosted'
  <2> DEFINE c == win[y].hosted
  <2>1. TreeInv'
    BY <1>6, TreeInvStep DEF Next
  <2>2. /\ tree' = RedockView(tree, y, c, d, p)
        /\ win' = [win EXCEPT ![y] = NoWindow]
        /\ c \in Views /\ d \in Dock /\ d # y
    BY <1>1, <1>6, HostPairs DEF RedockTo, Window
  <2>3. \A g \in Host : tree'.item[g] = IF g = <<d, c>> THEN p
                                        ELSE IF g = <<y, c>> THEN None ELSE tree.item[g]
    BY <1>1, <2>2, RedockItems
  <2>4. ASSUME NEW w \in Floats, NEW x \in Views, tree'.item[<<w, x>>] # None
        PROVE  win'[w].open /\ win'[w].hosted = x
    <3>1. <<w, x>> \in Host /\ <<w, x>> # <<d, c>> /\ (<<w, x>> = <<y, c>> <=> w = y /\ x = c)
      BY <2>2, HostPairs
    <3>2. <<w, x>> # <<y, c>> /\ tree.item[<<w, x>>] # None
      BY <2>3, <2>4, <3>1
    <3>3. win[w].open /\ win[w].hosted = x
      BY <3>2 DEF OnlyHosted
    <3>4. w # y
      BY <3>1, <3>2, <3>3
    <3>5. QED BY <1>1, <2>2, <3>3, <3>4
  <2>5. QED BY <2>1, <2>4 DEF OnlyHosted
<1>7. ASSUME NEW w \in Floats, NEW e \in AppDocks, NEW c \in Views, Jump(w, e, c)
      PROVE  TreeInv' /\ OnlyHosted'
  <2> DEFINE d == preview.target
  <2>1. d \in AppDocks /\ preview.pos \in Position /\ PreviewDrop(w, c, d, preview.pos)
    BY <1>7, PreviewTyped DEF Jump
  <2> HIDE DEF d
  <2>2. /\ TreeInv'
        /\ \A g \in Host : g # <<d, c>> => tree'.item[g] \in {tree.item[g], None}
    BY <2>1, PreviewDropEffect
  <2>3. win' = win
    BY <2>1 DEF PreviewDrop
  <2>4. QED BY <1>2, <2>1, <2>2, <2>3, HostPairs
<1>8. CASE UNCHANGED vars
  <2>1. TreeInv'
    BY <1>8, TreeInvStep
  <2>2. QED BY <1>8, <2>1 DEF vars, OnlyHosted
<1>9. QED BY <1>3, <1>4, <1>5, <1>6, <1>7, <1>8 DEF TreeStep

\* A host whose header was pressed is listed; while a press lasts, the window
\* whose view it drags is the one the preview was asked of.
DragInv ==
  /\ TreeInv
  /\ OnlyHosted
  /\ DragTypeOK
  /\ \A h \in Host : gesture[h] # "idle" => Live(h)
  /\ PreviewBelongsToDragged

LEMMA DragInvInit == DragInit => DragInv
<1> SUFFICES ASSUME DragInit PROVE DragInv
  OBVIOUS
<1>1. TreeInv
  BY TreeInvInit DEF DragInit
<1>2. DragTypeOK
  BY <1>1, TreeInvMeaning DEF DragInit, DragTypeOK
<1>3. \A w \in Floats, c \in Views : tree.item[<<w, c>>] = None
  BY HostPairs DEF DragInit, Init
<1>4. PreviewBelongsToDragged
  BY DEF DragInit, PreviewBelongsToDragged, NoPreview
<1>5. QED BY <1>1, <1>2, <1>3, <1>4 DEF DragInit, DragInv, OnlyHosted

\* What a drop does to the tree, and to the windows.
LEMMA DropSteps ==
  ASSUME DragInv, NEW h \in Host, Pressed(h), capture.host \in {h, None}, Drop(h)
  PROVE  TreeStep
<1> DEFINE d == h[1]
           c == h[2]
<1>1. d \in Dock /\ c \in Views /\ (d \notin Floats => d \in AppDocks) /\ h = <<d, c>>
  BY HostPairs DEF Host
<1>2. CASE gesture[h] # "dragging" \/ (d \in Floats /\ preview.target = None)
  BY <1>2 DEF Drop, TreeStep, vars
<1>3. CASE /\ ~(gesture[h] # "dragging" \/ (d \in Floats /\ preview.target = None))
           /\ d \in Floats
  <2>1. RedockTo(d, preview.target, preview.pos)
    BY <1>3 DEF Drop
  <2>2. preview.target \in AppDocks /\ preview.pos \in Position
    BY <1>3, PreviewTyped DEF DragInv
  <2>3. QED BY <1>3, <2>1, <2>2 DEF TreeStep
<1>4. CASE /\ ~(gesture[h] # "dragging" \/ (d \in Floats /\ preview.target = None))
           /\ d \notin Floats /\ preview.target = None
  <2>1. UndockToWindow(d, c)
    BY <1>4 DEF Drop
  <2>2. QED BY <1>1, <1>4, <2>1 DEF TreeStep
<1>5. CASE /\ ~(gesture[h] # "dragging" \/ (d \in Floats /\ preview.target = None))
           /\ d \notin Floats /\ preview.target # None
  <2>1. PICK w \in Floats :
          /\ ~win[w].open
          /\ tree' = RedockView(FloatView(tree, w, c), w, c, preview.target, preview.pos)
          /\ UNCHANGED win
    BY <1>5 DEF Drop
  <2>2. PreviewDrop(w, c, preview.target, preview.pos)
    BY <2>1 DEF PreviewDrop
  <2>3. Jump(w, d, c)
    BY <1>1, <1>5, <2>2 DEF Jump, Pressed
  <2>4. QED BY <1>1, <1>5, <2>3 DEF TreeStep
<1>6. QED BY <1>2, <1>3, <1>4, <1>5

LEMMA CloseSteps ==
  ASSUME TreeInv, NEW w \in Floats, CloseFloat(w)
  PROVE  /\ RedockTo(w, win[w].target, win[w].pos)
         /\ win[w].target \in AppDocks /\ win[w].pos \in Position
         /\ TreeStep
<1>1. win[w].target \in AppDocks /\ win[w].pos \in Position
  BY DEF CloseFloat, TreeInv, Window
<1>2. QED BY <1>1 DEF CloseFloat, TreeStep

\* Every step changes tree and windows as TreeStep says.
LEMMA DragTreeSteps ==
  ASSUME DragInv, [DragNext]_dragVars
  PROVE  TreeStep
<1>0. TreeInv
  BY DEF DragInv
<1>1. ASSUME NEW h \in Host, PressHeader(h) \/ PressContent(h) PROVE TreeStep
  BY <1>1 DEF PressHeader, PressContent, TreeStep, vars
<1>2. ASSUME NEW h \in Host, DoubleClick(h) PROVE TreeStep
  <2>1. CASE h[1] \in AppDocks /\ UndockToWindow(h[1], h[2])
    BY <2>1, HostPairs DEF TreeStep
  <2>2. CASE h[1] \in Floats /\ CloseFloat(h[1])
    BY <1>0, <2>2, CloseSteps
  <2>3. QED BY <1>2, <2>1, <2>2 DEF DoubleClick
<1>3. ASSUME NEW h \in Host, DragPast(h) PROVE TreeStep
  BY <1>3 DEF DragPast, TreeStep, vars
<1>4. ASSUME NEW h \in Host, Release(h) PROVE TreeStep
  BY <1>4, DropSteps DEF Release
<1>5. CASE ReleaseElsewhere \/ LoseCapture
  BY <1>5 DEF ReleaseElsewhere, LoseCapture, TreeStep, vars
<1>6. CASE AppMoves
  BY <1>6 DEF AppMoves, TreeStep
<1>7. CASE WindowCloses
  BY <1>7 DEF WindowCloses, TreeStep
<1>8. CASE UNCHANGED dragVars
  BY <1>8 DEF dragVars, TreeStep, vars
<1>9. QED BY <1>1, <1>2, <1>3, <1>4, <1>5, <1>6, <1>7, <1>8 DEF DragNext, AppStep

LEMMA SurvivorsTyped ==
  ASSUME NEW t, NEW g \in [Host -> {"idle", "pressed", "dragging"}]
  PROVE  /\ Survivors(t, g) \in [Host -> {"idle", "pressed", "dragging"}]
         /\ \A h \in Host : Survivors(t, g)[h] # "idle" =>
              t.item[h] # None /\ Survivors(t, g)[h] = g[h]
BY DEF Survivors

\* Flags survive only on listed hosts, and only by a press or a move do they rise.
LEMMA GesturesLive ==
  ASSUME DragInv, [DragNext]_dragVars
  PROVE  /\ gesture' \in [Host -> {"idle", "pressed", "dragging"}]
         /\ \A h \in Host : gesture'[h] # "idle" => Live(h)'
<1> DEFINE G == [Host -> {"idle", "pressed", "dragging"}]
           Goal == gesture' \in G /\ \A h \in Host : gesture'[h] # "idle" => tree'.item[h] # None
<1>1. gesture \in G /\ \A h \in Host : gesture[h] # "idle" => tree.item[h] # None
  BY DEF DragInv, DragTypeOK, Live
<1> SUFFICES Goal
  BY DEF Live
<1> HIDE DEF G
<1>2. ASSUME NEW g \in G, gesture' = Survivors(tree', g) PROVE Goal
  BY <1>2, SurvivorsTyped DEF G
<1>3. ASSUME NEW h \in Host, Live(h), NEW x \in {"idle", "pressed", "dragging"},
             gesture' = [gesture EXCEPT ![h] = x], tree' = tree
      PROVE  Goal
  BY <1>1, <1>3 DEF G, Live
<1>4. ASSUME NEW h \in Host, PressHeader(h) \/ PressContent(h) PROVE Goal
  <2>1. CASE PressHeader(h)
    BY <1>3, <2>1 DEF PressHeader
  <2>2. CASE PressContent(h)
    BY <1>1, <2>2 DEF PressContent
  <2>3. QED BY <1>4, <2>1, <2>2
<1>5. ASSUME NEW h \in Host, DoubleClick(h) PROVE Goal
  BY <1>1, <1>2, <1>5 DEF DoubleClick
<1>6. ASSUME NEW h \in Host, DragPast(h) PROVE Goal
  BY <1>3, <1>6 DEF DragPast, Moving, Pressed
<1>7. ASSUME NEW h \in Host, Release(h) PROVE Goal
  <2>1. [gesture EXCEPT ![h] = "idle"] \in G
    BY <1>1 DEF G
  <2>2. QED BY <1>2, <1>7, <2>1 DEF Release
<1>8. CASE ReleaseElsewhere \/ LoseCapture
  BY <1>1, <1>8 DEF ReleaseElsewhere, LoseCapture
<1>9. CASE AppStep
  BY <1>1, <1>2, <1>9 DEF AppStep
<1>10. CASE UNCHANGED dragVars
  BY <1>1, <1>10 DEF dragVars
<1>11. QED BY <1>4, <1>5, <1>6, <1>7, <1>8, <1>9, <1>10 DEF DragNext

LEMMA CapturesTyped ==
  ASSUME DragInv, [DragNext]_dragVars
  PROVE  /\ capture' \in [host : Host, by : {"header", "content"}] \cup {NoCapture}
         /\ preview' \in [target : AppDocks, pos : Position] \cup {NoPreview}
<1> DEFINE C == [host : Host, by : {"header", "content"}] \cup {NoCapture}
           P == [target : AppDocks, pos : Position] \cup {NoPreview}
           Goal == capture' \in C /\ preview' \in P
<1>1. capture \in C /\ preview \in P
  BY DEF DragInv, DragTypeOK
<1>2. /\ \A h \in Host : [host |-> h, by |-> "header"] \in C /\ [host |-> h, by |-> "content"] \in C
      /\ NoCapture \in C /\ NoPreview \in P
  OBVIOUS
<1>3. \A w \in Floats : win[w].target \in AppDocks \cup {None}
  BY DEF DragInv, TreeInv
<1>4. \A w \in Floats : [target : {win[w].target} \ {None}, pos : Position] \subseteq P
  BY <1>3
<1> SUFFICES Goal
  OBVIOUS
<1> HIDE DEF C, P
<1>5. ASSUME NEW h \in Host, PressHeader(h) \/ PressContent(h) PROVE Goal
  BY <1>1, <1>2, <1>5 DEF PressHeader, PressContent
<1>6. ASSUME NEW h \in Host, DoubleClick(h) PROVE Goal
  BY <1>1, <1>2, <1>6 DEF DoubleClick
<1>7. ASSUME NEW h \in Host, DragPast(h) PROVE Goal
  <2>1. h[1] \in AppDocks \/ h[1] \in Floats
    BY HostPairs
  <2>2. QED BY <1>1, <1>2, <1>4, <1>7, <2>1 DEF DragPast
<1>8. ASSUME NEW h \in Host, Release(h) PROVE Goal
  BY <1>2, <1>8 DEF Release
<1>9. CASE ReleaseElsewhere \/ LoseCapture
  BY <1>1, <1>2, <1>9 DEF ReleaseElsewhere, LoseCapture
<1>10. CASE AppStep
  <2>1. preview' = preview
    BY <1>10 DEF AppStep
  <2>2. capture' \in C
    BY <1>1, <1>2, <1>10 DEF AppStep, AppMoves, WindowCloses, CaptureOutside
  <2>3. QED BY <1>1, <2>1, <2>2
<1>11. CASE UNCHANGED dragVars
  BY <1>1, <1>11 DEF dragVars
<1>12. QED BY <1>5, <1>6, <1>7, <1>8, <1>9, <1>10, <1>11 DEF DragNext

LEMMA PreviewKeeps ==
  ASSUME DragInv, [DragNext]_dragVars
  PROVE  PreviewBelongsToDragged'
<1> SUFFICES ASSUME NEW w \in Floats, NEW c \in Views,
                    capture' = [host |-> <<w, c>>, by |-> "header"],
                    gesture'[<<w, c>>] = "dragging"
             PROVE  preview'.target \in {None, win'[w].target}
  BY DEF PreviewBelongsToDragged
<1> DEFINE k == <<w, c>>
           Goal == preview'.target \in {None, win'[w].target}
<1>1. /\ k \in Host /\ k[1] = w /\ w \notin AppDocks
      /\ capture'.host = k /\ capture'.by = "header" /\ capture' # NoCapture
  BY HostPairs DEF NoCapture
<1>2. /\ gesture'[k] = "dragging"
      /\ capture = capture' /\ gesture[k] = "dragging" => preview.target \in {None, win[w].target}
      /\ gesture \in [Host -> {"idle", "pressed", "dragging"}]
      /\ win \in [Floats -> Window]
  BY DEF DragInv, PreviewBelongsToDragged, TreeInv, DragTypeOK
<1>3. gesture[k] = "dragging" => win[w].open
  <2>1. gesture[k] = "dragging" => tree.item[k] # None
    BY <1>1 DEF DragInv, Live
  <2>2. QED BY <2>1 DEF DragInv, OnlyHosted
<1> HIDE DEF k
<1>4. ASSUME capture' = capture, gesture[k] = "dragging", preview' = preview, win'[w] = win[w]
      PROVE  Goal
  BY <1>2, <1>4
<1> SUFFICES Goal
  OBVIOUS
<1> HIDE DEF Goal
<1>5. ASSUME NEW h \in Host, PressHeader(h) PROVE Goal
  <2>1. h = k /\ gesture' = [gesture EXCEPT ![h] = "pressed"]
    BY <1>1, <1>5 DEF PressHeader
  <2>2. QED BY <1>1, <1>2, <2>1
<1>6. ASSUME NEW h \in Host, PressContent(h) PROVE Goal
  BY <1>1, <1>6 DEF PressContent
<1>7. ASSUME NEW h \in Host, DoubleClick(h) PROVE Goal
  BY <1>1, <1>7 DEF DoubleClick
<1>8. ASSUME NEW h \in Host, DragPast(h) PROVE Goal
  <2>1. h = k /\ win' = win
    BY <1>1, <1>8 DEF DragPast, Moving
  <2>2. preview' \in {NoPreview} \cup [target : {win[w].target} \ {None}, pos : Position]
    BY <1>1, <1>8, <2>1 DEF DragPast
  <2>3. QED BY <2>1, <2>2 DEF Goal, NoPreview
<1>9. ASSUME NEW h \in Host, Release(h) PROVE Goal
  BY <1>1, <1>9 DEF Release
<1>10. CASE ReleaseElsewhere \/ LoseCapture
  BY <1>1, <1>10 DEF ReleaseElsewhere, LoseCapture
<1>11. CASE AppStep
  <2>1. gesture[k] = "dragging" /\ preview' = preview
    <3>1. gesture' = Survivors(tree', gesture) /\ preview' = preview
      BY <1>11 DEF AppStep
    <3>2. gesture'[k] = gesture[k]
      BY <1>1, <1>2, <3>1 DEF Survivors
    <3>3. QED BY <1>2, <3>1, <3>2
  <2>2. win[w].open
    BY <1>3, <2>1
  <2>3. CASE AppMoves
    <3>1. capture' = capture
      BY <1>1, <2>3 DEF AppMoves, CaptureOutside
    <3>2. win'[w] = win[w]
      <4>1. ASSUME NEW d \in AppDocks, NEW x \in Views, UndockToWindow(d, x)
            PROVE  win'[w] = win[w]
        BY <1>2, <2>2, <4>1 DEF UndockToWindow
      <4>2. QED BY <2>3, <4>1 DEF AppMoves, AppDock, AppUndock
    <3>3. QED BY <1>4, <2>1, <3>1, <3>2
  <2>4. CASE WindowCloses
    <3>1. PICK y \in Floats, d \in AppDocks, p \in Position :
            RedockTo(y, d, p) /\ capture' = CaptureOutside({y, d})
      BY <2>4 DEF WindowCloses
    <3>2. capture' = capture /\ w # y
      BY <1>1, <3>1 DEF CaptureOutside
    <3>3. win' = [win EXCEPT ![y] = NoWindow]
      BY <3>1 DEF RedockTo
    <3>4. QED BY <1>2, <1>4, <2>1, <3>2, <3>3
  <2>5. QED BY <1>11, <2>3, <2>4 DEF AppStep
<1>12. CASE UNCHANGED dragVars
  BY <1>2, <1>4, <1>12 DEF dragVars
<1>13. QED BY <1>5, <1>6, <1>7, <1>8, <1>9, <1>10, <1>11, <1>12 DEF DragNext

LEMMA DragInvStep == DragInv /\ [DragNext]_dragVars => DragInv'
<1> SUFFICES ASSUME DragInv, [DragNext]_dragVars PROVE DragInv'
  OBVIOUS
<1>1. TreeInv' /\ OnlyHosted'
  BY DragTreeSteps, TreeStepKeeps DEF DragInv
<1>2. TypeOK'
  BY <1>1 DEF TreeInv, GoodTree, TypeOK
<1>3. DragTypeOK'
  BY <1>2, GesturesLive, CapturesTyped DEF DragTypeOK
<1>4. QED BY <1>1, <1>3, GesturesLive, PreviewKeeps DEF DragInv

LEMMA DragInvAlways == DragSpec => []DragInv
BY DragInvInit, DragInvStep, PTL DEF DragSpec

\* A drag by a floating window's header never shows the preview an earlier,
\* interrupted drag of another window left behind, whatever the application
\* does between the user's events.
THEOREM PreviewAlwaysOwn == DragSpec => []PreviewBelongsToDragged
<1>1. DragInv => PreviewBelongsToDragged
  BY DEF DragInv
<1>2. QED BY <1>1, DragInvAlways, PTL

\* A drop puts the view in the very zone the preview showed.
THEOREM DropsAlwaysPreviewed == DragSpec => DropsWherePreviewed
<1> DEFINE Lands == \A w \in Floats :
                      /\ win[w].open /\ ~win'[w].open
                      /\ preview.target # None /\ preview' = NoPreview
                      => tree'.item[<<preview.target, win[w].hosted>>] = preview.pos
<1>1. ASSUME DragInv, DragNext PROVE Lands
  <2> SUFFICES ASSUME NEW w \in Floats, win[w].open, ~win'[w].open,
                      preview.target # None, preview' = NoPreview
               PROVE  tree'.item[<<preview.target, win[w].hosted>>] = preview.pos
    OBVIOUS
  <2>1. preview' # preview /\ win' # win
    BY PreviewTyped, <1>1 DEF DragInv
  <2>2. PICK h \in Host : Release(h)
    BY <1>1, <2>1 DEF DragNext, PressHeader, PressContent, DoubleClick, DragPast,
                      ReleaseElsewhere, LoseCapture, AppStep
  <2> DEFINE d == h[1]  c == h[2]
  <2>3. /\ d \in Dock /\ (d \notin Floats => d \in AppDocks)
        /\ Drop(h) /\ win \in [Floats -> Window] /\ GoodTree(tree)
        /\ preview.target \in AppDocks /\ preview.pos \in Position
    BY <1>1, <2>2, HostPairs, PreviewTyped DEF Release, DragInv, TreeInv
  <2>4. d \in Floats /\ RedockTo(d, preview.target, preview.pos)
    <3>1. ~UndockToWindow(d, c)
      BY <2>3 DEF UndockToWindow, FloatWindow
    <3>2. QED BY <2>1, <2>3, <3>1 DEF Drop
  <2>5. w = d
    BY <2>3, <2>4 DEF RedockTo
  <2>6. /\ tree' = RedockView(tree, w, win[w].hosted, preview.target, preview.pos)
        /\ win[w].hosted \in Views /\ preview.target \in Dock /\ preview.target # w
    BY <2>3, <2>4, <2>5, HostPairs DEF RedockTo, Window
  <2>7. <<preview.target, win[w].hosted>> \in Host
    BY <2>6, HostPairs
  <2>8. QED BY <2>3, <2>6, <2>7, RedockItems
<1>2. DragInv /\ [DragNext]_dragVars => [Lands]_dragVars
  BY <1>1
<1>3. QED BY <1>2, DragInvAlways, PTL DEF DragSpec, DropsWherePreviewed
----------------------------------------------------------------------------
(* Dragging, for every application: the tree stays a tree.                 *)

LEMMA JumpIs ==
  ASSUME DragInv, NEW w \in Floats, NEW e \in AppDocks, NEW c \in Views, Jump(w, e, c)
  PROVE  /\ preview.target \in AppDocks /\ preview.pos \in Position
         /\ PreviewDrop(w, c, preview.target, preview.pos)
         /\ tree.item[<<e, c>>] # None
BY PreviewTyped DEF Jump, DragInv, Live

\* A step of a drag is one of the application's, or a jump.
LEMMA DragStepIs ==
  ASSUME DragInv, [DragNext]_dragVars
  PROVE  [Next]_vars \/ \E w \in Floats, e \in AppDocks, c \in Views : Jump(w, e, c)
BY DragTreeSteps DEF TreeStep, Next

LEMMA DragNestStep == DragInv /\ NestInv /\ [DragNext]_dragVars => NestInv'
<1> SUFFICES ASSUME DragInv, NestInv, [DragNext]_dragVars PROVE NestInv'
  OBVIOUS
<1>1. CASE [Next]_vars
  BY <1>1, NestInvStep
<1>2. ASSUME NEW w \in Floats, NEW e \in AppDocks, NEW c \in Views, Jump(w, e, c)
      PROVE  NestInv'
  <2> DEFINE d == preview.target
             p == preview.pos
             a == FloatView(tree, w, c)
  <2>1. d \in AppDocks /\ p \in Position /\ PreviewDrop(w, c, d, p)
    BY <1>2, JumpIs
  <2> HIDE DEF d, p
  <2>2. Nested(tree) /\ TreeInv /\ d \in Dock /\ d # w
    BY <2>1, HostPairs DEF NestInv, Nested, TreeInv
  <2>3. TreeInv'
    BY <2>1, <2>2, PreviewDropEffect
  <2>4. Nested(a)
    BY <2>2, FloatContext
  <2> HIDE DEF a
  <2>5. Nested(RedockView(a, w, c, d, p))
    BY <2>1, <2>2, <2>4, RedockContext
  <2>6. tree' = RedockView(a, w, c, d, p)
    BY <2>1 DEF PreviewDrop, a
  <2>7. Shaped(tree') /\ Grounded(tree'.parent)
    BY <2>5, <2>6 DEF Nested
  <2> QED BY <2>3, <2>7 DEF NestInv, Shaped, Grounded, LinksAgree, Layered, SameContext
<1> QED BY <1>1, <1>2, DragStepIs

LEMMA DragNestAlways == DragSpec => []NestInv
<1>1. DragInit => NestInv
  BY NestInvInit DEF DragInit
<1> QED BY <1>1, DragNestStep, DragInvAlways, PTL DEF DragSpec

\* Whatever the application does between the user's events, a view is where its
\* parent lists it, a host shelters its own content, and the flags of the hosts,
\* the capture and the preview name hosts and docks there are.
THEOREM DragKeepsLinks == DragSpec => [](DragTypeOK /\ ParentsMatchSubviews /\ HostsMatchItems)
<1>1. DragInv => DragTypeOK /\ ParentsMatchSubviews /\ HostsMatchItems
  BY TreeInvMeaning DEF DragInv
<1> QED BY <1>1, DragInvAlways, PTL

\* No press, move, drop or double click makes a view its own ancestor.
THEOREM DragNeverCyclic == DragSpec => []NoCycles
<1>1. NestInv => NoCycles
  BY NestedNoCycles
<1> QED BY <1>1, DragNestAlways, PTL

----------------------------------------------------------------------------
(* Dragging, for a disciplined application: a jump floats the view and     *)
(* redocks it, and leaves no trace of the window in between.               *)

LEMMA JumpMoves ==
  ASSUME DockInv, NEW w \in Floats, NEW e \in AppDocks, NEW c \in Views,
         NEW d \in AppDocks, NEW p \in Position,
         PreviewDrop(w, c, d, p), tree.item[<<e, c>>] # None
  PROVE  /\ OnlyMoves(tree', tree, c, d, p) /\ win' = win
         /\ tree.parent[c] = <<e, c>>
         /\ tree.item[<<w, c>>] = None
         /\ FloatView(tree, w, c).item[<<d, c>>] = None
         /\ \A x \in Dock : x # e => tree.item[<<x, c>>] = None
<1> DEFINE a == FloatView(tree, w, c)
<1>1. /\ e \in Dock /\ d \in Dock /\ w \in Dock /\ d # w /\ c \in Node
      /\ GoodTree(tree) /\ ~win[w].open /\ win' = win
      /\ tree' = RedockView(a, w, c, d, p)
  BY HostPairs, NodeFacts DEF PreviewDrop, DockInv, TreeInv
<1>2. /\ tree.parent[c] = <<e, c>> /\ MatchedItem(tree, c)
      /\ \A x \in Dock : x # e => tree.item[<<x, c>>] = None
  BY <1>1 DEF DockInv, ItemsMatchTree, MatchedItem
<1>3. tree.item[<<w, c>>] = None
  BY <1>1 DEF DockInv, FloatsHoldTheirView
<1>4. OwnerDocks(tree.parent, c) \subseteq AppDocks
  <2>1. <<e, c>> \in Host /\ tree.parent[<<e, c>>] = e
    BY <1>1, NodeFacts DEF GoodTree, HostsLinked
  <2> QED BY <1>2, <2>1 DEF OwnerDocks
<1>5. GoodTree(a) /\ Floated(a, tree, w, c)
  BY <1>1, <1>2, <1>3, <1>4, FloatEffect
<1> HIDE DEF a
<1>6. a.item[<<d, c>>] = None
  BY <1>1, <1>5 DEF Floated
<1>7. /\ \A g \in Host : tree'.item[g] = IF g = <<d, c>> THEN p
                                         ELSE IF g = <<w, c>> THEN None ELSE a.item[g]
      /\ \A u \in Node : tree'.parent[u] =
           IF u = <<d, c>> THEN d ELSE IF u = c THEN <<d, c>>
           ELSE IF u = <<w, c>> THEN None ELSE a.parent[u]
  BY <1>1, <1>5, <1>6, RedockEffect
<1>8. ASSUME NEW x \in Dock, NEW y \in Views
      PROVE  tree'.item[<<x, y>>] = IF y # c THEN tree.item[<<x, y>>]
                                    ELSE IF x = d THEN p ELSE None
  <2>1. /\ <<x, y>> \in Host
        /\ <<x, y>> = <<d, c>> <=> x = d /\ y = c
        /\ <<x, y>> = <<w, c>> <=> x = w /\ y = c
    BY HostPairs
  <2>2. a.item[<<x, y>>] = IF y # c THEN tree.item[<<x, y>>] ELSE IF x = w THEN Fill ELSE None
    BY <1>5 DEF Floated
  <2> QED BY <1>7, <2>1, <2>2
<1>9. ASSUME NEW y \in Views
      PROVE  tree'.parent[y] = IF y = c THEN <<d, c>> ELSE tree.parent[y]
  <2>1. y \in Node /\ y # <<d, c>> /\ y # <<w, c>>
    BY <1>1, NodeFacts
  <2>2. y # c => a.parent[y] = tree.parent[y]
    BY <1>5 DEF Floated
  <2> QED BY <1>7, <2>1, <2>2
<1>10. \A x \in Dock : tree'.parent[c] = <<x, c>> <=> x = d
  BY <1>9
<1>11. OnlyMoves(tree', tree, c, d, p)
  BY <1>8, <1>9, <1>10 DEF OnlyMoves
<1> QED BY <1>1, <1>2, <1>3, <1>6, <1>11 DEF a

LEMMA DragDockStep ==
  ASSUME Disciplined, DragInv, DockInv, [DragNext]_dragVars
  PROVE  DockInv'
<1>1. CASE [Next]_vars
  BY <1>1, DockInvStep
<1>2. ASSUME NEW w \in Floats, NEW e \in AppDocks, NEW c \in Views, Jump(w, e, c)
      PROVE  DockInv'
  <2> DEFINE d == preview.target
             p == preview.pos
  <2>1. /\ d \in AppDocks /\ p \in Position /\ PreviewDrop(w, c, d, p)
        /\ tree.item[<<e, c>>] # None /\ p # None
    BY <1>2, JumpIs, ConstantsAssumption
  <2> HIDE DEF d, p
  <2>2. TreeInv'
    BY <2>1, PreviewDropEffect DEF DockInv
  <2>3. /\ OnlyMoves(tree', tree, c, d, p) /\ win' = win
        /\ \A x \in Dock : x # e => tree.item[<<x, c>>] = None
    BY <2>1, JumpMoves
  <2>4. \A x \in Dock : x # d => x \in AppDocks \/ tree.item[<<x, c>>] = None
    BY <2>3
  <2>5. ItemsMatchTree'
    BY <2>1, <2>3, ItemsStayMatched
  <2>6. FloatsHoldTheirView'
    BY <2>1, <2>3, <2>4, FloatsUndisturbed
  <2> QED BY <2>2, <2>5, <2>6 DEF DockInv
<1> QED BY <1>1, <1>2, DragStepIs

LEMMA DragCtxStep ==
  ASSUME Disciplined, DragInv, DockInv, NestInv, CtxInv, [DragNext]_dragVars
  PROVE  CtxInv'
<1>1. CASE [Next]_vars
  BY <1>1, CtxInvStep
<1>2. ASSUME NEW w \in Floats, NEW e \in AppDocks, NEW c \in Views, Jump(w, e, c)
      PROVE  CtxInv'
  <2> DEFINE d == preview.target
             p == preview.pos
             a == FloatView(tree, w, c)
  <2>1. /\ d \in AppDocks /\ p \in Position /\ PreviewDrop(w, c, d, p)
        /\ tree.item[<<e, c>>] # None
    BY <1>2, JumpIs
  <2> HIDE DEF d, p
  <2>2. /\ tree.item[<<w, c>>] = None /\ a.item[<<d, c>>] = None
        /\ win' = win /\ ~win[w].open /\ tree' = RedockView(a, w, c, d, p)
    BY <2>1, JumpMoves DEF PreviewDrop
  <2>3. /\ Nested(tree) /\ Rooted(tree, None) /\ d \in Dock /\ d # w /\ w \in Dock
        /\ \A x \in AppDocks : x \in Dock /\ x # w /\ tree.ctx[x] = x
        /\ \A y \in Floats : y \in Dock /\ tree.ctx[y] = IF win[y].open THEN y ELSE None
    BY <2>1, HostPairs DEF NestInv, Nested, TreeInv, CtxInv
  <2>4. /\ Nested(a) /\ Rooted(a, None)
        /\ \A x \in Dock : x # w => a.ctx[x] = tree.ctx[x]
    BY <2>2, <2>3, FloatContext
  <2> HIDE DEF a
  <2>5. /\ tree'.ctx[w] = None /\ Rooted(tree', None)
        /\ \A x \in Dock : x # w => tree'.ctx[x] = a.ctx[x]
    BY <2>1, <2>2, <2>3, <2>4, RedockContext
  <2>6. \A x \in AppDocks : tree'.ctx[x] = x
    BY <2>3, <2>4, <2>5
  <2>7. \A y \in Floats : tree'.ctx[y] = IF win'[y].open THEN y ELSE None
    BY <2>2, <2>3, <2>4, <2>5
  <2> QED BY <2>5, <2>6, <2>7 DEF CtxInv, Rooted
<1> QED BY <1>1, <1>2, DragStepIs

LEMMA DragDockAlways == Disciplined => (DragSpec => [](DragInv /\ DockInv /\ NestInv /\ CtxInv))
<1>1. CASE Disciplined
  <2>1. DragInit => DockInv /\ CtxInv
    BY DockInvInit, CtxInvInit DEF DragInit
  <2>2. DragInv /\ DockInv /\ [DragNext]_dragVars => DockInv'
    BY <1>1, DragDockStep
  <2>3. DragInv /\ DockInv /\ NestInv /\ CtxInv /\ [DragNext]_dragVars => CtxInv'
    BY <1>1, DragCtxStep
  <2> QED BY <2>1, <2>2, <2>3, DragInvAlways, DragNestAlways, PTL DEF DragSpec
<1> QED BY <1>1

\* While the application undocks before it moves a view, the user may drag as he
\* likes: no dock lists a view that sits elsewhere, a floating window shows its
\* view, and every view carries the context of the window that shows it.
THEOREM DragKeepsDocks ==
  Disciplined => (DragSpec => [](ItemsMatchTree /\ FloatsHoldTheirView /\ ContextFollowsTree))
<1>1. DockInv /\ NestInv /\ CtxInv => ItemsMatchTree /\ FloatsHoldTheirView /\ ContextFollowsTree
  BY ContextFollows DEF DockInv
<1> QED BY <1>1, DragDockAlways, PTL

\* However a floating window closes, by a drop, a double click or a call of the
\* application's in the middle of a drag, its view is left in an application's dock.
THEOREM DragKeepsTheView == Disciplined => (DragSpec => RedockKeepsTheView)
<1>1. ASSUME Disciplined, DragInv, DockInv, [DragNext]_dragVars PROVE [KeepsTheView]_vars
  <2>1. ASSUME NEW w \in Floats, NEW e \in AppDocks, NEW c \in Views, Jump(w, e, c)
        PROVE  KeepsTheView
    <3>1. win' = win
      BY <2>1 DEF Jump, PreviewDrop
    <3> QED BY <3>1 DEF KeepsTheView
  <2> QED BY <1>1, <2>1, DragStepIs, RedockKeepsStep
<1>2. ASSUME Disciplined PROVE DragSpec => [][KeepsTheView]_vars
  <2>1. DragInv /\ DockInv /\ [DragNext]_dragVars => [KeepsTheView]_vars
    BY <1>1, <1>2
  <2>2. DragSpec => [](DragInv /\ DockInv /\ NestInv /\ CtxInv)
    BY <1>2, DragDockAlways
  <2> QED BY <2>1, <2>2, PTL DEF DragSpec
<1> QED BY <1>2 DEF RedockKeepsTheView, KeepsTheView

\* The simple account, but for a docked view that is dropped while a preview shows: it goes
\* from its dock to the preview's.
GoesToPreview(c) ==
  /\ PlaceOf(c) \in AppDocks /\ preview.target # None
  /\ capture.host \in {<<PlaceOf(c), c>>, None} /\ gesture[<<PlaceOf(c), c>>] = "dragging"
  /\ Places!Move(c, preview.target, None)

DragsAsPromised ==
  /\ Places!Init
  /\ [][Places!Next \/ \E c \in Views : GoesToPreview(c)]_Places!placeVars
  /\ [][\A w \in Floats : CloseFloat(w) => Places!Close(win[w].hosted)]_dragVars

LEMMA JumpGoes ==
  ASSUME DragInv, DockInv, DockInv', NEW w \in Floats, NEW e \in AppDocks, NEW c \in Views,
         Jump(w, e, c)
  PROVE  GoesToPreview(c)
<1> DEFINE d == preview.target
           p == preview.pos
<1>1. /\ d \in AppDocks /\ p \in Position /\ PreviewDrop(w, c, d, p)
      /\ tree.item[<<e, c>>] # None
  BY JumpIs
<1>2. /\ d # None /\ capture.host \in {<<e, c>>, None} /\ gesture[<<e, c>>] = "dragging"
  BY DEF Jump
<1> HIDE DEF d, p
<1>3. d \in Dock /\ d \notin Floats /\ e \in Dock
  BY <1>1, HostPairs
<1>4. OnlyMoves(tree', tree, c, d, p) /\ win' = win /\ tree.parent[c] = <<e, c>>
  BY <1>1, JumpMoves
<1>5. Goes(c, d, None)
  BY <1>3, <1>4, MovesAreGoes DEF OnlyMoves
<1>6. PlaceOf(c) = e
  BY <1>3, <1>4, PlaceIs
<1>7. Places!Move(c, d, None)
  BY <1>5 DEF Goes, Places!Move, PlaceMap, HomeMap
<1> QED BY <1>2, <1>6, <1>7 DEF GoesToPreview, d

\* A drag moves views only as the simple account of docking says, except that a
\* docked view dropped while a preview shows goes straight to the preview's dock;
\* a close() in the middle of it goes home.
THEOREM DragsImplementPlaces == Disciplined => (DragSpec => DragsAsPromised)
<1>1. DragInit => Places!Init
  BY InitIsPlaces DEF DragInit
<1>2. ASSUME Disciplined PROVE DragSpec => DragsAsPromised
  <2>1. DragInv /\ DockInv /\ DockInv' /\ [DragNext]_dragVars
        => [Places!Next \/ \E c \in Views : GoesToPreview(c)]_Places!placeVars
    BY <1>2, DragStepIs, StepsAsPromised, JumpGoes DEF Places!placeVars, PlaceMap, HomeMap
  <2>2. DragSpec => [](DragInv /\ DockInv /\ NestInv /\ CtxInv)
    BY <1>2, DragDockAlways
  <2> DEFINE Closes == \A w \in Floats : CloseFloat(w) => Places!Close(win[w].hosted)
  <2>3. DockInv /\ DockInv' => [Closes]_dragVars
    BY CloseGoesHome
  <2> HIDE DEF Closes
  <2> QED BY <1>1, <2>1, <2>2, <2>3, PTL DEF DragSpec, DragsAsPromised, Closes
<1> QED BY <1>2

\* Where a view dragged out of a dock by its header is left when it is released: in a
\* floating window, or where a preview still shows.
DraggedOutLands ==
  \A d \in AppDocks, c \in Views :
    /\ capture = [host |-> <<d, c>>, by |-> "header"] /\ capture' = NoCapture
    /\ gesture[<<d, c>>] = "dragging" /\ gesture'[<<d, c>>] = "idle"
    => IF preview.target = None THEN PlaceOf(c)' \in Floats ELSE PlaceOf(c)' = preview.target

LEMMA CloseKeepsGestures ==
  ASSUME DragInv, NEW d \in AppDocks, NEW c \in Views, gesture[<<d, c>>] # "idle", WindowCloses
  PROVE  Survivors(tree', gesture)[<<d, c>>] = gesture[<<d, c>>]
<1> DEFINE h == <<d, c>>
<1>1. h \in Host /\ tree.item[h] # None
  BY HostPairs DEF DragInv, Live
<1>2. PICK w \in Floats, t \in AppDocks, p \in Position : RedockTo(w, t, p)
  BY DEF WindowCloses
<1> DEFINE x == win[w].hosted
<1>3. /\ tree' = RedockView(tree, w, x, t, p) /\ GoodTree(tree)
      /\ x \in Views /\ t \in Dock /\ t # w /\ p # None
  BY <1>2, HostPairs, ConstantsAssumption DEF RedockTo, DragInv, TreeInv, Window
<1> HIDE DEF x
<1>4. \A g \in Host : tree'.item[g] = IF g = <<t, x>> THEN p
                                      ELSE IF g = <<w, x>> THEN None ELSE tree.item[g]
  BY <1>2, <1>3, RedockItems
<1>5. h # <<w, x>>
  BY HostPairs
<1> HIDE DEF h
<1>6. Survivors(tree', gesture)[h] = gesture[h]
  BY <1>1, <1>3, <1>4, <1>5 DEF Survivors
<1> QED BY <1>6 DEF h

\* A view the application moves is not the one under the pointer.
LEMMA MoveKeepsGestures ==
  ASSUME Disciplined, DockInv, DragInv, NEW d \in AppDocks, NEW c \in Views,
         gesture[<<d, c>>] # "idle", capture.host = <<d, c>>, AppMoves, capture' # capture
  PROVE  Survivors(tree', gesture)[<<d, c>>] = gesture[<<d, c>>]
<1> DEFINE h == <<d, c>>
<1>1. h \in Host /\ h \in Dock \X {c} /\ h # None /\ tree.item[h] # None /\ d \in Dock
  BY HostPairs, NodeSets DEF DragInv, Live
<1>2. PICK e \in AppDocks, x \in Views : NotUnderPointer(x) /\ UndockToWindow(e, x)
  BY DEF AppMoves
<1>3. x # c
  BY <1>1, <1>2 DEF NotUnderPointer
<1>4. PICK w \in Floats : OnlyMoves(tree', tree, x, w, Fill)
  BY <1>2, UndockToWindowMoves
<1>5. tree'.item[h] = tree.item[h]
  BY <1>1, <1>3, <1>4 DEF OnlyMoves
<1> HIDE DEF h
<1>6. Survivors(tree', gesture)[h] = gesture[h]
  BY <1>1, <1>5 DEF Survivors
<1> QED BY <1>6 DEF h

LEMMA DropLands ==
  ASSUME Disciplined, DragInv, DockInv, NEW d \in AppDocks, NEW c \in Views,
         Release(<<d, c>>), gesture[<<d, c>>] = "dragging"
  PROVE  IF preview.target = None THEN PlaceOf(c)' \in Floats ELSE PlaceOf(c)' = preview.target
<1>1. d \notin Floats /\ <<d, c>> \in Host /\ <<d, c>>[1] = d /\ <<d, c>>[2] = c
  BY HostPairs
<1>2. ASSUME NEW x \in Dock, tree'.parent[c] = <<x, c>> PROVE PlaceOf(c)' = x
  BY <1>2, HostPairs DEF PlaceOf
<1>3. CASE preview.target = None
  <2>1. UndockToWindow(d, c)
    BY <1>1, <1>3 DEF Release, Drop
  <2>2. PICK w \in Floats : OnlyMoves(tree', tree, c, w, Fill)
    BY <2>1, UndockToWindowMoves
  <2>3. w \in Dock /\ tree'.parent[c] = <<w, c>>
    BY <2>2, HostPairs DEF OnlyMoves
  <2> QED BY <1>2, <1>3, <2>3
<1>4. CASE preview.target # None
  <2> DEFINE t == preview.target
             p == preview.pos
  <2>1. PICK w \in Floats : PreviewDrop(w, c, t, p)
    BY <1>1, <1>4 DEF Release, Drop, PreviewDrop
  <2>2. t \in AppDocks /\ p \in Position /\ t # None /\ tree.item[<<d, c>>] # None
    BY <1>4, PreviewTyped DEF DragInv, Release, Pressed, Live
  <2> HIDE DEF t, p
  <2>3. OnlyMoves(tree', tree, c, t, p)
    BY <2>1, <2>2, JumpMoves
  <2>4. t \in Dock /\ tree'.parent[c] = <<t, c>>
    BY <2>2, <2>3, HostPairs DEF OnlyMoves
  <2> QED BY <1>2, <2>2, <2>4 DEF t
<1> QED BY <1>3, <1>4

\* A view dragged out of a dock ends in a floating window of its own, as
\* dock_native_drag_smoke_test.cc waits for, unless an earlier, interrupted drag left its
\* preview behind (dock_view.cc 283-316).
THEOREM DraggedOutAlwaysLands == Disciplined => (DragSpec => [][DraggedOutLands]_dragVars)
<1>1. ASSUME Disciplined, DragInv, DockInv, DragNext PROVE DraggedOutLands
  <2> SUFFICES ASSUME NEW d \in AppDocks, NEW c \in Views,
                      capture = [host |-> <<d, c>>, by |-> "header"], capture' = NoCapture,
                      gesture[<<d, c>>] = "dragging", gesture'[<<d, c>>] = "idle"
               PROVE  IF preview.target = None THEN PlaceOf(c)' \in Floats
                      ELSE PlaceOf(c)' = preview.target
    BY DEF DraggedOutLands
  <2>1. <<d, c>> # None /\ capture # NoCapture /\ capture.host = <<d, c>>
    BY HostPairs, NodeSets DEF NoCapture
  <2>2. ~AppStep
    <3>1. CASE AppMoves
      BY <1>1, <2>1, <3>1, MoveKeepsGestures DEF AppStep
    <3>2. CASE WindowCloses
      BY <1>1, <3>2, CloseKeepsGestures DEF AppStep
    <3> QED BY <3>1, <3>2 DEF AppStep
  <2>3. PICK h \in Host : Release(h)
    BY <1>1, <2>1, <2>2 DEF DragNext, PressHeader, PressContent, DoubleClick, DragPast,
                            ReleaseElsewhere, LoseCapture
  <2>4. h = <<d, c>>
    BY <2>1, <2>3 DEF Release
  <2> QED BY <1>1, <2>3, <2>4, DropLands
<1>2. ASSUME Disciplined PROVE DragSpec => [][DraggedOutLands]_dragVars
  <2>1. DragInv /\ DockInv /\ [DragNext]_dragVars => [DraggedOutLands]_dragVars
    BY <1>1, <1>2
  <2>2. DragSpec => [](DragInv /\ DockInv /\ NestInv /\ CtxInv)
    BY <1>2, DragDockAlways
  <2> QED BY <2>1, <2>2, PTL DEF DragSpec
<1> QED BY <1>2
=============================================================================
