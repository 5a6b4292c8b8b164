------------------------- MODULE WindowInputProofs -------------------------
(***************************************************************************)
(* Proofs about WindowInput, for any number of views of any nesting.       *)
(*                                                                         *)
(* What holds whatever the application does is inductive as it stands      *)
(* (AnyInv).  The rest, for a careful application, needs to know how a     *)
(* press came about (PressInv): every control an event for the hovered     *)
(* view is offered to before it comes to a pressed button would have taken *)
(* the press, and so there is none; and what holds the capture while a     *)
(* button is pressed is the button or something around it.                 *)
(***************************************************************************)
EXTENDS WindowInput, TLAPS

AnyInv == TypeOK /\ CaptureHeld /\ HoverEnds /\ DisabledIsIdle

\* Once careless, the application stays so.
LEMMA ConductStep == [Next]_vars => conduct' \in {conduct, "careless"}
<1> SUFFICES ASSUME [Next]_vars PROVE conduct' \in {conduct, "careless"}
    OBVIOUS
<1>1. ASSUME NEW isCareful, Does(isCareful) PROVE conduct' \in {conduct, "careless"}
  BY <1>1 DEF Does
<1>2. ASSUME UNCHANGED conduct PROVE conduct' \in {conduct, "careless"}
  BY <1>2
<1>3. ASSUME NEW v, NEW b, ButtonDown(v, b) \/ ButtonUp(v, b)
      PROVE  conduct' \in {conduct, "careless"}
  BY <1>1, <1>2, <1>3 DEF ButtonDown, ButtonUp, controls
<1>4. ASSUME NEW v, MouseMove(v) PROVE conduct' \in {conduct, "careless"}
  BY <1>2, <1>4 DEF MouseMove, controls
<1>5. ASSUME MouseLeave \/ KillFocus \/ CaptureChanged
      PROVE  conduct' \in {conduct, "careless"}
  BY <1>2, <1>5 DEF MouseLeave, KillFocus, CaptureChanged, controls
<1>6. ASSUME CancelInteraction \/ SetContentView PROVE conduct' \in {conduct, "careless"}
  BY <1>6 DEF Does, CancelInteraction, SetContentView
<1>7. ASSUME NEW p, NEW v, AddChild(p, v) \/ RemoveChild(v)
      PROVE  conduct' \in {conduct, "careless"}
  BY <1>7 DEF Does, AddChild, RemoveChild
<1>8. ASSUME NEW x, Enable(x) \/ SetEditable(x) PROVE conduct' \in {conduct, "careless"}
  BY <1>2, <1>8 DEF Enable, SetEditable
<1>9. CASE UNCHANGED vars
  BY <1>2, <1>9 DEF vars, controls
<1> QED
  BY <1>3, <1>4, <1>5, <1>6, <1>7, <1>8, <1>9 DEF Next

LEMMA AnyStep == AnyInv /\ [Next]_vars => AnyInv'
<1> SUFFICES ASSUME AnyInv, [Next]_vars PROVE AnyInv'
    OBVIOUS
<1>0. conduct' \in {"careful", "careless"}
  BY ConductStep DEF AnyInv, TypeOK
<1> USE <1>0, ConstantsAssumption DEF AnyInv, TypeOK, CaptureHeld, HoverEnds, DisabledIsIdle,
        Views, Controls, MouseButtons, controls
<1>1. ASSUME NEW v \in Views \cup {None}, MouseMove(v) PROVE AnyInv'
  BY <1>1 DEF MouseMove, UpdateHover, HoveredAfter, PressedAfter, Shown
<1>2. ASSUME NEW v \in Views \cup {None}, NEW b \in MouseButtons, ButtonDown(v, b)
      PROVE  AnyInv'
  <2> DEFINE handler == Nearest(v, Presses(b))
             held    == PressedAfter(pressed, hover, v)
  <2>1. hover' = v /\ hovered' = HoveredAfter(hovered, enabled, hover, v)
        /\ clicked' = None /\ UNCHANGED <<controls, tracking>> /\ v \in Hits
    BY <1>2 DEF ButtonDown, UpdateHover
  <2>2. hovered' \subseteq enabled
    BY <2>1 DEF HoveredAfter
  <2>3. held \subseteq enabled
    BY DEF PressedAfter
  <2>4. \A h \in handler : h \in Controls /\ ({h} \cap Buttons) \subseteq enabled
    BY DEF Nearest, Presses
  <2>5. HoverEnds'
    BY <2>1 DEF Hits
  <2>6. CASE handler = {} /\ pressed' = held /\ UNCHANGED <<focused, capture, focus, down, native>>
    BY <2>1, <2>2, <2>3, <2>5, <2>6
  <2>7. ASSUME NEW h \in handler, pressed' = held \cup ({h} \cap Buttons), capture' = h,
               down' = down \cup {b}, native' = TRUE, SetFocus(h)
        PROVE  AnyInv'
    <3>1. focus' \in Controls \cup {None} /\ focused' \subseteq Edits
      BY <2>4, <2>7 DEF SetFocus
    <3>2. pressed' \subseteq enabled
      BY <2>3, <2>4, <2>7
    <3>3. CaptureHeld'
      <4>1. capture' # None /\ b \in down'
        BY <2>4, <2>7
      <4> QED BY <4>1, <2>7
    <3>4. TypeOK'
      BY <2>1, <2>2, <2>4, <2>7, <3>1, <3>2
    <3> QED BY <2>1, <2>2, <2>5, <3>2, <3>3, <3>4
  <2> QED BY <1>2, <2>6, <2>7 DEF ButtonDown
<1>3. ASSUME NEW v \in Views \cup {None}, NEW b \in MouseButtons, ButtonUp(v, b)
      PROVE  AnyInv'
  <2> DEFINE clicks == Nearest(Target(v), Releases(b)) \cap Buttons
  <2>1. PICK does \in IF clicks = {} THEN {"nothing"} ELSE Callbacks :
          LET was == IF does = "cancels" THEN None ELSE hover
              held == IF does = "cancels" THEN {} ELSE down \ {b}
              still == IF does = "disables" THEN hovered \ clicks ELSE hovered
          IN  /\ clicked' \in IF clicks = {} THEN {None} ELSE clicks
              /\ enabled' = IF does = "disables" THEN enabled \ clicks ELSE enabled
              /\ down' = held
              /\ capture' = IF held = {} THEN None ELSE capture
              /\ native' = (native /\ held # {})
              /\ focus' = IF does = "cancels" THEN None ELSE focus
              /\ hover' = v
              /\ hovered' = HoveredAfter(still, enabled', was, v)
              /\ pressed' = PressedAfter(pressed \ clicks, was, v)
    BY <1>3 DEF ButtonUp
  <2>2. UNCHANGED <<above, editable, focused, tracking>> /\ v \in Hits
    BY <1>3 DEF ButtonUp
  <2> HIDE DEF clicks
  <2>3. enabled' \subseteq enabled /\ hovered' \subseteq enabled'
    BY <2>1 DEF HoveredAfter
  <2>4. pressed' \subseteq pressed \ clicks
    BY <2>1 DEF PressedAfter
  <2>5. pressed' \subseteq enabled'
    BY <2>1, <2>4
  <2>6. CaptureHeld'
    BY <2>1
  <2>7. HoverEnds'
    BY <2>1, <2>2 DEF Hits
  <2>8. clicked' \in Buttons \cup {None}
    BY <2>1 DEF clicks
  <2>9. TypeOK'
    BY <2>1, <2>2, <2>3, <2>4, <2>8
  <2> QED BY <2>3, <2>5, <2>6, <2>7, <2>9
<1>4. CASE MouseLeave
  BY <1>4 DEF MouseLeave, UpdateHover, HoveredAfter, PressedAfter
<1>5. CASE KillFocus
  <2>1. hovered' \subseteq hovered /\ pressed' \subseteq pressed
    BY <1>5 DEF KillFocus, UpdateHover, HoveredAfter, PressedAfter, Above
  <2> QED BY <1>5, <2>1 DEF KillFocus, UpdateHover, ClearCapture, SetFocus
<1>6. CASE CaptureChanged
  BY <1>6 DEF CaptureChanged, ClearCapture
<1>7. CASE CancelInteraction
  BY <1>7 DEF CancelInteraction, ClearCapture
<1>8. CASE SetContentView
  BY <1>8 DEF SetContentView, ClearCapture, SetFocus
<1>9. ASSUME NEW p \in Views, NEW v \in Controls, AddChild(p, v) PROVE AnyInv'
  BY <1>9 DEF AddChild
<1>10. ASSUME NEW v \in Controls, RemoveChild(v) PROVE AnyInv'
  BY <1>10 DEF RemoveChild
<1>11. ASSUME NEW b \in Buttons, Enable(b) PROVE AnyInv'
  BY <1>11 DEF Enable
<1>12. ASSUME NEW e \in Edits, SetEditable(e) PROVE AnyInv'
  BY <1>12 DEF SetEditable
<1>13. CASE UNCHANGED vars
  BY <1>13 DEF vars
<1> QED
  BY <1>1, <1>2, <1>3, <1>4, <1>5, <1>6, <1>7, <1>8, <1>9, <1>10, <1>11, <1>12, <1>13
     DEF Next

LEMMA AnyInit == Init => AnyInv
<1> SUFFICES ASSUME Init PROVE AnyInv
    OBVIOUS
<1>1. above \in [Views -> SUBSET Views]
  BY DEF Init
<1>2. TypeOK
  BY <1>1 DEF Init, TypeOK
<1>3. CaptureHeld
  BY DEF Init, CaptureHeld
<1> QED BY <1>2, <1>3 DEF Init, AnyInv, HoverEnds, DisabledIsIdle

\* Whatever the application does, the state of the window keeps its types.
THEOREM TypeCorrect == Spec => []TypeOK
<1>1. Spec => []AnyInv BY AnyInit, AnyStep, PTL DEF Spec
<1> QED BY <1>1, PTL DEF AnyInv

\* Whatever the application does, the capture of the window, that of the system and
\* the buttons that are down agree.
THEOREM CaptureAlwaysHeld == Spec => []CaptureHeld
<1>1. Spec => []AnyInv BY AnyInit, AnyStep, PTL DEF Spec
<1> QED BY <1>1, PTL DEF AnyInv

\* Whatever the application does, a hovered view will be left.
THEOREM HoverAlwaysEnds == Spec => []HoverEnds
<1>1. Spec => []AnyInv BY AnyInit, AnyStep, PTL DEF Spec
<1> QED BY <1>1, PTL DEF AnyInv

\* Whatever the application does, no disabled button is lit or pressed.
THEOREM DisabledAlwaysIdle == Spec => []DisabledIsIdle
<1>1. Spec => []AnyInv BY AnyInit, AnyStep, PTL DEF Spec
<1> QED BY <1>1, PTL DEF AnyInv

----------------------------------------------------------------------------
(* The tree: the ancestors of a view are a chain. *)

Reflexive == \A u \in Views : u \in above[u]
Transitive == \A u \in Views : \A w \in above[u] : above[w] \subseteq above[u]
Total == \A u \in Views : \A a, b \in above[u] : a \in above[b] \/ b \in above[a]
Antisymmetric == \A u, w \in Views : u \in above[w] /\ w \in above[u] => u = w

Chains ==
  /\ above \in [Views -> SUBSET Views]
  /\ Reflexive /\ Transitive /\ Total /\ Antisymmetric

\* A view that is added brings the ancestors of its parent to all below it.
LEMMA AddKeepsChains ==
  ASSUME Chains, NEW p \in Views, NEW v \in Views, above[v] = {v}, v \notin above[p],
         above' = [u \in Views |-> IF v \in above[u] THEN above[u] \cup above[p] ELSE above[u]]
  PROVE  Chains'
<1>1. above' \in [Views -> SUBSET Views]
  BY DEF Chains
<1>2. \A u \in Views : above'[u] = IF v \in above[u] THEN above[u] \cup above[p] ELSE above[u]
  OBVIOUS
<1>3. \A w \in above[p] : w \in Views /\ v \notin above[w] /\ above'[w] = above[w]
  BY <1>2 DEF Chains, Transitive
<1>4. Reflexive'
  BY <1>2 DEF Chains, Reflexive
<1>5. Transitive'
  <2> SUFFICES ASSUME NEW u \in Views, NEW w \in above'[u] PROVE above'[w] \subseteq above'[u]
      BY DEF Transitive
  <2>1. CASE w \in above[u]
    <3>1. w \in Views /\ above[w] \subseteq above[u]
      BY <2>1 DEF Chains, Transitive
    <3> QED BY <1>2, <3>1
  <2>2. CASE w \notin above[u]
    <3>1. v \in above[u] /\ w \in above[p]
      BY <1>2, <2>2
    <3>2. above'[w] = above[w] /\ above[w] \subseteq above[p]
      BY <1>3, <3>1 DEF Chains, Transitive
    <3> QED BY <1>2, <3>1, <3>2
  <2> QED BY <2>1, <2>2
<1>6. Total'
  <2> SUFFICES ASSUME NEW u \in Views, NEW a \in above'[u], NEW b \in above'[u]
               PROVE  a \in above'[b] \/ b \in above'[a]
      BY DEF Total
  <2>1. \A x \in above[u] : v \in above[u] => x \in Views /\ v \in above[x]
    <3> SUFFICES ASSUME NEW x \in above[u], v \in above[u] PROVE x \in Views /\ v \in above[x]
        OBVIOUS
    <3>1. x \in Views /\ (v \in above[x] \/ x \in above[v])
      BY DEF Chains, Total
    <3> QED BY <3>1 DEF Chains, Reflexive
  <2>2. CASE a \in above[u] /\ b \in above[u]
    <3>1. a \in Views /\ b \in Views /\ (a \in above[b] \/ b \in above[a])
      BY <2>2 DEF Chains, Total
    <3> QED BY <1>2, <3>1
  <2>3. CASE a \in above[p] /\ b \in above[p]
    <3>1. a \in above[b] \/ b \in above[a]
      BY <2>3 DEF Chains, Total
    <3> QED BY <1>3, <2>3, <3>1
  <2>4. ASSUME NEW x \in above[u], NEW y \in above[p], v \in above[u]
        PROVE  y \in above'[x]
    BY <1>2, <2>1, <2>4
  <2> QED BY <1>2, <2>2, <2>3, <2>4
<1>7. Antisymmetric'
  <2> SUFFICES ASSUME NEW u \in Views, NEW w \in Views, u \in above'[w], w \in above'[u]
               PROVE  u = w
      BY DEF Antisymmetric
  <2>1. CASE u \in above[p]
    <3>1. v \notin above[u] /\ above'[u] = above[u] /\ w \in above[p]
      BY <1>3, <2>1 DEF Chains, Transitive
    <3>2. above'[w] = above[w]
      BY <1>3, <3>1
    <3> QED BY <3>1, <3>2 DEF Chains, Antisymmetric
  <2>2. CASE w \in above[p]
    <3>1. v \notin above[w] /\ above'[w] = above[w] /\ u \in above[p]
      BY <1>3, <2>2 DEF Chains, Transitive
    <3>2. above'[u] = above[u]
      BY <1>3, <3>1
    <3> QED BY <3>1, <3>2 DEF Chains, Antisymmetric
  <2>3. CASE u \notin above[p] /\ w \notin above[p]
    BY <1>2, <2>3 DEF Chains, Antisymmetric
  <2> QED BY <2>1, <2>2, <2>3
<1> QED BY <1>1, <1>4, <1>5, <1>6, <1>7 DEF Chains

\* A view that is removed takes those below it along.
LEMMA RemoveKeepsChains ==
  ASSUME Chains, NEW v \in Views,
         above' = [u \in Views |-> IF v \in above[u] THEN {w \in above[u] : v \in above[w]}
                                                     ELSE above[u]]
  PROVE  Chains'
<1>1. above' \in [Views -> SUBSET Views]
  BY DEF Chains
<1>2. \A u \in Views :
        above'[u] = IF v \in above[u] THEN {w \in above[u] : v \in above[w]} ELSE above[u]
  OBVIOUS
<1>3. \A u \in Views : above'[u] \subseteq above[u]
  BY <1>2
<1>4. Reflexive'
  BY <1>2 DEF Chains, Reflexive
<1>5. Transitive'
  <2> SUFFICES ASSUME NEW u \in Views, NEW w \in above'[u], NEW x \in above'[w]
               PROVE  x \in above'[u]
      BY DEF Transitive
  <2>1. w \in Views /\ w \in above[u] /\ x \in above[w] /\ x \in above[u] /\ x \in Views
    BY <1>3 DEF Chains, Transitive
  <2>2. v \in above[w] => v \in above[u]
    BY <2>1 DEF Chains, Transitive
  <2> QED BY <1>2, <2>1, <2>2
<1>6. Total'
  <2> SUFFICES ASSUME NEW u \in Views, NEW a \in above'[u], NEW b \in above'[u]
               PROVE  a \in above'[b] \/ b \in above'[a]
      BY DEF Total
  <2>1. a \in Views /\ b \in Views /\ (a \in above[b] \/ b \in above[a])
    BY <1>3 DEF Chains, Total
  <2>2. v \in above[u] => v \in above[a] /\ v \in above[b]
    BY <1>2
  <2>3. v \notin above[u] => v \notin above[a] /\ v \notin above[b]
    BY <1>3 DEF Chains, Transitive
  <2> QED BY <1>2, <2>1, <2>2, <2>3
<1>7. Antisymmetric'
  BY <1>3 DEF Chains, Antisymmetric
<1> QED BY <1>1, <1>4, <1>5, <1>6, <1>7 DEF Chains

\* A content view that is replaced is no ancestor any more.
LEMMA ReplaceKeepsChains ==
  ASSUME Chains,
         above' = [u \in Views |-> IF u = Content THEN above[u] ELSE above[u] \ {Content}]
  PROVE  Chains'
<1>1. \A u \in Views : above'[u] = IF u = Content THEN above[u] ELSE above[u] \ {Content}
  OBVIOUS
<1>2. Transitive'
  <2> SUFFICES ASSUME NEW u \in Views, NEW w \in above'[u], NEW x \in above'[w]
               PROVE  x \in above'[u]
      BY DEF Transitive
  <2>1. w \in Views /\ w \in above[u] /\ x \in above[w] /\ x \in above[u]
    BY <1>1 DEF Chains, Transitive
  <2> QED BY <1>1, <2>1
<1>3. Total'
  <2> SUFFICES ASSUME NEW u \in Views, NEW a \in above'[u], NEW b \in above'[u]
               PROVE  a \in above'[b] \/ b \in above'[a]
      BY DEF Total
  <2>1. a \in Views /\ b \in Views /\ a \in above[u] /\ b \in above[u]
        /\ (a \in above[b] \/ b \in above[a])
    BY <1>1 DEF Chains, Total
  <2>2. CASE u # Content
    BY <1>1, <2>1, <2>2
  <2>3. CASE u = Content
    <3>1. Content \in above[Content] /\ above'[Content] = above[Content]
      BY <1>1, <2>3 DEF Chains, Reflexive
    <3>2. CASE a = Content \/ b = Content
      BY <2>1, <2>3, <3>1, <3>2
    <3>3. CASE a # Content /\ b # Content
      BY <1>1, <2>1, <3>3
    <3> QED BY <3>2, <3>3
  <2> QED BY <2>2, <2>3
<1>4. above' \in [Views -> SUBSET Views] /\ Reflexive' /\ Antisymmetric'
  BY <1>1 DEF Chains, Reflexive, Antisymmetric
<1> QED BY <1>2, <1>3, <1>4 DEF Chains

LEMMA ChainsStep == Chains /\ [Next]_vars => Chains'
<1> SUFFICES ASSUME Chains, [Next]_vars PROVE Chains'
    OBVIOUS
<1>1. ASSUME UNCHANGED above PROVE Chains'
  BY <1>1 DEF Chains, Reflexive, Transitive, Total, Antisymmetric
<1>2. ASSUME NEW p \in Views, NEW v \in Controls, AddChild(p, v) PROVE Chains'
  BY <1>2, AddKeepsChains DEF AddChild, Views
<1>3. ASSUME NEW v \in Controls, RemoveChild(v) PROVE Chains'
  BY <1>3, RemoveKeepsChains DEF RemoveChild, Views
<1>4. ASSUME SetContentView PROVE Chains'
  BY <1>4, ReplaceKeepsChains DEF SetContentView
<1> QED
  BY <1>1, <1>2, <1>3, <1>4
     DEF Next, vars, controls, MouseMove, ButtonDown, ButtonUp, MouseLeave, KillFocus,
         CaptureChanged, CancelInteraction, Enable, SetEditable

----------------------------------------------------------------------------
(* While the application is careful. *)

OnlyUnder == hovered \cup pressed \subseteq Above(hover)
FocusKnown == focused = {focus} \cap Edits

OneButton == \A u \in Views : \A a, b \in above[u] \cap Buttons : a = b

\* Nothing that could have taken the press lies below a pressed button on the way
\* from the hovered view, and the capture is not below it either.
PressNearest == \A b \in pressed : Above(hover) \cap Controls \subseteq above[b]
PressHolds == capture # None => \A b \in pressed : capture \in above[b]

PressInv == OneButton /\ OnlyUnder /\ FocusKnown /\ PressNearest /\ PressHolds

\* The pointer moves on to v: buttons that were hovered or pressed are let go.
LEMMA HoverMoves ==
  ASSUME AnyInv, PressInv, NEW v \in Views \cup {None}
  PROVE  /\ HoveredAfter(hovered, enabled, hover, v) \subseteq Above(v)
         /\ PressedAfter(pressed, hover, v) \subseteq pressed
         /\ PressedAfter(pressed, hover, v) \subseteq Above(v)
         /\ v # hover => PressedAfter(pressed, hover, v) = {}
BY DEF PressInv, OnlyUnder, HoveredAfter, PressedAfter

\* With the tree, the focus and the captured view as they are, fewer pressed buttons
\* disturb nothing.
LEMMA FewerPressed ==
  ASSUME AnyInv, PressInv, UNCHANGED above, pressed' \subseteq pressed,
         hovered' \subseteq Above(hover'), pressed' \subseteq Above(hover'),
         hover' = hover \/ pressed' = {}, capture' \in {capture, None}, FocusKnown'
  PROVE  PressInv'
<1>1. OnlyUnder' /\ OneButton'
  BY DEF PressInv, OnlyUnder, OneButton, Above
<1>2. PressNearest' /\ PressHolds'
  BY DEF PressInv, PressNearest, PressHolds, Above
<1> QED BY <1>1, <1>2 DEF PressInv

LEMMA DownKeepsPress ==
  ASSUME AnyInv, Chains, PressInv, NEW v \in Views \cup {None}, NEW b \in MouseButtons,
         ButtonDown(v, b)
  PROVE  PressInv'
<1> DEFINE handler == Nearest(v, Presses(b))
           held    == PressedAfter(pressed, hover, v)
<1>1. hover' = v /\ hovered' = HoveredAfter(hovered, enabled, hover, v) /\ UNCHANGED <<above, editable>>
  BY DEF ButtonDown, UpdateHover, controls
<1>2. hovered' \subseteq Above(v) /\ held \subseteq pressed /\ held \subseteq Above(v)
      /\ (v # hover => held = {})
  BY <1>1, HoverMoves
<1>3. CASE handler = {} /\ pressed' = held /\ UNCHANGED <<focused, capture, focus, down, native>>
  <2>1. FocusKnown' BY <1>3 DEF PressInv, FocusKnown
  <2>2. Above(hover') = Above(v) BY <1>1
  <2>3. capture' \in {capture, None} BY <1>3
  <2>4. hover' = hover \/ pressed' = {} BY <1>1, <1>2, <1>3
  <2>5. pressed' \subseteq pressed BY <1>2, <1>3
  <2>6. hovered' \subseteq Above(hover') /\ pressed' \subseteq Above(hover')
    BY <1>2, <1>3, <2>2
  <2> QED BY <1>1, <2>1, <2>3, <2>4, <2>5, <2>6, FewerPressed
<1>4. ASSUME NEW h \in handler, pressed' = held \cup ({h} \cap Buttons), capture' = h,
             SetFocus(h)
      PROVE  PressInv'
  <2>1. v # None /\ v \in Views /\ h \in above[v] /\ h \in Controls /\ h \in Presses(b)
        /\ above[v] \cap Presses(b) \subseteq above[h] /\ h \in Views /\ h # None
    BY <1>4, ConstantsAssumption
       DEF Nearest, Above, Presses, AnyInv, TypeOK, DisabledIsIdle, Controls, Views
  <2>2. Above(hover)' = above[v]
    BY <1>1, <2>1 DEF Above
  <2>3. OnlyUnder'
    BY <1>1, <1>2, <1>4, <2>1, <2>2 DEF OnlyUnder, Above
  <2>4. OneButton'
    BY <1>1 DEF PressInv, OneButton
  <2>5. FocusKnown'
    <3>1. focused \subseteq Edits /\ focused = {focus} \cap Edits /\ None \notin Edits
      BY ConstantsAssumption DEF PressInv, FocusKnown, AnyInv, TypeOK, Controls, Views
    <3> QED BY <1>4, <3>1 DEF SetFocus, FocusKnown
  <2>6. \A c \in held : hover = v /\ above[v] \cap Controls \subseteq above[c] /\ c \in above[v]
    BY <1>2, <2>1 DEF PressInv, PressNearest, Above
  <2>7. h \in Buttons => above[v] \cap Controls \subseteq above[h]
    <3> SUFFICES ASSUME h \in Buttons, NEW k \in above[v], k \in Controls PROVE k \in above[h]
        OBVIOUS
    <3>1. b = "left"
      BY <2>1, ConstantsAssumption DEF Presses
    <3>2. CASE k \in Buttons
      <4>1. k = h BY <2>1, <3>2 DEF PressInv, OneButton
      <4> QED BY <4>1, <2>1 DEF Chains, Reflexive
    <3>3. CASE k \notin Buttons
      <4>1. k \in Presses(b) BY <3>1, <3>3 DEF Presses, Controls
      <4> QED BY <4>1, <2>1
    <3> QED BY <3>2, <3>3
  <2>8. PressNearest'
    BY <1>1, <1>4, <2>2, <2>6, <2>7 DEF PressNearest
  <2>9. PressHolds'
    <3>1. \A c \in held : h \in above[c]
      BY <2>1, <2>6
    <3>2. h \in above[h]
      BY <2>1 DEF Chains, Reflexive
    <3> QED BY <1>1, <1>4, <3>1, <3>2 DEF PressHolds
  <2> QED BY <2>3, <2>4, <2>5, <2>8, <2>9 DEF PressInv
<1> QED BY <1>3, <1>4 DEF ButtonDown

LEMMA UpKeepsPress ==
  ASSUME AnyInv, PressInv, conduct' = "careful", NEW v \in Views \cup {None}, NEW b \in MouseButtons,
         ButtonUp(v, b)
  PROVE  PressInv'
<1> DEFINE clicks == Nearest(Target(v), Releases(b)) \cap Buttons
<1>1. PICK does \in IF clicks = {} THEN {"nothing"} ELSE Callbacks :
        LET was == IF does = "cancels" THEN None ELSE hover
            held == IF does = "cancels" THEN {} ELSE down \ {b}
            still == IF does = "disables" THEN hovered \ clicks ELSE hovered
        IN  /\ Does(does # "cancels")
            /\ enabled' = IF does = "disables" THEN enabled \ clicks ELSE enabled
            /\ capture' = IF held = {} THEN None ELSE capture
            /\ focus' = IF does = "cancels" THEN None ELSE focus
            /\ hover' = v
            /\ hovered' = HoveredAfter(still, enabled', was, v)
            /\ pressed' = PressedAfter(pressed \ clicks, was, v)
  BY DEF ButtonUp
<1>2. UNCHANGED <<above, focused>>
  BY DEF ButtonUp
<1> HIDE DEF clicks
<1>3. does # "cancels"
  BY <1>1 DEF Does
<1>4. hovered \subseteq Above(hover) /\ pressed \subseteq Above(hover)
  BY DEF PressInv, OnlyUnder
<1>5. hovered' \subseteq Above(v)
  BY <1>1, <1>3, <1>4 DEF HoveredAfter
<1>6. pressed' \subseteq pressed /\ pressed' \subseteq Above(v) /\ (v = hover \/ pressed' = {})
  BY <1>1, <1>3, <1>4 DEF PressedAfter
<1>7. FocusKnown'
  BY <1>1, <1>2, <1>3 DEF PressInv, FocusKnown
<1>8. hover' = v /\ capture' \in {capture, None}
  BY <1>1
<1>9. Above(hover') = Above(v)
  BY <1>8
<1> QED BY <1>2, <1>5, <1>6, <1>7, <1>8, <1>9, FewerPressed

\* Away from what is in use the tree may change.
LEMMA TreeKeepsPress ==
  ASSUME AnyInv, Chains, Chains', PressInv, OneButton', NEW v \in Views, ~InUse(v),
         \A u \in Views : v \notin above[u] => above'[u] = above[u],
         UNCHANGED <<hovered, pressed, focused, hover, capture, focus>>
  PROVE  PressInv'
<1>1. hover \in Views \cup {None} /\ v \notin Above(hover)
  BY DEF AnyInv, TypeOK, InUse
<1>2. Above(hover)' = Above(hover)
  BY <1>1 DEF Above
<1>3. \A b \in pressed : b \in Views /\ above'[b] = above[b]
  <2> SUFFICES ASSUME NEW b \in pressed PROVE b \in Views /\ above'[b] = above[b]
      OBVIOUS
  <2>1. b \in Above(hover) /\ hover # None /\ hover \in Views
    BY <1>1 DEF PressInv, OnlyUnder, Above
  <2>2. b \in Views /\ above[b] \subseteq above[hover]
    BY <2>1 DEF Chains, Transitive, Above
  <2> QED BY <1>1, <2>1, <2>2 DEF Above
<1>4. OnlyUnder' /\ FocusKnown'
  BY <1>2 DEF PressInv, OnlyUnder, FocusKnown
<1>5. PressNearest' /\ PressHolds'
  BY <1>2, <1>3 DEF PressInv, PressNearest, PressHolds
<1> QED BY <1>4, <1>5 DEF PressInv

LEMMA AddKeepsOneButton ==
  ASSUME Chains, OneButton, NEW p \in Views, NEW v \in Views, above[v] = {v},
         ~NestsButtons(p, v),
         above' = [u \in Views |-> IF v \in above[u] THEN above[u] \cup above[p] ELSE above[u]]
  PROVE  OneButton'
<1> SUFFICES ASSUME NEW u \in Views, NEW a \in above'[u] \cap Buttons,
                    NEW b \in above'[u] \cap Buttons
             PROVE  a = b
    BY DEF OneButton
<1>1. above'[u] = IF v \in above[u] THEN above[u] \cup above[p] ELSE above[u]
  OBVIOUS
<1>2. ASSUME NEW x \in above[u] \cap Buttons, NEW y \in above[p] \cap Buttons, v \in above[u]
      PROVE  FALSE
  <2>1. x \in Views /\ (v \in above[x] \/ x \in above[v])
    BY <1>2 DEF Chains, Total
  <2>2. v \in above[x]
    BY <2>1 DEF Chains, Reflexive
  <2> QED BY <1>2, <2>2 DEF NestsButtons
<1>3. CASE a \in above[u] /\ b \in above[u] BY <1>3 DEF OneButton
<1>4. CASE a \in above[p] /\ b \in above[p] BY <1>4 DEF OneButton
<1> QED BY <1>1, <1>2, <1>3, <1>4

LEMMA PressStep ==
  ASSUME conduct' = "careful", AnyInv, Chains, PressInv, [Next]_vars
  PROVE  PressInv'
<1>0. Chains'
  BY ChainsStep
<1>1. ASSUME NEW v \in Views \cup {None}, MouseMove(v) PROVE PressInv'
  <2>1. CASE capture # None
    <3>1. UNCHANGED <<above, hovered, pressed, focused, hover, capture, focus>>
      BY <1>1, <2>1 DEF MouseMove, controls
    <3> QED BY <3>1 DEF PressInv, OneButton, OnlyUnder, FocusKnown, PressNearest,
                        PressHolds, Above
  <2>2. CASE capture = None
    <3>1. /\ hover' = v /\ hovered' = HoveredAfter(hovered, enabled, hover, v)
          /\ pressed' = PressedAfter(pressed, hover, v)
          /\ UNCHANGED <<above, focused, focus, capture>>
      BY <1>1, <2>2 DEF MouseMove, UpdateHover, controls
    <3>2. FocusKnown' BY <3>1 DEF PressInv, FocusKnown
    <3>3. Above(hover') = Above(v) BY <3>1
    <3>4. hovered' \subseteq Above(hover') /\ pressed' \subseteq Above(hover')
          /\ pressed' \subseteq pressed /\ (hover' = hover \/ pressed' = {})
      BY <3>1, <3>3, HoverMoves
    <3> QED BY <3>1, <3>2, <3>4, FewerPressed
  <2> QED BY <2>1, <2>2
<1>2. ASSUME NEW v \in Views \cup {None}, NEW b \in MouseButtons,
             ButtonDown(v, b) \/ ButtonUp(v, b)
      PROVE  PressInv'
  BY <1>2, DownKeepsPress, UpKeepsPress
<1>3. ASSUME MouseLeave \/ KillFocus PROVE PressInv'
  <2>1. /\ hover' = None /\ hovered' = HoveredAfter(hovered, enabled, hover, None)
        /\ pressed' = PressedAfter(pressed, hover, None)
        /\ UNCHANGED above /\ capture' \in {capture, None}
    BY <1>3 DEF MouseLeave, KillFocus, UpdateHover, ClearCapture, controls
  <2>2. FocusKnown'
    <3>1. None \notin Edits BY ConstantsAssumption DEF Controls, Views
    <3> QED BY <1>3, <3>1 DEF MouseLeave, KillFocus, SetFocus, PressInv, FocusKnown
  <2>3. Above(hover') = Above(None) BY <2>1
  <2>4. hovered' \subseteq Above(hover') /\ pressed' \subseteq Above(hover')
        /\ pressed' \subseteq pressed /\ (hover' = hover \/ pressed' = {})
    BY <2>1, <2>3, HoverMoves
  <2> QED BY <2>1, <2>2, <2>4, FewerPressed
<1>4. CASE CaptureChanged
  <2>1. UNCHANGED <<above, hovered, pressed, focused, hover, focus>> /\ capture' = None
    BY <1>4 DEF CaptureChanged, ClearCapture, controls
  <2> QED BY <2>1 DEF PressInv, OneButton, OnlyUnder, FocusKnown, PressNearest,
                      PressHolds, Above
<1>5. CASE SetContentView
  <2>1. hovered = {} /\ pressed = {} /\ UNCHANGED <<hovered, pressed>> /\ SetFocus(None)
        /\ above' = [u \in Views |-> IF u = Content THEN above[u] ELSE above[u] \ {Content}]
    BY <1>5 DEF SetContentView, Does, PressInv, OnlyUnder, Above
  <2>2. FocusKnown'
    <3>1. None \notin Edits BY ConstantsAssumption DEF Controls, Views
    <3> QED BY <2>1, <3>1 DEF SetFocus, PressInv, FocusKnown
  <2>3. OneButton'
    BY <2>1 DEF PressInv, OneButton
  <2>4. OnlyUnder' /\ PressNearest' /\ PressHolds'
    BY <2>1 DEF OnlyUnder, PressNearest, PressHolds
  <2> QED BY <2>2, <2>3, <2>4 DEF PressInv
<1>6. ASSUME NEW p \in Views, NEW v \in Controls, AddChild(p, v) PROVE PressInv'
  <2>1. /\ v \in Views /\ above[v] = {v} /\ ~NestsButtons(p, v) /\ ~InUse(v)
        /\ UNCHANGED <<hovered, pressed, focused, hover, capture, focus>>
        /\ above' = [u \in Views |-> IF v \in above[u] THEN above[u] \cup above[p] ELSE above[u]]
    BY <1>6 DEF AddChild, Does, Views
  <2>2. OneButton' BY <2>1, AddKeepsOneButton DEF PressInv
  <2>3. \A u \in Views : v \notin above[u] => above'[u] = above[u] BY <2>1
  <2> QED BY <1>0, <2>1, <2>2, <2>3, TreeKeepsPress
<1>7. ASSUME NEW v \in Controls, RemoveChild(v) PROVE PressInv'
  <2>1. /\ v \in Views /\ ~InUse(v)
        /\ UNCHANGED <<hovered, pressed, focused, hover, capture, focus>>
        /\ above' = [u \in Views |-> IF v \in above[u] THEN {w \in above[u] : v \in above[w]}
                                                        ELSE above[u]]
    BY <1>7 DEF RemoveChild, Does, Views
  <2>2. OneButton' BY <2>1 DEF PressInv, OneButton
  <2>3. \A u \in Views : v \notin above[u] => above'[u] = above[u] BY <2>1
  <2> QED BY <1>0, <2>1, <2>2, <2>3, TreeKeepsPress
<1>8. ASSUME NEW b \in Buttons, Enable(b) PROVE PressInv'
  <2>1. /\ hovered' \subseteq hovered /\ pressed' \subseteq pressed
        /\ UNCHANGED <<above, focused, hover, capture, focus>>
    BY <1>8 DEF Enable
  <2> QED BY <2>1 DEF PressInv, OneButton, OnlyUnder, FocusKnown, PressNearest,
                      PressHolds, Above
<1>9. ASSUME UNCHANGED <<above, hovered, pressed, focused, hover, capture, focus>>
      PROVE  PressInv'
  BY <1>9 DEF PressInv, OneButton, OnlyUnder, FocusKnown, PressNearest, PressHolds, Above
<1>10. ASSUME NEW e \in Edits, SetEditable(e) PROVE PressInv'
  BY <1>9, <1>10 DEF SetEditable
<1>11. CASE UNCHANGED vars
  BY <1>9, <1>11 DEF vars, controls
<1>12. ~CancelInteraction
  BY DEF CancelInteraction, Does
<1> QED
  BY <1>1, <1>2, <1>3, <1>4, <1>5, <1>6, <1>7, <1>8, <1>10, <1>11, <1>12 DEF Next

LEMMA PressInit == Init => Chains /\ PressInv
<1> SUFFICES ASSUME Init PROVE Chains /\ PressInv
    OBVIOUS
<1>1. above = [v \in Views |-> {v}] /\ hovered = {} /\ pressed = {} /\ focused = {}
      /\ hover = None /\ capture = None /\ focus = None
  BY DEF Init
<1>2. Chains
  BY <1>1 DEF Chains, Reflexive, Transitive, Total, Antisymmetric
<1>3. None \notin Edits
  BY ConstantsAssumption DEF Controls, Views
<1>4. PressInv
  BY <1>1, <1>3 DEF PressInv, OneButton, OnlyUnder, FocusKnown, PressNearest, PressHolds
<1> QED BY <1>2, <1>4

WhileCareful == conduct = "careful" => PressInv

LEMMA Invariant == Spec => [](AnyInv /\ Chains /\ WhileCareful)
<1>1. Init => AnyInv /\ Chains /\ WhileCareful
  BY AnyInit, PressInit DEF WhileCareful
<1>2. AnyInv /\ Chains /\ WhileCareful /\ [Next]_vars => (AnyInv /\ Chains /\ WhileCareful)'
  BY AnyStep, ChainsStep, PressStep, ConductStep DEF WhileCareful
<1> QED BY <1>1, <1>2, PTL DEF Spec

\* While the application is careful no button stays lit or pressed away from the pointer.
THEOREM AlwaysUnderPointer == Spec => []UnderPointer
<1>1. WhileCareful => UnderPointer
  BY DEF WhileCareful, PressInv, OnlyUnder, UnderPointer
<1> QED BY <1>1, Invariant, PTL

\* While the application is careful a text edit thinks it has the focus exactly when it has.
THEOREM FocusAlwaysMatches == Spec => []FocusMatches
<1>1. WhileCareful => FocusMatches
  BY DEF WhileCareful, PressInv, FocusKnown, FocusMatches
<1> QED BY <1>1, Invariant, PTL

\* While the application is careful a button is clicked only by the release of its own
\* press.
THEOREM ClicksAreOwnPresses == Spec => ClickIsOwnPress
<1>1. AnyInv /\ Chains /\ WhileCareful /\ [Next]_vars
        => [conduct = "careful" /\ clicked' # None
              => capture \in {None, clicked'} /\ clicked' \in Above(hover)]_vars
  <2> SUFFICES ASSUME AnyInv, Chains, PressInv, Next, clicked' # None
               PROVE  capture \in {None, clicked'} /\ clicked' \in Above(hover)
      BY DEF WhileCareful
  <2>1. PICK v \in Views \cup {None}, b \in MouseButtons : ButtonUp(v, b)
    BY DEF Next, MouseMove, ButtonDown, MouseLeave, KillFocus, CaptureChanged,
           CancelInteraction, SetContentView, AddChild, RemoveChild, Enable, SetEditable
  <2>2. clicked' \in Nearest(Target(v), Releases(b)) \cap Buttons
    BY <2>1 DEF ButtonUp
  <2>3. clicked' \in pressed /\ clicked' \in Above(Target(v))
    BY <2>2, ConstantsAssumption DEF Nearest, Releases
  <2>4. clicked' \in Above(hover)
    BY <2>3 DEF PressInv, OnlyUnder
  <2>5. ASSUME capture # None PROVE capture = clicked'
    <3>1. capture \in above[clicked'] /\ clicked' \in above[capture]
      BY <2>3, <2>5 DEF PressInv, PressHolds, Target, Above
    <3>2. capture \in Views /\ clicked' \in Views
      BY <2>3, <2>5 DEF AnyInv, TypeOK, Views, Controls
    <3> QED BY <3>1, <3>2 DEF Chains, Antisymmetric
  <2> QED BY <2>4, <2>5
<1> QED BY <1>1, Invariant, PTL DEF Spec, ClickIsOwnPress
============================================================================
