------------------------ MODULE PartialRedrawProofs ------------------------
(***************************************************************************)
(* Proofs about PartialRedraw, for windows of any width.                   *)
(*                                                                         *)
(* The core is Whole: once the current buffer has been presented every     *)
(* buffer has, and each is recorded with damage of the whole window.       *)
(* Expand then returns the whole window (ExpandIsWhole), so a draw leaves  *)
(* its buffer right in every cell, and Present records the whole again.    *)
(***************************************************************************)
EXTENDS PartialRedraw, TLAPS

Whole ==
  /\ DamageIsWhole
  /\ valid[frame] => \A i \in Buffers : valid[i]

IInv == TypeOK /\ Whole

\* The rectangle around cells of the window lies in the window and holds them.
LEMMA AroundHolds ==
  ASSUME NEW S \in SUBSET All
  PROVE  Around(S) \in SUBSET All /\ S \subseteq Around(S)
<1>1. Around(S) \subseteq All BY DEF Around
<1>2. ASSUME NEW c \in S PROVE c \in Around(S)
  <2>1. c \in All OBVIOUS
  <2>2. c <= c BY <2>1 DEF All, Strip
  <2> QED BY <2>1, <2>2 DEF Around
<1> QED BY <1>1, <1>2

\* Whatever is drawn, everything is drawn.
LEMMA ExpandIsWhole ==
  ASSUME IInv, NEW asked \in SUBSET All, asked # {}
  PROVE  Expand(asked) = All
<1>1. CASE ~valid[frame] BY <1>1 DEF Expand
<1>2. CASE valid[frame]
  <2> DEFINE others   == {i \in Buffers \ {frame} : valid[i]}
             got      == UNION {damage[i] : i \in others}
             together == Around(asked \cup got)
  <2>1. 1 - frame \in others BY <1>2 DEF IInv, TypeOK, Whole, Buffers
  <2>2. \A i \in others : damage[i] = All BY DEF IInv, Whole, DamageIsWhole
  <2>3. got = All BY <2>1, <2>2
  <2>4. asked \cup got = All BY <2>3
  <2>5. together = All BY <2>4, AroundHolds
  <2> QED BY <2>5 DEF Expand
<1> QED BY <1>1, <1>2

\* A draw leaves nothing of its buffer wrong and records the whole window.
LEMMA DrawIsWhole ==
  ASSUME IInv, NEW asked \in SUBSET All, asked # {}, NEW S \in SUBSET All
  PROVE  Missed(asked, S) = {} /\ Recorded(asked) = All
<1>1. Expand(asked) = All BY ExpandIsWhole
<1>2. Behind(S)[frame] \subseteq All BY DEF IInv, TypeOK, Behind
<1> QED BY <1>1, <1>2 DEF Missed, Recorded

\* A presented frame: the screen is right, and the invariant goes on.
LEMMA PresentedKeeps ==
  ASSUME IInv, NEW asked \in SUBSET All, asked # {}, NEW S \in SUBSET All,
         Presented(asked, S), UNCHANGED <<width, live>>, invalid' \in SUBSET All
  PROVE  IInv' /\ screen' = {}
<1>1. Missed(asked, S) = {} /\ Recorded(asked) = All BY DrawIsWhole
<1>2. All' = All BY DEF All
<1>3. screen' = {}
  <2>1. screen \cup S \subseteq All BY DEF IInv, TypeOK
  <2> QED BY <1>1, <2>1 DEF Presented
<1>4. frame \in Buffers /\ frame' = 1 - frame /\ frame' \in Buffers
  BY DEF Presented, IInv, TypeOK, Buffers
<1>5. damage' = [damage EXCEPT ![frame] = All] BY <1>1 DEF Presented
<1>6. valid' = [valid EXCEPT ![frame] = TRUE] BY DEF Presented
<1>7. damage' \in [Buffers -> SUBSET All] /\ valid' \in [Buffers -> BOOLEAN]
  BY <1>4, <1>5, <1>6 DEF IInv, TypeOK
<1>8. stale' \in [Buffers -> SUBSET All]
  <2>1. PICK kept \in {Missed(asked, S), All} : stale' = [Behind(S) EXCEPT ![frame] = kept]
    BY DEF Presented
  <2>2. Behind(S) \in [Buffers -> SUBSET All] BY DEF IInv, TypeOK, Behind
  <2>3. kept \in SUBSET All BY <1>1, <2>1
  <2> QED BY <2>1, <2>2, <2>3
<1>9. TypeOK' BY <1>2, <1>3, <1>4, <1>7, <1>8 DEF Presented, IInv, TypeOK
<1>10. DamageIsWhole'
  <2> SUFFICES ASSUME NEW i \in Buffers, valid'[i] PROVE damage'[i] = All
    BY <1>2 DEF DamageIsWhole
  <2>1. CASE i = frame BY <2>1, <1>5 DEF IInv, TypeOK
  <2>2. CASE i # frame BY <2>2, <1>5, <1>6 DEF IInv, TypeOK, Whole, DamageIsWhole
  <2> QED BY <2>1, <2>2
<1>11. valid'[frame'] => \A i \in Buffers : valid'[i]
  <2> SUFFICES ASSUME valid'[1 - frame], NEW i \in Buffers PROVE valid'[i]
    BY <1>4
  <2>1. i = frame \/ i = 1 - frame BY <1>4 DEF Buffers
  <2>2. valid'[frame] BY <1>4, <1>6 DEF IInv, TypeOK
  <2> QED BY <2>1, <2>2
<1> QED BY <1>3, <1>9, <1>10, <1>11 DEF IInv, Whole

\* A frame that Present refused leaves the records alone.
LEMMA NotPresentedKeeps ==
  ASSUME IInv, NEW asked \in SUBSET All, NEW S \in SUBSET All,
         NotPresented(asked, S), UNCHANGED <<width, live>>, invalid' \in SUBSET All
  PROVE  IInv'
<1>1. All' = All BY DEF All
<1>2. Behind(S) \in [Buffers -> SUBSET All] BY DEF IInv, TypeOK, Behind
<1>3. Missed(asked, S) \in SUBSET All BY <1>2 DEF Missed, IInv, TypeOK
<1>4. stale' \in [Buffers -> SUBSET All] /\ screen' \in SUBSET All
  BY <1>2, <1>3 DEF NotPresented, IInv, TypeOK
<1>5. UNCHANGED <<frame, damage, valid>> BY DEF NotPresented
<1>6. TypeOK' BY <1>1, <1>4, <1>5 DEF NotPresented, IInv, TypeOK
<1>7. Whole' BY <1>1, <1>5 DEF IInv, Whole, DamageIsWhole
<1> QED BY <1>6, <1>7 DEF IInv

LEMMA DrawKeeps ==
  ASSUME IInv, NEW asked \in SUBSET All, asked # {}, NEW S \in SUBSET All,
         Draw(asked, S), invalid' \in SUBSET All
  PROVE  IInv' /\ (frame' # frame => screen' = {})
<1>1. UNCHANGED <<width, live>> BY DEF Draw
<1>2. CASE Presented(asked, S) BY <1>1, <1>2, PresentedKeeps
<1>3. CASE NotPresented(asked, S)
  <2>1. frame' = frame BY <1>3 DEF NotPresented
  <2> QED BY <1>1, <1>3, <2>1, NotPresentedKeeps
<1> QED BY <1>2, <1>3 DEF Draw

\* What a paint asks to draw.
LEMMA PaintAsks ==
  ASSUME IInv, invalid # {}
  PROVE  LET asked == IF live THEN All ELSE Around(invalid)
         IN  asked \in SUBSET All /\ asked # {} /\ invalid \subseteq asked
<1>1. invalid \in SUBSET All BY DEF IInv, TypeOK
<1> QED BY <1>1, AroundHolds

LEMMA AllIsThere == ASSUME TypeOK PROVE All # {} /\ All \in SUBSET All
<1>1. 1 \in All BY ConstantsAssumption DEF TypeOK, All, Strip
<1> QED BY <1>1

LEMMA SpanInside ==
  ASSUME IInv, NEW a \in All, NEW b \in All PROVE a..b \in SUBSET All
<1>1. width \in Nat BY ConstantsAssumption DEF IInv, TypeOK
<1>2. ASSUME NEW c \in a..b PROVE c \in 1..width BY <1>1, <1>2 DEF All, Strip
<1> QED BY <1>2 DEF All, Strip

LEMMA InitIInv == Init => IInv
<1> SUFFICES ASSUME Init PROVE IInv OBVIOUS
<1>1. TypeOK BY DEF Init, TypeOK, Buffers
<1>2. Whole
  <2>1. \A i \in Buffers : ~valid[i] BY DEF Init
  <2>2. frame \in Buffers BY DEF Init, Buffers
  <2> QED BY <2>1, <2>2 DEF Whole, DamageIsWhole
<1> QED BY <1>1, <1>2 DEF IInv

\* Changes that draw nothing.
LEMMA OutdatedKeeps ==
  ASSUME IInv, NEW S \in SUBSET All, Outdated(S), invalid' \in SUBSET All,
         lapse' \in BOOLEAN
  PROVE  IInv'
<1>1. All' = All BY DEF Outdated, All
<1>2. Behind(S) \in [Buffers -> SUBSET All] BY DEF IInv, TypeOK, Behind
<1>3. TypeOK' BY <1>1, <1>2 DEF Outdated, IInv, TypeOK
<1>4. Whole' BY <1>1 DEF Outdated, IInv, Whole, DamageIsWhole
<1> QED BY <1>3, <1>4 DEF IInv

LEMMA ResizeKeeps ==
  ASSUME IInv, NEW w \in 1..MaxWidth, Resize(w)
  PROVE  IInv' /\ \A i \in Buffers : ~valid'[i]
<1>1. All' = Strip(w) BY DEF Resize, All
<1>2. frame' \in Buffers /\ \A i \in Buffers : ~valid'[i] BY DEF Resize
<1>3. TypeOK' BY <1>1, <1>2 DEF Resize, IInv, TypeOK
<1>4. Whole' BY <1>2 DEF Whole, DamageIsWhole
<1> QED BY <1>2, <1>3, <1>4 DEF IInv

\* One step: the invariant goes on, and a present that succeeds shows all.
LEMMA NextIInv ==
  ASSUME IInv, [Next]_vars
  PROVE  IInv' /\ (frame' # frame /\ valid'[frame] => screen' = {})
<1>0. frame \in Buffers /\ invalid \in SUBSET All /\ All \in SUBSET All /\ All # {}
  BY AllIsThere DEF IInv, TypeOK
<1>1. CASE Paint
  <2>1. invalid' \in SUBSET All BY <1>1 DEF Paint
  <2>2. PICK asked \in SUBSET All : asked # {} /\ Draw(asked, {})
    BY <1>1, PaintAsks DEF Paint
  <2> QED BY <2>1, <2>2, DrawKeeps
<1>2. ASSUME NEW a \in All, NEW b \in All,
             Change(a, b) \/ ChangeSilently(a, b) \/ ChangeAndDraw(a, b)
      PROVE  IInv' /\ (frame' # frame /\ valid'[frame] => screen' = {})
  <2>1. a..b \in SUBSET All BY SpanInside
  <2>2. invalid' \in SUBSET All
    BY <1>0, <1>2, <2>1 DEF Change, ChangeSilently, ChangeAndDraw
  <2>3. CASE Change(a, b) \/ ChangeSilently(a, b)
    <3>1. Outdated(a..b) BY <2>3 DEF Change, ChangeSilently
    <3>2. frame' = frame BY <3>1 DEF Outdated
    <3>3. lapse' \in BOOLEAN BY <2>3 DEF Change, ChangeSilently, IInv, TypeOK
    <3> QED BY <2>1, <2>2, <3>1, <3>2, <3>3, OutdatedKeeps
  <2>4. CASE ChangeAndDraw(a, b)
    BY <1>0, <2>1, <2>2, <2>4, DrawKeeps DEF ChangeAndDraw
  <2> QED BY <1>2, <2>3, <2>4
<1>3. ASSUME NEW w \in 1..MaxWidth, Resize(w)
      PROVE  IInv' /\ (frame' # frame /\ valid'[frame] => screen' = {})
  BY <1>0, <1>3, ResizeKeeps
<1>4. CASE SameSize \/ EnterSizeMove \/ ExitSizeMove \/ UNCHANGED vars
  <2>1. UNCHANGED <<width, frame, damage, valid, stale, screen>> /\ All' = All
    BY <1>4 DEF SameSize, EnterSizeMove, ExitSizeMove, vars, All
  <2>2. live' \in BOOLEAN /\ invalid' \in SUBSET All /\ lapse' \in BOOLEAN
    BY <1>0, <1>4 DEF SameSize, EnterSizeMove, ExitSizeMove, vars, IInv, TypeOK
  <2>3. TypeOK' BY <2>1, <2>2 DEF IInv, TypeOK
  <2>4. Whole' BY <2>1 DEF IInv, Whole, DamageIsWhole
  <2> QED BY <2>1, <2>3, <2>4 DEF IInv
<1> QED BY <1>1, <1>2, <1>3, <1>4 DEF Next

\* No damage, update region or stale cell ever lies outside the window, through
\* any sequence of resizes, paints and changes.
THEOREM TypeCorrect == Spec => []TypeOK
<1>1. IInv /\ [Next]_vars => IInv' BY NextIInv
<1>2. IInv => TypeOK BY DEF IInv
<1> QED BY InitIInv, <1>1, <1>2, PTL DEF Spec

\* For a window of any width, the damage recorded for a presented buffer is the
\* whole window, so no draw is ever partial.
THEOREM DamageAlwaysWhole == Spec => []DamageIsWhole
<1>1. IInv /\ [Next]_vars => IInv' BY NextIInv
<1>2. IInv => DamageIsWhole BY DEF IInv, Whole
<1> QED BY InitIInv, <1>1, <1>2, PTL DEF Spec

\* Each successful present leaves the whole screen right, whatever failed or
\* changed silently before.
THEOREM PresentAlwaysShowsAll == Spec => PresentShowsAll
<1>1. IInv /\ [Next]_vars => IInv' BY NextIInv
<1>2. IInv /\ [Next]_vars => [frame' # frame /\ valid'[frame] => screen' = {}]_vars
  BY NextIInv
<1> QED BY InitIInv, <1>1, <1>2, PTL DEF Spec, PresentShowsAll

\* Without a lapse, one step keeps what the screen shows wrongly inside the update
\* region; a present that succeeds and a region of the whole window end a lapse.
LEMMA NextCurrent ==
  ASSUME IInv, ScreenCurrent, [Next]_vars
  PROVE  ScreenCurrent'
<1>0. invalid \in SUBSET All /\ screen \in SUBSET All /\ All \in SUBSET All /\ All # {}
  BY AllIsThere DEF IInv, TypeOK
<1>1. ASSUME NEW asked \in SUBSET All, asked # {}, NEW S \in SUBSET All,
             Draw(asked, S), invalid' \in SUBSET All
      PROVE  ScreenCurrent'
  <2>1. CASE Presented(asked, S)
    <3>1. UNCHANGED <<width, live>> BY <1>1 DEF Draw
    <3>2. screen' = {} BY <1>1, <2>1, <3>1, PresentedKeeps
    <3> QED BY <3>2 DEF ScreenCurrent
  <2>2. CASE NotPresented(asked, S)
    BY <2>2 DEF NotPresented, ScreenCurrent
  <2> QED BY <1>1, <2>1, <2>2 DEF Draw
<1>2. CASE Paint
  <2>1. PICK asked \in SUBSET All : asked # {} /\ Draw(asked, {})
    BY <1>2, PaintAsks DEF Paint
  <2>2. invalid' \in SUBSET All BY <1>2 DEF Paint
  <2> QED BY <1>1, <2>1, <2>2
<1>3. ASSUME NEW a \in All, NEW b \in All,
             Change(a, b) \/ ChangeSilently(a, b) \/ ChangeAndDraw(a, b)
      PROVE  ScreenCurrent'
  <2>1. CASE Change(a, b) BY <2>1 DEF Change, Outdated, ScreenCurrent
  <2>2. CASE ChangeAndDraw(a, b)
    <3>1. a..b \in SUBSET All BY SpanInside
    <3> QED BY <1>0, <1>1, <2>2, <3>1 DEF ChangeAndDraw
  <2>3. CASE ChangeSilently(a, b) BY <2>3 DEF ChangeSilently, ScreenCurrent
  <2> QED BY <1>3, <2>1, <2>2, <2>3
<1>4. ASSUME NEW w \in 1..MaxWidth, Resize(w) PROVE ScreenCurrent'
  BY <1>4 DEF Resize, ScreenCurrent
<1>5. CASE SameSize \/ EnterSizeMove \/ ExitSizeMove \/ UNCHANGED vars
  BY <1>0, <1>5 DEF SameSize, EnterSizeMove, ExitSizeMove, vars, ScreenCurrent
<1> QED BY <1>2, <1>3, <1>4, <1>5 DEF Next

\* Without a lapse since the whole window was last shown or invalid, a paint is due for
\* every cell the screen shows wrongly.
THEOREM ScreenAlwaysCurrent == Spec => []ScreenCurrent
<1>1. Init => IInv /\ ScreenCurrent BY InitIInv DEF Init, ScreenCurrent
<1>2. IInv /\ ScreenCurrent /\ [Next]_vars => IInv' /\ ScreenCurrent'
  BY NextIInv, NextCurrent
<1> QED BY <1>1, <1>2, PTL DEF Spec

----------------------------------------------------------------------------
(* A paint comes. *)

\* The fairness of FairSpec, with the guard of Paint for ENABLED: the update region is
\* empty again and again, or WM_PAINT is handled again and again.
PaintComes == []<>(invalid = {}) \/ []<><<Paint>>_vars

LEMMA PaintMends ==
  ASSUME IInv, Paint
  PROVE  lapse' \/ screen' = {}
<1>1. PICK asked \in SUBSET All : asked # {} /\ Draw(asked, {})
  BY PaintAsks DEF Paint
<1>2. CASE Presented(asked, {})
  <2>1. UNCHANGED <<width, live>> BY <1>1 DEF Draw
  <2>2. {} \in SUBSET All /\ invalid' \in SUBSET All BY DEF Paint
  <2> QED BY <1>1, <1>2, <2>1, <2>2, PresentedKeeps
<1>3. CASE NotPresented(asked, {}) BY <1>3 DEF NotPresented
<1> QED BY <1>1, <1>2, <1>3 DEF Draw

\* In a window of any width each cell that shows what is no longer so is redrawn in the
\* end, or there is a lapse: until then the cell is in the update region, so a paint is
\* due, and the paint that comes shows everything (win32_app.cc 200-224).
THEOREM OutdatedGetsRedrawn == Spec /\ PaintComes => OutdatedIsRedrawn
<1>1. ASSUME NEW c \in 1..MaxWidth
      PROVE  Spec /\ PaintComes => (~lapse /\ c \in screen ~> lapse \/ c \notin screen)
  <2> DEFINE Wrong(x) == ~lapse /\ x \in screen
             Mended(x) == lapse \/ x \notin screen
  <2>1. ScreenCurrent /\ ~Mended(c) => ~(invalid = {}) BY DEF ScreenCurrent
  <2>2. IInv /\ <<Paint>>_vars => Mended(c)' BY PaintMends
  <2>3. IInv /\ [Next]_vars => IInv' BY NextIInv
  <2>4. (Wrong(c) ~> Mended(c)) <=> (~lapse /\ c \in screen ~> lapse \/ c \notin screen)
    OBVIOUS
  <2> HIDE DEF Wrong, Mended
  <2>5. Spec /\ PaintComes => (Wrong(c) ~> Mended(c))
    BY <2>1, <2>2, <2>3, InitIInv, ScreenAlwaysCurrent, PTL DEF Spec, PaintComes
  <2> QED BY <2>4, <2>5
<1> QED BY <1>1 DEF OutdatedIsRedrawn
============================================================================
