--------------------------- MODULE TextEditProofs ---------------------------
(***************************************************************************)
(* Proofs about TextEdit, for any edits, windows, letters and bounds.      *)
(***************************************************************************)
EXTENDS TextEdit, TLAPS, SequenceTheorems, WellFoundedInduction

\* The positions an edit keeps: nothing is selected, or everything is, and the focus brings
\* the caret back to where it is.
Placed(s) ==
  /\ s.cursor <= Len(s.text) /\ s.to = s.cursor /\ s.last \in {None, s.cursor}
  /\ s.from = s.to \/ (s.from = 0 /\ s.to = Len(s.text))

Positions == \A e \in Edits : Placed(edit[e])

\* Only an editable edit that thinks it has the focus has a timer.
Timed(s) == s.timer <= MaxTimer /\ (s.timer # 0 => s.focused /\ s.editable)

Timing == \A e \in Edits : Timed(edit[e])

\* A window and the edit that has its focus agree, as long as the edit is in the window.
Focusing ==
  /\ \A w \in Windows : focus[w] # None =>
       focus[w] \in alive /\ place[focus[w]] = w /\ edit[focus[w]].focused
  /\ \A e \in alive : place[e] # None /\ edit[e].focused =>
       focus[place[e]] = e /\ (edit[e].editable => edit[e].timer # 0)

\* The timers of a window are those of the edit that has its focus.
Running ==
  \A w \in Windows :
    timers[w] = IF focus[w] = None \/ edit[focus[w]].timer = 0 THEN {}
                ELSE {<<edit[focus[w]].timer, focus[w]>>}

IInv == TypeOK /\ Positions /\ Timing /\ Focusing /\ Running

----------------------------------------------------------------------------
(* Texts, cut at a position. *)

\* The characters before position p, and those after it.
Before(t, p) == SubSeq(t, 1, p)
After(t, p) == SubSeq(t, p + 1, Len(t))

LEMMA Cut ==
  ASSUME NEW t \in Seq(Letters), NEW p \in Nat, p <= Len(t)
  PROVE  /\ Before(t, p) \in Seq(Letters) /\ Len(Before(t, p)) = p
         /\ After(t, p) \in Seq(Letters) /\ Len(After(t, p)) = Len(t) - p
         /\ \A i \in 1..p : Before(t, p)[i] = t[i]
         /\ \A i \in 1..(Len(t) - p) : After(t, p)[i] = t[p + i]
<1>1. Len(t) \in Nat /\ \A i \in 1..Len(t) : t[i] \in Letters
  BY ElementOfSeq
<1>2. /\ Before(t, p) \in Seq(Letters)
      /\ Len(Before(t, p)) = IF 1 <= p THEN p - 1 + 1 ELSE 0
      /\ \A i \in 1..(p - 1 + 1) : Before(t, p)[i] = t[1 + i - 1]
  <2>1. 1 \in Int /\ p \in Int /\ \A i \in 1..p : t[i] \in Letters
    BY <1>1
  <2> QED BY <2>1, SubSeqProperties DEF Before
<1>3. /\ After(t, p) \in Seq(Letters)
      /\ Len(After(t, p)) = IF p + 1 <= Len(t) THEN Len(t) - (p + 1) + 1 ELSE 0
      /\ \A i \in 1..(Len(t) - (p + 1) + 1) : After(t, p)[i] = t[(p + 1) + i - 1]
  <2>1. p + 1 \in Int /\ Len(t) \in Int /\ \A i \in (p + 1)..Len(t) : t[i] \in Letters
    BY <1>1
  <2> QED BY <2>1, SubSeqProperties DEF After
<1> QED BY <1>1, <1>2, <1>3

\* A text is put together from what is before and after a position, and cut again there.
LEMMA Joined ==
  ASSUME NEW u \in Seq(Letters), NEW v \in Seq(Letters)
  PROVE  /\ u \o v \in Seq(Letters) /\ Len(u \o v) = Len(u) + Len(v) /\ Len(u) \in Nat
         /\ Len(v) \in Nat
         /\ Before(u \o v, Len(u)) = u /\ After(u \o v, Len(u)) = v
<1> DEFINE t == u \o v
           n == Len(u)
<1>1. /\ t \in Seq(Letters) /\ Len(t) = n + Len(v)
      /\ \A i \in 1..(n + Len(v)) : t[i] = IF i <= n THEN u[i] ELSE v[i - n]
  BY ConcatProperties
<1>2. n \in Nat /\ Len(v) \in Nat
  OBVIOUS
<1> HIDE DEF t
<1>3. /\ Before(t, n) \in Seq(Letters) /\ Len(Before(t, n)) = n
      /\ After(t, n) \in Seq(Letters) /\ Len(After(t, n)) = Len(t) - n
      /\ \A i \in 1..n : Before(t, n)[i] = t[i]
      /\ \A i \in 1..(Len(t) - n) : After(t, n)[i] = t[n + i]
  <2> HIDE DEF n
  <2>1. n <= Len(t)
    BY <1>1, <1>2
  <2> QED BY <1>1, <1>2, <2>1, Cut
<1>4. Before(t, n) = u
  <2>1. \A i \in 1..n : Before(t, n)[i] = u[i]
    BY <1>1, <1>2, <1>3
  <2> QED BY <1>3, <2>1, SeqEqual
<1>5. After(t, n) = v
  <2>1. Len(After(t, n)) = Len(v)
    BY <1>1, <1>2, <1>3
  <2>2. ASSUME NEW i \in 1..Len(v)
        PROVE  After(t, n)[i] = v[i]
    <3>1. /\ i \in 1..(Len(t) - n) /\ n + i \in 1..(n + Len(v)) /\ ~(n + i <= n)
          /\ (n + i) - n = i
      BY <1>1, <1>2
    <3> QED BY <1>1, <1>3, <3>1
  <2> QED BY <1>3, <2>1, <2>2, SeqEqual
<1> QED BY <1>1, <1>2, <1>4, <1>5 DEF t

LEMMA CutAndJoined ==
  ASSUME NEW t \in Seq(Letters), NEW p \in Nat, p <= Len(t)
  PROVE  Before(t, p) \o After(t, p) = t
<1>1. /\ 1 \in 1..(Len(t) + 1) /\ p \in (1 - 1)..Len(t) /\ Len(t) \in p..Len(t)
  OBVIOUS
<1>2. SubSeq(t, 1, p) \o SubSeq(t, p + 1, Len(t)) = SubSeq(t, 1, Len(t))
  BY <1>1, ConcatAdjacentSubSeq
<1> QED BY <1>2, SubSeqFull DEF Before, After

\* At its ends.
LEMMA CutAtEnds ==
  ASSUME NEW t \in Seq(Letters)
  PROVE  /\ Before(t, 0) = <<>> /\ After(t, 0) = t
         /\ Before(t, Len(t)) = t /\ After(t, Len(t)) = <<>>
         /\ t = <<>> <=> Len(t) = 0
<1>1. Len(t) \in Nat /\ (t = <<>> <=> Len(t) = 0)
  OBVIOUS
<1>2. Before(t, 0) = <<>>
  BY SubSeqEmpty DEF Before
<1>3. After(t, Len(t)) = <<>>
  <2>1. Len(t) + 1 \in Int /\ Len(t) \in Int /\ Len(t) < Len(t) + 1
    BY <1>1
  <2> QED BY <2>1, SubSeqEmpty DEF After
<1>4. Before(t, Len(t)) = t
  BY SubSeqFull DEF Before
<1>5. After(t, 0) = t
  <2>1. 0 + 1 = 1
    OBVIOUS
  <2> QED BY <2>1, SubSeqFull DEF After
<1> QED BY <1>1, <1>2, <1>3, <1>4, <1>5

\* One position further.
LEMMA CutNext ==
  ASSUME NEW t \in Seq(Letters), NEW p \in Nat, p < Len(t)
  PROVE  /\ Before(t, p) = SubSeq(Before(t, p + 1), 1, Len(Before(t, p + 1)) - 1)
         /\ After(t, p + 1) = Tail(After(t, p)) /\ After(t, p) # <<>>
         /\ Before(t, p + 1) # <<>>
<1>1. Len(t) \in Nat /\ p + 1 \in Nat /\ p + 1 <= Len(t)
  OBVIOUS
<1> DEFINE b == Before(t, p + 1)
           a == After(t, p)
<1>2. /\ b \in Seq(Letters) /\ Len(b) = p + 1
      /\ \A i \in 1..(p + 1) : b[i] = t[i]
      /\ a \in Seq(Letters) /\ Len(a) = Len(t) - p
      /\ \A i \in 1..(Len(t) - p) : a[i] = t[p + i]
      /\ Before(t, p) \in Seq(Letters) /\ Len(Before(t, p)) = p
      /\ \A i \in 1..p : Before(t, p)[i] = t[i]
      /\ After(t, p + 1) \in Seq(Letters) /\ Len(After(t, p + 1)) = Len(t) - (p + 1)
      /\ \A i \in 1..(Len(t) - (p + 1)) : After(t, p + 1)[i] = t[(p + 1) + i]
  <2> DEFINE q == p + 1
  <2>1. q \in Nat /\ q <= Len(t) /\ p <= Len(t)
    BY <1>1
  <2> HIDE DEF q
  <2>2. /\ Before(t, q) \in Seq(Letters) /\ Len(Before(t, q)) = q
        /\ \A i \in 1..q : Before(t, q)[i] = t[i]
        /\ After(t, q) \in Seq(Letters) /\ Len(After(t, q)) = Len(t) - q
        /\ \A i \in 1..(Len(t) - q) : After(t, q)[i] = t[q + i]
    BY <2>1, Cut
  <2>3. /\ Before(t, p) \in Seq(Letters) /\ Len(Before(t, p)) = p
        /\ \A i \in 1..p : Before(t, p)[i] = t[i]
        /\ After(t, p) \in Seq(Letters) /\ Len(After(t, p)) = Len(t) - p
        /\ \A i \in 1..(Len(t) - p) : After(t, p)[i] = t[p + i]
    BY <2>1, Cut
  <2> QED BY <2>2, <2>3 DEF q
<1> HIDE DEF a, b
<1>3. Before(t, p) = Before(b, p)
  <2>1. /\ Before(b, p) \in Seq(Letters) /\ Len(Before(b, p)) = p
        /\ \A i \in 1..p : Before(b, p)[i] = b[i]
    BY <1>2, Cut
  <2>2. \A i \in 1..p : Before(t, p)[i] = Before(b, p)[i]
    BY <1>2, <2>1
  <2> QED BY <1>2, <2>1, <2>2, SeqEqual
<1>4. Before(t, p) = SubSeq(b, 1, Len(b) - 1)
  <2>1. Len(b) - 1 = p
    BY <1>2
  <2> QED BY <1>3, <2>1 DEF Before
<1>5. a # <<>> /\ b # <<>>
  BY <1>1, <1>2
<1>6. After(t, p + 1) = Tail(a)
  <2>1. /\ Tail(a) \in Seq(Letters) /\ Len(Tail(a)) = Len(a) - 1
        /\ \A i \in 1..Len(Tail(a)) : Tail(a)[i] = a[i + 1]
    BY <1>2, <1>5, HeadTailProperties
  <2>2. Len(Tail(a)) = Len(t) - (p + 1)
    BY <1>1, <1>2, <2>1
  <2>3. ASSUME NEW i \in 1..(Len(t) - (p + 1))
        PROVE  Tail(a)[i] = After(t, p + 1)[i]
    <3>1. i + 1 \in 1..(Len(t) - p) /\ p + (i + 1) = (p + 1) + i
      BY <1>1
    <3> QED BY <1>2, <2>1, <2>2, <3>1
  <2> QED BY <1>2, <2>1, <2>2, <2>3, SeqEqual
<1> QED BY <1>4, <1>5, <1>6 DEF a, b

\* What erasing leaves before and after the place.
LEMMA Erased ==
  ASSUME NEW t \in Seq(Letters), NEW i \in Nat, NEW n \in Nat, i + n <= Len(t)
  PROVE  /\ Erase(t, i, n) \in Seq(Letters) /\ Len(Erase(t, i, n)) = Len(t) - n
         /\ Before(Erase(t, i, n), i) = Before(t, i)
         /\ After(Erase(t, i, n), i) = After(t, i + n)
<1> DEFINE u == Before(t, i)
           v == After(t, i + n)
<1>1. Len(t) \in Nat /\ i + n \in Nat /\ i <= Len(t)
  OBVIOUS
<1>2. /\ u \in Seq(Letters) /\ Len(u) = i
      /\ v \in Seq(Letters) /\ Len(v) = Len(t) - (i + n)
  BY <1>1, Cut
<1>3. Erase(t, i, n) = u \o v
  BY DEF Erase, Before, After
<1> HIDE DEF u, v
<1>4. /\ u \o v \in Seq(Letters) /\ Len(u \o v) = i + (Len(t) - (i + n))
      /\ Before(u \o v, i) = u /\ After(u \o v, i) = v
  BY <1>2, Joined
<1>5. Len(u \o v) = Len(t) - n
  BY <1>1, <1>4
<1> QED BY <1>3, <1>4, <1>5 DEF u, v

\* A character of it.
LEMMA ErasedOne ==
  ASSUME NEW t \in Seq(Letters), NEW i \in Nat, i < Len(t)
  PROVE  /\ Erase(t, i, 1) \in Seq(Letters) /\ Len(Erase(t, i, 1)) = Len(t) - 1
         /\ Before(Erase(t, i, 1), i) = Before(t, i)
         /\ After(Erase(t, i, 1), i) = After(t, i + 1)
<1> DEFINE n == 1
<1>1. n \in Nat /\ i + n <= Len(t) /\ n = 1
  OBVIOUS
<1> HIDE DEF n
<1>2. /\ Erase(t, i, n) \in Seq(Letters) /\ Len(Erase(t, i, n)) = Len(t) - n
      /\ Before(Erase(t, i, n), i) = Before(t, i)
      /\ After(Erase(t, i, n), i) = After(t, i + n)
  BY <1>1, Erased
<1> QED BY <1>1, <1>2

\* What inserting does.
LEMMA Inserted ==
  ASSUME NEW t \in Seq(Letters), NEW p \in Nat, p <= Len(t), NEW c \in Letters
  PROVE  LET r == SubSeq(t, 1, p) \o <<c>> \o SubSeq(t, p + 1, Len(t)) IN
         /\ r \in Seq(Letters) /\ Len(r) = Len(t) + 1
         /\ Before(r, p + 1) = Append(Before(t, p), c)
         /\ After(r, p + 1) = After(t, p)
<1> DEFINE b == Before(t, p)
           u == Append(b, c)
           v == After(t, p)
<1>1. /\ b \in Seq(Letters) /\ Len(b) = p /\ v \in Seq(Letters) /\ Len(v) = Len(t) - p
  BY Cut
<1>2. SubSeq(t, 1, p) \o <<c>> \o SubSeq(t, p + 1, Len(t)) = b \o <<c>> \o v
  BY DEF Before, After
<1> HIDE DEF b, v
<1>3. b \o <<c>> = u /\ u \in Seq(Letters) /\ Len(u) = p + 1
  BY <1>1, AppendIsConcat, AppendProperties
<1> HIDE DEF u
<1>4. /\ u \o v \in Seq(Letters) /\ Len(u \o v) = Len(u) + Len(v)
      /\ Before(u \o v, Len(u)) = u /\ After(u \o v, Len(u)) = v
  BY <1>1, <1>3, Joined
<1>5. Len(u \o v) = Len(t) + 1
  BY <1>1, <1>3, <1>4
<1> QED BY <1>2, <1>3, <1>4, <1>5 DEF u, v, b

----------------------------------------------------------------------------
(* What the operations make of an edit. *)

Good(s) == s \in EditState /\ Placed(s)

\* What an operation on the text leaves alone.
Kept(s, r) == r.focused = s.focused /\ r.editable = s.editable /\ r.timer = s.timer

LEMMA BlinkIs ==
  ASSUME NEW s \in EditState
  PROVE  /\ Blink(s) \in EditState /\ Kept(s, Blink(s))
         /\ Blink(s).text = s.text /\ Blink(s).cursor = s.cursor
         /\ Blink(s).from = s.from /\ Blink(s).to = s.to /\ Blink(s).last = s.last
BY DEF Blink, EditState, Kept

LEMMA AtIs ==
  ASSUME NEW s \in EditState, NEW p \in Nat, p <= Len(s.text)
  PROVE  /\ Good(At(s, p)) /\ Kept(s, At(s, p))
         /\ At(s, p).text = s.text /\ At(s, p).cursor = p /\ ~HasSelection(At(s, p))
<1> DEFINE r == [s EXCEPT !.cursor = p, !.from = p, !.to = p, !.last = p]
<1>1. /\ r \in EditState /\ Kept(s, r) /\ r.text = s.text
      /\ r.cursor = p /\ r.from = p /\ r.to = p /\ r.last = p
  BY DEF EditState, Kept
<1>2. At(s, p) = Blink(r)
  BY DEF At
<1> HIDE DEF r
<1> QED BY <1>1, <1>2, BlinkIs DEF Good, Placed, Kept, HasSelection

\* Nothing stays selected, and the text is another one.
LEMMA AtOfText ==
  ASSUME NEW s \in EditState, NEW t \in Seq(Letters), NEW p \in Nat, p <= Len(t)
  PROVE  LET r == At([s EXCEPT !.text = t], p) IN
         /\ Good(r) /\ Kept(s, r)
         /\ r.text = t /\ r.cursor = p /\ ~HasSelection(r)
<1> DEFINE u == [s EXCEPT !.text = t]
<1>1. u \in EditState /\ Kept(s, u) /\ u.text = t
  BY DEF EditState, Kept
<1> HIDE DEF u
<1>2. Good(At(u, p)) /\ Kept(s, At(u, p)) /\ At(u, p).text = t
  BY <1>1, AtIs DEF Kept
<1> QED BY <1>1, <1>2, AtIs DEF u

LEMMA MoveCursorIs ==
  ASSUME NEW s \in EditState, NEW p \in Nat
  PROVE  LET r == MoveCursor(s, p) IN
         /\ Good(r) /\ Kept(s, r) /\ r.text = s.text /\ ~HasSelection(r)
         /\ r.cursor = IF p > Len(s.text) THEN Len(s.text) ELSE p
<1> DEFINE q == IF p > Len(s.text) THEN Len(s.text) ELSE p
<1>1. s.text \in Seq(Letters)
  BY DEF EditState
<1>2. q \in Nat /\ q <= Len(s.text)
  BY <1>1
<1>3. MoveCursor(s, p) = At(s, q)
  BY DEF MoveCursor
<1> HIDE DEF q
<1>4. LET r == MoveCursor(s, p) IN
      Good(r) /\ Kept(s, r) /\ r.text = s.text /\ ~HasSelection(r) /\ r.cursor = q
  BY <1>2, <1>3, AtIs
<1> QED BY <1>4 DEF q

LEMMA SelectAllIs ==
  ASSUME NEW s \in EditState
  PROVE  LET r == SelectAll(s) IN
         /\ Good(r) /\ Kept(s, r)
         /\ r.text = s.text /\ r.cursor = Len(s.text)
         /\ HasSelection(r) <=> s.text # <<>>
<1> DEFINE n == Len(s.text)
           u == [s EXCEPT !.from = 0, !.to = n, !.cursor = n, !.last = n]
<1>1. s.text \in Seq(Letters)
  BY DEF EditState
<1>2. n \in Nat /\ (n = 0 <=> s.text = <<>>)
  BY <1>1
<1>3. SelectAll(s) = Blink(u)
  BY DEF SelectAll
<1>4. /\ u \in EditState /\ Kept(s, u) /\ u.text = s.text
      /\ u.from = 0 /\ u.to = n /\ u.cursor = n /\ u.last = n
  BY <1>2 DEF EditState, Kept
<1> HIDE DEF u
<1>5. /\ Blink(u) \in EditState /\ Kept(s, Blink(u))
      /\ Blink(u).text = s.text /\ Blink(u).cursor = n
      /\ Blink(u).from = 0 /\ Blink(u).to = n /\ Blink(u).last = n
  BY <1>4, BlinkIs DEF Kept
<1> QED BY <1>2, <1>3, <1>5 DEF Good, Placed, HasSelection

\* As all of the text is selected, nothing of it is left.
LEMMA DeleteSelectionIs ==
  ASSUME NEW s, Good(s), HasSelection(s)
  PROVE  LET r == DeleteSelection(s) IN
         /\ Good(r) /\ Kept(s, r)
         /\ r.text = <<>> /\ r.cursor = 0 /\ ~HasSelection(r)
<1>1. s.text \in Seq(Letters) /\ s \in EditState
  BY DEF Good, EditState
<1>2. /\ s.from = 0 /\ s.to = Len(s.text) /\ Len(s.text) \in Nat /\ 0 < Len(s.text)
  BY <1>1 DEF Good, Placed, HasSelection
<1>3. DeleteSelection(s) = At([s EXCEPT !.text = Erase(s.text, 0, Len(s.text) - 0)], 0)
  BY <1>1, <1>2 DEF DeleteSelection, EditState
<1>4. Erase(s.text, 0, Len(s.text) - 0) = <<>>
  <2> DEFINE n == Len(s.text)
  <2>1. n \in Nat /\ n - 0 = n /\ 0 + n <= Len(s.text) /\ 0 \in Nat
    BY <1>2
  <2> DEFINE t == Erase(s.text, 0, n)
  <2>2. t \in Seq(Letters) /\ Len(t) = Len(s.text) - n
    BY <1>1, <2>1, Erased
  <2>3. Len(t) = 0
    BY <1>2, <2>2
  <2>4. t = <<>>
    <3> HIDE DEF t
    <3> QED BY <2>2, <2>3
  <2> QED BY <2>1, <2>4
<1> DEFINE t == <<>>
<1>5. t \in Seq(Letters) /\ 0 \in Nat /\ 0 <= Len(t)
  OBVIOUS
<1>6. DeleteSelection(s) = At([s EXCEPT !.text = t], 0)
  BY <1>3, <1>4
<1>7. t = <<>>
  OBVIOUS
<1> HIDE DEF t
<1>8. LET r == At([s EXCEPT !.text = t], 0) IN
      /\ Good(r) /\ Kept(s, r)
      /\ r.text = t /\ r.cursor = 0 /\ ~HasSelection(r)
  BY <1>1, <1>5, AtOfText
<1> QED BY <1>6, <1>7, <1>8

LEMMA SetTextIs ==
  ASSUME NEW s, Good(s), NEW t \in Seq(Letters)
  PROVE  LET r == SetText(s, t) IN
         /\ Good(r) /\ Kept(s, r)
         /\ r.text = t
         /\ \/ r = s
            \/ r.cursor = Len(t) /\ ~HasSelection(r)
<1>1. CASE s.text = t
  BY <1>1 DEF SetText, Kept
<1>2. CASE s.text # t
  <2>1. SetText(s, t) = At([s EXCEPT !.text = t], Len(t))
    BY <1>2 DEF SetText
  <2>2. s \in EditState /\ Len(t) \in Nat /\ Len(t) <= Len(t)
    BY DEF Good
  <2> QED BY <2>1, <2>2, AtOfText
<1> QED BY <1>1, <1>2

LEMMA InsertIs ==
  ASSUME NEW s, Good(s), NEW c \in Letters
  PROVE  LET r == Insert(s, c) IN
         /\ Good(r) /\ Kept(s, r)
         /\ Before(r.text, r.cursor) = Append(Before(s.text, s.cursor), c)
         /\ After(r.text, r.cursor) = After(s.text, s.cursor)
         /\ ~HasSelection(r)
<1> DEFINE t == SubSeq(s.text, 1, s.cursor) \o <<c>> \o SubSeq(s.text, s.cursor + 1, Len(s.text))
           p == s.cursor
<1>1. s \in EditState /\ s.text \in Seq(Letters) /\ p \in Nat /\ p <= Len(s.text)
  BY DEF Good, EditState, Placed
<1>2. /\ t \in Seq(Letters) /\ Len(t) = Len(s.text) + 1
      /\ Before(t, p + 1) = Append(Before(s.text, p), c)
      /\ After(t, p + 1) = After(s.text, p)
  BY <1>1, Inserted
<1>3. Insert(s, c) = At([s EXCEPT !.text = t], p + 1)
  BY <1>1 DEF Insert, EditState
<1> HIDE DEF t
<1>4. p + 1 \in Nat /\ p + 1 <= Len(t)
  BY <1>1, <1>2
<1> DEFINE q == p + 1
<1> HIDE DEF q
<1>5. q \in Nat /\ q <= Len(t) /\ Insert(s, c) = At([s EXCEPT !.text = t], q)
  BY <1>3, <1>4 DEF q
<1>6. LET r == At([s EXCEPT !.text = t], q) IN
      /\ Good(r) /\ Kept(s, r)
      /\ r.text = t /\ r.cursor = q /\ ~HasSelection(r)
  BY <1>1, <1>2, <1>5, AtOfText
<1> QED BY <1>2, <1>5, <1>6 DEF q

LEMMA BackspaceIs ==
  ASSUME NEW s, Good(s)
  PROVE  LET r == Backspace(s) IN
         /\ Good(r) /\ Kept(s, r)
         /\ \/ ~HasSelection(s) /\ s.cursor = 0 /\ r = s
            \/ HasSelection(s) /\ r = DeleteSelection(s)
            \/ /\ ~HasSelection(s) /\ ~HasSelection(r)
               /\ Before(s.text, s.cursor) # <<>>
               /\ Before(r.text, r.cursor) =
                    SubSeq(Before(s.text, s.cursor), 1, Len(Before(s.text, s.cursor)) - 1)
               /\ After(r.text, r.cursor) = After(s.text, s.cursor)
<1>1. CASE HasSelection(s)
  BY <1>1, DeleteSelectionIs DEF Backspace
<1>2. CASE ~HasSelection(s) /\ s.cursor = 0
  BY <1>2 DEF Backspace, Kept
<1>3. CASE ~HasSelection(s) /\ s.cursor # 0
  <2> DEFINE p == s.cursor - 1
             t == Erase(s.text, p, 1)
  <2>1. /\ s \in EditState /\ s.text \in Seq(Letters) /\ s.cursor \in Nat
        /\ s.cursor <= Len(s.text) /\ Len(s.text) \in Nat
    BY DEF Good, EditState, Placed
  <2>2. p \in Nat /\ p + 1 = s.cursor /\ p + 1 <= Len(s.text) /\ p < Len(s.text)
    BY <1>3, <2>1
  <2>3. Backspace(s) = At([s EXCEPT !.text = t], p)
    BY <1>3, <2>1 DEF Backspace, EditState
  <2> HIDE DEF p
  <2>4. /\ t \in Seq(Letters) /\ Len(t) = Len(s.text) - 1
        /\ Before(t, p) = Before(s.text, p)
        /\ After(t, p) = After(s.text, p + 1)
    BY <2>1, <2>2, ErasedOne
  <2>5. /\ Before(s.text, p) =
             SubSeq(Before(s.text, p + 1), 1, Len(Before(s.text, p + 1)) - 1)
        /\ Before(s.text, p + 1) # <<>>
    BY <2>1, <2>2, CutNext
  <2> HIDE DEF t
  <2>6. p <= Len(t)
    BY <2>1, <2>2, <2>4
  <2>7. LET r == At([s EXCEPT !.text = t], p) IN
        /\ Good(r) /\ Kept(s, r)
        /\ r.text = t /\ r.cursor = p /\ ~HasSelection(r)
    BY <2>1, <2>2, <2>4, <2>6, AtOfText
  <2> QED BY <1>3, <2>2, <2>3, <2>4, <2>5, <2>7
<1> QED BY <1>1, <1>2, <1>3

LEMMA DeleteForwardIs ==
  ASSUME NEW s, Good(s)
  PROVE  LET r == DeleteForward(s) IN
         /\ Good(r) /\ Kept(s, r)
         /\ \/ ~HasSelection(s) /\ s.cursor = Len(s.text) /\ r = s
            \/ HasSelection(s) /\ r = DeleteSelection(s)
            \/ /\ ~HasSelection(s) /\ ~HasSelection(r)
               /\ After(s.text, s.cursor) # <<>>
               /\ Before(r.text, r.cursor) = Before(s.text, s.cursor)
               /\ After(r.text, r.cursor) = Tail(After(s.text, s.cursor))
<1>1. CASE HasSelection(s)
  BY <1>1, DeleteSelectionIs DEF DeleteForward
<1>2. CASE ~HasSelection(s) /\ s.cursor >= Len(s.text)
  <2>1. s.cursor = Len(s.text)
    BY <1>2 DEF Good, Placed, EditState
  <2> QED BY <1>2, <2>1 DEF DeleteForward, Kept
<1>3. CASE ~HasSelection(s) /\ ~(s.cursor >= Len(s.text))
  <2> DEFINE p == s.cursor
             t == Erase(s.text, p, 1)
  <2>1. /\ s \in EditState /\ s.text \in Seq(Letters) /\ p \in Nat
        /\ p < Len(s.text) /\ Len(s.text) \in Nat /\ p + 1 <= Len(s.text)
    BY <1>3 DEF Good, EditState, Placed
  <2>2. DeleteForward(s) = At([s EXCEPT !.text = t], p)
    BY <1>3, <2>1 DEF DeleteForward, EditState
  <2>3. /\ t \in Seq(Letters) /\ Len(t) = Len(s.text) - 1
        /\ Before(t, p) = Before(s.text, p)
        /\ After(t, p) = After(s.text, p + 1)
    BY <2>1, ErasedOne
  <2>4. After(s.text, p + 1) = Tail(After(s.text, p)) /\ After(s.text, p) # <<>>
    BY <2>1, CutNext
  <2> HIDE DEF t
  <2>5. p <= Len(t)
    BY <2>1, <2>3
  <2>6. LET r == At([s EXCEPT !.text = t], p) IN
        /\ Good(r) /\ Kept(s, r)
        /\ r.text = t /\ r.cursor = p /\ ~HasSelection(r)
    BY <2>1, <2>3, <2>5, AtOfText
  <2> QED BY <1>3, <2>2, <2>3, <2>4, <2>6
<1> QED BY <1>1, <1>2, <1>3

----------------------------------------------------------------------------
(* What the focus, the timers and being editable make of an edit. *)

\* The text and the positions in it stay.
SameText(s, r) ==
  /\ r.text = s.text /\ r.cursor = s.cursor
  /\ r.from = s.from /\ r.to = s.to /\ r.last = s.last

LEMMA GoodAgain ==
  ASSUME NEW s, Good(s), NEW r \in EditState, SameText(s, r)
  PROVE  Good(r)
BY DEF Good, Placed, SameText

LEMMA BlinkKeeps ==
  ASSUME NEW s, Good(s)
  PROVE  Good(Blink(s)) /\ SameText(s, Blink(s)) /\ Kept(s, Blink(s))
BY BlinkIs, GoodAgain DEF Good, SameText

LEMMA StoppedIs ==
  ASSUME NEW s, Good(s)
  PROVE  LET r == Stopped(s) IN
         /\ Good(r) /\ SameText(s, r)
         /\ r.focused = s.focused /\ r.editable = s.editable /\ r.timer = 0
<1>1. s \in EditState
  BY DEF Good
<1> DEFINE r == [s EXCEPT !.timer = 0]
<1>2. /\ r \in EditState /\ SameText(s, r)
      /\ r.focused = s.focused /\ r.editable = s.editable /\ r.timer = 0
  BY <1>1 DEF EditState, SameText
<1>3. Stopped(s) = r
  BY DEF Stopped
<1> HIDE DEF r
<1> QED BY <1>2, <1>3, GoodAgain

\* The window the edit is in, if any, gives it the next of its timers.
Gets(s, w) == IF s.editable /\ s.focused /\ s.timer = 0 /\ w # None THEN nextTimer[w] ELSE s.timer

LEMMA StartedIs ==
  ASSUME NEW s, Good(s), NEW w, w # None => nextTimer[w] \in Nat
  PROVE  LET r == Started(s, w) IN
         /\ Good(r) /\ SameText(s, r)
         /\ r.focused = s.focused /\ r.editable = s.editable /\ r.timer = Gets(s, w)
<1>1. s \in EditState
  BY DEF Good
<1>2. CASE s.editable /\ s.focused /\ s.timer = 0 /\ w # None
  <2> DEFINE n == nextTimer[w]
             r == [s EXCEPT !.timer = n]
  <2>1. n \in Nat
    BY <1>2
  <2> HIDE DEF n
  <2>2. /\ r \in EditState /\ SameText(s, r)
        /\ r.focused = s.focused /\ r.editable = s.editable /\ r.timer = n
    BY <1>1, <2>1 DEF EditState, SameText
  <2>3. Started(s, w) = r /\ Gets(s, w) = n
    BY <1>2 DEF Started, Gets, n
  <2> HIDE DEF r
  <2> QED BY <2>2, <2>3, GoodAgain
<1>3. CASE ~(s.editable /\ s.focused /\ s.timer = 0 /\ w # None)
  <2>1. Started(s, w) = s /\ Gets(s, w) = s.timer
    BY <1>3 DEF Started, Gets
  <2> QED BY <2>1 DEF SameText
<1> QED BY <1>2, <1>3

LEMMA BlurredIs ==
  ASSUME NEW s, Good(s)
  PROVE  LET r == Blurred(s) IN
         /\ Good(r) /\ SameText(s, r)
         /\ ~r.focused /\ r.editable = s.editable /\ r.timer = 0
<1> DEFINE u == [s EXCEPT !.focused = FALSE, !.visible = FALSE]
<1>1. /\ u \in EditState /\ SameText(s, u)
      /\ u.focused = FALSE /\ u.editable = s.editable
  BY DEF Good, EditState, SameText
<1>2. Blurred(s) = Stopped(u)
  BY DEF Blurred
<1> HIDE DEF u
<1>3. Good(u)
  BY <1>1, GoodAgain
<1> QED BY <1>1, <1>2, <1>3, StoppedIs DEF SameText

LEMMA FocusedIs ==
  ASSUME NEW s, Good(s), NEW w, w # None => nextTimer[w] \in Nat
  PROVE  LET r == Focused(s, w) IN
         /\ Good(r) /\ r.text = s.text /\ r.cursor = s.cursor /\ ~HasSelection(r)
         /\ r.focused /\ r.editable = s.editable
         /\ r.timer = IF s.editable /\ s.timer = 0 /\ w # None THEN nextTimer[w] ELSE s.timer
<1> DEFINE u == [s EXCEPT !.focused = TRUE]
           p == IF s.last = None THEN s.cursor ELSE s.last
           m == MoveCursor(u, p)
<1>1. s \in EditState /\ p \in Nat /\ p = s.cursor /\ p <= Len(s.text) /\ Len(s.text) \in Nat
  BY DEF Good, EditState, Placed
<1>2. u \in EditState /\ u.focused = TRUE /\ u.editable = s.editable /\ u.text = s.text
      /\ u.timer = s.timer
  BY <1>1 DEF EditState
<1>3. Focused(s, w) = Started(m, w)
  BY DEF Focused
<1> HIDE DEF u, p
<1>4. /\ Good(m) /\ Kept(u, m) /\ m.text = u.text /\ ~HasSelection(m)
      /\ m.cursor = IF p > Len(u.text) THEN Len(u.text) ELSE p
  BY <1>1, <1>2, MoveCursorIs
<1> HIDE DEF m
<1>5. LET r == Started(m, w) IN
      /\ Good(r) /\ SameText(m, r)
      /\ r.focused = m.focused /\ r.editable = m.editable /\ r.timer = Gets(m, w)
  BY <1>4, StartedIs
<1>6. m.cursor = s.cursor
  BY <1>1, <1>2, <1>4
<1> QED BY <1>2, <1>3, <1>4, <1>5, <1>6 DEF Gets, Kept, SameText, HasSelection

LEMMA SetEditableIs ==
  ASSUME NEW s, Good(s), NEW on \in BOOLEAN, NEW w, w # None => nextTimer[w] \in Nat
  PROVE  LET r == SetEditable(s, on, w) IN
         /\ Good(r) /\ SameText(s, r) /\ r.focused = s.focused /\ r.editable = on
         /\ r.timer = IF ~on THEN 0
                      ELSE IF s.focused /\ s.timer = 0 /\ w # None THEN nextTimer[w]
                      ELSE s.timer
<1>1. CASE ~on
  <2> DEFINE u == [s EXCEPT !.editable = FALSE, !.visible = FALSE]
  <2>1. u \in EditState /\ SameText(s, u) /\ u.focused = s.focused /\ u.editable = FALSE
    BY DEF Good, EditState, SameText
  <2>2. SetEditable(s, on, w) = Stopped(u)
    BY <1>1 DEF SetEditable
  <2> HIDE DEF u
  <2>3. Good(u)
    BY <2>1, GoodAgain
  <2> QED BY <1>1, <2>1, <2>2, <2>3, StoppedIs DEF SameText
<1>2. CASE on
  <2> DEFINE u == [s EXCEPT !.editable = TRUE]
  <2>1. /\ u \in EditState /\ SameText(s, u) /\ u.focused = s.focused /\ u.editable = TRUE
        /\ u.timer = s.timer
    BY DEF Good, EditState, SameText
  <2>2. SetEditable(s, on, w) = IF s.focused THEN Started(Blink(u), w) ELSE u
    BY <1>2 DEF SetEditable
  <2> HIDE DEF u
  <2>3. Good(u)
    BY <2>1, GoodAgain
  <2>4. CASE s.focused
    <3>1. Good(Blink(u)) /\ SameText(u, Blink(u)) /\ Kept(u, Blink(u))
      BY <2>3, BlinkKeeps
    <3> DEFINE b == Blink(u)
    <3> HIDE DEF b
    <3>2. Good(b) /\ SameText(u, b) /\ Kept(u, b)
      BY <3>1 DEF b
    <3>3. LET r == Started(b, w) IN
          /\ Good(r) /\ SameText(b, r)
          /\ r.focused = b.focused /\ r.editable = b.editable /\ r.timer = Gets(b, w)
      BY <3>2, StartedIs
    <3>4. SetEditable(s, on, w) = Started(b, w)
      BY <2>2, <2>4 DEF b
    <3> QED BY <1>2, <2>1, <2>4, <3>2, <3>3, <3>4 DEF Gets, Kept, SameText
  <2>5. CASE ~s.focused
    BY <1>2, <2>1, <2>2, <2>3, <2>5
  <2> QED BY <2>4, <2>5
<1> QED BY <1>1, <1>2

----------------------------------------------------------------------------
(* One edit becomes another, and nothing else happens. *)

\* What r may be for the rest of the window to go with it.
Fits(s, r, w) ==
  /\ Good(r) /\ r.focused = s.focused
  /\ r.timer # 0 => r.focused /\ r.editable
  /\ w # None /\ r.focused /\ r.editable => r.timer # 0
  /\ \/ r.timer = 0
     \/ r.timer = s.timer
     \/ s.timer = 0 /\ w # None /\ r.timer = nextTimer[w]

LEMMA OneEdit ==
  ASSUME IInv, NEW e \in Edits, e \in alive
  PROVE  /\ Good(edit[e]) /\ Timed(edit[e]) /\ edit[e].timer \in Nat
         /\ place[e] \in Windows \cup {None}
         /\ place[e] # None => nextTimer[place[e]] \in 1..(MaxTimer + 1)
         /\ place[e] # None /\ edit[e].focused =>
              focus[place[e]] = e /\ (edit[e].editable => edit[e].timer # 0)
BY DEF IInv, TypeOK, Positions, Timing, Focusing, Good, EditState

\* Becomes, whatever the length of the text.
Changes(e, r) ==
  /\ e \in alive /\ r.timer <= MaxTimer
  /\ edit' = [edit EXCEPT ![e] = r]
  /\ timers' = TimersAfter(timers, e, r)
  /\ nextTimer' = CountAfter(e, r)
  /\ UNCHANGED views

LEMMA ChangesKeeps ==
  ASSUME IInv, NEW e \in Edits, NEW r, Fits(edit[e], r, place[e]), Changes(e, r)
  PROVE  IInv'
<1> DEFINE s == edit[e]
           w == place[e]
<1>0. /\ e \in alive /\ r.timer <= MaxTimer
      /\ edit' = [edit EXCEPT ![e] = r]
      /\ timers' = TimersAfter(timers, e, r)
      /\ nextTimer' = CountAfter(e, r)
      /\ alive' = alive /\ place' = place /\ focus' = focus /\ open' = open
  BY DEF Changes, views
<1>1. /\ Good(s) /\ Timed(s) /\ s.timer \in Nat
      /\ w \in Windows \cup {None}
      /\ w # None => nextTimer[w] \in 1..(MaxTimer + 1)
      /\ w # None /\ s.focused => focus[w] = e /\ (s.editable => s.timer # 0)
  BY <1>0, OneEdit
<1>2. /\ TypeOK /\ Positions /\ Timing /\ Focusing /\ Running
      /\ None \notin Windows /\ None \notin Edits /\ MaxTimer \in Nat
  BY ConstantsAssumption DEF IInv
<1>3. r \in EditState /\ Placed(r) /\ r.timer \in Nat
  BY DEF Fits, Good, EditState
<1>4. /\ edit' \in [Edits -> EditState] /\ edit'[e] = r
      /\ \A x \in Edits : x # e => edit'[x] = edit[x]
  BY <1>0, <1>2, <1>3 DEF TypeOK
<1>5. TypeOK'
  <2>1. edit' \in [Edits -> EditState]
    BY <1>4
  <2>2. \A x \in Edits : edit'[x].to <= edit'[x].cursor /\ edit'[x].cursor <= Len(edit'[x].text)
    <3>1. r.to <= r.cursor /\ r.cursor <= Len(r.text)
      BY <1>3 DEF Placed, EditState
    <3> QED BY <1>2, <1>4, <3>1 DEF TypeOK
  <2>3. timers' \in [Windows -> SUBSET ((1..MaxTimer) \X Edits)]
    <3>1. CASE w = None \/ r.timer = s.timer
      BY <1>0, <1>2, <3>1 DEF TypeOK, TimersAfter
    <3>2. CASE ~(w = None \/ r.timer = s.timer)
      <4> DEFINE new == {t \in timers[w] : t[1] # s.timer} \cup
                          IF r.timer = 0 THEN {} ELSE {<<r.timer, e>>}
      <4>1. timers' = [timers EXCEPT ![w] = new]
        BY <1>0, <3>2 DEF TimersAfter
      <4>2. w \in Windows /\ timers[w] \subseteq (1..MaxTimer) \X Edits
        BY <1>1, <1>2, <3>2 DEF TypeOK
      <4>3. r.timer # 0 => r.timer \in 1..MaxTimer
        BY <1>0, <1>2, <1>3
      <4>4. new \subseteq (1..MaxTimer) \X Edits
        BY <4>2, <4>3
      <4> HIDE DEF new
      <4> QED BY <1>2, <4>1, <4>2, <4>4 DEF TypeOK
    <3> QED BY <3>1, <3>2
  <2>4. nextTimer' \in [Windows -> 1..(MaxTimer + 1)]
    <3>1. CASE w = None \/ r.timer \in {0, s.timer}
      BY <1>0, <1>2, <3>1 DEF TypeOK, CountAfter
    <3>2. CASE ~(w = None \/ r.timer \in {0, s.timer})
      <4>1. nextTimer' = [nextTimer EXCEPT ![w] = @ + 1]
        BY <1>0, <3>2 DEF CountAfter
      <4>2. r.timer = nextTimer[w]
        BY <3>2 DEF Fits
      <4>3. nextTimer[w] + 1 \in 1..(MaxTimer + 1)
        BY <1>0, <1>1, <1>2, <3>2, <4>2
      <4> QED BY <1>1, <1>2, <4>1, <4>3 DEF TypeOK
    <3> QED BY <3>1, <3>2
  <2> QED BY <1>0, <1>2, <2>1, <2>2, <2>3, <2>4 DEF TypeOK
<1>6. Positions'
  BY <1>2, <1>3, <1>4 DEF Positions
<1>7. Timing'
  <2>1. Timed(r)
    BY <1>0 DEF Fits, Timed
  <2> QED BY <1>2, <1>4, <2>1 DEF Timing
<1>8. Focusing'
  <2>1. ASSUME NEW u \in Windows, focus[u] # None
        PROVE  focus[u] \in alive /\ place[focus[u]] = u /\ edit'[focus[u]].focused
    <3>1. focus[u] \in alive /\ place[focus[u]] = u /\ edit[focus[u]].focused /\ focus[u] \in Edits
      BY <1>2, <2>1 DEF Focusing, TypeOK
    <3> QED BY <1>4, <3>1 DEF Fits
  <2>2. ASSUME NEW x \in alive, place[x] # None, edit'[x].focused
        PROVE  focus[place[x]] = x /\ (edit'[x].editable => edit'[x].timer # 0)
    <3>1. x \in Edits
      BY <1>2 DEF TypeOK
    <3>2. CASE x = e
      BY <1>1, <1>4, <2>2, <3>2 DEF Fits
    <3>3. CASE x # e
      BY <1>2, <1>4, <2>2, <3>1, <3>3 DEF Focusing
    <3> QED BY <3>2, <3>3
  <2> QED BY <1>0, <2>1, <2>2 DEF Focusing
<1>9. Running'
  <2>1. ASSUME NEW u \in Windows
        PROVE  timers'[u] = IF focus[u] = None \/ edit'[focus[u]].timer = 0 THEN {}
                            ELSE {<<edit'[focus[u]].timer, focus[u]>>}
    <3>1. timers[u] = IF focus[u] = None \/ edit[focus[u]].timer = 0 THEN {}
                      ELSE {<<edit[focus[u]].timer, focus[u]>>}
      BY <1>2 DEF Running
    <3>2. focus[u] # None => focus[u] \in Edits /\ place[focus[u]] = u
      BY <1>2 DEF Focusing, TypeOK
    <3>3. CASE w # u
      <4>1. timers'[u] = timers[u]
        BY <1>0, <1>2, <3>3 DEF TimersAfter, TypeOK
      <4>2. focus[u] # None => edit'[focus[u]] = edit[focus[u]]
        BY <1>4, <3>2, <3>3
      <4> QED BY <3>1, <4>1, <4>2
    <3>4. CASE w = u /\ r.timer = s.timer
      <4>1. timers'[u] = timers[u]
        BY <1>0, <3>4 DEF TimersAfter
      <4>2. focus[u] # None => edit'[focus[u]].timer = edit[focus[u]].timer
        BY <1>4, <3>2, <3>4
      <4> QED BY <3>1, <4>1, <4>2
    <3>5. CASE w = u /\ r.timer # s.timer
      <4>1. w # None
        BY <1>2, <3>5
      <4>2. s.focused
        BY <1>1, <3>5 DEF Fits, Timed
      <4>3. focus[u] = e
        BY <1>1, <3>5, <4>1, <4>2
      <4>4. timers[u] = IF s.timer = 0 THEN {} ELSE {<<s.timer, e>>}
        BY <1>2, <3>1, <4>3
      <4>5. timers'[u] = {t \in timers[u] : t[1] # s.timer} \cup
                           IF r.timer = 0 THEN {} ELSE {<<r.timer, e>>}
        BY <1>0, <1>2, <3>5, <4>1 DEF TimersAfter, TypeOK
      <4>6. {t \in timers[u] : t[1] # s.timer} = {}
        BY <4>4
      <4> QED BY <1>2, <1>4, <4>3, <4>5, <4>6
    <3> QED BY <3>3, <3>4, <3>5
  <2> QED BY <1>0, <2>1 DEF Running
<1> QED BY <1>5, <1>6, <1>7, <1>8, <1>9 DEF IInv

\* What does not touch the focus or the timer fits.
LEMMA KeptFits ==
  ASSUME IInv, NEW e \in Edits, e \in alive, NEW r, Good(r), Kept(edit[e], r)
  PROVE  Fits(edit[e], r, place[e])
BY OneEdit DEF Fits, Kept, Timed

LEMMA EditableFits ==
  ASSUME IInv, NEW e \in Edits, e \in alive, NEW s, Good(s), Kept(edit[e], s),
         NEW on \in BOOLEAN
  PROVE  Fits(edit[e], SetEditable(s, on, place[e]), place[e])
<1> DEFINE w == place[e]
<1>1. /\ Timed(edit[e]) /\ edit[e].timer \in Nat
      /\ w # None => nextTimer[w] \in 1..(MaxTimer + 1)
      /\ w # None /\ edit[e].focused => (edit[e].editable => edit[e].timer # 0)
  BY OneEdit
<1>2. w # None => nextTimer[w] \in Nat /\ nextTimer[w] # 0
  BY <1>1, ConstantsAssumption
<1> HIDE DEF w
<1> DEFINE r == SetEditable(s, on, w)
<1>3. /\ Good(r) /\ r.focused = s.focused /\ r.editable = on
      /\ r.timer = IF ~on THEN 0
                   ELSE IF s.focused /\ s.timer = 0 /\ w # None THEN nextTimer[w]
                   ELSE s.timer
  BY <1>2, SetEditableIs
<1> HIDE DEF r
<1>4. Fits(edit[e], r, w)
  BY <1>1, <1>2, <1>3 DEF Fits, Kept, Timed
<1> QED BY <1>4 DEF r, w

----------------------------------------------------------------------------
(* The keys and the calls keep the invariant. *)

LEMMA TextsAreSequences ==
  ASSUME NEW e \in Edits
  PROVE  Texts[e] \subseteq Seq(Letters)
<1>1. ASSUME NEW n \in 0..MaxText[e], NEW f \in [1..n -> Letters]
      PROVE  f \in Seq(Letters)
  <2>1. n \in Nat
    BY ConstantsAssumption
  <2> QED BY <2>1
<1> QED BY <1>1 DEF Texts

\* What on_text_changed_ leaves halfway: the text t with the caret at p, and c typed there.
LEMMA HalfwayIs ==
  ASSUME NEW s, Good(s), NEW t \in Seq(Letters), NEW p \in 0..Len(t), NEW c \in Letters
  PROVE  LET r == Insert(At([s EXCEPT !.text = t], p), c) IN
         /\ Good(r) /\ Kept(s, r)
         /\ Before(r.text, r.cursor) = Append(SubSeq(t, 1, p), c)
         /\ After(r.text, r.cursor) = SubSeq(t, p + 1, Len(t))
         /\ ~HasSelection(r)
<1> DEFINE now == At([s EXCEPT !.text = t], p)
<1>1. s \in EditState /\ p \in Nat /\ p <= Len(t)
  BY DEF Good
<1>2. Good(now) /\ Kept(s, now) /\ now.text = t /\ now.cursor = p
  BY <1>1, AtOfText
<1> HIDE DEF now
<1> DEFINE r == Insert(now, c)
<1>3. /\ Good(r) /\ Kept(now, r)
      /\ Before(r.text, r.cursor) = Append(Before(now.text, now.cursor), c)
      /\ After(r.text, r.cursor) = After(now.text, now.cursor)
      /\ ~HasSelection(r)
  BY <1>2, InsertIs
<1> HIDE DEF r
<1>4. Kept(s, r)
  BY <1>2, <1>3 DEF Kept
<1>5. Before(now.text, now.cursor) = SubSeq(t, 1, p) /\ After(now.text, now.cursor) = SubSeq(t, p + 1, Len(t))
  BY <1>2 DEF Before, After
<1> QED BY <1>3, <1>4, <1>5 DEF now, r

\* The text an edit holds when a letter goes in, if nothing happens halfway.
Bare(s) == IF HasSelection(s) THEN DeleteSelection(s) ELSE s

LEMMA BareIs ==
  ASSUME NEW s, Good(s)
  PROVE  /\ Good(Bare(s)) /\ Kept(s, Bare(s))
         /\ Before(Bare(s).text, Bare(s).cursor) =
              IF HasSelection(s) THEN <<>> ELSE Before(s.text, s.cursor)
         /\ After(Bare(s).text, Bare(s).cursor) =
              IF HasSelection(s) THEN <<>> ELSE After(s.text, s.cursor)
<1>1. CASE HasSelection(s)
  <2> DEFINE r == DeleteSelection(s)
             t == <<>>
  <2>1. Good(r) /\ Kept(s, r) /\ r.text = t /\ r.cursor = 0
    BY <1>1, DeleteSelectionIs
  <2>2. t \in Seq(Letters) /\ t = <<>>
    OBVIOUS
  <2>3. Bare(s) = r
    BY <1>1 DEF Bare
  <2> HIDE DEF r, t
  <2>4. Before(t, 0) = <<>> /\ After(t, 0) = t
    BY <2>2, CutAtEnds
  <2> QED BY <1>1, <2>1, <2>2, <2>3, <2>4
<1>2. CASE ~HasSelection(s)
  BY <1>2 DEF Bare, Kept
<1> QED BY <1>1, <1>2

LEMMA KeysKeep ==
  ASSUME IInv, NEW e \in Edits,
         \/ Keys(e)
         \/ MakeEditable(e)
         \/ \E w \in Windows : Fire(w, e)
  PROVE  IInv'
<1> DEFINE s == edit[e]
           w == place[e]
<1>1. SUFFICES \E r : Fits(s, r, w) /\ Changes(e, r)
  BY ChangesKeeps
<1>2. \A r : Becomes(e, r) => Changes(e, r) /\ e \in alive
  BY DEF Becomes, Changes
<1>3. Good(s) /\ s \in EditState
  BY DEF IInv, TypeOK, Positions, Good
<1>4. ASSUME NEW r, Good(r), Kept(s, r), Becomes(e, r)
      PROVE  \E q : Fits(s, q, w) /\ Changes(e, q)
  BY <1>2, <1>4, KeptFits
<1>5. CASE \E c \in Letters : TypeLetter(e, c)
  <2>1. PICK c \in Letters : Becomes(e, Insert(Bare(s), c))
    BY <1>5 DEF TypeLetter, Bare
  <2>2. Good(Bare(s)) /\ Kept(s, Bare(s))
    BY <1>3, BareIs
  <2>3. Good(Insert(Bare(s), c)) /\ Kept(Bare(s), Insert(Bare(s), c))
    BY <2>2, InsertIs
  <2>4. Kept(s, Insert(Bare(s), c))
    BY <2>2, <2>3 DEF Kept
  <2> QED BY <1>4, <2>1, <2>3, <2>4
<1>13. CASE \E t \in TextsHalfway(e) : \E p \in 0..Len(t), c \in Letters : TypeInto(e, c, t, p)
  <2>1. PICK t \in TextsHalfway(e) : \E p \in 0..Len(t), c \in Letters : TypeInto(e, c, t, p)
    BY <1>13
  <2>2. PICK p \in 0..Len(t), c \in Letters : TypeInto(e, c, t, p)
    BY <2>1
  <2> DEFINE bare == DeleteSelection(s)
  <2>3. PICK now \in {bare, SetEditable(bare, FALSE, w)} :
          Becomes(e, Insert(At([now EXCEPT !.text = t], p), c))
    BY <2>2 DEF TypeInto
  <2> DEFINE r == Insert(At([now EXCEPT !.text = t], p), c)
  <2>4. HasSelection(s) /\ t \in Seq(Letters)
    BY TextsAreSequences DEF TextsHalfway
  <2>5. Good(bare) /\ Kept(s, bare)
    BY <1>3, <2>4, DeleteSelectionIs
  <2> HIDE DEF bare
  <2>6. e \in alive /\ Changes(e, r)
    BY <1>2, <2>3
  <2>7. Fits(s, now, w)
    <3>1. FALSE \in BOOLEAN
      OBVIOUS
    <3> QED BY <2>3, <2>5, <2>6, <3>1, KeptFits, EditableFits
  <2>8. Good(r) /\ Kept(now, r)
    BY <2>4, <2>7, HalfwayIs DEF Fits
  <2> HIDE DEF r
  <2>9. Fits(s, r, w)
    BY <2>7, <2>8 DEF Fits, Kept
  <2> QED BY <2>6, <2>9
<1>6. CASE \E p \in 0..MaxText[e] : MoveTo(e, p)
  <2>1. PICK p \in 0..MaxText[e] : Becomes(e, MoveCursor(s, p))
    BY <1>6 DEF MoveTo
  <2>2. Good(MoveCursor(s, p)) /\ Kept(s, MoveCursor(s, p))
    BY <1>3, MoveCursorIs, ConstantsAssumption
  <2> QED BY <1>4, <2>1, <2>2
<1>7. CASE \E t \in Texts[e] : ReplaceText(e, t)
  <2>1. PICK t \in Texts[e] : Becomes(e, SetText(s, t))
    BY <1>7 DEF ReplaceText
  <2>2. Good(SetText(s, t)) /\ Kept(s, SetText(s, t))
    BY <1>3, TextsAreSequences, SetTextIs
  <2> QED BY <1>4, <2>1, <2>2
<1>8. CASE PressBackspace(e)
  <2>1. Becomes(e, Backspace(s)) /\ Good(Backspace(s)) /\ Kept(s, Backspace(s))
    BY <1>3, <1>8, BackspaceIs DEF PressBackspace
  <2> QED BY <1>4, <2>1
<1>9. CASE PressDelete(e)
  <2>1. Becomes(e, DeleteForward(s)) /\ Good(DeleteForward(s)) /\ Kept(s, DeleteForward(s))
    BY <1>3, <1>9, DeleteForwardIs DEF PressDelete
  <2> QED BY <1>4, <2>1
<1>10. CASE PressSelectAll(e)
  <2>1. Becomes(e, SelectAll(s)) /\ Good(SelectAll(s)) /\ Kept(s, SelectAll(s))
    BY <1>3, <1>10, SelectAllIs DEF PressSelectAll
  <2> QED BY <1>4, <2>1
<1>11. CASE MakeEditable(e)
  <2>1. Becomes(e, SetEditable(s, ~s.editable, w))
    BY <1>11 DEF MakeEditable
  <2>2. (~s.editable) \in BOOLEAN /\ Kept(s, s)
    <3>1. s.editable \in BOOLEAN
      BY <1>3 DEF EditState
    <3> QED BY <3>1 DEF Kept
  <2>3. e \in alive /\ Changes(e, SetEditable(s, ~s.editable, w))
    BY <1>2, <2>1
  <2>4. Fits(s, SetEditable(s, ~s.editable, w), w)
    BY <1>3, <2>2, <2>3, EditableFits
  <2> QED BY <2>3, <2>4
<1>12. CASE \E v \in Windows : Fire(v, e)
  <2>1. Becomes(e, IF s.editable /\ s.focused THEN [s EXCEPT !.visible = ~@] ELSE Stopped(s))
    BY <1>12 DEF Fire
  <2>2. CASE s.editable /\ s.focused
    <3> DEFINE r == [s EXCEPT !.visible = ~@]
    <3>1. Becomes(e, r)
      BY <2>1, <2>2
    <3>2. r \in EditState /\ SameText(s, r) /\ Kept(s, r)
      BY <1>3 DEF EditState, SameText, Kept
    <3> HIDE DEF r
    <3>3. Good(r)
      BY <1>3, <3>2, GoodAgain
    <3> QED BY <1>4, <3>1, <3>2, <3>3
  <2>3. CASE ~(s.editable /\ s.focused)
    <3>1. e \in alive /\ Changes(e, Stopped(s))
      BY <1>2, <2>1, <2>3
    <3>2. LET r == Stopped(s) IN
          /\ Good(r) /\ r.focused = s.focused /\ r.editable = s.editable /\ r.timer = 0
      BY <1>3, StoppedIs
    <3>3. Fits(s, Stopped(s), w)
      BY <2>3, <3>2 DEF Fits
    <3> QED BY <3>1, <3>3
  <2> QED BY <2>2, <2>3
<1> QED BY <1>5, <1>6, <1>7, <1>8, <1>9, <1>10, <1>11, <1>12, <1>13 DEF Keys

----------------------------------------------------------------------------
(* So does the focus. *)

\* The edits and the timers once the edit that had the focus of window w has lost it.
Out(w) == IF focus[w] = None THEN edit ELSE [edit EXCEPT ![focus[w]] = Blurred(@)]
Left(w) == IF focus[w] = None THEN timers ELSE TimersAfter(timers, focus[w], Blurred(edit[focus[w]]))

LEMMA FocusLeaves ==
  ASSUME IInv, NEW w \in Windows
  PROVE  /\ Out(w) \in [Edits -> EditState]
         /\ \A x \in Edits : Good(Out(w)[x]) /\ Timed(Out(w)[x])
         /\ \A x \in Edits : Out(w)[x].editable = edit[x].editable
         /\ \A x \in Edits : x # focus[w] => Out(w)[x] = edit[x]
         /\ focus[w] # None => /\ focus[w] \in alive /\ place[focus[w]] = w
                               /\ Out(w)[focus[w]] = Blurred(edit[focus[w]])
                               /\ ~Out(w)[focus[w]].focused
         /\ \A x \in alive : place[x] = w => ~Out(w)[x].focused
         /\ Left(w) = [timers EXCEPT ![w] = {}]
<1>1. /\ TypeOK /\ Positions /\ Timing /\ Focusing /\ Running
      /\ None \notin Windows /\ None \notin Edits /\ MaxTimer \in Nat
  BY ConstantsAssumption DEF IInv
<1>2. \A x \in Edits : Good(edit[x]) /\ Timed(edit[x]) /\ edit[x] \in EditState
  BY <1>1 DEF TypeOK, Positions, Timing, Good
<1>3. \A x \in alive : x \in Edits /\ (place[x] = w /\ edit[x].focused => focus[w] = x)
  BY <1>1 DEF Focusing, TypeOK
<1>4. CASE focus[w] = None
  <2>1. Out(w) = edit /\ Left(w) = timers
    BY <1>4 DEF Out, Left
  <2>2. timers[w] = {}
    BY <1>1, <1>4 DEF Running
  <2>3. Left(w) = [timers EXCEPT ![w] = {}]
    BY <1>1, <2>1, <2>2 DEF TypeOK
  <2>4. \A x \in alive : place[x] = w => ~edit[x].focused
    BY <1>1, <1>3, <1>4 DEF TypeOK
  <2> QED BY <1>1, <1>2, <1>4, <2>1, <2>3, <2>4 DEF TypeOK
<1>5. CASE focus[w] # None
  <2> DEFINE old == focus[w]
             r == Blurred(edit[old])
  <2>1. old \in Edits /\ old \in alive /\ place[old] = w
    BY <1>1, <1>5 DEF Focusing, TypeOK
  <2>2. /\ Good(r) /\ ~r.focused /\ r.editable = edit[old].editable /\ r.timer = 0
    BY <1>2, <2>1, BlurredIs
  <2>3. r \in EditState /\ Timed(r)
    BY <1>1, <2>2 DEF Good, Timed
  <2>4. Out(w) = [edit EXCEPT ![old] = r]
    BY <1>5 DEF Out
  <2>5. Left(w) = TimersAfter(timers, old, r)
    BY <1>5 DEF Left
  <2> HIDE DEF r
  <2>6. /\ Out(w) \in [Edits -> EditState] /\ Out(w)[old] = r
        /\ \A x \in Edits : x # old => Out(w)[x] = edit[x]
    BY <1>1, <2>1, <2>3, <2>4 DEF TypeOK
  <2>7. \A x \in alive : place[x] = w => ~Out(w)[x].focused
    BY <1>3, <2>2, <2>6
  <2>8. Left(w) = [timers EXCEPT ![w] = {}]
    <3>1. timers[w] = IF edit[old].timer = 0 THEN {} ELSE {<<edit[old].timer, old>>}
      BY <1>1, <1>5 DEF Running
    <3>2. CASE edit[old].timer = 0
      <4>1. Left(w) = timers
        BY <2>2, <2>5, <3>2 DEF TimersAfter
      <4> QED BY <1>1, <3>1, <3>2, <4>1 DEF TypeOK
    <3>3. CASE edit[old].timer # 0
      <4> DEFINE new == {t \in timers[w] : t[1] # edit[old].timer} \cup
                          IF r.timer = 0 THEN {} ELSE {<<r.timer, old>>}
      <4>1. Left(w) = [timers EXCEPT ![w] = new]
        BY <1>1, <2>1, <2>2, <2>5, <3>3 DEF TimersAfter
      <4>2. new = {}
        BY <2>2, <3>1, <3>3
      <4> HIDE DEF new
      <4> QED BY <4>1, <4>2
    <3> QED BY <3>2, <3>3
  <2>9. \A x \in Edits : Out(w)[x].editable = edit[x].editable
    BY <2>2, <2>6
  <2>10. \A x \in Edits : Good(Out(w)[x]) /\ Timed(Out(w)[x])
    BY <1>2, <2>2, <2>3, <2>6
  <2>11. Out(w)[old] = Blurred(edit[old])
    BY <2>6 DEF r
  <2> QED BY <1>5, <2>1, <2>2, <2>6, <2>7, <2>8, <2>9, <2>10, <2>11
<1> QED BY <1>4, <1>5

\* Nothing takes the focus that was lost.
LEMMA NoFocusKeeps ==
  ASSUME IInv, NEW w \in Windows,
         focus' = [focus EXCEPT ![w] = None], edit' = Out(w), timers' = Left(w),
         UNCHANGED <<nextTimer, alive, place, open>>
  PROVE  IInv'
<1>1. /\ TypeOK /\ Positions /\ Timing /\ Focusing /\ Running
      /\ None \notin Windows /\ None \notin Edits
  BY ConstantsAssumption DEF IInv
<1>2. /\ edit' \in [Edits -> EditState]
      /\ \A x \in Edits : Good(edit'[x]) /\ Timed(edit'[x])
      /\ \A x \in Edits : x # focus[w] => edit'[x] = edit[x]
      /\ focus[w] # None => /\ focus[w] \in alive /\ place[focus[w]] = w
      /\ \A x \in alive : place[x] = w => ~edit'[x].focused
      /\ timers' = [timers EXCEPT ![w] = {}]
  BY FocusLeaves
<1>3. /\ focus'[w] = None /\ \A u \in Windows : u # w => focus'[u] = focus[u]
      /\ timers'[w] = {} /\ \A u \in Windows : u # w => timers'[u] = timers[u]
  BY <1>1, <1>2 DEF TypeOK
<1>4. TypeOK'
  <2>1. \A e \in Edits : edit'[e].to <= edit'[e].cursor /\ edit'[e].cursor <= Len(edit'[e].text)
    BY <1>2 DEF Good, Placed, EditState
  <2> QED BY <1>1, <1>2, <2>1 DEF TypeOK
<1>5. Positions' /\ Timing'
  BY <1>2 DEF Positions, Timing, Good
<1>6. Focusing'
  <2>1. ASSUME NEW u \in Windows, focus'[u] # None
        PROVE  focus'[u] \in alive /\ place[focus'[u]] = u /\ edit'[focus'[u]].focused
    <3>1. u # w /\ focus'[u] = focus[u]
      BY <1>3, <2>1
    <3>2. focus[u] \in Edits /\ focus[u] \in alive /\ place[focus[u]] = u /\ edit[focus[u]].focused
      BY <1>1, <2>1, <3>1 DEF Focusing, TypeOK
    <3>3. focus[u] # focus[w]
      BY <1>1, <1>2, <2>1, <3>1, <3>2
    <3> QED BY <1>2, <3>1, <3>2, <3>3
  <2>2. ASSUME NEW x \in alive, place[x] # None, edit'[x].focused
        PROVE  focus'[place[x]] = x /\ (edit'[x].editable => edit'[x].timer # 0)
    <3>1. x \in Edits /\ place[x] \in Windows /\ place[x] # w
      BY <1>1, <1>2, <2>2 DEF TypeOK
    <3>2. edit'[x] = edit[x]
      BY <1>1, <1>2, <3>1
    <3> QED BY <1>1, <1>3, <2>2, <3>1, <3>2 DEF Focusing
  <2> QED BY <2>1, <2>2 DEF Focusing
<1>7. Running'
  <2>1. ASSUME NEW u \in Windows
        PROVE  timers'[u] = IF focus'[u] = None \/ edit'[focus'[u]].timer = 0 THEN {}
                            ELSE {<<edit'[focus'[u]].timer, focus'[u]>>}
    <3>1. CASE u = w
      BY <1>3, <3>1
    <3>2. CASE u # w
      <4> DEFINE f == focus[u]
      <4>1. f # None => edit'[f] = edit[f]
        BY <1>1, <1>2, <3>2 DEF Focusing, TypeOK
      <4>2. timers[u] = IF f = None \/ edit[f].timer = 0 THEN {} ELSE {<<edit[f].timer, f>>}
        BY <1>1 DEF Running
      <4>3. focus'[u] = f /\ timers'[u] = timers[u]
        BY <1>3, <3>2
      <4> HIDE DEF f
      <4> QED BY <4>1, <4>2, <4>3
    <3> QED BY <3>1, <3>2
  <2> QED BY <2>1 DEF Running
<1> QED BY <1>4, <1>5, <1>6, <1>7 DEF IInv

\* An edit v of the window takes it.
LEMMA NewFocusKeeps ==
  ASSUME IInv, NEW w \in Windows, NEW v \in alive, place[v] = w, edit[v].editable,
         v # focus[w], NEW got, got = Focused(Out(w)[v], w), got.timer <= MaxTimer,
         focus' = [focus EXCEPT ![w] = v], edit' = [Out(w) EXCEPT ![v] = got],
         timers' = TimersAfter(Left(w), v, got), nextTimer' = CountAfter(v, got),
         UNCHANGED <<alive, place, open>>
  PROVE  IInv'
<1>1. /\ TypeOK /\ Positions /\ Timing /\ Focusing /\ Running
      /\ None \notin Windows /\ None \notin Edits /\ None \notin Nat /\ MaxTimer \in Nat
      /\ v \in Edits
  BY ConstantsAssumption DEF IInv, TypeOK
<1>2. /\ Out(w) \in [Edits -> EditState]
      /\ \A x \in Edits : Good(Out(w)[x]) /\ Timed(Out(w)[x])
      /\ \A x \in Edits : Out(w)[x].editable = edit[x].editable
      /\ \A x \in Edits : x # focus[w] => Out(w)[x] = edit[x]
      /\ focus[w] # None => /\ focus[w] \in alive /\ place[focus[w]] = w
      /\ \A x \in alive : place[x] = w => ~Out(w)[x].focused
      /\ Left(w) = [timers EXCEPT ![w] = {}]
  BY FocusLeaves
<1>3. nextTimer[w] \in 1..(MaxTimer + 1) /\ nextTimer[w] \in Nat
  BY <1>1 DEF TypeOK
<1>4. Out(w)[v] = edit[v] /\ edit[v].timer = 0
  <2>1. ~edit[v].focused /\ Out(w)[v] = edit[v]
    BY <1>1, <1>2
  <2> QED BY <1>1, <2>1 DEF Timing, Timed
<1>5. Good(got) /\ got.focused /\ got.editable /\ got.timer = nextTimer[w]
  BY <1>1, <1>2, <1>3, <1>4, FocusedIs
<1>6. /\ got \in EditState /\ Timed(got) /\ got.timer # 0 /\ got.timer \in 1..MaxTimer
      /\ got.timer + 1 \in 1..(MaxTimer + 1)
  BY <1>1, <1>3, <1>5 DEF Good, Timed
<1>7. timers' = [timers EXCEPT ![w] = {<<got.timer, v>>}]
  <2>1. timers' = [Left(w) EXCEPT ![w] =
                     {t \in Left(w)[w] : t[1] # edit[v].timer} \cup {<<got.timer, v>>}]
    BY <1>1, <1>4, <1>6 DEF TimersAfter
  <2>2. Left(w)[w] = {}
    BY <1>1, <1>2 DEF TypeOK
  <2>3. {t \in Left(w)[w] : t[1] # edit[v].timer} \cup {<<got.timer, v>>} = {<<got.timer, v>>}
    BY <2>2
  <2>4. timers' = [Left(w) EXCEPT ![w] = {<<got.timer, v>>}]
    BY <2>1, <2>3
  <2> QED BY <1>1, <1>2, <2>4 DEF TypeOK
<1>8. nextTimer' = [nextTimer EXCEPT ![w] = @ + 1]
  BY <1>1, <1>4, <1>6 DEF CountAfter
<1>9. /\ focus'[w] = v /\ \A u \in Windows : u # w => focus'[u] = focus[u]
      /\ timers'[w] = {<<got.timer, v>>}
      /\ \A u \in Windows : u # w => timers'[u] = timers[u]
      /\ edit'[v] = got /\ \A x \in Edits : x # v => edit'[x] = Out(w)[x]
      /\ edit' \in [Edits -> EditState]
  BY <1>1, <1>2, <1>6, <1>7 DEF TypeOK
<1>10. TypeOK'
  <2>1. \A e \in Edits : Good(edit'[e])
    BY <1>2, <1>5, <1>9
  <2>2. \A e \in Edits : edit'[e].to <= edit'[e].cursor /\ edit'[e].cursor <= Len(edit'[e].text)
    BY <2>1 DEF Good, Placed, EditState
  <2>3. timers' \in [Windows -> SUBSET ((1..MaxTimer) \X Edits)]
    BY <1>1, <1>6, <1>7 DEF TypeOK
  <2>4. nextTimer' \in [Windows -> 1..(MaxTimer + 1)]
    BY <1>1, <1>5, <1>6, <1>8 DEF TypeOK
  <2> QED BY <1>1, <1>9, <2>2, <2>3, <2>4 DEF TypeOK
<1>11. Positions' /\ Timing'
  BY <1>2, <1>5, <1>6, <1>9 DEF Positions, Timing, Good
<1>12. Focusing'
  <2>1. ASSUME NEW u \in Windows, focus'[u] # None
        PROVE  focus'[u] \in alive /\ place[focus'[u]] = u /\ edit'[focus'[u]].focused
    <3>1. CASE u = w
      BY <1>5, <1>9, <3>1
    <3>2. CASE u # w
      <4>1. focus[u] \in Edits /\ focus[u] \in alive /\ place[focus[u]] = u /\ edit[focus[u]].focused
        BY <1>1, <1>9, <2>1, <3>2 DEF Focusing, TypeOK
      <4>2. focus[u] # focus[w] /\ focus[u] # v
        BY <1>1, <1>2, <3>2, <4>1
      <4> QED BY <1>2, <1>9, <3>2, <4>1, <4>2
    <3> QED BY <3>1, <3>2
  <2>2. ASSUME NEW x \in alive, place[x] # None, edit'[x].focused
        PROVE  focus'[place[x]] = x /\ (edit'[x].editable => edit'[x].timer # 0)
    <3>1. x \in Edits /\ place[x] \in Windows
      BY <1>1, <2>2 DEF TypeOK
    <3>2. CASE x = v
      BY <1>6, <1>9, <3>2
    <3>3. CASE x # v
      <4>1. place[x] # w
        BY <1>2, <1>9, <2>2, <3>1, <3>3
      <4>2. edit'[x] = edit[x]
        BY <1>1, <1>2, <1>9, <3>1, <3>3, <4>1
      <4> QED BY <1>1, <1>9, <2>2, <3>1, <4>1, <4>2 DEF Focusing
    <3> QED BY <3>2, <3>3
  <2> QED BY <2>1, <2>2 DEF Focusing
<1>13. Running'
  <2>1. ASSUME NEW u \in Windows
        PROVE  timers'[u] = IF focus'[u] = None \/ edit'[focus'[u]].timer = 0 THEN {}
                            ELSE {<<edit'[focus'[u]].timer, focus'[u]>>}
    <3>1. CASE u = w
      <4>1. focus'[u] = v /\ edit'[v] = got /\ timers'[u] = {<<got.timer, v>>}
        BY <1>9, <3>1
      <4>2. v # None /\ got.timer # 0
        BY <1>1, <1>6
      <4> QED BY <4>1, <4>2
    <3>2. CASE u # w
      <4> DEFINE f == focus[u]
      <4>1. f # None => edit'[f] = edit[f]
        BY <1>1, <1>2, <1>9, <3>2 DEF Focusing, TypeOK
      <4>2. timers[u] = IF f = None \/ edit[f].timer = 0 THEN {} ELSE {<<edit[f].timer, f>>}
        BY <1>1 DEF Running
      <4>3. focus'[u] = f /\ timers'[u] = timers[u]
        BY <1>9, <3>2
      <4> HIDE DEF f
      <4> QED BY <4>1, <4>2, <4>3
    <3> QED BY <3>1, <3>2
  <2> QED BY <2>1 DEF Running
<1> QED BY <1>10, <1>11, <1>12, <1>13 DEF IInv

LEMMA Stays ==
  ASSUME IInv, UNCHANGED vars
  PROVE  IInv'
BY DEF vars, views, IInv, TypeOK, Positions, Timing, Focusing, Running

LEMMA SetFocusKeeps ==
  ASSUME IInv, NEW w \in Windows, NEW v \in Edits \cup {None},
         v # None => v \in alive /\ place[v] = w,
         SetFocus(w, v), UNCHANGED <<alive, place, open>>
  PROVE  IInv'
<1> DEFINE old == focus[w]
           new == IF v # None /\ edit[v].editable THEN v ELSE None
           got == Focused(Out(w)[new], w)
<1>1. /\ focus' = [focus EXCEPT ![w] = new]
      /\ IF new = old THEN UNCHANGED <<edit, timers, nextTimer>>
         ELSE IF new = None THEN edit' = Out(w) /\ timers' = Left(w) /\ UNCHANGED nextTimer
         ELSE /\ got.timer <= MaxTimer
              /\ edit' = [Out(w) EXCEPT ![new] = got]
              /\ timers' = TimersAfter(Left(w), new, got)
              /\ nextTimer' = CountAfter(new, got)
  BY DEF SetFocus, Out, Left
<1>2. new # None => new = v /\ new \in alive /\ place[new] = w /\ edit[new].editable
  OBVIOUS
<1> HIDE DEF new, got
<1>3. CASE new = old
  <2>1. focus' = focus
    BY <1>1, <1>3 DEF IInv, TypeOK
  <2> QED BY <1>1, <1>3, <2>1, Stays DEF vars, views
<1>4. CASE new # old /\ new = None
  BY <1>1, <1>4, NoFocusKeeps
<1>5. CASE new # old /\ new # None
  BY <1>1, <1>2, <1>5, NewFocusKeeps DEF got
<1> QED BY <1>3, <1>4, <1>5

LEMMA PressKeeps ==
  ASSUME IInv, NEW w \in Windows, NEW e \in Edits, Press(w, e)
  PROVE  IInv'
<1>1. CASE focus[w] = e /\ edit[e].editable
  <2> DEFINE r == Blink(edit[e])
  <2>1. /\ e \in alive /\ edit' = [edit EXCEPT ![e] = r]
        /\ UNCHANGED <<focus, timers, nextTimer, alive, place, open>>
    BY <1>1 DEF Press
  <2>2. Good(edit[e]) /\ Timed(edit[e])
    BY <2>1, OneEdit
  <2>3. Good(r) /\ Kept(edit[e], r)
    BY <2>2, BlinkKeeps
  <2> HIDE DEF r
  <2>4. r.timer = edit[e].timer /\ r.timer <= MaxTimer
    BY <2>2, <2>3 DEF Kept, Timed
  <2>5. Changes(e, r)
    BY <2>1, <2>4 DEF Changes, TimersAfter, CountAfter, views
  <2> QED BY <2>1, <2>3, <2>5, KeptFits, ChangesKeeps
<1>2. CASE ~(focus[w] = e /\ edit[e].editable)
  <2>1. e \in alive /\ place[e] = w /\ SetFocus(w, e) /\ UNCHANGED <<alive, place, open>>
    BY <1>2 DEF Press
  <2> QED BY <2>1, SetFocusKeeps
<1> QED BY <1>1, <1>2

LEMMA LoseFocusKeeps ==
  ASSUME IInv, NEW w \in Windows, LoseFocus(w)
  PROVE  IInv'
BY SetFocusKeeps DEF LoseFocus

----------------------------------------------------------------------------
(* And so do views that come and go. *)

LEMMA PlacingKeeps ==
  ASSUME IInv, NEW e \in Edits, ~edit[e].focused,
         NEW v \in Windows \cup {None}, place' = [place EXCEPT ![e] = v],
         UNCHANGED <<edit, alive, focus, timers, nextTimer, open>>
  PROVE  IInv'
<1>1. TypeOK /\ Positions /\ Timing /\ Focusing /\ Running
  BY DEF IInv
<1>2. \A x \in Edits : x # e => place'[x] = place[x]
  BY <1>1 DEF TypeOK
<1>3. TypeOK' /\ Positions' /\ Timing' /\ Running'
  BY <1>1 DEF TypeOK, Positions, Timing, Running
<1>4. Focusing'
  <2>1. \A u \in Windows : focus[u] # None => focus[u] # e /\ focus[u] \in Edits
    BY <1>1 DEF Focusing, TypeOK
  <2>2. \A x \in alive : edit[x].focused => x # e /\ x \in Edits
    BY <1>1 DEF TypeOK
  <2> QED BY <1>1, <1>2, <2>1, <2>2 DEF Focusing
<1> QED BY <1>3, <1>4 DEF IInv

LEMMA DestroyKeeps ==
  ASSUME IInv, NEW e \in Edits, Destroy(e)
  PROVE  IInv'
<1> DEFINE r == Stopped(edit[e])
<1>1. /\ e \in alive /\ place[e] = None /\ \A w \in Windows : focus[w] # e
      /\ alive' = alive \ {e} /\ edit' = [edit EXCEPT ![e] = r]
      /\ timers' = timers /\ UNCHANGED <<place, focus, nextTimer, open>>
  BY DEF Destroy, TimersAfter
<1>2. TypeOK /\ Positions /\ Timing /\ Focusing /\ Running /\ MaxTimer \in Nat
  BY ConstantsAssumption DEF IInv
<1>3. Good(r) /\ r.timer = 0
  BY <1>1, OneEdit, StoppedIs
<1> HIDE DEF r
<1>4. r \in EditState /\ Placed(r) /\ Timed(r)
  BY <1>2, <1>3 DEF Good, Timed
<1>5. /\ edit' \in [Edits -> EditState] /\ edit'[e] = r
      /\ \A x \in Edits : x # e => edit'[x] = edit[x]
  BY <1>1, <1>2, <1>4 DEF TypeOK
<1>6. TypeOK'
  <2>1. \A x \in Edits : edit'[x].to <= edit'[x].cursor /\ edit'[x].cursor <= Len(edit'[x].text)
    <3>1. r.to <= r.cursor /\ r.cursor <= Len(r.text)
      BY <1>4 DEF Placed, EditState
    <3> QED BY <1>2, <1>5, <3>1 DEF TypeOK
  <2> QED BY <1>1, <1>2, <1>5, <2>1 DEF TypeOK
<1>7. Positions' /\ Timing'
  BY <1>2, <1>4, <1>5 DEF Positions, Timing
<1>8. Focusing'
  <2>1. \A x \in alive' : x \in alive /\ x \in Edits /\ edit'[x] = edit[x]
    BY <1>1, <1>2, <1>5 DEF TypeOK
  <2>2. \A u \in Windows : focus[u] # None => focus[u] \in alive'
    BY <1>1, <1>2 DEF Focusing
  <2> QED BY <1>1, <1>2, <2>1, <2>2 DEF Focusing
<1>9. Running'
  <2>1. ASSUME NEW u \in Windows
        PROVE  timers'[u] = IF focus'[u] = None \/ edit'[focus'[u]].timer = 0 THEN {}
                            ELSE {<<edit'[focus'[u]].timer, focus'[u]>>}
    <3> DEFINE f == focus[u]
    <3>1. f # None => edit'[f] = edit[f]
      BY <1>1, <1>2, <1>5 DEF TypeOK
    <3>2. timers[u] = IF f = None \/ edit[f].timer = 0 THEN {} ELSE {<<edit[f].timer, f>>}
      BY <1>2 DEF Running
    <3>3. focus'[u] = f /\ timers'[u] = timers[u]
      BY <1>1
    <3> HIDE DEF f
    <3> QED BY <3>1, <3>2, <3>3
  <2> QED BY <2>1 DEF Running
<1> QED BY <1>6, <1>7, <1>8, <1>9 DEF IInv

LEMMA CloseKeeps ==
  ASSUME IInv, NEW w \in Windows, Close(w)
  PROVE  IInv'
<1>1. /\ open' = open \ {w} /\ timers' = [timers EXCEPT ![w] = {}]
      /\ focus' = [focus EXCEPT ![w] = None]
      /\ place' = [e \in Edits |-> IF place[e] = w THEN None ELSE place[e]]
      /\ edit' = edit /\ alive' = alive /\ nextTimer' = nextTimer
  BY DEF Close
<1>2. /\ TypeOK /\ Positions /\ Timing /\ Focusing /\ Running /\ None \notin Windows
  BY ConstantsAssumption DEF IInv
<1>3. /\ focus'[w] = None /\ \A u \in Windows : u # w => focus'[u] = focus[u]
      /\ timers'[w] = {} /\ \A u \in Windows : u # w => timers'[u] = timers[u]
      /\ \A e \in Edits : place'[e] = IF place[e] = w THEN None ELSE place[e]
  BY <1>1, <1>2 DEF TypeOK
<1>4. TypeOK' /\ Positions' /\ Timing'
  BY <1>1, <1>2 DEF TypeOK, Positions, Timing
<1>5. Focusing'
  <2>1. \A e \in alive : e \in Edits
    BY <1>2 DEF TypeOK
  <2> QED BY <1>1, <1>2, <1>3, <2>1 DEF Focusing
<1>6. Running'
  BY <1>1, <1>2, <1>3 DEF Running
<1> QED BY <1>4, <1>5, <1>6 DEF IInv

----------------------------------------------------------------------------
LEMMA InitHolds == Init => IInv
<1> SUFFICES ASSUME Init
             PROVE  IInv
  OBVIOUS
<1>1. \A e \in Edits : /\ edit[e] \in EditState /\ edit[e].text = <<>> /\ edit[e].cursor = 0
                       /\ edit[e].from = 0 /\ edit[e].to = 0 /\ edit[e].last = None
                       /\ ~edit[e].focused /\ edit[e].timer = 0
  BY DEF Init, EditState
<1>2. /\ edit \in [Edits -> EditState] /\ MaxTimer \in Nat
      /\ Len(<<>>) = 0
  BY <1>1, ConstantsAssumption DEF Init
<1>3. TypeOK
  <2>1. \A e \in Edits : edit[e].to <= edit[e].cursor /\ edit[e].cursor <= Len(edit[e].text)
    BY <1>1, <1>2
  <2>2. 1 \in 1..(MaxTimer + 1)
    BY <1>2
  <2>3. nextTimer \in [Windows -> 1..(MaxTimer + 1)]
    BY <2>2 DEF Init
  <2>4. timers \in [Windows -> SUBSET ((1..MaxTimer) \X Edits)]
    BY DEF Init
  <2> QED BY <1>2, <2>1, <2>3, <2>4 DEF Init, TypeOK
<1>4. Positions /\ Timing
  BY <1>1, <1>2 DEF Positions, Placed, Timing, Timed
<1>5. Focusing /\ Running
  BY <1>1 DEF Init, Focusing, Running
<1> QED BY <1>3, <1>4, <1>5 DEF IInv

LEMMA StepKeeps == IInv /\ [Next]_vars => IInv'
<1> SUFFICES ASSUME IInv, [Next]_vars
             PROVE  IInv'
  OBVIOUS
<1>1. CASE UNCHANGED vars
  BY <1>1, Stays
<1>2. ASSUME NEW e \in Edits,
             Keys(e) \/ MakeEditable(e) \/ \E w \in Windows : Fire(w, e)
      PROVE  IInv'
  BY <1>2, KeysKeep
<1>3. ASSUME NEW e \in Edits, RemoveChild(e)
      PROVE  IInv'
  BY <1>3, PlacingKeeps DEF RemoveChild
<1>4. ASSUME NEW e \in Edits, Destroy(e)
      PROVE  IInv'
  BY <1>4, DestroyKeeps
<1>5. ASSUME NEW w \in Windows, NEW e \in Edits, Press(w, e)
      PROVE  IInv'
  BY <1>5, PressKeeps
<1>6. ASSUME NEW w \in Windows, NEW e \in Edits, PutIn(e, w)
      PROVE  IInv'
  BY <1>6, PlacingKeeps DEF PutIn
<1>7. ASSUME NEW w \in Windows, LoseFocus(w)
      PROVE  IInv'
  BY <1>7, LoseFocusKeeps
<1>8. ASSUME NEW w \in Windows, Close(w)
      PROVE  IInv'
  BY <1>8, CloseKeeps
<1> QED BY <1>1, <1>2, <1>3, <1>4, <1>5, <1>6, <1>7, <1>8 DEF Next

\* Whatever the edits, the windows and the bounds, the invariant holds (text_edit.cc,
\* win32_window.cc 876-933).
THEOREM InvariantHolds == Spec => []IInv
BY InitHolds, StepKeeps, PTL DEF Spec

\* Each variable stays what TypeOK says: no caret is ever outside its text (text_edit.cc
\* 204-241).
THEOREM TypeCorrect == Spec => []TypeOK
<1>1. IInv => TypeOK
  BY DEF IInv
<1> QED BY <1>1, InvariantHolds, PTL

LEMMA RunningOfCarets == IInv => CaretTimers
<1> SUFFICES ASSUME IInv, NEW w \in Windows
             PROVE  timers[w] = {<<edit[e].timer, e>> :
                       e \in {x \in alive : place[x] = w /\ edit[x].focused /\ edit[x].editable}}
  BY DEF CaretTimers
<1> DEFINE f == focus[w]
           blinking == {x \in alive : place[x] = w /\ edit[x].focused /\ edit[x].editable}
<1>1. /\ TypeOK /\ Timing /\ Focusing /\ Running /\ None \notin Windows
  BY ConstantsAssumption DEF IInv
<1>2. timers[w] = IF f = None \/ edit[f].timer = 0 THEN {} ELSE {<<edit[f].timer, f>>}
  BY <1>1 DEF Running
<1>3. \A x \in blinking : f = x /\ f # None /\ edit[x].timer # 0
  BY <1>1, ConstantsAssumption DEF Focusing, TypeOK
<1>4. f # None /\ edit[f].timer # 0 => f \in blinking
  BY <1>1 DEF Focusing, Timing, Timed, TypeOK
<1> HIDE DEF f, blinking
<1>5. CASE f = None \/ edit[f].timer = 0
  <2>1. blinking = {}
    BY <1>3, <1>5
  <2> QED BY <1>2, <1>5, <2>1 DEF blinking
<1>6. CASE ~(f = None \/ edit[f].timer = 0)
  <2>1. blinking = {f}
    BY <1>3, <1>4, <1>6
  <2>2. {<<edit[e].timer, e>> : e \in blinking} = {<<edit[f].timer, f>>}
    BY <2>1
  <2> QED BY <1>2, <1>6, <2>2 DEF blinking
<1> QED BY <1>5, <1>6

\* The timers of every window are those of the carets that blink in it, under the
\* identifiers their edits stop them by (text_edit.cc 186-202, 471-500).
THEOREM CaretsAlwaysTimed == Spec => []CaretTimers
BY RunningOfCarets, InvariantHolds, PTL

----------------------------------------------------------------------------
(* The caret blinks. *)

\* The fairness of FairSpec, with the guard of Fire for ENABLED and for the timer of an
\* edit wherever it runs: again and again the edit has none, or WM_TIMER is handled for it.
TimerRuns(e) == e \in alive /\ \E w \in Windows : \E t \in timers[w] : t[2] = e

FireAny(e) == \E w \in Windows : Fire(w, e)

TimersComeFor(e) == []<>~TimerRuns(e) \/ []<><<FireAny(e)>>_vars

TimersCome == \A e \in Edits : TimersComeFor(e)

LEMMA ReadyIsTimed ==
  ASSUME TypeOK, CaretTimers, NEW e \in Edits, Ready(e)
  PROVE  TimerRuns(e)
<1>1. place[e] \in Windows BY DEF Ready, TypeOK
<1>2. <<edit[e].timer, e>> \in timers[place[e]] BY <1>1 DEF Ready, CaretTimers
<1>3. <<edit[e].timer, e>>[2] = e OBVIOUS
<1> QED BY <1>1, <1>2, <1>3 DEF Ready, TimerRuns

LEMMA FireTurns ==
  ASSUME TypeOK, NEW e \in Edits, Ready(e), FireAny(e)
  PROVE  DrawsCaret(e)' = ~DrawsCaret(e)
<1>1. edit[e].editable /\ edit[e].focused BY DEF Ready
<1>2. edit' = [edit EXCEPT ![e] = [edit[e] EXCEPT !.visible = ~edit[e].visible]]
  BY <1>1 DEF FireAny, Fire, Becomes
<1>3. DOMAIN edit = Edits /\ edit[e] \in EditState BY DEF TypeOK
<1>4. edit'[e] = [edit[e] EXCEPT !.visible = ~edit[e].visible] BY <1>2, <1>3
<1> QED BY <1>1, <1>3, <1>4 DEF DrawsCaret, EditState

\* The caret of any edit that has the focus goes on and off, in any window and whatever is
\* typed: its timer runs for as long as the edit is ready, and WM_TIMER turns the caret
\* (text_edit.cc 471-489).
THEOREM CaretsBlink == Spec /\ TimersCome => Blinks
<1>1. ASSUME NEW e \in Edits
      PROVE  Spec /\ TimersComeFor(e) =>
               /\ Ready(e) /\ DrawsCaret(e) ~> ~(Ready(e) /\ DrawsCaret(e))
               /\ Ready(e) /\ ~DrawsCaret(e) ~> ~Ready(e) \/ DrawsCaret(e)
  <2>1. TypeOK /\ CaretTimers /\ Ready(e) => TimerRuns(e) BY ReadyIsTimed
  <2>2. TypeOK /\ Ready(e) /\ DrawsCaret(e) /\ <<FireAny(e)>>_vars => ~DrawsCaret(e)'
    BY FireTurns
  <2>3. TypeOK /\ Ready(e) /\ ~DrawsCaret(e) /\ <<FireAny(e)>>_vars => DrawsCaret(e)'
    BY FireTurns
  <2> QED BY <2>1, <2>2, <2>3, TypeCorrect, CaretsAlwaysTimed, PTL DEF TimersComeFor
<1>2. Spec /\ TimersCome => \A e \in Edits : Spec /\ TimersComeFor(e) BY DEF TimersCome
<1> QED BY <1>1, <1>2 DEF Blinks

----------------------------------------------------------------------------
(* Each operation on an edit is the one of its name on its TextBuffer. *)

LEMMA JoinedHere ==
  ASSUME NEW s, Good(s)
  PROVE  Before(s.text, s.cursor) \o After(s.text, s.cursor) = s.text
<1>1. s.text \in Seq(Letters) /\ s.cursor \in Nat /\ s.cursor <= Len(s.text)
  BY DEF Good, Placed, EditState
<1> QED BY <1>1, CutAndJoined

\* What TextBuffer sees of an edit before and after a step.
LEMMA BufferIs ==
  ASSUME NEW e \in Edits
  PROVE  /\ Buffer(e)!Text = Before(edit[e].text, edit[e].cursor) \o After(edit[e].text, edit[e].cursor)
         /\ Buffer(e)!Text' =
              Before(edit'[e].text, edit'[e].cursor) \o After(edit'[e].text, edit'[e].cursor)
BY DEF Before, After, Buffer!Text

LEMMA Became ==
  ASSUME IInv, NEW e \in Edits, NEW r, Becomes(e, r)
  PROVE  Good(edit[e]) /\ edit'[e] = r /\ focus' = focus /\ \A x \in Edits : x # e => edit'[x] = edit[x]
BY DEF IInv, TypeOK, Positions, Good, Becomes, views

LEMMA LetterAsPromised ==
  ASSUME IInv, NEW e \in Edits, NEW c \in Letters, TypeLetter(e, c)
  PROVE  Buffer(e)!Type(c)
<1> DEFINE s == edit[e]
           r == Insert(Bare(s), c)
<1>1. Becomes(e, r)
  BY DEF TypeLetter, Bare
<1>2. Good(s) /\ edit'[e] = r
  BY <1>1, Became
<1>3. /\ Before(r.text, r.cursor) = Append(IF HasSelection(s) THEN <<>> ELSE Before(s.text, s.cursor), c)
      /\ After(r.text, r.cursor) = IF HasSelection(s) THEN <<>> ELSE After(s.text, s.cursor)
      /\ ~HasSelection(r)
  BY <1>2, BareIs, InsertIs
<1> HIDE DEF r
<1> QED BY <1>2, <1>3 DEF Before, After, HasSelection, Buffer!Type

LEMMA IntoAsPromised ==
  ASSUME IInv, NEW e \in Edits, NEW t \in TextsHalfway(e), NEW p \in 0..Len(t), NEW c \in Letters,
         TypeInto(e, c, t, p)
  PROVE  Buffer(e)!TypeInto(SubSeq(t, 1, p), SubSeq(t, p + 1, Len(t)), c)
<1> DEFINE s == edit[e]
           bare == DeleteSelection(s)
<1>1. HasSelection(s) /\ t \in Seq(Letters)
  BY TextsAreSequences DEF TextsHalfway
<1>2. PICK now \in {bare, SetEditable(bare, FALSE, place[e])} :
        Becomes(e, Insert(At([now EXCEPT !.text = t], p), c))
  BY DEF TypeInto
<1> DEFINE r == Insert(At([now EXCEPT !.text = t], p), c)
<1>3. Good(s) /\ edit'[e] = r
  BY <1>2, Became
<1>4. Good(bare)
  BY <1>1, <1>3, DeleteSelectionIs
<1> HIDE DEF bare
<1>5. Good(now)
  <2>1. FALSE \in BOOLEAN
    OBVIOUS
  <2>2. place[e] # None => nextTimer[place[e]] \in Nat
    BY ConstantsAssumption DEF IInv, TypeOK
  <2>3. Good(SetEditable(bare, FALSE, place[e]))
    BY <1>4, <2>1, <2>2, SetEditableIs
  <2> QED BY <1>2, <1>4, <2>3
<1>6. /\ Before(r.text, r.cursor) = Append(SubSeq(t, 1, p), c)
      /\ After(r.text, r.cursor) = SubSeq(t, p + 1, Len(t))
      /\ ~HasSelection(r)
  BY <1>1, <1>5, HalfwayIs
<1> HIDE DEF r
<1> DEFINE b == SubSeq(t, 1, p)
           a == SubSeq(t, p + 1, Len(t))
<1>7. Before(r.text, r.cursor) = Append(b, c) /\ After(r.text, r.cursor) = a
  BY <1>6
<1> HIDE DEF b, a
<1>8. Buffer(e)!TypeInto(b, a, c)
  BY <1>1, <1>3, <1>6, <1>7 DEF Before, After, HasSelection, Buffer!TypeInto
<1> QED BY <1>8 DEF b, a

\* Wherever the caret is sent, it ends at a place in the text.
LEMMA MoveAsPromised ==
  ASSUME IInv, NEW e \in Edits, NEW p \in Nat, Becomes(e, MoveCursor(edit[e], p))
  PROVE  /\ Buffer(e)!MoveTo(p)
         /\ \E q \in 0..Len(Buffer(e)!Text) : Buffer(e)!MoveTo(q)
<1> DEFINE s == edit[e]
           r == MoveCursor(s, p)
           q == IF p <= Len(s.text) THEN p ELSE Len(s.text)
<1>1. Good(s) /\ edit'[e] = r
  BY Became
<1>2. s \in EditState /\ Len(s.text) \in Nat
  BY <1>1 DEF Good, EditState
<1>3. Good(r) /\ r.text = s.text /\ ~HasSelection(r) /\ r.cursor = q
  BY <1>2, MoveCursorIs
<1> HIDE DEF r
<1>4. Len(Before(r.text, r.cursor)) = q
  BY <1>3, Cut DEF Good, Placed, EditState
<1>5. Buffer(e)!Text = s.text /\ Buffer(e)!Text' = s.text
  BY <1>1, <1>3, JoinedHere, BufferIs
<1>6. /\ Before(r.text, r.cursor) \o After(r.text, r.cursor) = s.text
  BY <1>3, JoinedHere
<1>7. q \in 0..Len(s.text) /\ (IF q <= Len(s.text) THEN q ELSE Len(s.text)) = q
  BY <1>2
<1> HIDE DEF q
<1>8. ASSUME NEW m, (IF m <= Len(s.text) THEN m ELSE Len(s.text)) = q
      PROVE  Buffer(e)!MoveTo(m)
  BY <1>1, <1>3, <1>4, <1>5, <1>6, <1>8 DEF Before, After, HasSelection, Buffer!MoveTo
<1>9. (IF p <= Len(s.text) THEN p ELSE Len(s.text)) = q
  BY DEF q
<1> QED BY <1>5, <1>7, <1>8, <1>9

LEMMA ReplaceAsPromised ==
  ASSUME IInv, NEW e \in Edits, NEW t \in Seq(Letters), Becomes(e, SetText(edit[e], t))
  PROVE  Buffer(e)!Replace(t) /\ Buffer(e)!Text' = t
<1> DEFINE s == edit[e]
           r == SetText(s, t)
<1>1. Good(s) /\ edit'[e] = r
  BY Became
<1>2. Good(r) /\ r.text = t
  BY <1>1, SetTextIs
<1>3. Buffer(e)!Text = s.text /\ Buffer(e)!Text' = t
  BY <1>1, <1>2, JoinedHere, BufferIs
<1>4. CASE t = s.text
  <2>1. r = s
    BY <1>4 DEF SetText
  <2>2. UNCHANGED Buffer(e)!vars
    BY <1>1, <2>1 DEF HasSelection, Buffer!vars
  <2> QED BY <1>3, <1>4, <2>2 DEF Buffer!Replace
<1>5. CASE t # s.text
  <2>1. s \in EditState /\ Len(t) \in Nat /\ Len(t) <= Len(t)
    BY <1>1 DEF Good
  <2>2. r = At([s EXCEPT !.text = t], Len(t))
    BY <1>5 DEF SetText
  <2>3. r.text = t /\ r.cursor = Len(t) /\ ~HasSelection(r)
    BY <2>1, <2>2, AtOfText
  <2> HIDE DEF r
  <2>4. Before(r.text, r.cursor) = t /\ After(r.text, r.cursor) = <<>>
    BY <2>3, CutAtEnds
  <2>5. Buffer(e)!Replace(t)
    BY <1>1, <1>3, <1>5, <2>3, <2>4 DEF Before, After, HasSelection, Buffer!Replace
  <2> QED BY <1>3, <2>5
<1> QED BY <1>4, <1>5

LEMMA SelectAllAsPromised ==
  ASSUME IInv, NEW e \in Edits, PressSelectAll(e)
  PROVE  Buffer(e)!MarkAll
<1> DEFINE s == edit[e]
           r == SelectAll(s)
<1>1. Good(s) /\ edit'[e] = r
  BY Became DEF PressSelectAll
<1>2. s \in EditState /\ s.text \in Seq(Letters)
  BY <1>1 DEF Good, EditState
<1>3. r.text = s.text /\ r.cursor = Len(s.text) /\ (HasSelection(r) <=> s.text # <<>>)
  BY <1>2, SelectAllIs
<1> HIDE DEF r
<1>4. Before(r.text, r.cursor) = s.text /\ After(r.text, r.cursor) = <<>>
  BY <1>2, <1>3, CutAtEnds
<1>5. Buffer(e)!Text = s.text
  BY <1>1, JoinedHere, BufferIs
<1>6. HasSelection(r) = (s.text # <<>>)
  BY <1>3 DEF HasSelection
<1> QED BY <1>1, <1>4, <1>5, <1>6 DEF Before, After, HasSelection, Buffer!MarkAll

LEMMA DeletedIs ==
  ASSUME NEW s, Good(s), HasSelection(s)
  PROVE  LET r == DeleteSelection(s) IN
         Before(r.text, r.cursor) = <<>> /\ After(r.text, r.cursor) = <<>> /\ ~HasSelection(r)
<1>1. Bare(s) = DeleteSelection(s)
  BY DEF Bare
<1> QED BY <1>1, BareIs, DeleteSelectionIs

LEMMA BackspaceAsPromised ==
  ASSUME IInv, NEW e \in Edits, PressBackspace(e)
  PROVE  Buffer(e)!Backspace
<1> DEFINE s == edit[e]
           r == Backspace(s)
           b == Before(s.text, s.cursor)
<1>1. Good(s) /\ edit'[e] = r
  BY Became DEF PressBackspace
<1>2. \/ ~HasSelection(s) /\ s.cursor = 0 /\ r = s
      \/ HasSelection(s) /\ r = DeleteSelection(s)
      \/ /\ ~HasSelection(s) /\ ~HasSelection(r) /\ b # <<>>
         /\ Before(r.text, r.cursor) = SubSeq(b, 1, Len(b) - 1)
         /\ After(r.text, r.cursor) = After(s.text, s.cursor)
  BY <1>1, BackspaceIs
<1>3. s.cursor = 0 => b = <<>>
  BY <1>1, CutAtEnds DEF Good, EditState
<1> HIDE DEF r, b
<1>4. /\ ~HasSelection(r)
      /\ IF HasSelection(s) THEN Before(r.text, r.cursor) = <<>> /\ After(r.text, r.cursor) = <<>>
         ELSE /\ Before(r.text, r.cursor) = IF b = <<>> THEN <<>> ELSE SubSeq(b, 1, Len(b) - 1)
              /\ After(r.text, r.cursor) = After(s.text, s.cursor)
  <2>1. CASE ~HasSelection(s) /\ s.cursor = 0 /\ r = s
    BY <1>3, <2>1 DEF b
  <2>2. CASE HasSelection(s) /\ r = DeleteSelection(s)
    BY <1>1, <2>2, DeletedIs
  <2> QED BY <1>2, <2>1, <2>2
<1> QED BY <1>1, <1>4 DEF b, Before, After, HasSelection, Buffer!Backspace

LEMMA DeleteAsPromised ==
  ASSUME IInv, NEW e \in Edits, PressDelete(e)
  PROVE  Buffer(e)!DeleteForward
<1> DEFINE s == edit[e]
           r == DeleteForward(s)
           a == After(s.text, s.cursor)
<1>1. Good(s) /\ edit'[e] = r
  BY Became DEF PressDelete
<1>2. \/ ~HasSelection(s) /\ s.cursor = Len(s.text) /\ r = s
      \/ HasSelection(s) /\ r = DeleteSelection(s)
      \/ /\ ~HasSelection(s) /\ ~HasSelection(r) /\ a # <<>>
         /\ Before(r.text, r.cursor) = Before(s.text, s.cursor)
         /\ After(r.text, r.cursor) = Tail(a)
  BY <1>1, DeleteForwardIs
<1>3. s.cursor = Len(s.text) => a = <<>>
  BY <1>1, CutAtEnds DEF Good, EditState
<1> HIDE DEF r, a
<1>4. /\ ~HasSelection(r)
      /\ IF HasSelection(s) THEN Before(r.text, r.cursor) = <<>> /\ After(r.text, r.cursor) = <<>>
         ELSE /\ Before(r.text, r.cursor) = Before(s.text, s.cursor)
              /\ After(r.text, r.cursor) = IF a = <<>> THEN <<>> ELSE Tail(a)
  <2>1. CASE ~HasSelection(s) /\ s.cursor = Len(s.text) /\ r = s
    BY <1>3, <2>1 DEF a
  <2>2. CASE HasSelection(s) /\ r = DeleteSelection(s)
    BY <1>1, <2>2, DeletedIs
  <2> QED BY <1>2, <2>1, <2>2
<1> QED BY <1>1, <1>4 DEF a, Before, After, HasSelection, Buffer!DeleteForward

LEMMA MakeEditableAsPromised ==
  ASSUME IInv, NEW e \in Edits, MakeEditable(e)
  PROVE  UNCHANGED Buffer(e)!vars
<1> DEFINE s == edit[e]
           on == ~s.editable
           r == SetEditable(s, on, place[e])
<1>1. Good(s) /\ edit'[e] = r
  BY Became DEF MakeEditable
<1>2. on \in BOOLEAN /\ (place[e] # None => nextTimer[place[e]] \in Nat)
  BY ConstantsAssumption DEF IInv, TypeOK
<1> HIDE DEF on
<1>3. SameText(s, r)
  BY <1>1, <1>2, SetEditableIs
<1> HIDE DEF r
<1> QED BY <1>1, <1>3 DEF SameText, HasSelection, Buffer!vars

----------------------------------------------------------------------------
(* What is no key or call leaves the buffer, or takes the mark away. *)

\* As when the focus comes.
Unmarks(s, r) == r.text = s.text /\ r.cursor = s.cursor /\ ~HasSelection(r)

LEMMA Untouched ==
  ASSUME NEW e \in Edits, SameText(edit[e], edit'[e]) \/ Unmarks(edit[e], edit'[e])
  PROVE  UNCHANGED Buffer(e)!vars \/ Buffer(e)!Unmark
<1>1. CASE SameText(edit[e], edit'[e])
  BY <1>1 DEF SameText, HasSelection, Buffer!vars
<1>2. CASE Unmarks(edit[e], edit'[e])
  BY <1>2 DEF Unmarks, HasSelection, Buffer!Unmark
<1> QED BY <1>1, <1>2

LEMMA FocusUntouched ==
  ASSUME IInv, NEW w \in Windows, NEW v \in Edits \cup {None},
         v # None => v \in alive /\ place[v] = w,
         SetFocus(w, v), NEW x \in Edits
  PROVE  SameText(edit[x], edit'[x]) \/ Unmarks(edit[x], edit'[x])
<1> DEFINE old == focus[w]
           new == IF v # None /\ edit[v].editable THEN v ELSE None
           got == Focused(Out(w)[new], w)
<1>1. IF new = old THEN UNCHANGED <<edit, timers, nextTimer>>
      ELSE IF new = None THEN edit' = Out(w)
      ELSE edit' = [Out(w) EXCEPT ![new] = got]
  BY DEF SetFocus, Out
<1>2. new # None => new \in Edits
  OBVIOUS
<1> HIDE DEF new
<1>3. \A s : SameText(s, s)
  BY DEF SameText
<1>4. /\ Out(w) \in [Edits -> EditState]
      /\ \A y \in Edits : Good(Out(w)[y])
      /\ \A y \in Edits : y # old => Out(w)[y] = edit[y]
      /\ old # None => Out(w)[old] = Blurred(edit[old])
  BY FocusLeaves
<1>5. Good(edit[x]) /\ old \in Edits \cup {None}
  BY DEF IInv, TypeOK, Positions, Good
<1>6. SameText(edit[x], Out(w)[x])
  <2>1. CASE x = old
    <3>1. Out(w)[x] = Blurred(edit[x])
      BY <1>4, <2>1, ConstantsAssumption
    <3> QED BY <1>5, <3>1, BlurredIs
  <2>2. CASE x # old
    BY <1>3, <1>4, <2>2
  <2> QED BY <2>1, <2>2
<1>7. CASE new = old
  BY <1>1, <1>3, <1>7
<1>8. CASE new # old /\ new = None
  BY <1>1, <1>6, <1>8
<1>9. CASE new # old /\ new # None
  <2>1. edit' = [Out(w) EXCEPT ![new] = got]
    BY <1>1, <1>9
  <2>2. CASE x = new
    <3>1. Out(w)[x] = edit[x]
      BY <1>4, <1>9, <2>2
    <3>2. nextTimer[w] \in Nat
      BY ConstantsAssumption DEF IInv, TypeOK
    <3> DEFINE r == Focused(edit[x], w)
    <3>3. r.text = edit[x].text /\ r.cursor = edit[x].cursor /\ ~HasSelection(r)
      BY <1>5, <3>2, FocusedIs
    <3>4. edit'[x] = r
      BY <1>4, <2>1, <2>2, <3>1
    <3> QED BY <3>3, <3>4 DEF Unmarks
  <2>3. CASE x # new
    <3>1. edit'[x] = Out(w)[x]
      BY <1>4, <2>1, <2>3
    <3> QED BY <1>6, <3>1
  <2> QED BY <2>2, <2>3
<1> QED BY <1>7, <1>8, <1>9

LEMMA KeysBecome ==
  ASSUME NEW e \in Edits, Keys(e)
  PROVE  \E r : Becomes(e, r)
<1>1. CASE \E c \in Letters : TypeLetter(e, c)
  BY <1>1 DEF TypeLetter
<1>2. CASE \E t \in TextsHalfway(e) : \E p \in 0..Len(t), c \in Letters : TypeInto(e, c, t, p)
  BY <1>2 DEF TypeInto
<1>3. CASE \E p \in 0..MaxText[e] : MoveTo(e, p)
  BY <1>3 DEF MoveTo
<1>4. CASE \E t \in Texts[e] : ReplaceText(e, t)
  BY <1>4 DEF ReplaceText
<1>5. CASE PressBackspace(e) \/ PressDelete(e) \/ PressSelectAll(e)
  BY <1>5 DEF PressBackspace, PressDelete, PressSelectAll
<1> QED BY <1>1, <1>2, <1>3, <1>4, <1>5 DEF Keys

LEMMA OnlyKeysTouch ==
  ASSUME IInv, [Next]_vars, NEW x \in Edits
  PROVE  \/ Keys(x) /\ focus' = focus
         \/ SameText(edit[x], edit'[x])
         \/ Unmarks(edit[x], edit'[x])
<1>1. \A s : SameText(s, s)
  BY DEF SameText
<1>2. edit \in [Edits -> EditState] /\ \A e \in Edits : Good(edit[e])
  BY DEF IInv, TypeOK, Positions, Good
<1>3. ASSUME NEW e \in Edits, NEW r, SameText(edit[e], r), edit' = [edit EXCEPT ![e] = r]
      PROVE  SameText(edit[x], edit'[x])
  <2>1. edit'[x] = IF x = e THEN r ELSE edit[x]
    BY <1>2, <1>3
  <2> QED BY <1>1, <1>3, <2>1
<1>4. CASE edit' = edit
  BY <1>1, <1>4
<1>5. ASSUME NEW e \in Edits, Keys(e)
      PROVE  (Keys(x) /\ focus' = focus) \/ SameText(edit[x], edit'[x])
  <2>1. PICK r : Becomes(e, r)
    BY <1>5, KeysBecome
  <2>2. focus' = focus /\ \A y \in Edits : y # e => edit'[y] = edit[y]
    BY <2>1, Became
  <2> QED BY <1>1, <1>5, <2>2
<1>6. ASSUME NEW e \in Edits, MakeEditable(e)
      PROVE  SameText(edit[x], edit'[x])
  <2> DEFINE s == edit[e]
             on == ~s.editable
             r == SetEditable(s, on, place[e])
  <2>1. Becomes(e, r)
    BY <1>6 DEF MakeEditable
  <2>2. on \in BOOLEAN /\ (place[e] # None => nextTimer[place[e]] \in Nat)
    BY ConstantsAssumption DEF IInv, TypeOK
  <2> HIDE DEF on
  <2>3. SameText(s, r)
    BY <1>2, <2>2, SetEditableIs
  <2>4. edit'[e] = r /\ \A y \in Edits : y # e => edit'[y] = edit[y]
    BY <2>1, Became
  <2> HIDE DEF r
  <2> QED BY <1>1, <2>3, <2>4
<1>7. ASSUME NEW e \in Edits, NEW w \in Windows, Fire(w, e)
      PROVE  SameText(edit[x], edit'[x])
  <2> DEFINE s == edit[e]
             r == IF s.editable /\ s.focused THEN [s EXCEPT !.visible = ~@] ELSE Stopped(s)
  <2>1. Becomes(e, r)
    BY <1>7 DEF Fire
  <2>2. SameText(s, r)
    BY <1>2 DEF SameText, Stopped, EditState
  <2>3. edit'[e] = r /\ \A y \in Edits : y # e => edit'[y] = edit[y]
    BY <2>1, Became
  <2> HIDE DEF r
  <2> QED BY <1>1, <2>2, <2>3
<1>8. ASSUME NEW e \in Edits, Destroy(e)
      PROVE  SameText(edit[x], edit'[x])
  <2>1. SameText(edit[e], Stopped(edit[e]))
    BY <1>2, StoppedIs
  <2> QED BY <1>3, <1>8, <2>1 DEF Destroy
<1>9. ASSUME NEW w \in Windows, NEW e \in Edits, Press(w, e)
      PROVE  SameText(edit[x], edit'[x]) \/ Unmarks(edit[x], edit'[x])
  <2>1. CASE focus[w] = e /\ edit[e].editable
    <3>1. SameText(edit[e], Blink(edit[e]))
      BY <1>2, BlinkKeeps
    <3> QED BY <1>3, <1>9, <2>1, <3>1 DEF Press
  <2>2. CASE ~(focus[w] = e /\ edit[e].editable)
    <3>1. e \in alive /\ place[e] = w /\ SetFocus(w, e)
      BY <1>9, <2>2 DEF Press
    <3> QED BY <3>1, FocusUntouched
  <2> QED BY <2>1, <2>2
<1>10. ASSUME NEW w \in Windows, LoseFocus(w)
       PROVE  SameText(edit[x], edit'[x]) \/ Unmarks(edit[x], edit'[x])
  BY <1>10, FocusUntouched DEF LoseFocus
<1>11. ASSUME NEW e \in Edits, RemoveChild(e) \/ \E w \in Windows : PutIn(e, w)
       PROVE  edit' = edit
  BY <1>11 DEF RemoveChild, PutIn
<1>12. ASSUME NEW w \in Windows, Close(w)
       PROVE  edit' = edit
  BY <1>12 DEF Close
<1>13. CASE UNCHANGED vars
  BY <1>4, <1>13 DEF vars
<1> QED BY <1>4, <1>5, <1>6, <1>7, <1>8, <1>9, <1>10, <1>11, <1>12, <1>13 DEF Next

----------------------------------------------------------------------------
(* So each edit is a TextBuffer. *)

LEMMA EachAsPromised ==
  ASSUME IInv, [Next]_vars, NEW e \in Edits
  PROVE  KeysAsPromised(e)
<1>1. focus' # focus => Buffer(e)!Unmark \/ UNCHANGED Buffer(e)!vars
  BY OnlyKeysTouch, Untouched
<1>2. \A p \in 0..MaxText[e] : MoveTo(e, p) => Buffer(e)!MoveTo(p)
  BY MoveAsPromised, ConstantsAssumption DEF MoveTo
<1>3. \A t \in Texts[e] : ReplaceText(e, t) => Buffer(e)!Replace(t)
  BY ReplaceAsPromised, TextsAreSequences DEF ReplaceText
<1>4. \A c \in Letters : TypeLetter(e, c) => Buffer(e)!Type(c)
  BY LetterAsPromised
<1>5. \A t \in TextsHalfway(e) : \A p \in 0..Len(t), c \in Letters :
        TypeInto(e, c, t, p) => Buffer(e)!TypeInto(SubSeq(t, 1, p), SubSeq(t, p + 1, Len(t)), c)
  BY IntoAsPromised
<1> QED BY <1>1, <1>2, <1>3, <1>4, <1>5, MakeEditableAsPromised, BackspaceAsPromised,
            DeleteAsPromised, SelectAllAsPromised DEF KeysAsPromised

LEMMA BufferSteps ==
  ASSUME IInv, [Next]_vars, NEW e \in Edits
  PROVE  Buffer(e)!Next \/ UNCHANGED Buffer(e)!vars
<1>1. CASE SameText(edit[e], edit'[e]) \/ Unmarks(edit[e], edit'[e])
  BY <1>1, Untouched DEF Buffer!Next
<1>2. CASE \E c \in Letters : TypeLetter(e, c)
  BY <1>2, LetterAsPromised DEF Buffer!Next
<1>3. CASE \E t \in TextsHalfway(e) : \E p \in 0..Len(t), c \in Letters : TypeInto(e, c, t, p)
  <2>1. PICK t \in TextsHalfway(e) : \E p \in 0..Len(t), c \in Letters : TypeInto(e, c, t, p)
    BY <1>3
  <2>2. PICK p \in 0..Len(t), c \in Letters : TypeInto(e, c, t, p)
    BY <2>1
  <2> DEFINE b == SubSeq(t, 1, p)
             a == SubSeq(t, p + 1, Len(t))
             now == SubSeq(edit'[e].text, 1, edit'[e].cursor)
             rest == SubSeq(edit'[e].text, edit'[e].cursor + 1, Len(edit'[e].text))
  <2>3. Buffer(e)!TypeInto(b, a, c)
    BY <2>2, IntoAsPromised
  <2>4. b \in Seq(Letters)
    BY TextsAreSequences, Cut DEF TextsHalfway, Before
  <2> HIDE DEF b, a
  <2>5. now = Append(b, c) /\ rest = a
    BY <2>3 DEF Buffer!TypeInto
  <2> HIDE DEF now, rest
  <2>6. now # <<>> /\ SubSeq(now, 1, Len(now) - 1) = b
    <3>1. now = b \o <<c>>
      BY <2>4, <2>5, AppendIsConcat
    <3>2. Len(now) = Len(b) + 1 /\ now # <<>>
      BY <2>4, <2>5, AppendProperties
    <3>3. <<c>> \in Seq(Letters)
      OBVIOUS
    <3>4. Before(b \o <<c>>, Len(b)) = b
      BY <2>4, <3>3, Joined
    <3>5. Len(now) - 1 = Len(b)
      <4>1. Len(b) \in Nat
        BY <2>4
      <4> QED BY <3>2, <4>1
    <3> QED BY <3>1, <3>2, <3>4, <3>5 DEF Before
  <2>7. now # <<>> /\ Buffer(e)!TypeInto(SubSeq(now, 1, Len(now) - 1), rest, c)
    BY <2>3, <2>5, <2>6
  <2> QED BY <2>7 DEF now, rest, Buffer!Next
<1>4. CASE \E p \in 0..MaxText[e] : MoveTo(e, p)
  BY <1>4, MoveAsPromised, ConstantsAssumption DEF MoveTo, Buffer!Next
<1>5. CASE \E t \in Texts[e] : ReplaceText(e, t)
  BY <1>5, ReplaceAsPromised, TextsAreSequences DEF ReplaceText, Buffer!Next
<1>6. CASE PressBackspace(e) \/ PressDelete(e) \/ PressSelectAll(e)
  BY <1>6, BackspaceAsPromised, DeleteAsPromised, SelectAllAsPromised DEF Buffer!Next
<1> QED BY <1>1, <1>2, <1>3, <1>4, <1>5, <1>6, OnlyKeysTouch DEF Keys

\* Whatever positions it keeps, each edit is the buffer TextBuffer promises, and each
\* operation the one of its name: a letter goes where the caret is, whatever text and caret
\* on_text_changed_ left halfway (text_edit.cc 57-119, 204-383).
THEOREM EditsImplementBuffers == Spec => EditsAsPromised
<1>1. Init => \A e \in Edits : Buffer(e)!Init
  <2> SUFFICES ASSUME Init, NEW e \in Edits
               PROVE  Buffer(e)!Init
    OBVIOUS
  <2> DEFINE t == <<>>
  <2>1. edit[e].text = t /\ edit[e].cursor = 0 /\ edit[e].from = 0 /\ edit[e].to = 0
    BY DEF Init
  <2>2. t \in Seq(Letters) /\ t = <<>>
    OBVIOUS
  <2> HIDE DEF t
  <2>3. Before(t, 0) = <<>> /\ After(t, 0) = <<>>
    BY <2>2, CutAtEnds
  <2> QED BY <2>1, <2>3 DEF Buffer!Init, Before, After, HasSelection
<1>2. IInv /\ [Next]_vars =>
        [\A e \in Edits : edit'[e] # edit[e] =>
           KeysAsPromised(e) /\ (Buffer(e)!Next \/ UNCHANGED Buffer(e)!vars)]_vars
  BY EachAsPromised, BufferSteps
<1> QED BY <1>1, <1>2, InvariantHolds, PTL DEF Spec, EditsAsPromised
----------------------------------------------------------------------------
(* Loops over a text.  What a loop computes after n turns is a recursive   *)
(* function; statements about every n are proved from the least n that     *)
(* would refute them.                                                      *)

LEMMA LeastNumber ==
  ASSUME NEW S \in SUBSET Nat, S # {}
  PROVE  \E n \in S : \A m \in S : ~(m < n)
<1> DEFINE R == {ss \in Nat \X Nat : ss[1] < ss[2]}
<1>1. OpToRel(<, Nat) = R
  BY DEF OpToRel
<1>2. IsWellFoundedOn(R, Nat)
  BY <1>1, NatLessThanWellFounded
<1>3. \E x \in S : \A y \in S : ~(<<y, x>> \in R)
  <2> HIDE DEF R
  <2> QED BY <1>2, WFMin
<1> QED BY <1>3

LEMMA UpTo ==
  ASSUME NEW N \in Nat, NEW S, 0 \in S, \A n \in 1..N : n - 1 \in S => n \in S
  PROVE  \A n \in 0..N : n \in S
<1> DEFINE T == {n \in 0..N : n \notin S}
<1>1. SUFFICES ASSUME T # {} PROVE FALSE
  OBVIOUS
<1>2. PICK n \in T : \A m \in T : ~(m < n)
  <2>1. T \in SUBSET Nat
    OBVIOUS
  <2> HIDE DEF T
  <2> QED BY <1>1, <2>1, LeastNumber
<1>3. n \in 1..N /\ n - 1 \in 0..N /\ n - 1 < n
  BY <1>2
<1>4. n - 1 \in S
  BY <1>2, <1>3
<1> QED BY <1>2, <1>3, <1>4

\* The states of a loop that starts with a and makes F[<<n, x>>] of x in turn n.
Turns(g, X, F, a, N) ==
  g \in [0..N -> X] /\ g[0] = a /\ \A n \in 1..N : g[n] = F[<<n, g[n - 1]>>]

LEMMA LoopTurns ==
  ASSUME NEW X, NEW N \in Nat, NEW F, \A n \in 1..N, x \in X : F[<<n, x>>] \in X, NEW a \in X
  PROVE  \E g : Turns(g, X, F, a, N)
<1> DEFINE S == {m \in Nat : \E g : Turns(g, X, F, a, m)}
<1>1. 0 \in S
  <2>1. Turns([n \in 0..0 |-> a], X, F, a, 0)
    BY DEF Turns
  <2> QED BY <2>1
<1>2. ASSUME NEW m \in 1..N, m - 1 \in S PROVE m \in S
  <2>1. PICK g : Turns(g, X, F, a, m - 1)
    BY <1>2
  <2> DEFINE h == [n \in 0..m |-> IF n = m THEN F[<<m, g[m - 1]>>] ELSE g[n]]
  <2>2. /\ g \in [0..(m - 1) -> X] /\ g[0] = a
        /\ \A n \in 1..(m - 1) : g[n] = F[<<n, g[n - 1]>>]
    BY <2>1 DEF Turns
  <2>3. F[<<m, g[m - 1]>>] \in X
    BY <2>2
  <2>4. h \in [0..m -> X]
    BY <2>2, <2>3
  <2>5. h[0] = a
    BY <2>2
  <2>6. ASSUME NEW n \in 1..m PROVE h[n] = F[<<n, h[n - 1]>>]
    <3>1. n \in 0..m /\ n - 1 \in 0..m /\ n - 1 # m /\ m \in Nat
      OBVIOUS
    <3>2. h[n - 1] = g[n - 1]
      BY <3>1
    <3>3. CASE n = m
      BY <3>1, <3>2, <3>3
    <3>4. CASE n # m
      <4>1. n \in 1..(m - 1)
        BY <3>1, <3>4
      <4>2. h[n] = g[n] /\ g[n] = F[<<n, g[n - 1]>>]
        BY <2>2, <3>1, <3>4, <4>1
      <4> QED BY <3>2, <4>2
    <3> QED BY <3>3, <3>4
  <2> HIDE DEF h
  <2>7. Turns(h, X, F, a, m)
    BY <2>4, <2>5, <2>6 DEF Turns
  <2> QED BY <2>7
<1> HIDE DEF S
<1>3. N \in S
  BY <1>1, <1>2, UpTo
<1> QED BY <1>3 DEF S

\* Line and column after one more letter.
Past(letter, last) ==
  IF letter = Newline THEN <<last[1] + 1, 0>> ELSE <<last[1], last[2] + 1>>

\* What LineColumn computes: the line and column after each letter, from those before it.
LEMMA LineColumnTurns ==
  ASSUME NEW t \in Seq(Letters)
  PROVE  \E at \in [0..Len(t) -> Nat \X Nat] :
           /\ at[0] = <<0, 0>>
           /\ \A i \in 1..Len(t) : at[i] = Past(t[i], at[i - 1])
           /\ \A p \in 0..Len(t) : LineColumn(t, p) = at[p]
<1> DEFINE N == Len(t)
           X == Nat \X Nat
           Body(g) == [i \in 0..N |->
                         IF i = 0 THEN <<0, 0>>
                         ELSE LET last == g[i - 1]
                              IN  IF t[i] = Newline THEN <<last[1] + 1, 0>>
                                  ELSE <<last[1], last[2] + 1>>]
           f == CHOOSE g : g = Body(g)
           F == [nx \in Nat \X X |-> Past(t[nx[1]], nx[2])]
           a == <<0, 0>>
<1>1. N \in Nat
  OBVIOUS
<1>2. ASSUME NEW p \in 0..N PROVE LineColumn(t, p) = f[p]
  BY <1>1 DEF LineColumn
<1>3. ASSUME NEW x \in X, NEW c PROVE Past(c, x) \in X
  BY DEF Past
<1>4. \A n \in 1..N, x \in X : F[<<n, x>>] = Past(t[n], x) /\ F[<<n, x>>] \in X
  BY <1>1, <1>3
<1>5. a \in X
  OBVIOUS
<1>6. \A g, i : Body(g) = [j \in 0..N |-> IF j = 0 THEN a ELSE Past(t[j], g[j - 1])]
  BY DEF Past
<1> HIDE DEF N, X, F, a, Body
<1>7. PICK g : Turns(g, X, F, a, N)
  BY <1>1, <1>4, <1>5, LoopTurns
<1>8. g = Body(g)
  <2>1. ASSUME NEW n \in 0..N PROVE g[n] = IF n = 0 THEN a ELSE Past(t[n], g[n - 1])
    <3>1. CASE n = 0
      BY <1>7, <3>1 DEF Turns
    <3>2. CASE n # 0
      <4>1. n \in 1..N /\ n - 1 \in 0..N
        BY <1>1, <3>2
      <4> QED BY <1>4, <1>7, <3>2, <4>1 DEF Turns
    <3> QED BY <3>1, <3>2
  <2>2. g = [n \in 0..N |-> g[n]]
    BY <1>7 DEF Turns
  <2> QED BY <1>6, <2>1, <2>2
<1>9. f = Body(f)
  BY <1>8
<1> HIDE DEF f
<1>10. f = [n \in 0..N |-> IF n = 0 THEN a ELSE Past(t[n], f[n - 1])]
  BY <1>6, <1>9
<1>11. f[0] = a /\ \A n \in 1..N : f[n] = Past(t[n], f[n - 1])
  BY <1>1, <1>10
<1>12. \A n \in 0..N : f[n] \in X
  <2> DEFINE S == {n \in Nat : f[n] \in X}
  <2>1. 0 \in S
    BY <1>5, <1>11
  <2>2. ASSUME NEW n \in 1..N, n - 1 \in S PROVE n \in S
    BY <1>1, <1>3, <1>11, <2>2
  <2> HIDE DEF S
  <2>3. \A n \in 0..N : n \in S
    BY <1>1, <2>1, <2>2, UpTo
  <2> QED BY <2>3 DEF S
<1>13. f \in [0..N -> X]
  BY <1>10, <1>12
<1> QED BY <1>2, <1>11, <1>13 DEF N, X, a

\* What LineStart computes.
LEMMA LineStartTurns ==
  ASSUME NEW lines \in Seq(Seq(Letters))
  PROVE  /\ LineStart(lines, 0) = 0
         /\ \A k \in 1..Len(lines) :
              LineStart(lines, k) = LineStart(lines, k - 1) + Len(lines[k]) + 1
<1> DEFINE N == Len(lines)
           Body(g) == [k \in 0..N |-> IF k = 0 THEN 0 ELSE g[k - 1] + Len(lines[k]) + 1]
           f == CHOOSE g : g = Body(g)
           F == [nx \in Nat \X Nat |-> nx[2] + Len(lines[nx[1]]) + 1]
<1>1. N \in Nat /\ \A k \in 1..N : Len(lines[k]) \in Nat
  BY ElementOfSeq
<1>2. \A k : LineStart(lines, k) = f[k]
  BY DEF LineStart
<1>3. \A n \in 1..N, x \in Nat : F[<<n, x>>] = x + Len(lines[n]) + 1 /\ F[<<n, x>>] \in Nat
  BY <1>1
<1> HIDE DEF N, F
<1>4. PICK g : Turns(g, Nat, F, 0, N)
  BY <1>1, <1>3, LoopTurns
<1>5. g = Body(g)
  <2>1. ASSUME NEW n \in 0..N PROVE g[n] = IF n = 0 THEN 0 ELSE g[n - 1] + Len(lines[n]) + 1
    <3>1. CASE n = 0
      BY <1>4, <3>1 DEF Turns
    <3>2. CASE n # 0
      <4>1. n \in 1..N /\ n - 1 \in 0..N
        BY <1>1, <3>2
      <4> QED BY <1>3, <1>4, <3>2, <4>1 DEF Turns
    <3> QED BY <3>1, <3>2
  <2>2. g = [n \in 0..N |-> g[n]]
    BY <1>4 DEF Turns
  <2> QED BY <2>1, <2>2
<1>6. f = Body(f)
  BY <1>5
<1> HIDE DEF f
<1>7. f[0] = 0 /\ \A n \in 1..N : f[n] = f[n - 1] + Len(lines[n]) + 1
  BY <1>1, <1>6
<1> QED BY <1>2, <1>7 DEF N

\* The newlines from position i on, and the first of them.
Ends(t, i) == {j \in i..Len(t) : t[j] = Newline}
FirstEnd(t, i) == CHOOSE j \in Ends(t, i) : \A k \in Ends(t, i) : j <= k

\* The lines from position i on, where rest has those from later positions on.
LinesFrom(t, i, rest) ==
  IF Ends(t, i) = {} THEN <<SubSeq(t, i, Len(t))>>
  ELSE <<SubSeq(t, i, FirstEnd(t, i) - 1)>>
       \o (IF FirstEnd(t, i) = Len(t) THEN << <<>> >> ELSE rest[FirstEnd(t, i) + 1])

LEMMA FirstEndIs ==
  ASSUME NEW t \in Seq(Letters), NEW i \in 1..(Len(t) + 1), Ends(t, i) # {}
  PROVE  /\ FirstEnd(t, i) \in i..Len(t) /\ t[FirstEnd(t, i)] = Newline
         /\ \A j \in i..Len(t) : j < FirstEnd(t, i) => t[j] # Newline
<1> DEFINE S == Ends(t, i)
<1>1. S \in SUBSET Nat /\ S # {} /\ \A j \in S : j \in i..Len(t) /\ t[j] = Newline
  BY DEF Ends
<1>2. \A j \in i..Len(t) : j \notin S => t[j] # Newline
  BY DEF Ends
<1>3. FirstEnd(t, i) = CHOOSE j \in S : \A k \in S : j <= k
  BY DEF FirstEnd
<1> HIDE DEF S
<1>4. \E j \in S : \A k \in S : j <= k
  <2>1. PICK j \in S : \A k \in S : ~(k < j)
    BY <1>1, LeastNumber
  <2> QED BY <1>1, <2>1
<1>5. FirstEnd(t, i) \in S /\ \A k \in S : FirstEnd(t, i) <= k
  BY <1>3, <1>4
<1> DEFINE e == FirstEnd(t, i)
<1>6. e \in i..Len(t) /\ t[e] = Newline
  BY <1>1, <1>5
<1>7. ASSUME NEW j \in i..Len(t), j < e PROVE t[j] # Newline
  <2>1. e \in Nat /\ ~(e <= j)
    BY <1>6, <1>7
  <2>2. j \notin S
    BY <1>5, <2>1
  <2> QED BY <1>2, <2>2
<1> QED BY <1>6, <1>7

\* LinesFrom asks rest for later positions only.
LEMMA LaterLines ==
  ASSUME NEW t \in Seq(Letters), NEW i \in 1..(Len(t) + 1), NEW g, NEW h,
         \A j \in (i + 1)..(Len(t) + 1) : g[j] = h[j]
  PROVE  LinesFrom(t, i, g) = LinesFrom(t, i, h)
<1>1. CASE Ends(t, i) = {}
  BY <1>1 DEF LinesFrom
<1>2. CASE Ends(t, i) # {}
  <2>1. FirstEnd(t, i) \in i..Len(t)
    BY <1>2, FirstEndIs
  <2>2. FirstEnd(t, i) + 1 \in (i + 1)..(Len(t) + 1)
    BY <2>1
  <2>3. g[FirstEnd(t, i) + 1] = h[FirstEnd(t, i) + 1]
    BY <2>2
  <2> QED BY <1>2, <2>3 DEF LinesFrom
<1> QED BY <1>1, <1>2

\* What Lines computes.
LEMMA LinesTurns ==
  ASSUME NEW t \in Seq(Letters)
  PROVE  \E f : /\ \A i \in 1..(Len(t) + 1) : f[i] = LinesFrom(t, i, f)
                /\ t # <<>> => Lines(t) = f[1]
<1> DEFINE N == Len(t) + 1
           Body(g) == [i \in 1..N |->
                         LET ends == {j \in i..Len(t) : t[j] = Newline}
                             end == CHOOSE j \in ends : \A k \in ends : j <= k
                         IN  IF ends = {} THEN <<SubSeq(t, i, Len(t))>>
                             ELSE <<SubSeq(t, i, end - 1)>>
                                  \o (IF end = Len(t) THEN << <<>> >> ELSE g[end + 1])]
           f == CHOOSE g : g = Body(g)
           From(m, g) == g = [i \in (N + 1 - m)..N |-> LinesFrom(t, i, g)]
           S == {m \in Nat : \E g : From(m, g)}
<1>1. N \in Nat \ {0}
  OBVIOUS
<1>2. t # <<>> => Lines(t) = f[1]
  BY DEF Lines
<1>3. \A g : Body(g) = [i \in 1..N |-> LinesFrom(t, i, g)]
  BY DEF LinesFrom, Ends, FirstEnd
<1>4. \A g, h, i : i \in 1..N /\ (\A j \in (i + 1)..N : g[j] = h[j]) =>
        LinesFrom(t, i, g) = LinesFrom(t, i, h)
  BY LaterLines
<1> HIDE DEF Body, N
<1>5. 0 \in S
  <2> DEFINE g == [i \in (N + 1)..N |-> 0]
  <2>1. (N + 1)..N = {} /\ N + 1 - 0 = N + 1
    BY <1>1
  <2>2. g = [i \in (N + 1)..N |-> LinesFrom(t, i, g)]
    BY <2>1
  <2> QED BY <2>1, <2>2
<1>6. ASSUME NEW m \in 1..N, m - 1 \in S PROVE m \in S
  <2>1. PICK g : g = [i \in (N + 1 - (m - 1))..N |-> LinesFrom(t, i, g)]
    BY <1>6
  <2> DEFINE b == N + 1 - m
             h == [i \in b..N |-> IF i = b THEN LinesFrom(t, b, g) ELSE g[i]]
  <2>2. b \in 1..N /\ N + 1 - (m - 1) = b + 1 /\ m \in Nat
    BY <1>1
  <2>3. \A i \in (b + 1)..N : g[i] = LinesFrom(t, i, g)
    BY <2>1, <2>2
  <2> HIDE DEF b
  <2>4. \A i \in (b + 1)..N : i \in b..N /\ i # b /\ h[i] = g[i]
    BY <1>1, <2>2
  <2>5. h[b] = LinesFrom(t, b, g)
    BY <1>1, <2>2
  <2> HIDE DEF h
  <2>6. ASSUME NEW i \in b..N PROVE h[i] = LinesFrom(t, i, h)
    <3>1. i \in 1..N /\ (i = b \/ i \in (b + 1)..N)
      BY <1>1, <2>2
    <3>2. \A j \in (i + 1)..N : g[j] = h[j]
      BY <1>1, <2>2, <2>4
    <3>3. LinesFrom(t, i, g) = LinesFrom(t, i, h)
      BY <1>4, <3>1, <3>2
    <3> QED BY <2>3, <2>4, <2>5, <3>1, <3>3
  <2>7. h = [i \in b..N |-> LinesFrom(t, i, h)]
    <3>1. h = [i \in b..N |-> h[i]]
      BY DEF h
    <3> QED BY <2>6, <3>1
  <2> QED BY <2>2, <2>7 DEF b
<1>7. N \in S
  <2> HIDE DEF S
  <2>1. N \in 0..N
    BY <1>1
  <2> QED BY <1>1, <1>5, <1>6, <2>1, UpTo
<1>8. f = Body(f)
  <2>1. PICK g : From(N, g)
    BY <1>7
  <2>2. N + 1 - N = 1
    BY <1>1
  <2>3. g = Body(g)
    BY <1>3, <2>1, <2>2
  <2> QED BY <2>3
<1> HIDE DEF f
<1>9. f = [i \in 1..N |-> LinesFrom(t, i, f)]
  BY <1>3, <1>8
<1>10. \A i \in 1..N : f[i] = LinesFrom(t, i, f)
  BY <1>9
<1> QED BY <1>2, <1>10 DEF N

\* What lines() promises of the lines ls from position i on: they are t cut at its newlines.
\* Line k is between ends[k - 1] and ends[k], which is a newline, or the end of t.
CutBy(t, i, ls, ends) ==
  /\ ls \in Seq(Seq(Letters)) /\ ls # <<>>
  /\ ends \in [0..Len(ls) -> Nat] /\ ends[0] = i - 1 /\ ends[Len(ls)] = Len(t) + 1
  /\ \A k \in 1..Len(ls) :
       /\ ends[k] = ends[k - 1] + Len(ls[k]) + 1
       /\ \A j \in 1..Len(ls[k]) : /\ ls[k][j] = t[ends[k - 1] + j]
                                   /\ t[ends[k - 1] + j] # Newline
       /\ k < Len(ls) => t[ends[k]] = Newline

CutAtNewlines(t, i, ls) == \E ends : CutBy(t, i, ls, ends)

LEMMA OneLine ==
  ASSUME NEW t \in Seq(Letters), NEW i \in 1..(Len(t) + 1), NEW e \in i..(Len(t) + 1)
  PROVE  /\ SubSeq(t, i, e - 1) \in Seq(Letters)
         /\ Len(SubSeq(t, i, e - 1)) = e - i
         /\ \A j \in 1..(e - i) : SubSeq(t, i, e - 1)[j] = t[i - 1 + j]
<1>1. i \in Int /\ e - 1 \in Int /\ \A q \in i..(e - 1) : q \in 1..Len(t)
  BY LenProperties
<1>2. \A q \in i..(e - 1) : t[q] \in Letters
  BY <1>1, ElementOfSeq
<1>3. /\ SubSeq(t, i, e - 1) \in Seq(Letters)
      /\ Len(SubSeq(t, i, e - 1)) = IF i <= e - 1 THEN e - 1 - i + 1 ELSE 0
      /\ \A j \in 1..(e - 1 - i + 1) : SubSeq(t, i, e - 1)[j] = t[i + j - 1]
  BY <1>1, <1>2, SubSeqProperties
<1>4. e - 1 - i + 1 = e - i /\ (~(i <= e - 1) => e - i = 0)
  OBVIOUS
<1>5. \A j \in 1..(e - i) : i + j - 1 = i - 1 + j
  OBVIOUS
<1> QED BY <1>3, <1>4, <1>5

LEMMA LastLine ==
  ASSUME NEW t \in Seq(Letters), NEW i \in 1..(Len(t) + 1), Ends(t, i) = {}
  PROVE  CutAtNewlines(t, i, <<SubSeq(t, i, Len(t))>>)
<1> DEFINE e == Len(t) + 1
           line == SubSeq(t, i, Len(t))
           ls == <<line>>
           ends == [k \in 0..1 |-> IF k = 0 THEN i - 1 ELSE e]
<1>1. e \in i..(Len(t) + 1) /\ e - 1 = Len(t) /\ i - 1 \in Nat /\ e \in Nat /\ i \in Nat
  OBVIOUS
<1>2. /\ line \in Seq(Letters) /\ Len(line) = e - i
      /\ \A j \in 1..(e - i) : line[j] = t[i - 1 + j]
  BY <1>1, OneLine
<1>3. \A j \in 1..(e - i) : t[i - 1 + j] # Newline
  <2>1. \A j \in 1..(e - i) : i - 1 + j \in i..Len(t)
    BY <1>1
  <2> QED BY <2>1 DEF Ends
<1> HIDE DEF e, line
<1>4. ls \in Seq(Seq(Letters)) /\ ls # <<>> /\ Len(ls) = 1 /\ ls[1] = line
  BY <1>2
<1>5. ends \in [0..1 -> Nat] /\ ends[0] = i - 1 /\ ends[1] = e
  BY <1>1
<1>6. \A k \in 1..1 : k = 1
  OBVIOUS
<1> HIDE DEF ls, ends
<1>7. e = i - 1 + Len(line) + 1
  BY <1>1, <1>2
<1>8. \A k \in 1..Len(ls) :
        /\ ends[k] = ends[k - 1] + Len(ls[k]) + 1
        /\ \A j \in 1..Len(ls[k]) : ls[k][j] = t[ends[k - 1] + j] /\ t[ends[k - 1] + j] # Newline
        /\ k < Len(ls) => t[ends[k]] = Newline
  <2> SUFFICES ASSUME NEW k \in 1..Len(ls)
               PROVE  /\ ends[k] = ends[k - 1] + Len(ls[k]) + 1
                      /\ \A j \in 1..Len(ls[k]) : /\ ls[k][j] = t[ends[k - 1] + j]
                                                  /\ t[ends[k - 1] + j] # Newline
                      /\ ~(k < Len(ls))
    OBVIOUS
  <2>1. k = 1 /\ k - 1 = 0 /\ ~(k < Len(ls))
    BY <1>4
  <2>2. ls[k] = line /\ ends[k] = e /\ ends[k - 1] = i - 1
    BY <1>4, <1>5, <2>1
  <2>3. \A j \in 1..Len(line) : line[j] = t[i - 1 + j] /\ t[i - 1 + j] # Newline
    BY <1>2, <1>3
  <2> QED BY <1>7, <2>1, <2>2, <2>3
<1>9. ends[Len(ls)] = Len(t) + 1 /\ ends \in [0..Len(ls) -> Nat]
  BY <1>4, <1>5 DEF e
<1>10. CutBy(t, i, ls, ends)
  BY <1>4, <1>5, <1>8, <1>9 DEF CutBy
<1> QED BY <1>10 DEF CutAtNewlines, ls, line

LEMMA LineBefore ==
  ASSUME NEW t \in Seq(Letters), NEW i \in 1..(Len(t) + 1), NEW e \in i..Len(t),
         t[e] = Newline, \A j \in i..Len(t) : j < e => t[j] # Newline,
         NEW rest, CutAtNewlines(t, e + 1, rest)
  PROVE  CutAtNewlines(t, i, <<SubSeq(t, i, e - 1)>> \o rest)
<1> DEFINE line == SubSeq(t, i, e - 1)
           ls == <<line>> \o rest
           n == Len(rest)
<1>1. e \in i..(Len(t) + 1) /\ i - 1 \in Nat /\ e \in Nat /\ i \in Nat
  OBVIOUS
<1>2. /\ line \in Seq(Letters) /\ Len(line) = e - i
      /\ \A j \in 1..(e - i) : line[j] = t[i - 1 + j]
  BY <1>1, OneLine
<1>3. \A j \in 1..(e - i) : t[i - 1 + j] # Newline
  <2>1. \A j \in 1..(e - i) : i - 1 + j \in i..Len(t) /\ i - 1 + j < e
    BY <1>1
  <2> QED BY <2>1
<1>4. PICK after : CutBy(t, e + 1, rest, after)
  BY DEF CutAtNewlines
<1>5. /\ rest \in Seq(Seq(Letters)) /\ rest # <<>>
      /\ after \in [0..n -> Nat] /\ after[0] = e + 1 - 1 /\ after[n] = Len(t) + 1
  BY <1>4 DEF CutBy
<1>6. \A k \in 1..n :
        /\ after[k] = after[k - 1] + Len(rest[k]) + 1
        /\ \A j \in 1..Len(rest[k]) : /\ rest[k][j] = t[after[k - 1] + j]
                                      /\ t[after[k - 1] + j] # Newline
        /\ k < n => t[after[k]] = Newline
  BY <1>4 DEF CutBy
<1>7. n \in Nat \ {0}
  BY <1>5, EmptySeq
<1>8. e + 1 - 1 = e /\ e = i - 1 + Len(line) + 1
  BY <1>1, <1>2
<1> HIDE DEF line
<1>9. /\ ls \in Seq(Seq(Letters)) /\ Len(ls) = n + 1 /\ ls[1] = line
      /\ \A k \in 1..n : ls[k + 1] = rest[k]
  <2> DEFINE one == <<line>>
  <2>1. one \in Seq(Seq(Letters)) /\ Len(one) = 1 /\ one[1] = line
    BY <1>2
  <2> HIDE DEF one
  <2>2. /\ one \o rest \in Seq(Seq(Letters)) /\ Len(one \o rest) = Len(one) + Len(rest)
        /\ \A k \in 1..(Len(one) + Len(rest)) :
             (one \o rest)[k] = IF k <= Len(one) THEN one[k] ELSE rest[k - Len(one)]
    BY <1>5, <2>1, ConcatProperties
  <2>3. \A k \in 1..n : k + 1 \in 1..(1 + n) /\ ~(k + 1 <= 1) /\ k + 1 - 1 = k
    BY <1>7
  <2>4. 1 \in 1..(1 + n) /\ 1 + n = n + 1
    BY <1>7
  <2> QED BY <2>1, <2>2, <2>3, <2>4 DEF one
<1> DEFINE ends == [k \in 0..(n + 1) |-> IF k = 0 THEN i - 1 ELSE after[k - 1]]
<1>10. \A k \in 1..(n + 1) : k # 0 /\ k - 1 \in 0..n /\ k \in 0..(n + 1)
  BY <1>7
<1> HIDE DEF n, ls
<1>11. /\ ends \in [0..(n + 1) -> Nat] /\ ends[0] = i - 1
       /\ \A k \in 1..(n + 1) : ends[k] = after[k - 1]
  <2>1. \A k \in 1..(n + 1) : ends[k] = after[k - 1] /\ after[k - 1] \in Nat
    BY <1>5, <1>10
  <2>2. 0 \in 0..(n + 1) /\ \A k \in 0..(n + 1) : k = 0 \/ k \in 1..(n + 1)
    BY <1>7
  <2>3. ends[0] = i - 1
    BY <2>2
  <2> QED BY <1>1, <2>1, <2>2, <2>3
<1> HIDE DEF ends
<1>12. ends[n + 1] = Len(t) + 1
  <2>1. n + 1 \in 1..(n + 1) /\ (n + 1) - 1 = n
    BY <1>7
  <2> QED BY <1>5, <1>11, <2>1
<1>13. ASSUME NEW k \in 1..(n + 1)
       PROVE  /\ ends[k] = ends[k - 1] + Len(ls[k]) + 1
              /\ \A j \in 1..Len(ls[k]) : /\ ls[k][j] = t[ends[k - 1] + j]
                                          /\ t[ends[k - 1] + j] # Newline
              /\ k < n + 1 => t[ends[k]] = Newline
  <2>1. CASE k = 1
    <3>1. k - 1 = 0 /\ ends[k] = e /\ ends[k - 1] = i - 1 /\ ls[k] = line
      BY <1>5, <1>8, <1>9, <1>11, <2>1
    <3> QED BY <1>2, <1>3, <1>8, <3>1
  <2>2. CASE k # 1
    <3> DEFINE b == k - 1
    <3>1. b \in 1..n /\ b + 1 = k /\ b \in 1..(n + 1) /\ (k < n + 1 => b < n)
      BY <1>7, <2>2
    <3>2. ends[k] = after[b] /\ ends[k - 1] = after[b - 1] /\ ls[k] = rest[b]
      BY <1>9, <1>11, <3>1
    <3> HIDE DEF b
    <3> QED BY <1>6, <3>1, <3>2
  <2> QED BY <2>1, <2>2
<1>14. ls # <<>>
  BY <1>7, <1>9
<1>15. CutBy(t, i, ls, ends)
  BY <1>9, <1>11, <1>12, <1>13, <1>14 DEF CutBy
<1> QED BY <1>15 DEF CutAtNewlines, ls, line

LEMMA LinesFromCut ==
  ASSUME NEW t \in Seq(Letters), NEW f,
         \A i \in 1..(Len(t) + 1) : f[i] = LinesFrom(t, i, f)
  PROVE  \A i \in 1..(Len(t) + 1) : CutAtNewlines(t, i, f[i])
<1> DEFINE N == Len(t) + 1
           Bad == {m \in 0..Len(t) : ~CutAtNewlines(t, N - m, f[N - m])}
<1>1. SUFFICES ASSUME Bad # {} PROVE FALSE
  <2> SUFFICES ASSUME NEW i \in 1..N, Bad = {} PROVE CutAtNewlines(t, i, f[i])
    OBVIOUS
  <2>1. N - i \in 0..Len(t) /\ N - (N - i) = i
    OBVIOUS
  <2>2. CutAtNewlines(t, N - (N - i), f[N - (N - i)])
    BY <2>1
  <2> QED BY <2>1, <2>2
<1>2. PICK m \in Bad : \A l \in Bad : ~(l < m)
  <2>1. Bad \in SUBSET Nat
    OBVIOUS
  <2> HIDE DEF Bad
  <2> QED BY <1>1, <2>1, LeastNumber
<1> DEFINE i == N - m
<1>3. m \in 0..Len(t) /\ i \in 1..N /\ ~CutAtNewlines(t, i, f[i])
  BY <1>2
<1>4. f[i] = LinesFrom(t, i, f)
  BY <1>3
<1>5. CASE Ends(t, i) = {}
  <2>1. f[i] = <<SubSeq(t, i, Len(t))>>
    BY <1>4, <1>5 DEF LinesFrom
  <2> QED BY <1>3, <1>5, <2>1, LastLine
<1>6. CASE Ends(t, i) # {}
  <2> DEFINE e == FirstEnd(t, i)
  <2>1. e \in i..Len(t) /\ t[e] = Newline /\ \A j \in i..Len(t) : j < e => t[j] # Newline
    BY <1>3, <1>6, FirstEndIs
  <2>2. f[i] = <<SubSeq(t, i, e - 1)>> \o (IF e = Len(t) THEN << <<>> >> ELSE f[e + 1])
    BY <1>4, <1>6 DEF LinesFrom
  <2> HIDE DEF e
  <2>3. CASE e = Len(t)
    <3>1. e + 1 \in 1..N /\ Ends(t, e + 1) = {} /\ SubSeq(t, e + 1, Len(t)) = <<>>
      <4>1. Len(t) < e + 1 /\ e + 1 \in Int /\ Len(t) \in Int /\ (e + 1)..Len(t) = {}
        BY <2>1, <2>3
      <4> QED BY <2>3, <4>1, SubSeqEmpty DEF Ends
    <3>2. CutAtNewlines(t, e + 1, << <<>> >>)
      BY <3>1, LastLine
    <3>3. CutAtNewlines(t, i, <<SubSeq(t, i, e - 1)>> \o << <<>> >>)
      BY <1>3, <2>1, <3>2, LineBefore
    <3> QED BY <1>3, <2>2, <2>3, <3>3
  <2>4. CASE e # Len(t)
    <3> DEFINE l == Len(t) - e
    <3>1. l \in 0..Len(t) /\ l < m /\ N - l = e + 1
      BY <1>3, <2>1
    <3>2. l \notin Bad
      BY <1>2, <3>1
    <3>3. CutAtNewlines(t, N - l, f[N - l])
      BY <3>1, <3>2
    <3>4. CutAtNewlines(t, e + 1, f[e + 1])
      BY <3>1, <3>3
    <3>5. CutAtNewlines(t, i, <<SubSeq(t, i, e - 1)>> \o f[e + 1])
      BY <1>3, <2>1, <3>4, LineBefore
    <3> QED BY <1>3, <2>2, <2>4, <3>5
  <2> QED BY <2>3, <2>4
<1> QED BY <1>5, <1>6

\* The lines that draw goes through are the text cut at its newlines, a last newline followed
\* by an empty line (text_edit.cc 420-440).
THEOREM LinesAreTheText ==
  ASSUME NEW t \in Seq(Letters), t # <<>>
  PROVE  CutAtNewlines(t, 1, Lines(t))
<1>1. PICK f : /\ \A i \in 1..(Len(t) + 1) : f[i] = LinesFrom(t, i, f)
               /\ t # <<>> => Lines(t) = f[1]
  BY LinesTurns
<1>2. 1 \in 1..(Len(t) + 1)
  OBVIOUS
<1>3. CutAtNewlines(t, 1, f[1])
  BY <1>1, <1>2, LinesFromCut
<1> QED BY <1>1, <1>3

LEMMA LineStarts ==
  ASSUME NEW t \in Seq(Letters), NEW ls, NEW ends, CutBy(t, 1, ls, ends)
  PROVE  \A k \in 0..Len(ls) : LineStart(ls, k) = ends[k]
<1> DEFINE S == {k \in Nat : LineStart(ls, k) = ends[k]}
           N == Len(ls)
<1>1. /\ ls \in Seq(Seq(Letters)) /\ ends[0] = 0
      /\ \A k \in 1..N : ends[k] = ends[k - 1] + Len(ls[k]) + 1
  BY DEF CutBy
<1>2. /\ LineStart(ls, 0) = 0
      /\ \A k \in 1..N : LineStart(ls, k) = LineStart(ls, k - 1) + Len(ls[k]) + 1
  BY <1>1, LineStartTurns
<1>3. N \in Nat
  BY <1>1, LenProperties
<1> HIDE DEF N
<1>4. 0 \in S
  BY <1>1, <1>2
<1>5. ASSUME NEW k \in 1..N, k - 1 \in S PROVE k \in S
  <2>1. LineStart(ls, k - 1) = ends[k - 1] /\ k \in Nat
    BY <1>5
  <2>2. LineStart(ls, k) = ends[k]
    BY <1>1, <1>2, <2>1
  <2> QED BY <2>1, <2>2
<1> HIDE DEF S
<1>6. \A k \in 0..N : k \in S
  BY <1>3, <1>4, <1>5, UpTo
<1> QED BY <1>6 DEF S, N

\* Column at[2] of line at[1] is there and at[2] letters after the line's start is position p.
InLine(ls, ends, at, p) ==
  /\ at \in Nat \X Nat /\ at[1] < Len(ls) /\ at[2] <= Len(ls[at[1] + 1])
  /\ p = ends[at[1]] + at[2]

LEMMA NextInLine ==
  ASSUME NEW t \in Seq(Letters), NEW ls, NEW ends, CutBy(t, 1, ls, ends),
         NEW p \in 1..Len(t), NEW at, InLine(ls, ends, at, p - 1)
  PROVE  InLine(ls, ends, Past(t[p], at), p)
<1> DEFINE k == at[1]
           c == at[2]
           N == Len(ls)
           n == Len(ls[k + 1])
<1>1. /\ ls \in Seq(Seq(Letters)) /\ ends \in [0..N -> Nat] /\ ends[N] = Len(t) + 1
      /\ \A l \in 1..N :
           /\ ends[l] = ends[l - 1] + Len(ls[l]) + 1
           /\ \A j \in 1..Len(ls[l]) : t[ends[l - 1] + j] # Newline
           /\ l < N => t[ends[l]] = Newline
  BY DEF CutBy
<1>2. N \in Nat /\ \A l \in 1..N : Len(ls[l]) \in Nat
  BY <1>1, LenProperties, ElementOfSeq
<1>3. k \in Nat /\ c \in Nat /\ k < N /\ c <= n /\ p - 1 = ends[k] + c
  BY DEF InLine
<1>4. k + 1 \in 1..N /\ (k + 1) - 1 = k /\ k \in 0..N /\ k + 1 \in 0..N
  BY <1>2, <1>3
<1>5. n \in Nat /\ ends[k] \in Nat /\ ends[k + 1] \in Nat
  BY <1>1, <1>2, <1>4
<1>6. /\ ends[k + 1] = ends[k] + n + 1
      /\ \A j \in 1..n : t[ends[k] + j] # Newline
      /\ k + 1 < N => t[ends[k + 1]] = Newline
  BY <1>1, <1>4
<1>7. p \in Nat /\ p <= Len(t) /\ Len(t) \in Nat
  OBVIOUS
<1> HIDE DEF N, n
<1>8. p = ends[k] + (c + 1)
  <2> DEFINE x == ends[k]
  <2>1. x \in Nat /\ c \in Nat /\ p - 1 = x + c
    BY <1>3, <1>5
  <2> HIDE DEF x, c
  <2>2. p = x + (c + 1)
    BY <1>7, <2>1
  <2> QED BY <2>2 DEF x
<1>9. CASE t[p] = Newline
  <2>1. c + 1 \notin 1..n
    BY <1>6, <1>8, <1>9
  <2>2. c = n
    BY <1>3, <1>5, <2>1
  <2>3. p = ends[k + 1]
    BY <1>5, <1>6, <1>8, <2>2
  <2>4. k + 1 # N
    BY <1>1, <1>7, <2>3
  <2>5. k + 1 < N
    BY <1>2, <1>3, <2>4
  <2>6. (k + 1) + 1 \in 1..N
    BY <1>2, <1>3, <2>5
  <2>7. Len(ls[(k + 1) + 1]) \in Nat
    BY <1>2, <2>6
  <2> DEFINE q == <<k + 1, 0>>
  <2>8. Past(t[p], at) = q
    BY <1>9 DEF Past
  <2>9. q \in Nat \X Nat /\ q[1] = k + 1 /\ q[2] = 0
    BY <1>3
  <2> HIDE DEF q
  <2>10. q[1] < Len(ls) /\ q[2] <= Len(ls[q[1] + 1]) /\ p = ends[q[1]] + q[2]
    BY <1>5, <2>3, <2>5, <2>7, <2>9 DEF N
  <2> QED BY <2>8, <2>9, <2>10 DEF InLine
<1>10. CASE t[p] # Newline
  <2>1. c # n
    <3> SUFFICES ASSUME c = n PROVE FALSE
      OBVIOUS
    <3>1. p = ends[k + 1]
      BY <1>5, <1>6, <1>8
    <3>2. k + 1 = N
      BY <1>2, <1>3, <1>6, <1>10, <3>1
    <3> QED BY <1>1, <1>7, <3>1, <3>2
  <2>2. c + 1 <= n
    BY <1>3, <1>5, <2>1
  <2> DEFINE q == <<k, c + 1>>
  <2>3. Past(t[p], at) = q
    BY <1>10 DEF Past
  <2>4. q \in Nat \X Nat /\ q[1] = k /\ q[2] = c + 1
    BY <1>3
  <2> HIDE DEF q
  <2>5. q[1] < Len(ls) /\ q[2] <= Len(ls[q[1] + 1]) /\ p = ends[q[1]] + q[2]
    BY <1>3, <1>8, <2>2, <2>4 DEF N, n
  <2> QED BY <2>3, <2>4, <2>5 DEF InLine
<1> QED BY <1>9, <1>10

LEMMA CaretInLine ==
  ASSUME NEW t \in Seq(Letters), NEW ls, CutAtNewlines(t, 1, ls), NEW p \in 0..Len(t)
  PROVE  /\ LineColumn(t, p)[1] < Len(ls)
         /\ LineColumn(t, p)[2] <= Len(ls[LineColumn(t, p)[1] + 1])
         /\ p = LineStart(ls, LineColumn(t, p)[1]) + LineColumn(t, p)[2]
<1>1. PICK ends : CutBy(t, 1, ls, ends)
  BY DEF CutAtNewlines
<1>2. PICK at \in [0..Len(t) -> Nat \X Nat] :
        /\ at[0] = <<0, 0>>
        /\ \A i \in 1..Len(t) : at[i] = Past(t[i], at[i - 1])
        /\ \A i \in 0..Len(t) : LineColumn(t, i) = at[i]
  BY LineColumnTurns
<1> DEFINE S == {i \in Nat : InLine(ls, ends, at[i], i)}
           N == Len(ls)
<1>3. 0 \in S
  <2>1. ls \in Seq(Seq(Letters)) /\ ls # <<>> /\ ends[0] = 0
    BY <1>1 DEF CutBy
  <2>2. N \in Nat \ {0} /\ Len(ls[1]) \in Nat
    <3>1. N \in Nat \ {0}
      BY <2>1, EmptySeq
    <3>2. ls[1] \in Seq(Letters)
      BY <2>1, <3>1, ElementOfSeq
    <3> QED BY <3>1, <3>2, LenProperties
  <2> DEFINE q == <<0, 0>>
  <2>3. q \in Nat \X Nat /\ q[1] = 0 /\ q[2] = 0 /\ at[0] = q
    BY <1>2
  <2> HIDE DEF q
  <2>4. q[1] < Len(ls) /\ q[2] <= Len(ls[q[1] + 1]) /\ 0 = ends[q[1]] + q[2]
    BY <2>1, <2>2, <2>3
  <2> QED BY <2>3, <2>4 DEF InLine
<1>4. ASSUME NEW i \in 1..Len(t), i - 1 \in S PROVE i \in S
  <2>1. InLine(ls, ends, at[i - 1], i - 1) /\ i \in Nat
    BY <1>4
  <2>2. InLine(ls, ends, Past(t[i], at[i - 1]), i)
    BY <1>1, <2>1, NextInLine
  <2> QED BY <1>2, <2>1, <2>2
<1> HIDE DEF S
<1>5. p \in S
  <2>1. Len(t) \in Nat
    OBVIOUS
  <2> QED BY <1>3, <1>4, <2>1, UpTo
<1>6. InLine(ls, ends, at[p], p) /\ LineColumn(t, p) = at[p]
  BY <1>2, <1>5 DEF S
<1>7. at[p][1] \in 0..Len(ls)
  <2>1. ls \in Seq(Seq(Letters))
    BY <1>1 DEF CutBy
  <2>2. Len(ls) \in Nat /\ at[p][1] \in Nat /\ at[p][1] < Len(ls)
    BY <1>6, <2>1, LenProperties DEF InLine
  <2> QED BY <2>2
<1>8. LineStart(ls, at[p][1]) = ends[at[p][1]]
  BY <1>1, <1>7, LineStarts
<1> QED BY <1>6, <1>8 DEF InLine

\* Whatever was typed, set, selected or erased before, the caret is drawn on a line there is,
\* at a column of that line, the one its position in the text says (text_edit.cc 103-119,
\* 420-455).
THEOREM CaretAlwaysOnItsLine == Spec => []CaretOnItsLine
<1>1. IInv => CaretOnItsLine
  <2> SUFFICES ASSUME IInv, NEW e \in Edits
               PROVE  LET lines == IF edit[e].text = <<>> THEN << <<>> >> ELSE Lines(edit[e].text)
                          at == LineColumn(edit[e].text, edit[e].cursor)
                      IN  /\ at[1] < Len(lines)
                          /\ at[2] <= Len(lines[at[1] + 1])
                          /\ edit[e].cursor = LineStart(lines, at[1]) + at[2]
    BY DEF CaretOnItsLine
  <2> DEFINE t == edit[e].text
             p == edit[e].cursor
             lines == IF t = <<>> THEN << <<>> >> ELSE Lines(t)
  <2>1. t \in Seq(Letters) /\ p \in 0..Len(t)
    BY DEF IInv, TypeOK, Positions, EditState
  <2> HIDE DEF t, p
  <2>2. CutAtNewlines(t, 1, lines)
    <3>1. CASE t = <<>>
      <4>1. Len(t) = 0 /\ 1 \in 1..(Len(t) + 1) /\ 1..0 = {} /\ lines = << <<>> >>
        BY <3>1
      <4>2. Ends(t, 1) = {}
        BY <4>1 DEF Ends
      <4>3. SubSeq(t, 1, Len(t)) = <<>>
        BY <4>1, SubSeqEmpty
      <4> QED BY <2>1, <4>1, <4>2, <4>3, LastLine
    <3>2. CASE t # <<>>
      BY <2>1, <3>2, LinesAreTheText
    <3> QED BY <3>1, <3>2
  <2> HIDE DEF lines
  <2>3. /\ LineColumn(t, p)[1] < Len(lines)
        /\ LineColumn(t, p)[2] <= Len(lines[LineColumn(t, p)[1] + 1])
        /\ p = LineStart(lines, LineColumn(t, p)[1]) + LineColumn(t, p)[2]
    BY <2>1, <2>2, CaretInLine
  <2> QED BY <2>3 DEF t, p, lines
<1> QED BY <1>1, InvariantHolds, PTL
=============================================================================
