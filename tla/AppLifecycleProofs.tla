------------------------- MODULE AppLifecycleProofs -------------------------
(***************************************************************************)
(* Proofs about AppLifecycle, for any number of delegates and windows.     *)
(***************************************************************************)
EXTENDS AppLifecycle, TLAPS, SequenceTheorems

\* A frame before frame i that sees to it that the delegate is initialised by then.
Led(s, i) == \E j \in 1..(i - 1) : s[j].op \in {"ensure", "init", "initialized"}

\* What may be pending: without a delegate only what does without; a call of init() is
\* the innermost one, and the delegate hears nothing before it has returned.
Stack ==
  /\ app.delegate = None =>
       ~app.initialized /\ \A i \in 1..Len(calls) : calls[i].op \in {"ensure", "destroyed"}
  /\ \A i \in 1..Len(calls) :
       /\ calls[i].op \in {"sync", "destroyed"} => i = Len(calls)
       /\ calls[i].op = "init" => /\ i = 1 /\ ~app.initialized
                                  /\ 1 < Len(calls) /\ calls[2].op = "initialized"
       /\ calls[i].op \in {"settle", "terminate"} => app.initialized \/ Led(calls, i)
       /\ calls[i].op = "settle" => calls[i].was = ~calls[i].wasBack

\* The delegate is not taken for initialised before its init() was called.
Initiation ==
  app.delegate # None =>
    /\ app.initialized => told[app.delegate].inits > 0
    /\ \A i \in 1..Len(calls) :
         calls[i].op = "initialized" => told[app.delegate].inits > 0 \/ calls[1].op = "init"

\* The end is on its way to be announced at most once, and then nobody has heard of it.
Ending ==
  /\ \A i, j \in 1..Len(calls) : calls[i].op = "terminate" /\ calls[j].op = "terminate" => i = j
  /\ \A i \in 1..Len(calls) : calls[i].op = "terminate" =>
       app.terminated /\ \A d \in Delegates : told[d].ends = 0
  /\ \A d \in Delegates : told[d].ends > 0 => app.terminated
  /\ phase = "returned" => app.terminated

Believes(d, active) == (told[d].active <=> active) /\ (told[d].foreground <=> active)

\* A pending notification that tells of a change.
Tells(f) == f.op = "settle" /\ f.active # f.was

\* The only delegate ever installed is wrong about the app only while the notification
\* that puts it right, or the one sent to a new delegate, is pending.
Belief ==
  settled =>
    /\ \A d \in Delegates : d # app.delegate \/ ~app.initialized => Believes(d, FALSE)
    /\ app.delegate # None =>
         /\ \A i \in 1..Len(calls) :
              calls[i].op = "sync" => app.initialized \/ ~app.active \/ Led(calls, i)
         /\ \A i, j \in 1..Len(calls) : Tells(calls[i]) /\ Tells(calls[j]) => i = j
         /\ \A i \in 1..Len(calls) : Tells(calls[i]) =>
              calls[i].active = app.active /\ Believes(app.delegate, ~app.active)
         /\ \/ \E i \in 1..Len(calls) : Tells(calls[i])
            \/ Believes(app.delegate, app.active)
            \/ /\ Believes(app.delegate, FALSE)
               /\ \E i \in 1..Len(calls) : calls[i].op = "sync"

IInv ==
  TypeOK /\ Stack /\ Initiation /\ Ending /\ Belief /\ ActiveInForeground /\ InitComesFirst
    /\ EndsOnce

----------------------------------------------------------------------------
(* What the operators return. *)

AppFields ==
  [delegate : Delegates \cup {None}, initialized : BOOLEAN, runStarted : BOOLEAN,
   active : BOOLEAN, background : BOOLEAN, exitRequested : BOOLEAN, terminated : BOOLEAN]

ToldFields == [inits : 0..MaxInits, foreground : BOOLEAN, active : BOOLEAN, ends : 0..1]

LEMMA Types ==
  ASSUME TypeOK
  PROVE  /\ app \in AppFields /\ calls \in Seq(Frame) /\ told \in [Delegates -> ToldFields]
         /\ \A d \in Delegates : told[d] \in ToldFields
BY DEF TypeOK, AppFields, ToldFields

LEMMA HearIs ==
  ASSUME NEW t \in ToldFields
  PROVE  /\ Hear(t, "init") \in ToldFields /\ Hear(t, "init").inits > 0
         /\ Hear(t, "init").foreground = t.foreground /\ Hear(t, "init").active = t.active
         /\ Hear(t, "init").ends = t.ends
         /\ Hear(t, "foreground") = [t EXCEPT !.foreground = TRUE]
         /\ Hear(t, "active") = [t EXCEPT !.active = TRUE]
         /\ Hear(t, "resign") = [t EXCEPT !.active = FALSE]
         /\ Hear(t, "background") = [t EXCEPT !.foreground = FALSE]
         /\ Hear(t, "terminate") = [t EXCEPT !.ends = @ + 1]
<1>1. Hear(t, "init") = [t EXCEPT !.inits = IF @ < MaxInits THEN @ + 1 ELSE @]
  BY DEF Hear
<1>2. t.inits \in 0..3 /\ MaxInits = 3
  BY DEF ToldFields, MaxInits
<1>3. (IF t.inits < MaxInits THEN t.inits + 1 ELSE t.inits) \in 1..3
  BY <1>2
<1> DEFINE n == IF t.inits < MaxInits THEN t.inits + 1 ELSE t.inits
<1>4. Hear(t, "init") = [t EXCEPT !.inits = n]
  BY <1>1
<1> HIDE DEF n
<1>5. n \in 0..MaxInits /\ n > 0
  BY <1>2, <1>3 DEF n
<1>6. Hear(t, "init") \in ToldFields /\ Hear(t, "init").inits = n
      /\ Hear(t, "init").foreground = t.foreground /\ Hear(t, "init").active = t.active
      /\ Hear(t, "init").ends = t.ends
  BY <1>4, <1>5 DEF ToldFields
<1>7. /\ Hear(t, "foreground") = [t EXCEPT !.foreground = TRUE]
      /\ Hear(t, "active") = [t EXCEPT !.active = TRUE]
      /\ Hear(t, "resign") = [t EXCEPT !.active = FALSE]
      /\ Hear(t, "background") = [t EXCEPT !.foreground = FALSE]
      /\ Hear(t, "terminate") = [t EXCEPT !.ends = @ + 1]
  BY DEF Hear
<1> QED BY <1>5, <1>6, <1>7

\* A frame is taken from the stack: every other was the next one below.
LEMMA Popped ==
  ASSUME NEW s \in Seq(Frame), s # <<>>
  PROVE  /\ Tail(s) \in Seq(Frame) /\ Head(s) = s[1] /\ Head(s) \in Frame
         /\ Len(s) \in Nat \ {0} /\ Len(Tail(s)) = Len(s) - 1
         /\ \A i \in 1..Len(Tail(s)) : i + 1 \in 1..Len(s) /\ Tail(s)[i] = s[i + 1]
         /\ \A i \in 1..Len(Tail(s)) :
              Led(s, i + 1) /\ s[1].op \notin {"ensure", "init", "initialized"} => Led(Tail(s), i)
<1>1. Len(s) \in Nat \ {0}
  OBVIOUS
<1>2. /\ Tail(s) \in Seq(Frame) /\ Head(s) = s[1] /\ s[1] \in Frame
      /\ Len(Tail(s)) = Len(s) - 1
      /\ \A i \in 1..Len(Tail(s)) : Tail(s)[i] = s[i + 1]
  BY <1>1
<1>3. \A i \in 1..Len(Tail(s)) : i + 1 \in 1..Len(s)
  BY <1>1, <1>2
<1>4. ASSUME NEW i \in 1..Len(Tail(s)), Led(s, i + 1),
             s[1].op \notin {"ensure", "init", "initialized"}
      PROVE  Led(Tail(s), i)
  <2>1. PICK j \in 1..i : s[j].op \in {"ensure", "init", "initialized"}
    BY <1>4 DEF Led
  <2>2. j # 1
    BY <1>4, <2>1
  <2>3. j - 1 \in 1..(i - 1) /\ j - 1 \in 1..Len(Tail(s)) /\ (j - 1) + 1 = j
    BY <1>1, <1>2, <2>2
  <2>4. Tail(s)[j - 1] = s[j]
    BY <1>2, <2>3
  <2> QED BY <2>1, <2>3, <2>4 DEF Led
<1> QED BY <1>1, <1>2, <1>3, <1>4

\* Two frames are put on the stack.
LEMMA Pushed ==
  ASSUME NEW s \in Seq(Frame), NEW f \in Frame, NEW g \in Frame
  PROVE  LET t == <<f, g>> \o s IN
         /\ t \in Seq(Frame) /\ Len(t) = Len(s) + 2 /\ Len(s) \in Nat
         /\ t[1] = f /\ t[2] = g
         /\ \A i \in 1..Len(t) : i = 1 \/ i = 2 \/ (i - 2 \in 1..Len(s) /\ t[i] = s[i - 2])
         /\ \A i \in 1..Len(s) : i + 2 \in 1..Len(t) /\ t[i + 2] = s[i]
<1> DEFINE t == <<f, g>> \o s
<1>1. <<f, g>> \in Seq(Frame) /\ Len(<<f, g>>) = 2
  OBVIOUS
<1>2. t \in Seq(Frame) /\ Len(t) = Len(s) + 2 /\ Len(s) \in Nat
  BY <1>1
<1>3. t[1] = f /\ t[2] = g
  BY <1>1, <1>2
<1>4. \A i \in 1..Len(t) : i = 1 \/ i = 2 \/ (i - 2 \in 1..Len(s) /\ t[i] = s[i - 2])
  BY <1>1, <1>2
<1>5. \A i \in 1..Len(s) : i + 2 \in 1..Len(t) /\ t[i + 2] = s[i]
  BY <1>1, <1>2
<1> QED BY <1>2, <1>3, <1>4, <1>5

LEMMA FrameTypes ==
  /\ \A op \in {"ensure", "init", "initialized", "sync", "terminate", "destroyed"} :
       Do(op) \in Frame /\ Do(op).op = op
  /\ \A active, was, wasBack \in BOOLEAN :
       LET f == [op |-> "settle", active |-> active, was |-> was, wasBack |-> wasBack] IN
       f \in Frame /\ f.op = "settle" /\ f.active = active /\ f.was = was /\ f.wasBack = wasBack
BY DEF Do, Frame

\* Only the notifications to the delegate that is installed change what is told.
LEMMA TellIs ==
  ASSUME TypeOK, NEW t \in ToldFields, app.delegate # None,
         told' = [told EXCEPT ![app.delegate] = t]
  PROVE  /\ app.delegate \in Delegates /\ told' \in [Delegates -> ToldFields]
         /\ told'[app.delegate] = t
         /\ \A d \in Delegates : d # app.delegate => told'[d] = told[d]
BY DEF TypeOK, ToldFields

----------------------------------------------------------------------------
LEMMA InitHolds == Init => IInv
<1> SUFFICES ASSUME Init PROVE IInv
    OBVIOUS
<1>1. app \in AppFields /\ app.delegate = None /\ ~app.initialized /\ ~app.active
      /\ app.background
  BY DEF Init, AppFields
<1>2. /\ told \in [Delegates -> ToldFields]
      /\ \A d \in Delegates : told[d].inits = 0 /\ told[d].ends = 0
                               /\ ~told[d].foreground /\ ~told[d].active
  BY DEF Init, ToldFields, MaxInits
<1>3. calls \in Seq(Frame) /\ Len(calls) = 0
  BY DEF Init
<1>4. phase = "setup" /\ settled = TRUE /\ window \in [Windows -> {"none", "registered", "closed", "destroyed"}]
  BY DEF Init
<1>5. TypeOK
  BY <1>1, <1>2, <1>3, <1>4 DEF TypeOK, AppFields, ToldFields
<1>6. Stack /\ Initiation
  BY <1>1, <1>3 DEF Stack, Initiation
<1>7. Ending /\ EndsOnce /\ InitComesFirst
  BY <1>2, <1>3, <1>4 DEF Ending, EndsOnce, InitComesFirst
<1>8. Belief /\ ActiveInForeground
  BY <1>1, <1>2, <1>3 DEF Belief, Believes, ActiveInForeground
<1> QED BY <1>5, <1>6, <1>7, <1>8 DEF IInv

----------------------------------------------------------------------------
(* Steps that finish a pending call. *)

\* The stack stays sound when its top goes, unless that was to initialise the delegate
\* and has not done so.
LEMMA PopKeepsStack ==
  ASSUME IInv, calls # <<>>, calls' = Tail(calls), app'.delegate = app.delegate,
         app'.initialized \in BOOLEAN, app.initialized => app'.initialized,
         app'.initialized => app.initialized \/ Head(calls).op = "initialized",
         app.delegate = None => ~app'.initialized,
         \/ app'.initialized \/ app.delegate = None \/ Head(calls).op = "init"
         \/ Head(calls).op \notin {"ensure", "init", "initialized"}
  PROVE  Stack' /\ calls' \in Seq(Frame)
<1> DEFINE t == Tail(calls)
<1>1. calls \in Seq(Frame) /\ Stack
  BY DEF IInv, TypeOK
<1>2. /\ t \in Seq(Frame) /\ Head(calls) = calls[1] /\ Len(calls) \in Nat \ {0}
      /\ Len(t) = Len(calls) - 1
      /\ \A i \in 1..Len(t) : i + 1 \in 1..Len(calls) /\ t[i] = calls[i + 1]
      /\ \A i \in 1..Len(t) :
           Led(calls, i + 1) /\ calls[1].op \notin {"ensure", "init", "initialized"} => Led(t, i)
  BY <1>1, Popped
<1> HIDE DEF t
<1>3. ASSUME NEW i \in 1..Len(t)
      PROVE  /\ t[i].op \in {"sync", "destroyed"} => i = Len(t)
             /\ t[i].op # "init"
             /\ t[i].op \in {"settle", "terminate"} => app'.initialized \/ Led(t, i)
             /\ t[i].op = "settle" => t[i].was = ~t[i].wasBack
  <2>1. i + 1 \in 1..Len(calls) /\ t[i] = calls[i + 1] /\ i + 1 # 1
    BY <1>2
  <2>2. t[i].op \in {"sync", "destroyed"} => i + 1 = Len(calls)
    BY <1>1, <2>1 DEF Stack
  <2>3. t[i].op # "init" /\ (t[i].op = "settle" => t[i].was = ~t[i].wasBack)
    BY <1>1, <2>1 DEF Stack
  <2>4. ASSUME t[i].op \in {"settle", "terminate"}, ~app'.initialized
        PROVE  Led(t, i)
    <3>1. Led(calls, i + 1) /\ app.delegate # None
      BY <1>1, <2>1, <2>4 DEF Stack
    <3>2. CASE Head(calls).op = "init"
      <4>1. 1 < Len(calls) /\ calls[2].op = "initialized"
        BY <1>1, <1>2, <3>2 DEF Stack
      <4>2. 1 \in 1..Len(t) /\ t[1].op = "initialized"
        BY <1>2, <4>1
      <4>3. i # 1
        BY <2>4, <4>2
      <4> QED BY <4>2, <4>3 DEF Led
    <3>3. CASE Head(calls).op \notin {"ensure", "init", "initialized"}
      BY <1>2, <3>1, <3>3
    <3> QED BY <2>4, <3>1, <3>2, <3>3
  <2> QED BY <1>2, <2>2, <2>3, <2>4
<1>4. app.delegate = None => \A i \in 1..Len(t) : t[i].op \in {"ensure", "destroyed"}
  BY <1>1, <1>2 DEF Stack
<1>5. calls' = t
  BY DEF t
<1> QED BY <1>2, <1>3, <1>4, <1>5 DEF Stack

\* Nor does the end become known when another call returns.
LEMMA PopKeepsEnding ==
  ASSUME IInv, calls # <<>>, calls' = Tail(calls), phase' = phase,
         app'.terminated = app.terminated, Head(calls).op # "terminate",
         \A d \in Delegates : told'[d].ends = told[d].ends
  PROVE  Ending' /\ EndsOnce'
<1> DEFINE t == Tail(calls)
<1>1. /\ calls \in Seq(Frame) /\ Stack /\ Initiation /\ Ending /\ Belief /\ TypeOK
      /\ ActiveInForeground /\ InitComesFirst /\ EndsOnce
  BY DEF IInv, TypeOK
<1>2. /\ t \in Seq(Frame) /\ Head(calls) = calls[1] /\ Len(calls) \in Nat \ {0}
      /\ Len(t) = Len(calls) - 1
      /\ \A i \in 1..Len(t) : i + 1 \in 1..Len(calls) /\ t[i] = calls[i + 1]
      /\ \A i \in 1..Len(t) :
           Led(calls, i + 1) /\ calls[1].op \notin {"ensure", "init", "initialized"} => Led(t, i)
  BY <1>1, Popped
<1>3. calls' = t
  OBVIOUS
<1> HIDE DEF t
<1>4. \A i, j \in 1..Len(t) : t[i].op = "terminate" /\ t[j].op = "terminate" => i = j
  <2> SUFFICES ASSUME NEW i \in 1..Len(t), NEW j \in 1..Len(t),
                      t[i].op = "terminate", t[j].op = "terminate"
               PROVE  i = j
      OBVIOUS
  <2>1. /\ i + 1 \in 1..Len(calls) /\ calls[i + 1].op = "terminate"
        /\ j + 1 \in 1..Len(calls) /\ calls[j + 1].op = "terminate"
    BY <1>2
  <2>2. i + 1 = j + 1
    BY <1>1, <2>1 DEF Ending
  <2> QED BY <2>2
<1>5. \A i \in 1..Len(t) : t[i].op = "terminate" =>
        app.terminated /\ \A d \in Delegates : told[d].ends = 0
  BY <1>1, <1>2 DEF Ending
<1> QED BY <1>1, <1>3, <1>4, <1>5 DEF Ending, EndsOnce

\* A delegate whose init() was called stays one.
LEMMA PopKeepsInitiation ==
  ASSUME IInv, calls # <<>>, calls' = Tail(calls), app'.delegate = app.delegate,
         \A d \in Delegates : told[d].inits > 0 => told'[d].inits > 0,
         app.delegate # None /\ Head(calls).op = "init" => told'[app.delegate].inits > 0,
         app.delegate # None /\ app'.initialized => told'[app.delegate].inits > 0
  PROVE  Initiation'
<1> DEFINE t == Tail(calls)
<1>1. /\ calls \in Seq(Frame) /\ Stack /\ Initiation /\ Ending /\ Belief /\ TypeOK
      /\ ActiveInForeground /\ InitComesFirst /\ EndsOnce
  BY DEF IInv, TypeOK
<1>2. /\ t \in Seq(Frame) /\ Head(calls) = calls[1] /\ Len(calls) \in Nat \ {0}
      /\ Len(t) = Len(calls) - 1
      /\ \A i \in 1..Len(t) : i + 1 \in 1..Len(calls) /\ t[i] = calls[i + 1]
      /\ \A i \in 1..Len(t) :
           Led(calls, i + 1) /\ calls[1].op \notin {"ensure", "init", "initialized"} => Led(t, i)
  BY <1>1, Popped
<1>3. calls' = t
  OBVIOUS
<1> HIDE DEF t
<1> SUFFICES ASSUME app.delegate # None, NEW i \in 1..Len(t), t[i].op = "initialized"
             PROVE  told'[app.delegate].inits > 0
    BY <1>3 DEF Initiation
<1>4. app.delegate \in Delegates
  BY <1>1 DEF TypeOK
<1>5. told[app.delegate].inits > 0 \/ calls[1].op = "init"
  BY <1>1, <1>2 DEF Initiation
<1> QED BY <1>2, <1>4, <1>5

\* What a delegate believes stays true when a call without news returns.
LEMMA PopKeepsBelief ==
  ASSUME IInv, calls # <<>>, calls' = Tail(calls), settled' = settled,
         app' \in AppFields, app'.delegate = app.delegate, app'.active = app.active,
         app.initialized => app'.initialized,
         app'.initialized => app.initialized \/ Head(calls).op = "initialized",
         \/ app'.initialized \/ app.delegate = None \/ Head(calls).op = "init"
         \/ Head(calls).op \notin {"ensure", "init", "initialized"},
         Head(calls).op # "sync", ~Tells(Head(calls)),
         \A d \in Delegates :
           told'[d].active = told[d].active /\ told'[d].foreground = told[d].foreground
  PROVE  Belief'
<1> DEFINE t == Tail(calls)
<1>1. /\ calls \in Seq(Frame) /\ Stack /\ Initiation /\ Ending /\ Belief /\ TypeOK
      /\ ActiveInForeground /\ InitComesFirst /\ EndsOnce
  BY DEF IInv, TypeOK
<1>2. /\ t \in Seq(Frame) /\ Head(calls) = calls[1] /\ Len(calls) \in Nat \ {0}
      /\ Len(t) = Len(calls) - 1
      /\ \A i \in 1..Len(t) : i + 1 \in 1..Len(calls) /\ t[i] = calls[i + 1]
      /\ \A i \in 1..Len(t) :
           Led(calls, i + 1) /\ calls[1].op \notin {"ensure", "init", "initialized"} => Led(t, i)
  BY <1>1, Popped
<1>3. calls' = t
  OBVIOUS
<1>4. \A i \in 1..Len(calls) : i # 1 => i - 1 \in 1..Len(t) /\ t[i - 1] = calls[i]
  <2>1. \A i \in 1..Len(calls) : i # 1 => i - 1 \in 1..Len(t) /\ (i - 1) + 1 = i
    BY <1>2
  <2> QED BY <1>2, <2>1
<1> HIDE DEF t
<1> SUFFICES ASSUME settled
             PROVE  Belief'
    BY DEF Belief
<1>5. \A d \in Delegates : d # app'.delegate \/ ~app'.initialized => Believes(d, FALSE)'
  BY <1>1 DEF Belief, Believes
<1>6. ASSUME app.delegate # None
      PROVE  /\ \A i \in 1..Len(t) :
                  t[i].op = "sync" => app'.initialized \/ ~app.active \/ Led(t, i)
             /\ \A i, j \in 1..Len(t) : Tells(t[i]) /\ Tells(t[j]) => i = j
             /\ \A i \in 1..Len(t) : Tells(t[i]) =>
                  t[i].active = app.active /\ Believes(app.delegate, ~app.active)
             /\ \/ \E i \in 1..Len(t) : Tells(t[i])
                \/ Believes(app.delegate, app.active)
                \/ /\ Believes(app.delegate, FALSE)
                   /\ \E i \in 1..Len(t) : t[i].op = "sync"
  <2>1. ASSUME NEW i \in 1..Len(t), t[i].op = "sync", ~app'.initialized, app.active
        PROVE  Led(t, i)
    <3>1. i + 1 \in 1..Len(calls) /\ calls[i + 1].op = "sync" /\ Led(calls, i + 1)
      BY <1>1, <1>2, <1>6, <2>1 DEF Belief
    <3>2. CASE Head(calls).op = "init"
      <4>1. 1 < Len(calls) /\ calls[2].op = "initialized"
        BY <1>1, <1>2, <3>2 DEF Stack
      <4>2. 1 \in 1..Len(t) /\ t[1].op = "initialized"
        BY <1>2, <4>1
      <4>3. i # 1
        BY <2>1, <4>2
      <4> QED BY <4>2, <4>3 DEF Led
    <3>3. CASE Head(calls).op \notin {"ensure", "init", "initialized"}
      BY <1>2, <3>1, <3>3
    <3> QED BY <1>6, <2>1, <3>2, <3>3
  <2>2. ASSUME NEW i \in 1..Len(t), NEW j \in 1..Len(t), Tells(t[i]), Tells(t[j])
        PROVE  i = j
    <3>1. i + 1 = j + 1
      BY <1>1, <1>2, <1>6, <2>2 DEF Belief
    <3> QED BY <3>1
  <2>3. ASSUME NEW i \in 1..Len(t), Tells(t[i])
        PROVE  t[i].active = app.active /\ Believes(app.delegate, ~app.active)
    <3>1. i + 1 \in 1..Len(calls) /\ t[i] = calls[i + 1]
      BY <1>2
    <3>2. Tells(calls[i + 1])
      BY <2>3, <3>1
    <3> HIDE DEF Tells
    <3> QED BY <1>1, <1>6, <3>1, <3>2 DEF Belief
  <2>4. \/ \E i \in 1..Len(calls) : Tells(calls[i])
        \/ Believes(app.delegate, app.active)
        \/ /\ Believes(app.delegate, FALSE)
           /\ \E i \in 1..Len(calls) : calls[i].op = "sync"
    BY <1>1, <1>6 DEF Belief
  <2>5. (\E i \in 1..Len(calls) : Tells(calls[i])) => \E i \in 1..Len(t) : Tells(t[i])
    <3> SUFFICES ASSUME NEW i \in 1..Len(calls), Tells(calls[i])
                 PROVE  \E j \in 1..Len(t) : Tells(t[j])
        OBVIOUS
    <3>1. i # 1
      BY <1>2
    <3>2. i - 1 \in 1..Len(t) /\ t[i - 1] = calls[i]
      BY <1>4, <3>1
    <3> QED BY <3>2
  <2>6. (\E i \in 1..Len(calls) : calls[i].op = "sync") =>
          \E i \in 1..Len(t) : t[i].op = "sync"
    <3> SUFFICES ASSUME NEW i \in 1..Len(calls), calls[i].op = "sync"
                 PROVE  \E j \in 1..Len(t) : t[j].op = "sync"
        OBVIOUS
    <3>1. i # 1
      BY <1>2
    <3>2. i - 1 \in 1..Len(t) /\ t[i - 1] = calls[i]
      BY <1>4, <3>1
    <3> QED BY <3>2
  <2> HIDE DEF Tells, Believes
  <2>7. \/ \E i \in 1..Len(t) : Tells(t[i])
        \/ Believes(app.delegate, app.active)
        \/ /\ Believes(app.delegate, FALSE)
           /\ \E i \in 1..Len(t) : t[i].op = "sync"
    BY <2>4, <2>5, <2>6
  <2>8. \A i \in 1..Len(t) : t[i].op = "sync" => app'.initialized \/ ~app.active \/ Led(t, i)
    BY <2>1
  <2>9. \A i, j \in 1..Len(t) : Tells(t[i]) /\ Tells(t[j]) => i = j
    BY <2>2
  <2>10. \A i \in 1..Len(t) : Tells(t[i]) =>
           t[i].active = app.active /\ Believes(app.delegate, ~app.active)
    BY <2>3
  <2> QED BY <2>7, <2>8, <2>9, <2>10
<1>7. app.delegate # None =>
        /\ Believes(app.delegate, FALSE) <=> Believes(app.delegate, FALSE)'
        /\ Believes(app.delegate, app.active) <=> Believes(app.delegate, app.active)'
        /\ Believes(app.delegate, ~app.active) <=> Believes(app.delegate, ~app.active)'
  BY <1>1 DEF TypeOK, Believes
<1> HIDE DEF Tells
<1> QED BY <1>3, <1>5, <1>6, <1>7 DEF Belief

\* A call that returns without news of the app for the delegate.
LEMMA QuietPop ==
  ASSUME IInv, calls # <<>>, calls' = Tail(calls), UNCHANGED <<phase, window, settled>>,
         app' \in AppFields, app'.delegate = app.delegate, app'.active = app.active,
         app'.background = app.background, app'.terminated = app.terminated,
         app.initialized => app'.initialized,
         app'.initialized => app.initialized \/ Head(calls).op = "initialized",
         app.delegate = None => ~app'.initialized,
         \/ app'.initialized \/ app.delegate = None \/ Head(calls).op = "init"
         \/ Head(calls).op \notin {"ensure", "init", "initialized"},
         Head(calls).op \notin {"sync", "terminate"}, ~Tells(Head(calls)),
         told' \in [Delegates -> ToldFields],
         \A d \in Delegates :
           /\ told'[d].active = told[d].active
           /\ told'[d].foreground = told[d].foreground
           /\ told'[d].ends = told[d].ends
           /\ told[d].inits > 0 => told'[d].inits > 0,
         app.delegate # None /\ Head(calls).op = "init" => told'[app.delegate].inits > 0,
         app.delegate # None /\ app'.initialized => told'[app.delegate].inits > 0
  PROVE  IInv'
<1> USE DEF AppFields
<1>1. Stack' /\ calls' \in Seq(Frame)
  BY PopKeepsStack
<1>2. TypeOK'
  BY <1>1 DEF IInv, TypeOK, ToldFields
<1>3. Initiation'
  BY PopKeepsInitiation
<1>4. Ending' /\ EndsOnce'
  BY PopKeepsEnding
<1>5. Belief'
  BY PopKeepsBelief
<1>6. ActiveInForeground' /\ InitComesFirst'
  BY DEF IInv, ActiveInForeground, InitComesFirst
<1> QED BY <1>1, <1>2, <1>3, <1>4, <1>5, <1>6 DEF IInv

\* What the top of the stack is, and for whom.
LEMMA TopIs ==
  ASSUME IInv, calls # <<>>
  PROVE  /\ Head(calls) = calls[1] /\ Head(calls) \in Frame /\ 1 \in 1..Len(calls)
         /\ Len(calls) \in Nat \ {0}
         /\ Head(calls).op \in {"settle", "terminate"} =>
              app.delegate \in Delegates /\ app.initialized
         /\ Head(calls).op = "settle" =>
              /\ Head(calls).active \in BOOLEAN /\ Head(calls).was \in BOOLEAN
              /\ Head(calls).wasBack \in BOOLEAN /\ Head(calls).was = ~Head(calls).wasBack
         /\ Head(calls).op \in {"init", "initialized", "sync"} => app.delegate \in Delegates
<1>1. calls \in Seq(Frame) /\ Stack /\ app.delegate \in Delegates \cup {None}
  BY DEF IInv, TypeOK
<1>2. Head(calls) = calls[1] /\ Head(calls) \in Frame /\ Len(calls) \in Nat \ {0}
  BY <1>1, Popped
<1>3. 1 \in 1..Len(calls) /\ ~Led(calls, 1)
  BY <1>2 DEF Led
<1>4. Head(calls).op = "settle" =>
        /\ Head(calls).active \in BOOLEAN /\ Head(calls).was \in BOOLEAN
        /\ Head(calls).wasBack \in BOOLEAN
  BY <1>2 DEF Frame
<1>5. Head(calls).op = "settle" => Head(calls).was = ~Head(calls).wasBack
  BY <1>1, <1>2, <1>3 DEF Stack
<1>6. Head(calls).op \in {"settle", "terminate"} => app.delegate \in Delegates /\ app.initialized
  BY <1>1, <1>2, <1>3 DEF Stack
<1>7. Head(calls).op \in {"init", "initialized", "sync"} => app.delegate \in Delegates
  BY <1>1, <1>2, <1>3 DEF Stack
<1> QED BY <1>2, <1>3, <1>4, <1>5, <1>6, <1>7

\* What settling tells: both flags of the change, or nothing.
LEMMA SettleTells ==
  ASSUME IInv, Settle
  PROVE  /\ app.delegate \in Delegates /\ told' \in [Delegates -> ToldFields]
         /\ ~Tells(Head(calls)) => told' = told
         /\ Tells(Head(calls)) =>
              told'[app.delegate].active = Head(calls).active
              /\ told'[app.delegate].foreground = Head(calls).active
         /\ \A d \in Delegates : d # app.delegate => told'[d] = told[d]
         /\ \A d \in Delegates :
              told'[d].inits = told[d].inits /\ told'[d].ends = told[d].ends
<1> DEFINE f == Head(calls)
           t == told[app.delegate]
<1>1. calls # <<>> /\ f.op = "settle"
  BY DEF Settle, Pending, Idle
<1>2. /\ app.delegate \in Delegates /\ f.active \in BOOLEAN /\ f.was \in BOOLEAN
      /\ f.wasBack = ~f.was
  BY <1>1, TopIs
<1>3. t \in ToldFields /\ told \in [Delegates -> ToldFields]
  BY <1>2, Types DEF IInv
<1>4. CASE f.active = f.was
  <2>1. told' = [told EXCEPT ![app.delegate] = t]
    BY <1>2, <1>4 DEF Settle, Tell2
  <2>2. told' = told
    BY <1>2, <1>3, <2>1
  <2> QED BY <1>1, <1>2, <1>3, <1>4, <2>2 DEF Tells
<1>5. CASE f.active /\ ~f.was
  <2>1. told' = [told EXCEPT ![app.delegate] = Hear(Hear(t, "foreground"), "active")]
    BY <1>2, <1>5 DEF Settle, Tell2
  <2>2. Hear(t, "foreground") = [t EXCEPT !.foreground = TRUE]
    BY <1>3, HearIs
  <2>3. Hear(t, "foreground") \in ToldFields
    BY <1>3, <2>2 DEF ToldFields
  <2>4. Hear(Hear(t, "foreground"), "active") = [Hear(t, "foreground") EXCEPT !.active = TRUE]
    BY <2>3, HearIs
  <2> DEFINE u == Hear(Hear(t, "foreground"), "active")
  <2>5. /\ u \in ToldFields /\ u.active = TRUE /\ u.foreground = TRUE
        /\ u.inits = t.inits /\ u.ends = t.ends
    BY <1>3, <2>2, <2>3, <2>4 DEF ToldFields
  <2> HIDE DEF u
  <2>6. /\ told' \in [Delegates -> ToldFields] /\ told'[app.delegate] = u
        /\ \A d \in Delegates : d # app.delegate => told'[d] = told[d]
    BY <1>2, <1>3, <2>1, <2>5 DEF u
  <2> QED BY <1>1, <1>2, <1>5, <2>5, <2>6 DEF Tells
<1>6. CASE ~f.active /\ f.was
  <2>1. told' = [told EXCEPT ![app.delegate] = Hear(Hear(t, "resign"), "background")]
    BY <1>2, <1>6 DEF Settle, Tell2
  <2>2. Hear(t, "resign") = [t EXCEPT !.active = FALSE]
    BY <1>3, HearIs
  <2>3. Hear(t, "resign") \in ToldFields
    BY <1>3, <2>2 DEF ToldFields
  <2>4. Hear(Hear(t, "resign"), "background") = [Hear(t, "resign") EXCEPT !.foreground = FALSE]
    BY <2>3, HearIs
  <2> DEFINE u == Hear(Hear(t, "resign"), "background")
  <2>5. /\ u \in ToldFields /\ u.active = FALSE /\ u.foreground = FALSE
        /\ u.inits = t.inits /\ u.ends = t.ends
    BY <1>3, <2>2, <2>3, <2>4 DEF ToldFields
  <2> HIDE DEF u
  <2>6. /\ told' \in [Delegates -> ToldFields] /\ told'[app.delegate] = u
        /\ \A d \in Delegates : d # app.delegate => told'[d] = told[d]
    BY <1>2, <1>3, <2>1, <2>5 DEF u
  <2> QED BY <1>1, <1>2, <1>6, <2>5, <2>6 DEF Tells
<1> QED BY <1>2, <1>4, <1>5, <1>6

\* What synchronising tells a delegate that was initialised: all that is true of the app.
LEMMA SyncTells ==
  ASSUME IInv, Sync
  PROVE  /\ app.delegate \in Delegates /\ told' \in [Delegates -> ToldFields]
         /\ ~app.initialized \/ ~app.active => told' = told
         /\ app.initialized /\ app.active =>
              told'[app.delegate].active /\ told'[app.delegate].foreground
         /\ \A d \in Delegates : d # app.delegate => told'[d] = told[d]
         /\ \A d \in Delegates :
              told'[d].inits = told[d].inits /\ told'[d].ends = told[d].ends
<1> DEFINE t == told[app.delegate]
<1>1. calls # <<>> /\ Head(calls).op = "sync"
  BY DEF Sync, Pending, Idle
<1>2. app.delegate \in Delegates /\ app.active \in BOOLEAN /\ app.background = ~app.active
  BY <1>1, TopIs DEF IInv, TypeOK, ActiveInForeground
<1>3. t \in ToldFields /\ told \in [Delegates -> ToldFields]
  BY <1>2, Types DEF IInv
<1>4. CASE ~app.initialized
  BY <1>2, <1>3, <1>4 DEF Sync
<1>5. CASE app.initialized /\ ~app.active
  <2>1. told' = [told EXCEPT ![app.delegate] = t]
    BY <1>2, <1>5 DEF Sync, Tell2
  <2>2. told' = told
    BY <1>2, <1>3, <2>1
  <2> QED BY <1>2, <1>3, <1>5, <2>2
<1>6. CASE app.initialized /\ app.active
  <2>1. told' = [told EXCEPT ![app.delegate] = Hear(Hear(t, "foreground"), "active")]
    BY <1>2, <1>6 DEF Sync, Tell2
  <2>2. Hear(t, "foreground") = [t EXCEPT !.foreground = TRUE]
    BY <1>3, HearIs
  <2>3. Hear(t, "foreground") \in ToldFields
    BY <1>3, <2>2 DEF ToldFields
  <2>4. Hear(Hear(t, "foreground"), "active") = [Hear(t, "foreground") EXCEPT !.active = TRUE]
    BY <2>3, HearIs
  <2> DEFINE u == Hear(Hear(t, "foreground"), "active")
  <2>5. /\ u \in ToldFields /\ u.active = TRUE /\ u.foreground = TRUE
        /\ u.inits = t.inits /\ u.ends = t.ends
    BY <1>3, <2>2, <2>3, <2>4 DEF ToldFields
  <2> HIDE DEF u
  <2>6. /\ told' \in [Delegates -> ToldFields] /\ told'[app.delegate] = u
        /\ \A d \in Delegates : d # app.delegate => told'[d] = told[d]
    BY <1>2, <1>3, <2>1, <2>5 DEF u
  <2> QED BY <1>2, <1>6, <2>5, <2>6
<1> QED BY <1>2, <1>4, <1>5, <1>6

LEMMA SettleKeeps == IInv /\ Settle => IInv'
<1> SUFFICES ASSUME IInv, Settle PROVE IInv'
    OBVIOUS
<1> DEFINE f == Head(calls)
           d == app.delegate
<1>1. /\ calls # <<>> /\ f.op = "settle" /\ calls' = Tail(calls)
      /\ UNCHANGED <<app, phase, window, settled>>
  BY DEF Settle, Pending, Idle
<1>2. /\ f = calls[1] /\ 1 \in 1..Len(calls) /\ f.active \in BOOLEAN /\ f.was \in BOOLEAN
      /\ d \in Delegates /\ app.initialized /\ app \in AppFields /\ d # None
  BY <1>1, TopIs, Types, ConstantsAssumption DEF IInv
<1>3. /\ told' \in [Delegates -> ToldFields]
      /\ ~Tells(f) => told' = told
      /\ Tells(f) => told'[d].active = f.active /\ told'[d].foreground = f.active
      /\ \A e \in Delegates : e # d => told'[e] = told[e]
      /\ \A e \in Delegates : told'[e].inits = told[e].inits /\ told'[e].ends = told[e].ends
  BY SettleTells
<1>4. told[d].inits > 0
  BY <1>2 DEF IInv, Initiation
<1> HIDE DEF f, d
<1>5. CASE ~Tells(f)
  BY <1>1, <1>2, <1>3, <1>4, <1>5, QuietPop DEF f, d
<1>6. CASE Tells(f)
  <2>1. Stack' /\ calls' \in Seq(Frame)
    BY <1>1, <1>2, PopKeepsStack DEF AppFields, f, d
  <2>2. TypeOK'
    BY <1>1, <1>3, <2>1 DEF IInv, TypeOK, ToldFields
  <2>3. Initiation'
    <3>1. /\ \A e \in Delegates : told[e].inits > 0 => told'[e].inits > 0
          /\ told'[app.delegate].inits > 0 /\ app' = app /\ Head(calls).op # "init"
      BY <1>1, <1>2, <1>3, <1>4 DEF f, d
    <3> QED BY <1>1, <3>1, PopKeepsInitiation
  <2>4. Ending' /\ EndsOnce'
    BY <1>1, <1>3, PopKeepsEnding DEF f
  <2>5. ActiveInForeground' /\ InitComesFirst'
    <3>1. ASSUME NEW e \in Delegates
          PROVE  /\ told'[e].active => told'[e].foreground
                 /\ told'[e].foreground \/ told'[e].active \/ told'[e].ends > 0 =>
                      told'[e].inits > 0
      <4>1. CASE e = d
        BY <1>3, <1>4, <1>6, <4>1
      <4>2. CASE e # d
        BY <1>3, <4>2 DEF IInv, ActiveInForeground, InitComesFirst
      <4> QED BY <4>1, <4>2
    <3> QED BY <1>1, <3>1 DEF IInv, ActiveInForeground, InitComesFirst
  <2>6. Belief'
    <3> SUFFICES ASSUME settled PROVE Belief'
        BY <1>1 DEF Belief
    <3>1. /\ f.active = app.active
          /\ \A i, j \in 1..Len(calls) : Tells(calls[i]) /\ Tells(calls[j]) => i = j
          /\ \A e \in Delegates : e # d => Believes(e, FALSE)
      BY <1>2, <1>6 DEF IInv, Belief, d
    <3>2. ASSUME NEW i \in 1..Len(calls')
          PROVE  ~Tells(calls'[i])
      <4>1. i + 1 \in 1..Len(calls) /\ calls'[i] = calls[i + 1] /\ i + 1 # 1
        BY <1>1, Popped DEF IInv, TypeOK
      <4> HIDE DEF Tells
      <4> QED BY <1>2, <1>6, <3>1, <4>1
    <3>3. /\ Believes(d, app.active)'
          /\ \A e \in Delegates : e # d => Believes(e, FALSE)'
      BY <1>1, <1>2, <1>3, <1>6, <3>1 DEF Believes, d
    <3> HIDE DEF Tells, Believes
    <3> QED BY <1>1, <1>2, <3>2, <3>3 DEF Belief, d
  <2> QED BY <2>1, <2>2, <2>3, <2>4, <2>5, <2>6 DEF IInv
<1> QED BY <1>5, <1>6

LEMMA SyncKeeps == IInv /\ Sync => IInv'
<1> SUFFICES ASSUME IInv, Sync PROVE IInv'
    OBVIOUS
<1> DEFINE d == app.delegate
<1>1. /\ calls # <<>> /\ Head(calls).op = "sync" /\ calls' = Tail(calls)
      /\ UNCHANGED <<app, phase, window, settled>>
  BY DEF Sync, Pending, Idle
<1>2. /\ Head(calls) = calls[1] /\ 1 \in 1..Len(calls) /\ Len(calls) \in Nat
      /\ d \in Delegates /\ app \in AppFields /\ d # None
  BY <1>1, TopIs, Types, ConstantsAssumption DEF IInv
<1>3. /\ told' \in [Delegates -> ToldFields]
      /\ ~app.initialized \/ ~app.active => told' = told
      /\ app.initialized /\ app.active => told'[d].active /\ told'[d].foreground
      /\ \A e \in Delegates : e # d => told'[e] = told[e]
      /\ \A e \in Delegates : told'[e].inits = told[e].inits /\ told'[e].ends = told[e].ends
  BY SyncTells
<1>4. app.initialized => told[d].inits > 0
  BY <1>2 DEF IInv, Initiation
<1>5. Stack' /\ calls' \in Seq(Frame)
  BY <1>1, <1>2, PopKeepsStack DEF AppFields, d, IInv, Stack
<1>6. TypeOK'
  BY <1>1, <1>3, <1>5 DEF IInv, TypeOK, ToldFields
<1>7. Initiation'
  <2>1. /\ \A e \in Delegates : told[e].inits > 0 => told'[e].inits > 0
        /\ app.initialized => told'[app.delegate].inits > 0
        /\ app' = app /\ Head(calls).op # "init"
    BY <1>1, <1>2, <1>3, <1>4 DEF d
  <2> QED BY <1>1, <2>1, PopKeepsInitiation
<1>8. Ending' /\ EndsOnce'
  BY <1>1, <1>3, PopKeepsEnding
<1>9. ActiveInForeground' /\ InitComesFirst'
  <2>1. ASSUME NEW e \in Delegates
        PROVE  /\ told'[e].active => told'[e].foreground
               /\ told'[e].foreground \/ told'[e].active \/ told'[e].ends > 0 =>
                    told'[e].inits > 0
    <3>1. CASE e = d /\ app.initialized /\ app.active
      BY <1>3, <1>4, <3>1
    <3>2. CASE e # d \/ ~app.initialized \/ ~app.active
      BY <1>3, <3>2 DEF IInv, ActiveInForeground, InitComesFirst
    <3> QED BY <3>1, <3>2
  <2> QED BY <1>1, <2>1 DEF IInv, ActiveInForeground, InitComesFirst
<1>10. Belief'
  <2> SUFFICES ASSUME settled PROVE Belief'
      BY <1>1 DEF Belief
  <2>1. Len(calls) = 1 /\ Len(calls') = 0
    <3>1. 1 = Len(calls)
      BY <1>1, <1>2 DEF IInv, Stack
    <3>2. Len(calls') = Len(calls) - 1
      BY <1>1, Popped DEF IInv, TypeOK
    <3> QED BY <3>1, <3>2
  <2>2. /\ app.initialized \/ ~app.active
        /\ Believes(d, app.active) \/ Believes(d, FALSE)
        /\ \A e \in Delegates : e # d \/ ~app.initialized => Believes(e, FALSE)
    <3>1. ~Led(calls, 1)
      BY DEF Led
    <3>2. \A i \in 1..Len(calls) : ~Tells(calls[i])
      BY <1>1, <1>2, <2>1 DEF Tells
    <3> HIDE DEF Tells, Believes
    <3>3. Belief
      BY DEF IInv
    <3>4. /\ app.initialized \/ ~app.active
          /\ Believes(d, app.active) \/ Believes(d, FALSE)
      BY <1>1, <1>2, <3>1, <3>2, <3>3 DEF Belief
    <3>5. \A e \in Delegates : e # d \/ ~app.initialized => Believes(e, FALSE)
      BY <3>3 DEF Belief
    <3> QED BY <3>4, <3>5
  <2>3. /\ Believes(d, app.active)'
        /\ \A e \in Delegates : e # d \/ ~app.initialized => Believes(e, FALSE)'
    <3>1. CASE app.initialized /\ app.active
      BY <1>1, <1>2, <1>3, <2>2, <3>1 DEF Believes, d
    <3>2. CASE ~app.initialized \/ ~app.active
      <4>1. told' = told /\ ~app.active
        BY <1>3, <2>2, <3>2
      <4> QED BY <1>1, <1>2, <2>2, <4>1 DEF Believes, d
    <3> QED BY <3>1, <3>2
  <2>4. /\ \A e \in Delegates : e # app'.delegate \/ ~app'.initialized => Believes(e, FALSE)'
        /\ Believes(app.delegate, app.active)'
    BY <1>1, <2>3
  <2>5. \A i \in 1..Len(calls') : FALSE
    BY <2>1
  <2> HIDE DEF Believes, d
  <2> QED BY <2>4, <2>5 DEF Belief
<1> QED BY <1>5, <1>6, <1>7, <1>8, <1>9, <1>10 DEF IInv

LEMMA TerminateKeeps == IInv /\ Terminate => IInv'
<1> SUFFICES ASSUME IInv, Terminate PROVE IInv'
    OBVIOUS
<1> DEFINE d == app.delegate
           t == Hear(told[d], "terminate")
<1>1. /\ calls # <<>> /\ Head(calls).op = "terminate" /\ calls' = Tail(calls)
      /\ UNCHANGED <<app, phase, window, settled>>
      /\ told' = [told EXCEPT ![d] = t]
  BY DEF Terminate, Pending, Idle, Tell
<1>2. /\ Head(calls) = calls[1] /\ 1 \in 1..Len(calls) /\ Len(calls) \in Nat
      /\ d \in Delegates /\ app \in AppFields /\ d # None /\ app.initialized
  BY <1>1, TopIs, Types, ConstantsAssumption DEF IInv
<1>3. /\ app.terminated /\ \A e \in Delegates : told[e].ends = 0
      /\ \A i \in 1..Len(calls) : calls[i].op = "terminate" => i = 1
  BY <1>1, <1>2 DEF IInv, Ending
<1>4. told[d] \in ToldFields /\ told[d].inits > 0
  BY <1>2, Types DEF IInv, Initiation
<1>5. t = [told[d] EXCEPT !.ends = @ + 1]
  BY <1>4, HearIs
<1>6. /\ t \in ToldFields /\ t.ends = 1 /\ t.inits = told[d].inits
      /\ t.active = told[d].active /\ t.foreground = told[d].foreground
  <2>1. told[d].ends + 1 = 1
    BY <1>2, <1>3
  <2> QED BY <1>4, <1>5, <2>1 DEF ToldFields
<1> HIDE DEF t
<1>7. /\ told' \in [Delegates -> ToldFields] /\ told'[d] = t
      /\ \A e \in Delegates : e # d => told'[e] = told[e]
  BY <1>1, <1>2, <1>6, Types DEF IInv
<1>8. \A e \in Delegates : /\ told'[e].active = told[e].active
                           /\ told'[e].foreground = told[e].foreground
                           /\ told'[e].inits = told[e].inits
  BY <1>6, <1>7
<1> HIDE DEF d
<1>9. Stack' /\ calls' \in Seq(Frame)
  BY <1>1, <1>2, PopKeepsStack DEF AppFields, d
<1>10. TypeOK'
  BY <1>1, <1>7, <1>9 DEF IInv, TypeOK, ToldFields
<1>11. Initiation'
  <2>1. /\ \A e \in Delegates : told[e].inits > 0 => told'[e].inits > 0
        /\ told'[app.delegate].inits > 0 /\ app' = app /\ Head(calls).op # "init"
    BY <1>1, <1>2, <1>4, <1>8 DEF d
  <2> QED BY <1>1, <2>1, PopKeepsInitiation
<1>12. Ending' /\ EndsOnce'
  <2>1. ASSUME NEW i \in 1..Len(calls')
        PROVE  calls'[i].op # "terminate"
    <3>1. i + 1 \in 1..Len(calls) /\ calls'[i] = calls[i + 1] /\ i + 1 # 1
      BY <1>1, Popped DEF IInv, TypeOK
    <3> QED BY <1>3, <3>1
  <2>2. \A e \in Delegates : told'[e].ends = IF e = d THEN 1 ELSE 0
    BY <1>3, <1>6, <1>7
  <2> QED BY <1>1, <1>3, <2>1, <2>2 DEF Ending, EndsOnce
<1>13. Belief'
  BY <1>1, <1>2, <1>8, PopKeepsBelief DEF Tells
<1>14. ActiveInForeground' /\ InitComesFirst'
  <2>1. \A e \in Delegates : e # d => told'[e].ends = told[e].ends
    BY <1>7
  <2> QED BY <1>1, <1>2, <1>4, <1>8, <2>1 DEF IInv, ActiveInForeground, InitComesFirst
<1> QED BY <1>9, <1>10, <1>11, <1>12, <1>13, <1>14 DEF IInv

LEMMA DestroyedKeeps == IInv /\ Destroyed => IInv'
<1> SUFFICES ASSUME IInv, Destroyed PROVE IInv'
    OBVIOUS
<1>1. /\ calls # <<>> /\ Head(calls).op = "destroyed" /\ calls' = Tail(calls)
      /\ UNCHANGED <<app, phase, window, told, settled>>
  BY DEF Destroyed, Pending, Idle
<1>2. app \in AppFields /\ told \in [Delegates -> ToldFields]
  BY Types DEF IInv
<1>3. app.delegate # None /\ app.initialized => told[app.delegate].inits > 0
  BY DEF IInv, Initiation
<1>4. app.delegate = None => ~app.initialized
  BY DEF IInv, Stack
<1> QED BY <1>1, <1>2, <1>3, <1>4, QuietPop DEF Tells

LEMMA InitializedKeeps == IInv /\ Initialized => IInv'
<1> SUFFICES ASSUME IInv, Initialized PROVE IInv'
    OBVIOUS
<1>1. /\ calls # <<>> /\ Head(calls).op = "initialized" /\ calls' = Tail(calls)
      /\ app' = [app EXCEPT !.initialized = TRUE]
      /\ UNCHANGED <<phase, window, told, settled>>
  BY DEF Initialized, Pending, Idle
<1>2. app \in AppFields /\ told \in [Delegates -> ToldFields]
  BY Types DEF IInv
<1>3. /\ app' \in AppFields /\ app'.initialized = TRUE /\ app'.delegate = app.delegate
      /\ app'.active = app.active /\ app'.background = app.background
      /\ app'.terminated = app.terminated
  BY <1>1, <1>2 DEF AppFields
<1>4. app.delegate \in Delegates /\ app.delegate # None /\ Head(calls) = calls[1]
      /\ 1 \in 1..Len(calls)
  BY <1>1, TopIs, ConstantsAssumption
<1>5. told[app.delegate].inits > 0
  BY <1>1, <1>4 DEF IInv, Initiation
<1> QED BY <1>1, <1>2, <1>3, <1>4, <1>5, QuietPop DEF Tells

----------------------------------------------------------------------------
(* Steps that begin new calls. *)

\* Two calls are put before what is left: the one that initialises the delegate, and
\* init() itself or the notification of a change.
Rest(r, k) ==
  /\ k \in {0, 1} /\ r \in Seq(Frame) /\ Len(r) = Len(calls) - k
  /\ \A i \in 1..Len(r) : i + k \in 1..Len(calls) /\ r[i] = calls[i + k] /\ r[i].op # "init"

Begun(f, g) ==
  /\ f \in Frame /\ g \in Frame
  /\ \/ f.op = "ensure" /\ g.op = "settle" /\ g.was = ~g.wasBack
     \/ f.op = "init" /\ g.op = "initialized" /\ ~app'.initialized

LEMMA PushKeepsStack ==
  ASSUME IInv, NEW r, NEW k, Rest(r, k), NEW f, NEW g, Begun(f, g), calls' = <<f, g>> \o r,
         app.delegate # None, app'.delegate = app.delegate
  PROVE  Stack' /\ calls' \in Seq(Frame)
<1> DEFINE t == <<f, g>> \o r
<1>1. Stack /\ calls \in Seq(Frame) /\ Len(calls) \in Nat
  BY DEF IInv, TypeOK
<1>2. /\ f \in Frame /\ g \in Frame /\ r \in Seq(Frame) /\ Len(r) = Len(calls) - k
      /\ k \in {0, 1}
  BY DEF Rest, Begun
<1>3. /\ t \in Seq(Frame) /\ Len(t) = Len(r) + 2 /\ Len(r) \in Nat /\ t[1] = f /\ t[2] = g
      /\ \A i \in 1..Len(t) : i = 1 \/ i = 2 \/ (i - 2 \in 1..Len(r) /\ t[i] = r[i - 2])
  BY <1>2, Pushed
<1> HIDE DEF t
<1>4. ASSUME NEW i \in 1..Len(t), i # 1
      PROVE  Led(t, i)
  <2>1. 1 \in 1..(i - 1) /\ t[1].op \in {"ensure", "init"}
    BY <1>3, <1>4 DEF Begun
  <2> QED BY <2>1 DEF Led
<1>5. ASSUME NEW i \in 1..Len(t)
      PROVE  /\ t[i].op \in {"sync", "destroyed"} => i = Len(t)
             /\ t[i].op = "init" => /\ i = 1 /\ ~app'.initialized
                                    /\ 1 < Len(t) /\ t[2].op = "initialized"
             /\ t[i].op \in {"settle", "terminate"} => Led(t, i)
             /\ t[i].op = "settle" => t[i].was = ~t[i].wasBack
  <2>1. CASE i = 1
    BY <1>3, <2>1 DEF Begun
  <2>2. CASE i = 2
    BY <1>3, <1>4, <2>2 DEF Begun
  <2>3. CASE i # 1 /\ i # 2
    <3>1. i - 2 \in 1..Len(r) /\ t[i] = r[i - 2]
      BY <1>3, <2>3
    <3>2. /\ (i - 2) + k \in 1..Len(calls) /\ t[i] = calls[(i - 2) + k]
          /\ t[i].op # "init"
      BY <3>1 DEF Rest
    <3>3. t[i].op \in {"sync", "destroyed"} => (i - 2) + k = Len(calls)
      BY <1>1, <3>2 DEF Stack
    <3>4. (i - 2) + k = Len(calls) => i = Len(t)
      BY <1>1, <1>2, <1>3
    <3>5. t[i].op = "settle" => t[i].was = ~t[i].wasBack
      BY <1>1, <3>2 DEF Stack
    <3> QED BY <1>4, <2>3, <3>2, <3>3, <3>4, <3>5
  <2> QED BY <2>1, <2>2, <2>3
<1>6. calls' = t
  BY DEF t
<1> QED BY <1>3, <1>5, <1>6 DEF Stack

LEMMA PushKeepsEnding ==
  ASSUME IInv, NEW r, NEW k, Rest(r, k), NEW f, NEW g, Begun(f, g), calls' = <<f, g>> \o r,
         phase' = phase, app'.terminated = app.terminated,
         \A d \in Delegates : told'[d].ends = told[d].ends
  PROVE  Ending' /\ EndsOnce'
<1> DEFINE t == <<f, g>> \o r
<1>1. Ending /\ EndsOnce /\ Len(calls) \in Nat
  BY DEF IInv, TypeOK
<1>2. /\ f \in Frame /\ g \in Frame /\ r \in Seq(Frame) /\ k \in {0, 1}
      /\ f.op # "terminate" /\ g.op # "terminate"
  BY DEF Rest, Begun
<1>3. /\ t \in Seq(Frame) /\ Len(t) = Len(r) + 2 /\ Len(r) \in Nat /\ t[1] = f /\ t[2] = g
      /\ \A i \in 1..Len(t) : i = 1 \/ i = 2 \/ (i - 2 \in 1..Len(r) /\ t[i] = r[i - 2])
  BY <1>2, Pushed
<1> HIDE DEF t
<1>4. ASSUME NEW i \in 1..Len(t), t[i].op = "terminate"
      PROVE  (i - 2) + k \in 1..Len(calls) /\ calls[(i - 2) + k].op = "terminate"
  <2>1. i - 2 \in 1..Len(r) /\ t[i] = r[i - 2]
    BY <1>2, <1>3, <1>4
  <2> QED BY <1>4, <2>1 DEF Rest
<1>5. ASSUME NEW i \in 1..Len(t), NEW j \in 1..Len(t),
             t[i].op = "terminate", t[j].op = "terminate"
      PROVE  i = j
  <2>1. (i - 2) + k = (j - 2) + k
    BY <1>1, <1>4, <1>5 DEF Ending
  <2> QED BY <1>2, <1>3, <2>1
<1>6. \A i \in 1..Len(t) : t[i].op = "terminate" =>
        app.terminated /\ \A d \in Delegates : told[d].ends = 0
  BY <1>1, <1>4 DEF Ending
<1>7. calls' = t
  BY DEF t
<1> QED BY <1>1, <1>5, <1>6, <1>7 DEF Ending, EndsOnce

\* Either the news are the same ones as before, or those of the new call alone.
LEMMA PushKeepsBelief ==
  ASSUME IInv, NEW r, NEW k, Rest(r, k), NEW f, NEW g, Begun(f, g), calls' = <<f, g>> \o r,
         settled' = settled, app.delegate \in Delegates, app.delegate # None,
         app'.delegate = app.delegate, app'.initialized = app.initialized,
         \A d \in Delegates :
           told'[d].active = told[d].active /\ told'[d].foreground = told[d].foreground,
         settled =>
           \/ /\ app'.active = app.active /\ ~Tells(g)
              /\ k = 1 => ~Tells(calls[1]) /\ calls[1].op # "sync"
           \/ /\ Tells(g) /\ g.active = app'.active
              /\ Believes(app.delegate, ~app'.active)
              /\ \A i \in 1..Len(r) : ~Tells(r[i])
  PROVE  Belief'
<1> SUFFICES ASSUME settled PROVE Belief'
    BY DEF Belief
<1> DEFINE t == <<f, g>> \o r
           d == app.delegate
<1>1. Belief /\ Len(calls) \in Nat
  BY DEF IInv, TypeOK
<1>2. /\ f \in Frame /\ g \in Frame /\ r \in Seq(Frame) /\ k \in {0, 1}
      /\ Len(r) = Len(calls) - k
      /\ \A i \in 1..Len(r) : i + k \in 1..Len(calls) /\ r[i] = calls[i + k]
  BY DEF Rest, Begun
<1>3. /\ t \in Seq(Frame) /\ Len(t) = Len(r) + 2 /\ Len(r) \in Nat /\ t[1] = f /\ t[2] = g
      /\ \A i \in 1..Len(t) : i = 1 \/ i = 2 \/ (i - 2 \in 1..Len(r) /\ t[i] = r[i - 2])
      /\ \A i \in 1..Len(r) : i + 2 \in 1..Len(t) /\ t[i + 2] = r[i]
  BY <1>2, Pushed
<1>4. calls' = t
  BY DEF t
<1> HIDE DEF t
<1>5. ~Tells(f)
  BY DEF Begun, Tells
<1>6. ASSUME NEW i \in 1..Len(t), t[i].op = "sync"
      PROVE  Led(t, i)
  <2>1. i # 1
    BY <1>3, <1>6 DEF Begun
  <2>2. 1 \in 1..(i - 1) /\ t[1].op \in {"ensure", "init"}
    BY <1>3, <2>1 DEF Begun
  <2> QED BY <2>2 DEF Led
<1>7. \A e \in Delegates : \A b \in BOOLEAN : Believes(e, b) <=> Believes(e, b)'
  BY DEF Believes
<1>8. \A e \in Delegates : e # app'.delegate \/ ~app'.initialized => Believes(e, FALSE)'
  BY <1>1 DEF Belief, Believes
<1>9. app.active \in BOOLEAN /\ app'.delegate = d
  BY DEF IInv, TypeOK
<1>10. CASE /\ app'.active = app.active /\ ~Tells(g)
            /\ k = 1 => ~Tells(calls[1]) /\ calls[1].op # "sync"
  <2>1. ASSUME NEW i \in 1..Len(t), Tells(t[i])
        PROVE  (i - 2) + k \in 1..Len(calls) /\ t[i] = calls[(i - 2) + k]
    <3>1. i - 2 \in 1..Len(r) /\ t[i] = r[i - 2]
      BY <1>3, <1>5, <1>10, <2>1
    <3> QED BY <1>2, <3>1
  <2>2. ASSUME NEW i \in 1..Len(t), NEW j \in 1..Len(t), Tells(t[i]), Tells(t[j])
        PROVE  i = j
    <3>1. /\ (i - 2) + k \in 1..Len(calls) /\ Tells(calls[(i - 2) + k])
          /\ (j - 2) + k \in 1..Len(calls) /\ Tells(calls[(j - 2) + k])
      BY <2>1, <2>2
    <3> HIDE DEF Tells
    <3>2. (i - 2) + k = (j - 2) + k
      BY <1>1, <3>1 DEF Belief
    <3> QED BY <1>2, <1>3, <3>2
  <2>3. ASSUME NEW i \in 1..Len(t), Tells(t[i])
        PROVE  t[i].active = app.active /\ Believes(d, ~app.active)
    <3>1. (i - 2) + k \in 1..Len(calls) /\ t[i] = calls[(i - 2) + k]
      BY <2>1, <2>3
    <3>2. Tells(calls[(i - 2) + k])
      BY <2>3, <3>1
    <3> HIDE DEF Tells
    <3> QED BY <1>1, <3>1, <3>2 DEF Belief
  <2>4. ASSUME NEW i \in 1..Len(calls), Tells(calls[i]) \/ calls[i].op = "sync"
        PROVE  \E j \in 1..Len(t) : t[j] = calls[i]
    <3>1. i - k \in 1..Len(r) /\ (i - k) + k = i
      BY <1>1, <1>2, <1>10, <2>4
    <3>2. r[i - k] = calls[i] /\ (i - k) + 2 \in 1..Len(t) /\ t[(i - k) + 2] = calls[i]
      BY <1>2, <1>3, <3>1
    <3> QED BY <3>2
  <2> HIDE DEF Tells, Believes, d
  <2>5. \/ \E i \in 1..Len(calls) : Tells(calls[i])
        \/ Believes(d, app.active)
        \/ Believes(d, FALSE) /\ \E i \in 1..Len(calls) : calls[i].op = "sync"
    BY <1>1 DEF Belief, d
  <2>6. \/ \E i \in 1..Len(t) : Tells(t[i])
        \/ Believes(d, app.active)
        \/ Believes(d, FALSE) /\ \E i \in 1..Len(t) : t[i].op = "sync"
    <3>1. (\E i \in 1..Len(calls) : Tells(calls[i])) => \E i \in 1..Len(t) : Tells(t[i])
      BY <2>4
    <3>2. (\E i \in 1..Len(calls) : calls[i].op = "sync") =>
            \E i \in 1..Len(t) : t[i].op = "sync"
      BY <2>4
    <3> QED BY <2>5, <3>1, <3>2
  <2>7. d \in Delegates
    BY DEF d
  <2>8. /\ Believes(d, FALSE) <=> Believes(d, FALSE)'
        /\ Believes(d, app.active) <=> Believes(d, app.active)'
        /\ Believes(d, ~app.active) <=> Believes(d, ~app.active)'
    BY <1>7, <1>9, <1>10, <2>7 DEF Believes, d
  <2>9. /\ \A i \in 1..Len(t) : t[i].op = "sync" => Led(t, i)
        /\ \A i, j \in 1..Len(t) : Tells(t[i]) /\ Tells(t[j]) => i = j
        /\ \A i \in 1..Len(t) : Tells(t[i]) => t[i].active = app.active /\ Believes(d, ~app.active)
    BY <1>6, <2>2, <2>3
  <2> QED BY <1>4, <1>8, <1>9, <1>10, <2>6, <2>8, <2>9 DEF Belief, d
<1>11. CASE /\ Tells(g) /\ g.active = app'.active /\ Believes(d, ~app'.active)
            /\ \A i \in 1..Len(r) : ~Tells(r[i])
  <2>1. ASSUME NEW i \in 1..Len(t), Tells(t[i])
        PROVE  i = 2 /\ t[i] = g
    BY <1>3, <1>5, <1>11, <2>1
  <2>2. 2 \in 1..Len(t) /\ Tells(t[2])
    BY <1>3, <1>11
  <2>3. Believes(d, ~app'.active) <=> Believes(d, ~app.active)'
    BY DEF Believes
  <2> HIDE DEF Tells, Believes, d
  <2>4. /\ \A i \in 1..Len(t) : t[i].op = "sync" => Led(t, i)
        /\ \A i, j \in 1..Len(t) : Tells(t[i]) /\ Tells(t[j]) => i = j
        /\ \A i \in 1..Len(t) : Tells(t[i]) => t[i].active = app'.active
    BY <1>6, <1>11, <2>1
  <2> QED BY <1>4, <1>8, <1>9, <1>11, <2>2, <2>3, <2>4 DEF Belief, d
<1> QED BY <1>10, <1>11

LEMMA TailIsRest ==
  ASSUME IInv, calls # <<>>
  PROVE  Rest(Tail(calls), 1)
<1> DEFINE r == Tail(calls)
<1>1. calls \in Seq(Frame) /\ Stack
  BY DEF IInv, TypeOK
<1>2. /\ r \in Seq(Frame) /\ Len(r) = Len(calls) - 1
      /\ \A i \in 1..Len(r) : i + 1 \in 1..Len(calls) /\ r[i] = calls[i + 1]
  BY <1>1, Popped
<1> HIDE DEF r
<1>3. ASSUME NEW i \in 1..Len(r)
      PROVE  r[i].op # "init"
  <2>1. i + 1 \in 1..Len(calls) /\ r[i] = calls[i + 1] /\ i + 1 # 1
    BY <1>2
  <2> QED BY <1>1, <2>1 DEF Stack
<1>4. Rest(r, 1)
  BY <1>2, <1>3 DEF Rest
<1> QED BY <1>4 DEF r

LEMMA EnsureKeeps == IInv /\ Ensure => IInv'
<1> SUFFICES ASSUME IInv, Ensure PROVE IInv'
    OBVIOUS
<1>1. /\ calls # <<>> /\ Head(calls).op = "ensure"
      /\ UNCHANGED <<app, phase, window, told, settled>>
  BY DEF Ensure, Pending, Idle
<1>2. /\ app \in AppFields /\ told \in [Delegates -> ToldFields]
      /\ app.delegate \in Delegates \cup {None} /\ Head(calls) = calls[1]
  BY <1>1, Types, TopIs DEF IInv, AppFields
<1>3. CASE app.delegate = None \/ app.initialized
  <2>1. calls' = Tail(calls)
    BY <1>3 DEF Ensure
  <2>2. app.delegate # None /\ app.initialized => told[app.delegate].inits > 0
    BY DEF IInv, Initiation
  <2>3. app.delegate = None => ~app.initialized
    BY DEF IInv, Stack
  <2> QED BY <1>1, <1>2, <1>3, <2>1, <2>2, <2>3, QuietPop DEF Tells
<1>4. CASE app.delegate # None /\ ~app.initialized
  <2> DEFINE r == Tail(calls)
             f == Do("init")
             g == Do("initialized")
  <2>1. calls' = <<f, g>> \o r
    BY <1>4 DEF Ensure
  <2>2. /\ f \in Frame /\ g \in Frame /\ f.op = "init" /\ g.op = "initialized"
        /\ Rest(r, 1) /\ ~app'.initialized
    BY <1>1, <1>4, FrameTypes, TailIsRest
  <2> HIDE DEF f, g, r
  <2>3. Begun(f, g) /\ ~Tells(g)
    BY <2>2 DEF Begun, Tells
  <2>4. Stack' /\ calls' \in Seq(Frame)
    BY <1>1, <1>4, <2>1, <2>2, <2>3, PushKeepsStack
  <2>5. Ending' /\ EndsOnce'
    BY <1>1, <2>1, <2>2, <2>3, PushKeepsEnding
  <2>6. Belief'
    <3>1. ~Tells(calls[1]) /\ calls[1].op # "sync"
      BY <1>1, <1>2 DEF Tells
    <3> QED BY <1>1, <1>2, <1>4, <2>1, <2>2, <2>3, <3>1, PushKeepsBelief
  <2>7. calls'[1] = f
    BY <2>1, <2>2, Pushed DEF Rest
  <2>8. Initiation'
    BY <1>1, <1>4, <2>2, <2>7 DEF Initiation
  <2>9. TypeOK' /\ ActiveInForeground' /\ InitComesFirst'
    BY <1>1, <2>4 DEF IInv, TypeOK, ActiveInForeground, InitComesFirst
  <2> QED BY <2>4, <2>5, <2>6, <2>8, <2>9 DEF IInv
<1> QED BY <1>3, <1>4

\* The flags of the app after an activation, and the frames it leaves.
LEMMA ActivatedIs ==
  ASSUME app \in AppFields, NEW active \in BOOLEAN
  PROVE  LET a == Activated(app, active) IN
         /\ a \in AppFields /\ a.delegate = app.delegate /\ a.initialized = app.initialized
         /\ a.active = active /\ a.background = ~active /\ a.terminated = app.terminated
BY DEF Activated, AppFields

LEMMA FramesAre ==
  ASSUME app \in AppFields, ActiveInForeground, app.delegate # None, NEW active \in BOOLEAN
  PROVE  \E f, g \in Frame :
           /\ ActivationFrames(active) = <<f, g>>
           /\ f.op = "ensure" /\ g.op = "settle" /\ g.was = ~g.wasBack
           /\ g.active = active /\ g.was = app.active
<1> DEFINE f == Do("ensure")
           g == [op |-> "settle", active |-> active, was |-> app.active,
                 wasBack |-> app.background]
<1>1. app.active \in BOOLEAN /\ app.background \in BOOLEAN
  BY DEF AppFields
<1>2. /\ f \in Frame /\ f.op = "ensure" /\ g \in Frame /\ g.op = "settle"
      /\ g.active = active /\ g.was = app.active /\ g.wasBack = app.background
  BY <1>1, FrameTypes
<1>3. ActivationFrames(active) = <<f, g>>
  BY DEF ActivationFrames
<1>4. g.was = ~g.wasBack
  BY <1>1, <1>2 DEF ActiveInForeground
<1> HIDE DEF f, g
<1> QED BY <1>2, <1>3, <1>4

LEMMA CallInitKeeps == IInv /\ CallInit => IInv'
<1> SUFFICES ASSUME IInv, CallInit PROVE IInv'
    OBVIOUS
<1> DEFINE d == app.delegate
           t == Hear(told[d], "init")
           r == Tail(calls)
<1>1. /\ calls # <<>> /\ Head(calls).op = "init" /\ told' = [told EXCEPT ![d] = t]
      /\ UNCHANGED <<phase, settled>>
  BY DEF CallInit, Pending, Idle, Tell
<1>2. /\ d \in Delegates /\ d # None /\ app \in AppFields /\ told \in [Delegates -> ToldFields]
      /\ Head(calls) = calls[1] /\ 1 \in 1..Len(calls)
  BY <1>1, TopIs, Types, ConstantsAssumption DEF IInv
<1>3. ~app.initialized
  BY <1>1, <1>2 DEF IInv, Stack
<1>4. /\ t \in ToldFields /\ t.inits > 0 /\ t.foreground = told[d].foreground
      /\ t.active = told[d].active /\ t.ends = told[d].ends
  BY <1>2, HearIs
<1> HIDE DEF t
<1>5. /\ told' \in [Delegates -> ToldFields] /\ told'[d] = t
      /\ \A e \in Delegates : e # d => told'[e] = told[e]
  BY <1>1, <1>2, <1>4
<1>6. \A e \in Delegates :
        /\ told'[e].active = told[e].active /\ told'[e].foreground = told[e].foreground
        /\ told'[e].ends = told[e].ends /\ (told[e].inits > 0 => told'[e].inits > 0)
  BY <1>4, <1>5
<1>7. told'[d].inits > 0
  BY <1>4, <1>5
<1> HIDE DEF d
<1>8. CASE calls' = Tail(calls) /\ UNCHANGED <<app, window>>
  BY <1>1, <1>2, <1>3, <1>5, <1>6, <1>7, <1>8, QuietPop DEF Tells, d
<1>9. CASE /\ calls' = ActivationFrames(TRUE) \o Tail(calls) /\ app' = Activated(app, TRUE)
           /\ ~app.active
           /\ \E w \in Windows : window[w] = "none"
                                  /\ window' = [window EXCEPT ![w] = "registered"]
  <2>1. PICK f \in Frame, g \in Frame :
          /\ ActivationFrames(TRUE) = <<f, g>>
          /\ f.op = "ensure" /\ g.op = "settle" /\ g.was = ~g.wasBack
          /\ g.active = TRUE /\ g.was = app.active
    BY <1>2, FramesAre DEF IInv, d
  <2>2. /\ app' \in AppFields /\ app'.delegate = d /\ app'.initialized = app.initialized
        /\ app'.active = TRUE /\ app'.background = FALSE /\ app'.terminated = app.terminated
    BY <1>2, <1>9, ActivatedIs DEF d
  <2>3. calls' = <<f, g>> \o r /\ Rest(r, 1) /\ Begun(f, g) /\ Tells(g)
    BY <1>1, <1>9, <2>1, TailIsRest DEF Begun, Tells
  <2> HIDE DEF r
  <2>4. Stack' /\ calls' \in Seq(Frame)
    BY <1>2, <2>2, <2>3, PushKeepsStack DEF d
  <2>5. Ending' /\ EndsOnce'
    BY <1>1, <1>6, <2>2, <2>3, PushKeepsEnding DEF d
  <2>6. Belief'
    <3>1. ASSUME settled
          PROVE  /\ Believes(d, ~app'.active)
                 /\ \A i \in 1..Len(calls) : ~Tells(calls[i])
      <4>1. Believes(d, FALSE)
        BY <1>2, <1>3, <3>1 DEF IInv, Belief
      <4>2. Believes(d, ~app'.active)
        BY <2>2, <4>1 DEF Believes
      <4>3. ASSUME NEW i \in 1..Len(calls), Tells(calls[i])
            PROVE  FALSE
        <5> HIDE DEF Tells, Believes
        <5>1. Believes(d, ~app.active)
          BY <1>2, <3>1, <4>3 DEF IInv, Belief, d
        <5> QED BY <1>9, <4>1, <5>1 DEF Believes
      <4> QED BY <4>2, <4>3
    <3>2. settled => \A i \in 1..Len(r) : ~Tells(r[i])
      BY <2>3, <3>1 DEF Rest
    <3> HIDE DEF Tells, Believes
    <3> QED BY <1>1, <1>2, <1>6, <2>1, <2>2, <2>3, <3>1, <3>2, PushKeepsBelief DEF d
  <2>7. Initiation'
    BY <1>3, <1>7, <2>2 DEF Initiation
  <2>8. ActiveInForeground' /\ InitComesFirst'
    BY <1>6, <2>2 DEF IInv, ActiveInForeground, InitComesFirst
  <2>9. TypeOK'
    <3>1. window' \in [Windows -> {"none", "registered", "closed", "destroyed"}]
      BY <1>9 DEF IInv, TypeOK
    <3> QED BY <1>1, <1>5, <2>2, <2>4, <3>1 DEF IInv, TypeOK, AppFields, ToldFields
  <2> QED BY <2>4, <2>5, <2>6, <2>7, <2>8, <2>9 DEF IInv
<1> QED BY <1>8, <1>9 DEF CallInit

LEMMA ActivationKeeps ==
  ASSUME NEW active \in BOOLEAN
  PROVE  IInv /\ Activation(active) => IInv'
<1> SUFFICES ASSUME IInv, Activation(active) PROVE IInv'
    OBVIOUS
<1> DEFINE d == app.delegate
<1>1. /\ phase # "returned" /\ app' = Activated(app, active)
      /\ calls' = ActivationFrames(active) \o calls
      /\ UNCHANGED <<phase, window, told, settled>>
      /\ Idle \/ Pending("destroyed")
  BY DEF Activation
<1>2. app \in AppFields /\ told \in [Delegates -> ToldFields] /\ calls \in Seq(Frame)
      /\ app.active \in BOOLEAN
  BY Types DEF IInv, AppFields
<1>3. Len(calls) \in Nat /\ \A i \in 1..Len(calls) : calls[i].op = "destroyed"
  <2>1. CASE Idle
    BY <2>1 DEF Idle
  <2>2. CASE Pending("destroyed")
    <3>1. calls # <<>> /\ Head(calls).op = "destroyed"
      BY <2>2 DEF Pending, Idle
    <3>2. calls[1].op = "destroyed" /\ Len(calls) \in Nat \ {0} /\ 1 \in 1..Len(calls)
      BY <3>1, TopIs
    <3>3. Len(calls) = 1
      BY <3>2 DEF IInv, Stack
    <3>4. \A i \in 1..Len(calls) : i = 1
      <4>1. \A i \in 1..1 : i = 1
        OBVIOUS
      <4> QED BY <3>3, <4>1
    <3> QED BY <3>2, <3>4
  <2> QED BY <1>1, <2>1, <2>2
<1>4. \A i \in 1..Len(calls) : ~Tells(calls[i])
  BY <1>3 DEF Tells
<1>5. /\ app' \in AppFields /\ app'.delegate = d /\ app'.initialized = app.initialized
      /\ app'.active = active /\ app'.background = ~active /\ app'.terminated = app.terminated
  BY <1>1, <1>2, ActivatedIs
<1>6. settled => \A e \in Delegates : e # d \/ ~app.initialized => Believes(e, FALSE)
  BY DEF IInv, Belief
<1>7. ActiveInForeground' /\ InitComesFirst'
  BY <1>1, <1>5 DEF IInv, ActiveInForeground, InitComesFirst
<1>8. CASE d = None
  <2>1. calls' = calls
    BY <1>1, <1>2, <1>8 DEF ActivationFrames
  <2>2. Stack' /\ Initiation' /\ Ending' /\ EndsOnce'
    BY <1>1, <1>5, <1>8, <2>1 DEF IInv, Stack, Initiation, Ending, EndsOnce, Led
  <2>3. Belief'
    BY <1>1, <1>5, <1>6, <1>8 DEF Belief, Believes
  <2>4. TypeOK'
    BY <1>1, <1>5, <2>1 DEF IInv, TypeOK, AppFields
  <2> QED BY <1>7, <2>2, <2>3, <2>4 DEF IInv
<1>9. CASE d # None
  <2>1. PICK f \in Frame, g \in Frame :
          /\ ActivationFrames(active) = <<f, g>>
          /\ f.op = "ensure" /\ g.op = "settle" /\ g.was = ~g.wasBack
          /\ g.active = active /\ g.was = app.active
    BY <1>2, <1>9, FramesAre DEF IInv
  <2>2. d \in Delegates
    BY <1>2, <1>9 DEF AppFields
  <2>3. Rest(calls, 0)
    BY <1>2, <1>3 DEF Rest
  <2>4. calls' = <<f, g>> \o calls /\ Begun(f, g)
    BY <1>1, <2>1 DEF Begun
  <2> HIDE DEF d
  <2>5. Stack' /\ calls' \in Seq(Frame)
    BY <1>5, <1>9, <2>3, <2>4, PushKeepsStack DEF d
  <2>6. Ending' /\ EndsOnce'
    BY <1>1, <1>5, <2>3, <2>4, PushKeepsEnding
  <2>7. Belief'
    <3>1. ASSUME settled, active # app.active
          PROVE  Believes(d, ~active)
      <4>1. \A i \in 1..Len(calls) : ~Tells(calls[i]) /\ calls[i].op # "sync"
        BY <1>3, <1>4
      <4> HIDE DEF Tells, Believes
      <4>2. Believes(d, app.active)
        BY <1>9, <3>1, <4>1 DEF IInv, Belief, d
      <4> QED BY <1>2, <3>1, <4>2 DEF Believes
    <3>2. CASE active = app.active
      <4>1. ~Tells(g) /\ app'.active = app.active /\ 0 # 1
        BY <1>5, <2>1, <3>2 DEF Tells
      <4>2. /\ app.delegate \in Delegates /\ app.delegate # None
            /\ app'.delegate = app.delegate /\ app'.initialized = app.initialized
            /\ settled' = settled /\ told' = told
        BY <1>1, <1>5, <1>9, <2>2 DEF d
      <4> HIDE DEF Tells, Believes
      <4> QED BY <2>3, <2>4, <4>1, <4>2, PushKeepsBelief
    <3>3. CASE active # app.active
      <4>1. Tells(g)
        BY <2>1, <3>3 DEF Tells
      <4> HIDE DEF Tells, Believes
      <4> QED BY <1>1, <1>4, <1>5, <1>9, <2>1, <2>2, <2>3, <2>4, <3>1, <3>3, <4>1,
                 PushKeepsBelief DEF d
    <3> QED BY <3>2, <3>3
  <2>8. Initiation'
    <3>1. \A i \in 1..Len(calls') : calls'[i].op # "initialized"
      <4>1. \A i \in 1..Len(calls') :
              \/ i = 1 /\ calls'[i] = f
              \/ i = 2 /\ calls'[i] = g
              \/ i - 2 \in 1..Len(calls) /\ calls'[i] = calls[i - 2]
        BY <1>2, <2>4, Pushed
      <4> QED BY <1>3, <2>1, <4>1
    <3>2. app.initialized => told[d].inits > 0
      BY <1>9 DEF IInv, Initiation, d
    <3> QED BY <1>1, <1>5, <3>1, <3>2 DEF Initiation
  <2>9. TypeOK'
    BY <1>1, <1>5, <2>5 DEF IInv, TypeOK, AppFields
  <2> QED BY <1>7, <2>5, <2>6, <2>7, <2>8, <2>9 DEF IInv
<1> QED BY <1>8, <1>9

\* Between calls something begins that says nothing of the app but its end.
LEMMA IdleKeeps ==
  ASSUME IInv, Idle, UNCHANGED <<told, settled>>,
         app' \in AppFields, app'.delegate = app.delegate, app'.initialized = app.initialized,
         app'.active = app.active, app'.background = app.background,
         app.terminated => app'.terminated,
         phase' \in {"setup", "loop", "returned"}, phase' = "returned" => app'.terminated,
         window' \in [Windows -> {"none", "registered", "closed", "destroyed"}],
         calls' \in Seq(Frame),
         \A i \in 1..Len(calls') :
           /\ calls'[i].op \in {"ensure", "terminate", "destroyed"}
           /\ calls'[i].op = "destroyed" => i = Len(calls')
           /\ calls'[i].op = "terminate" =>
                i = 2 /\ calls'[1].op = "ensure" /\ app.delegate # None
                /\ ~app.terminated /\ app'.terminated
  PROVE  IInv'
<1>1. calls = <<>> /\ \A i \in 1..Len(calls) : FALSE
  BY DEF Idle
<1>2. Stack'
  <2>1. ASSUME NEW i \in 1..Len(calls'), calls'[i].op = "terminate"
        PROVE  Led(calls', i)
    <3>1. i = 2 /\ calls'[1].op = "ensure" /\ 1 \in 1..(i - 1)
      BY <2>1
    <3> QED BY <3>1 DEF Led
  <2> QED BY <2>1 DEF IInv, Stack
<1>3. Initiation'
  BY DEF IInv, Initiation
<1>4. Ending' /\ EndsOnce'
  <2>1. Ending /\ EndsOnce
    BY DEF IInv
  <2>2. ~app.terminated => \A d \in Delegates : ~(told[d].ends > 0) /\ told[d].ends \in 0..1
    BY <2>1 DEF Ending, IInv, TypeOK
  <2>3. ~app.terminated => \A d \in Delegates : told[d].ends = 0
    BY <2>2
  <2> QED BY <2>1, <2>3 DEF Ending, EndsOnce
<1>5. ActiveInForeground' /\ InitComesFirst'
  BY DEF IInv, ActiveInForeground, InitComesFirst
<1>6. Belief'
  <2> SUFFICES ASSUME settled PROVE Belief'
      BY DEF Belief
  <2>1. /\ \A d \in Delegates : d # app.delegate \/ ~app.initialized => Believes(d, FALSE)
        /\ app.delegate # None => Believes(app.delegate, app.active)
    BY <1>1 DEF IInv, Belief
  <2>2. \A i \in 1..Len(calls') : calls'[i].op # "sync" /\ ~Tells(calls'[i])
    BY DEF Tells
  <2>3. /\ \A d \in Delegates :
             d # app'.delegate \/ ~app'.initialized => Believes(d, FALSE)'
        /\ app'.delegate # None => Believes(app.delegate, app.active)'
    BY <2>1 DEF Believes
  <2> HIDE DEF Tells, Believes
  <2> QED BY <2>2, <2>3 DEF Belief
<1>7. TypeOK'
  BY DEF IInv, TypeOK, AppFields
<1> QED BY <1>2, <1>3, <1>4, <1>5, <1>6, <1>7 DEF IInv

LEMMA TwoParts ==
  ASSUME NEW u \in Seq(Frame), NEW v \in Seq(Frame), Len(u) \in {0, 2}, Len(v) \in {0, 1}
  PROVE  /\ u \o v \in Seq(Frame)
         /\ \A i \in 1..Len(u \o v) :
              \/ Len(u) = 2 /\ i \in {1, 2} /\ (u \o v)[i] = u[i] /\ (u \o v)[1] = u[1]
              \/ Len(v) = 1 /\ i = Len(u \o v) /\ (u \o v)[i] = v[1]
<1> DEFINE w == u \o v
<1>1. /\ w \in Seq(Frame) /\ Len(w) = Len(u) + Len(v)
      /\ \A i \in 1..(Len(u) + Len(v)) : w[i] = IF i <= Len(u) THEN u[i] ELSE v[i - Len(u)]
  BY ConcatProperties
<1> HIDE DEF w
<1> SUFFICES ASSUME NEW i \in 1..Len(w)
             PROVE  \/ Len(u) = 2 /\ i \in {1, 2} /\ w[i] = u[i] /\ w[1] = u[1]
                    \/ Len(v) = 1 /\ i = Len(w) /\ w[i] = v[1]
    BY <1>1 DEF w
<1>2. CASE i <= Len(u)
  <2>1. Len(u) = 2 /\ i \in {1, 2} /\ 1 \in 1..(Len(u) + Len(v)) /\ 1 <= Len(u)
    BY <1>1, <1>2
  <2>2. w[i] = u[i] /\ w[1] = u[1]
    BY <1>1, <1>2, <2>1
  <2> QED BY <2>1, <2>2
<1>3. CASE ~(i <= Len(u))
  <2>1. Len(v) = 1 /\ i = Len(w) /\ i - Len(u) = 1
    BY <1>1, <1>3
  <2>2. w[i] = v[1]
    BY <1>1, <1>3, <2>1
  <2> QED BY <2>1, <2>2
<1> QED BY <1>2, <1>3

\* What is called for the end of the program, and then to destroy a native window.
EndFrames(a, exits, native) ==
  (IF exits THEN TerminateFrames(a) ELSE <<>>) \o IF native THEN <<Do("destroyed")>> ELSE <<>>

LEMMA EndFramesAre ==
  ASSUME NEW a \in AppFields, NEW exits \in BOOLEAN, NEW native \in BOOLEAN
  PROVE  LET s == EndFrames(a, exits, native) IN
         /\ s \in Seq(Frame)
         /\ \A i \in 1..Len(s) :
              /\ s[i].op \in {"ensure", "terminate", "destroyed"}
              /\ s[i].op = "destroyed" => i = Len(s)
              /\ s[i].op = "terminate" =>
                   i = 2 /\ s[1].op = "ensure" /\ a.delegate # None /\ ~a.terminated /\ exits
<1> DEFINE e == Do("ensure")
           t == Do("terminate")
           d == Do("destroyed")
           u == IF exits THEN TerminateFrames(a) ELSE <<>>
           v == IF native THEN <<d>> ELSE <<>>
           s == u \o v
<1>1. /\ e \in Frame /\ e.op = "ensure" /\ t \in Frame /\ t.op = "terminate"
      /\ d \in Frame /\ d.op = "destroyed"
  BY FrameTypes
<1>2. TerminateFrames(a) = IF a.terminated \/ a.delegate = None THEN <<>> ELSE <<e, t>>
  BY DEF TerminateFrames
<1> HIDE DEF e, t, d
<1>3. /\ u \in Seq(Frame) /\ Len(u) \in {0, 2}
      /\ Len(u) = 2 =>
           exits /\ ~a.terminated /\ a.delegate # None /\ u[1] = e /\ u[2] = t
  <2>1. CASE ~exits \/ a.terminated \/ a.delegate = None
    BY <1>2, <2>1
  <2>2. CASE exits /\ ~a.terminated /\ a.delegate # None
    BY <1>1, <1>2, <2>2
  <2> QED BY <2>1, <2>2
<1>4. v \in Seq(Frame) /\ Len(v) \in {0, 1} /\ (Len(v) = 1 => v[1] = d)
  BY <1>1
<1>5. EndFrames(a, exits, native) = s
  BY DEF EndFrames, d
<1> HIDE DEF u, v
<1>6. /\ s \in Seq(Frame)
      /\ \A i \in 1..Len(s) :
           \/ Len(u) = 2 /\ i \in {1, 2} /\ s[i] = u[i] /\ s[1] = u[1]
           \/ Len(v) = 1 /\ i = Len(s) /\ s[i] = v[1]
  BY <1>3, <1>4, TwoParts
<1> HIDE DEF s
<1>7. ASSUME NEW i \in 1..Len(s)
      PROVE  /\ s[i].op \in {"ensure", "terminate", "destroyed"}
             /\ s[i].op = "destroyed" => i = Len(s)
             /\ s[i].op = "terminate" =>
                  i = 2 /\ s[1].op = "ensure" /\ a.delegate # None /\ ~a.terminated /\ exits
  <2>1. CASE Len(u) = 2 /\ i \in {1, 2} /\ s[i] = u[i] /\ s[1] = u[1]
    BY <1>1, <1>3, <2>1
  <2>2. CASE Len(v) = 1 /\ i = Len(s) /\ s[i] = v[1]
    BY <1>1, <1>4, <2>2
  <2> QED BY <1>6, <2>1, <2>2
<1> QED BY <1>5, <1>6, <1>7

LEMMA RemovedKeeps ==
  ASSUME IInv, Idle, UNCHANGED <<phase, told, settled>>, NEW native \in BOOLEAN,
         window' \in [Windows -> {"none", "registered", "closed", "destroyed"}],
         Removed(window', native)
  PROVE  IInv'
<1> DEFINE exits == ~app.exitRequested /\ \A w \in Windows : window'[w] # "registered"
<1>1. /\ app' = IF exits THEN ExitRequested(app) ELSE app
      /\ calls' = EndFrames(app, exits, native)
  BY DEF Removed, EndFrames
<1>2. app \in AppFields /\ exits \in BOOLEAN
  BY Types DEF IInv, AppFields
<1> HIDE DEF exits
<1>3. /\ app' \in AppFields /\ app'.delegate = app.delegate
      /\ app'.initialized = app.initialized
      /\ app'.active = app.active /\ app'.background = app.background
      /\ app.terminated => app'.terminated
      /\ exits => app'.terminated
  BY <1>1, <1>2 DEF ExitRequested, AppFields
<1>4. /\ calls' \in Seq(Frame)
      /\ \A i \in 1..Len(calls') :
           /\ calls'[i].op \in {"ensure", "terminate", "destroyed"}
           /\ calls'[i].op = "destroyed" => i = Len(calls')
           /\ calls'[i].op = "terminate" =>
                i = 2 /\ calls'[1].op = "ensure" /\ app.delegate # None
                /\ ~app.terminated /\ exits
  BY <1>1, <1>2, EndFramesAre
<1>5. phase \in {"setup", "loop", "returned"} /\ (phase = "returned" => app.terminated)
  BY DEF IInv, TypeOK, Ending
<1> QED BY <1>3, <1>4, <1>5, IdleKeeps

LEMMA WindowsKeep ==
  ASSUME NEW w \in Windows
  PROVE  IInv /\ (CreateWindow(w) \/ CloseWindow(w) \/ DestroyWindow(w)) => IInv'
<1> SUFFICES ASSUME IInv, CreateWindow(w) \/ CloseWindow(w) \/ DestroyWindow(w) PROVE IInv'
    OBVIOUS
<1>1. /\ app \in AppFields /\ (phase = "returned" => app.terminated)
      /\ window \in [Windows -> {"none", "registered", "closed", "destroyed"}]
      /\ phase \in {"setup", "loop", "returned"}
  BY DEF IInv, TypeOK, Ending, AppFields
<1>2. CASE CreateWindow(w)
  <2>1. /\ Idle /\ UNCHANGED <<app, phase, calls, told, settled>>
        /\ window' = [window EXCEPT ![w] = "registered"]
    BY <1>2 DEF CreateWindow
  <2>2. window' \in [Windows -> {"none", "registered", "closed", "destroyed"}]
    BY <1>1, <2>1
  <2>3. calls' = <<>> /\ calls' \in Seq(Frame) /\ \A i \in 1..Len(calls') : FALSE
    BY <2>1 DEF Idle
  <2> QED BY <1>1, <2>1, <2>2, <2>3, IdleKeeps
<1>3. CASE CloseWindow(w)
  <2>1. /\ Idle /\ UNCHANGED <<phase, told, settled>> /\ Removed(window', TRUE)
        /\ window' = [window EXCEPT ![w] = "closed"]
    BY <1>3 DEF CloseWindow
  <2>2. window' \in [Windows -> {"none", "registered", "closed", "destroyed"}]
    BY <1>1, <2>1
  <2> QED BY <2>1, <2>2, RemovedKeeps
<1>4. CASE DestroyWindow(w)
  <2>1. /\ Idle /\ UNCHANGED <<phase, told, settled>>
        /\ Removed(window', window[w] = "registered")
        /\ window' = [window EXCEPT ![w] = "destroyed"]
    BY <1>4 DEF DestroyWindow
  <2>2. window' \in [Windows -> {"none", "registered", "closed", "destroyed"}]
    BY <1>1, <2>1
  <2>3. (window[w] = "registered") \in BOOLEAN
    OBVIOUS
  <2> QED BY <2>1, <2>2, <2>3, RemovedKeeps
<1> QED BY <1>2, <1>3, <1>4

LEMMA RunKeeps == IInv /\ (Run \/ LoopReturns) => IInv'
<1> SUFFICES ASSUME IInv, Run \/ LoopReturns PROVE IInv'
    OBVIOUS
<1>1. /\ app \in AppFields /\ Idle /\ UNCHANGED <<window, told, settled>>
      /\ window \in [Windows -> {"none", "registered", "closed", "destroyed"}]
  BY DEF IInv, TypeOK, AppFields, Run, LoopReturns
<1>2. CASE Run
  <2>1. /\ phase' = "loop" /\ app' = [app EXCEPT !.runStarted = TRUE]
        /\ calls' = <<Do("ensure")>>
    BY <1>2 DEF Run
  <2>2. /\ app' \in AppFields /\ app'.delegate = app.delegate
        /\ app'.initialized = app.initialized /\ app'.terminated = app.terminated
        /\ app'.active = app.active /\ app'.background = app.background
    BY <1>1, <2>1 DEF AppFields
  <2>3. /\ calls' \in Seq(Frame)
        /\ \A i \in 1..Len(calls') : calls'[i].op = "ensure"
    BY <2>1, FrameTypes
  <2> QED BY <1>1, <2>1, <2>2, <2>3, IdleKeeps
<1>3. CASE LoopReturns
  <2>1. /\ phase' = "returned" /\ app' = [app EXCEPT !.terminated = TRUE]
        /\ calls' = TerminateFrames(app)
    BY <1>3 DEF LoopReturns
  <2>2. /\ app' \in AppFields /\ app'.delegate = app.delegate
        /\ app'.initialized = app.initialized /\ app'.terminated
        /\ app'.active = app.active /\ app'.background = app.background
    BY <1>1, <2>1 DEF AppFields
  <2>3. calls' = TerminateFrames(app) \o <<>>
    <3>1. TerminateFrames(app) \in Seq(Frame)
      BY FrameTypes DEF TerminateFrames
    <3> QED BY <2>1, <3>1
  <2>4. /\ calls' \in Seq(Frame)
        /\ \A i \in 1..Len(calls') :
             /\ calls'[i].op \in {"ensure", "terminate", "destroyed"}
             /\ calls'[i].op = "destroyed" => i = Len(calls')
             /\ calls'[i].op = "terminate" =>
                  i = 2 /\ calls'[1].op = "ensure" /\ app.delegate # None /\ ~app.terminated
    <3>1. calls' = EndFrames(app, TRUE, FALSE)
      BY <2>3 DEF EndFrames
    <3> QED BY <1>1, <3>1, EndFramesAre
  <2> QED BY <1>1, <2>1, <2>2, <2>4, IdleKeeps
<1> QED BY <1>2, <1>3

LEMMA SetDelegateKeeps ==
  ASSUME NEW d \in Delegates \cup {None}
  PROVE  IInv /\ SetDelegate(d) => IInv'
<1> SUFFICES ASSUME IInv, SetDelegate(d) PROVE IInv'
    OBVIOUS
<1> DEFINE e == Do("ensure")
           y == Do("sync")
<1>1. /\ Idle /\ UNCHANGED <<phase, window, told>>
      /\ app' = [app EXCEPT !.delegate = d, !.initialized = @ /\ app.delegate = d]
      /\ calls' = IF d = None THEN <<>> ELSE IF app.runStarted THEN <<e, y>> ELSE <<y>>
      /\ settled' = (settled /\ d # None /\ app.delegate = None
                     /\ (app.active => app.runStarted))
  BY DEF SetDelegate
<1>2. app \in AppFields /\ \A i \in 1..Len(calls) : FALSE
  BY <1>1, Types DEF IInv, Idle
<1>3. /\ app' \in AppFields /\ app'.delegate = d /\ app'.active = app.active
      /\ app'.initialized = (app.initialized /\ app.delegate = d)
      /\ app'.background = app.background /\ app'.terminated = app.terminated
  <2>1. (app.initialized /\ app.delegate = d) \in BOOLEAN
    OBVIOUS
  <2> DEFINE b == app.initialized /\ app.delegate = d
  <2>2. app' = [app EXCEPT !.delegate = d, !.initialized = b]
    BY <1>1
  <2> HIDE DEF b
  <2>3. /\ app' \in AppFields /\ app'.delegate = d /\ app'.active = app.active
        /\ app'.initialized = b
        /\ app'.background = app.background /\ app'.terminated = app.terminated
    BY <1>2, <2>1, <2>2 DEF AppFields, b
  <2> QED BY <2>3 DEF b
<1>4. app.delegate = None => ~app.initialized
  BY DEF IInv, Stack
<1>5. e \in Frame /\ e.op = "ensure" /\ y \in Frame /\ y.op = "sync"
  BY FrameTypes
<1> HIDE DEF e, y
<1>6. /\ calls' \in Seq(Frame)
      /\ d = None => \A i \in 1..Len(calls') : FALSE
      /\ d # None => \E i \in 1..Len(calls') : calls'[i].op = "sync"
      /\ \A i \in 1..Len(calls') :
           /\ calls'[i].op \in {"ensure", "sync"}
           /\ calls'[i].op = "sync" => i = Len(calls')
           /\ calls'[i].op = "sync" /\ app.runStarted => i = 2 /\ calls'[1].op = "ensure"
  <2>1. CASE d = None
    BY <1>1, <2>1
  <2>2. CASE d # None /\ app.runStarted
    <3>1. calls' = <<e, y>> /\ Len(calls') = 2 /\ calls'[1] = e /\ calls'[2] = y
      BY <1>1, <2>2
    <3> QED BY <1>5, <2>2, <3>1
  <2>3. CASE d # None /\ ~app.runStarted
    <3>1. calls' = <<y>> /\ Len(calls') = 1 /\ calls'[1] = y
      BY <1>1, <2>3
    <3> QED BY <1>5, <2>3, <3>1
  <2> QED BY <2>1, <2>2, <2>3
<1>7. Stack'
  BY <1>3, <1>4, <1>6 DEF Stack
<1>8. Initiation'
  BY <1>1, <1>3, <1>6 DEF IInv, Initiation
<1>9. Ending' /\ EndsOnce'
  BY <1>1, <1>3, <1>6 DEF IInv, Ending, EndsOnce
<1>10. ActiveInForeground' /\ InitComesFirst'
  BY <1>1, <1>3 DEF IInv, ActiveInForeground, InitComesFirst
<1>11. Belief'
  <2> SUFFICES ASSUME settled' PROVE Belief'
      BY DEF Belief
  <2>1. /\ settled /\ d # None /\ app.delegate = None /\ (app.active => app.runStarted)
        /\ ~app'.initialized /\ d \in Delegates
    BY <1>1, <1>3, <1>4
  <2>2. \A c \in Delegates : Believes(c, FALSE)
    BY <1>4, <2>1 DEF IInv, Belief
  <2>3. \A c \in Delegates : Believes(c, FALSE)'
    BY <1>1, <2>2 DEF Believes
  <2>4. ASSUME NEW i \in 1..Len(calls'), calls'[i].op = "sync", app.active
        PROVE  Led(calls', i)
    <3>1. i = 2 /\ calls'[1].op = "ensure" /\ 1 \in 1..(i - 1)
      BY <1>6, <2>1, <2>4
    <3> QED BY <3>1 DEF Led
  <2>5. \A i \in 1..Len(calls') : ~Tells(calls'[i])
    BY <1>6 DEF Tells
  <2>6. Believes(app.delegate, FALSE)'
    BY <1>3, <2>1, <2>3 DEF Believes
  <2> HIDE DEF Tells, Believes
  <2> QED BY <1>3, <1>6, <2>1, <2>3, <2>4, <2>5, <2>6 DEF Belief
<1>12. TypeOK'
  BY <1>1, <1>3, <1>6 DEF IInv, TypeOK, AppFields
<1> QED BY <1>7, <1>8, <1>9, <1>10, <1>11, <1>12 DEF IInv

----------------------------------------------------------------------------
LEMMA StepKeeps == IInv /\ [Next]_vars => IInv'
<1> SUFFICES ASSUME IInv, [Next]_vars PROVE IInv'
    OBVIOUS
<1>1. CASE Destroyed
  BY <1>1, DestroyedKeeps
<1>2. CASE Ensure
  BY <1>2, EnsureKeeps
<1>3. CASE CallInit
  BY <1>3, CallInitKeeps
<1>4. CASE Initialized
  BY <1>4, InitializedKeeps
<1>5. CASE Sync
  BY <1>5, SyncKeeps
<1>6. CASE Settle
  BY <1>6, SettleKeeps
<1>7. CASE Terminate
  BY <1>7, TerminateKeeps
<1>8. CASE \E d \in Delegates \cup {None} : SetDelegate(d)
  BY <1>8, SetDelegateKeeps
<1>9. CASE Run \/ LoopReturns
  BY <1>9, RunKeeps
<1>10. CASE \E active \in BOOLEAN : Activation(active)
  BY <1>10, ActivationKeeps
<1>11. CASE \E w \in Windows : CreateWindow(w) \/ CloseWindow(w) \/ DestroyWindow(w)
  BY <1>11, WindowsKeep
<1>12. CASE UNCHANGED vars
  BY <1>12 DEF vars, IInv, TypeOK, Stack, Initiation, Ending, Belief, Believes, Tells, Led,
               ActiveInForeground, InitComesFirst, EndsOnce
<1> QED BY <1>1, <1>2, <1>3, <1>4, <1>5, <1>6, <1>7, <1>8, <1>9, <1>10, <1>11, <1>12
        DEF Next, Work

\* The inductive invariant.
THEOREM InvariantHolds == Spec => []IInv
<1>1. Init => IInv
  BY InitHolds
<1>2. IInv /\ [Next]_vars => IInv'
  BY StepKeeps
<1> QED BY <1>1, <1>2, PTL DEF Spec

\* The fields, the call stack and what was told keep their types.
THEOREM TypeCorrect == Spec => []TypeOK
<1>1. IInv => TypeOK
  BY DEF IInv
<1> QED BY <1>1, InvariantHolds, PTL

\* However notifications nest in init(), no delegate hears of the app before it.
THEOREM InitAlwaysFirst == Spec => []InitComesFirst
<1>1. IInv => InitComesFirst
  BY DEF IInv
<1> QED BY <1>1, InvariantHolds, PTL

\* Neither the app nor any delegate is ever active and not in the foreground.
THEOREM ActiveOnlyInForeground == Spec => []ActiveInForeground
<1>1. IInv => ActiveInForeground
  BY DEF IInv
<1> QED BY <1>1, InvariantHolds, PTL

\* The program's end is announced at most once.
THEOREM EndsAtMostOnce == Spec => []EndsOnce
<1>1. IInv => EndsOnce
  BY DEF IInv
<1> QED BY <1>1, InvariantHolds, PTL

\* Between calls the only delegate ever installed knows the state of the app.
THEOREM DelegateStaysUpToDate == Spec => []DelegateUpToDate
<1>1. IInv => DelegateUpToDate
  <2> SUFFICES ASSUME IInv, settled, Idle, app.delegate # None, app.initialized
               PROVE  /\ told[app.delegate].active = app.active
                      /\ told[app.delegate].foreground = ~app.background
      BY DEF DelegateUpToDate
  <2>1. \A i \in 1..Len(calls) : FALSE
    BY DEF Idle
  <2>2. Believes(app.delegate, app.active)
    BY <2>1 DEF IInv, Belief
  <2>3. /\ app.active \in BOOLEAN /\ app.background \in BOOLEAN
        /\ app.active <=> ~app.background
        /\ app.delegate \in Delegates
    BY DEF IInv, TypeOK, ActiveInForeground
  <2> DEFINE t == told[app.delegate]
  <2>4. t \in ToldFields
    <3>1. TypeOK
      BY DEF IInv
    <3> QED BY <2>3, <3>1, Types
  <2>5. t.active \in BOOLEAN /\ t.foreground \in BOOLEAN
    BY <2>4 DEF ToldFields
  <2>6. /\ t.active <=> app.active
        /\ t.foreground <=> app.active
    BY <2>2 DEF Believes
  <2> HIDE DEF t
  <2>7. t.active = app.active /\ t.foreground = ~app.background
    BY <2>3, <2>5, <2>6
  <2> QED BY <2>7 DEF t
<1> QED BY <1>1, InvariantHolds, PTL

----------------------------------------------------------------------------
(* The end of the program is announced whenever somebody is there to hear it. *)

\* The only delegate ever installed has heard of the end, or is about to.
Heeded(d) ==
  settled =>
    /\ app.delegate = d
    /\ \/ ~app.terminated
       \/ told[d].ends = 1
       \/ \E i \in 1..Len(calls) : calls[i].op = "terminate"

\* The announcement stays pending until it is made.
LEMMA TailKeepsTerminate ==
  ASSUME calls \in Seq(Frame), calls # <<>>, Head(calls).op # "terminate",
         \E i \in 1..Len(calls) : calls[i].op = "terminate"
  PROVE  \E i \in 1..Len(Tail(calls)) : Tail(calls)[i].op = "terminate"
<1> DEFINE t == Tail(calls)
<1>1. PICK i \in 1..Len(calls) : calls[i].op = "terminate"
  OBVIOUS
<1>2. /\ Head(calls) = calls[1] /\ Len(calls) \in Nat /\ Len(t) = Len(calls) - 1
      /\ \A j \in 1..Len(t) : t[j] = calls[j + 1]
  BY Popped
<1> HIDE DEF t
<1>3. i # 1
  BY <1>1, <1>2
<1>4. i - 1 \in 1..Len(t) /\ (i - 1) + 1 = i
  BY <1>2, <1>3
<1>5. t[i - 1].op = "terminate"
  BY <1>1, <1>2, <1>4
<1>6. \E j \in 1..Len(t) : t[j].op = "terminate"
  BY <1>4, <1>5
<1> QED BY <1>6 DEF t

LEMMA PushKeepsTerminate ==
  ASSUME NEW r \in Seq(Frame), NEW f \in Frame, NEW g \in Frame,
         \E i \in 1..Len(r) : r[i].op = "terminate"
  PROVE  LET t == <<f, g>> \o r IN \E i \in 1..Len(t) : t[i].op = "terminate"
<1> DEFINE t == <<f, g>> \o r
<1>1. PICK i \in 1..Len(r) : r[i].op = "terminate"
  OBVIOUS
<1>2. i + 2 \in 1..Len(t) /\ t[i + 2] = r[i]
  BY Pushed
<1> HIDE DEF t
<1>3. \E j \in 1..Len(t) : t[j].op = "terminate"
  BY <1>1, <1>2
<1> QED BY <1>3 DEF t

\* A call that returns or nests others without being the announcement.
LEMMA HeededIfPending ==
  ASSUME IInv, NEW d \in Delegates, Heeded(d), settled' = settled,
         app'.delegate = app.delegate, app'.terminated = app.terminated,
         \A e \in Delegates : told'[e].ends = told[e].ends,
         \/ calls' = calls
         \/ calls # <<>> /\ calls' = Tail(calls) /\ Head(calls).op # "terminate"
         \/ \E r \in Seq(Frame), f, g \in Frame :
              /\ calls' = <<f, g>> \o r
              /\ (\E i \in 1..Len(calls) : calls[i].op = "terminate") =>
                    \E i \in 1..Len(r) : r[i].op = "terminate"
  PROVE  Heeded(d)'
<1>1. calls \in Seq(Frame)
  BY DEF IInv, TypeOK
<1>2. (\E i \in 1..Len(calls) : calls[i].op = "terminate") =>
         \E i \in 1..Len(calls') : calls'[i].op = "terminate"
  <2> SUFFICES ASSUME \E i \in 1..Len(calls) : calls[i].op = "terminate"
               PROVE  \E i \in 1..Len(calls') : calls'[i].op = "terminate"
      OBVIOUS
  <2>1. CASE calls' = calls
    BY <2>1
  <2>2. CASE calls # <<>> /\ calls' = Tail(calls) /\ Head(calls).op # "terminate"
    BY <1>1, <2>2, TailKeepsTerminate
  <2>3. CASE \E r \in Seq(Frame), f, g \in Frame :
               calls' = <<f, g>> \o r /\ \E i \in 1..Len(r) : r[i].op = "terminate"
    BY <2>3, PushKeepsTerminate
  <2> QED BY <2>1, <2>2, <2>3
<1> QED BY <1>2 DEF Heeded

LEMMA EndFramesTell ==
  ASSUME NEW a \in AppFields, NEW native \in BOOLEAN, ~a.terminated, a.delegate # None
  PROVE  LET s == EndFrames(a, TRUE, native) IN \E i \in 1..Len(s) : s[i].op = "terminate"
<1> DEFINE u == <<Do("ensure"), Do("terminate")>>
           v == IF native THEN <<Do("destroyed")>> ELSE <<>>
<1>1. EndFrames(a, TRUE, native) = u \o v
  BY DEF EndFrames, TerminateFrames
<1>2. u \in Seq(Frame) /\ Len(u) = 2 /\ u[2] = Do("terminate")
  BY FrameTypes
<1>3. v \in Seq(Frame) /\ Len(v) \in Nat
  BY FrameTypes
<1> HIDE DEF u, v
<1> DEFINE s == u \o v
<1>4. Len(s) = Len(u) + Len(v)
      /\ \A i \in 1..(Len(u) + Len(v)) : s[i] = IF i <= Len(u) THEN u[i] ELSE v[i - Len(u)]
  BY <1>2, <1>3, ConcatProperties
<1> HIDE DEF s
<1>5. 2 \in 1..Len(s) /\ s[2].op = "terminate"
  BY <1>2, <1>3, <1>4, FrameTypes
<1>6. \E i \in 1..Len(s) : s[i].op = "terminate"
  BY <1>5
<1> QED BY <1>1, <1>6 DEF s

LEMMA HeededInWork ==
  ASSUME IInv, NEW d \in Delegates, Heeded(d), Work
  PROVE  Heeded(d)'
<1> SUFFICES ASSUME settled PROVE Heeded(d)'
  <2>1. settled' = settled
    BY DEF Work, Destroyed, Ensure, CallInit, Initialized, Sync, Settle, Terminate
  <2> QED BY <2>1 DEF Heeded
<1>1. /\ app.delegate = d /\ d # None /\ app \in AppFields /\ calls \in Seq(Frame)
      /\ told \in [Delegates -> ToldFields]
  BY Types, ConstantsAssumption DEF Heeded, IInv
<1>2. ASSUME calls # <<>>
      PROVE  Tail(calls) \in Seq(Frame)
  BY <1>1, <1>2, Popped
<1>3. CASE Destroyed
  <2>1. /\ calls # <<>> /\ calls' = Tail(calls) /\ Head(calls).op = "destroyed"
        /\ UNCHANGED <<app, told, settled>>
    BY <1>3 DEF Destroyed, Pending, Idle
  <2> QED BY <2>1, HeededIfPending
<1>4. CASE Initialized
  <2>1. /\ calls # <<>> /\ calls' = Tail(calls) /\ Head(calls).op = "initialized"
        /\ UNCHANGED <<told, settled>>
        /\ app'.delegate = app.delegate /\ app'.terminated = app.terminated
    BY <1>1, <1>4 DEF Initialized, Pending, Idle, AppFields
  <2> QED BY <2>1, HeededIfPending
<1>5. CASE Sync
  <2>1. /\ calls # <<>> /\ calls' = Tail(calls) /\ Head(calls).op = "sync"
        /\ UNCHANGED <<app, settled>>
    BY <1>5 DEF Sync, Pending, Idle
  <2>2. \A e \in Delegates : told'[e].ends = told[e].ends
    BY <1>5, SyncTells
  <2> QED BY <2>1, <2>2, HeededIfPending
<1>6. CASE Settle
  <2>1. /\ calls # <<>> /\ calls' = Tail(calls) /\ Head(calls).op = "settle"
        /\ UNCHANGED <<app, settled>>
    BY <1>6 DEF Settle, Pending, Idle
  <2>2. \A e \in Delegates : told'[e].ends = told[e].ends
    BY <1>6, SettleTells
  <2> QED BY <2>1, <2>2, HeededIfPending
<1>7. CASE Terminate
  <2>1. /\ calls # <<>> /\ Head(calls).op = "terminate" /\ UNCHANGED <<app, settled>>
        /\ told' = [told EXCEPT ![d] = Hear(told[d], "terminate")]
    BY <1>1, <1>7 DEF Terminate, Pending, Idle, Tell
  <2>2. told[d].ends = 0
    BY <2>1, TopIs DEF IInv, Ending
  <2>3. told[d] \in ToldFields /\ Hear(told[d], "terminate") = [told[d] EXCEPT !.ends = @ + 1]
    BY <1>1, HearIs
  <2>4. told'[d].ends = 0 + 1
    BY <1>1, <2>1, <2>2, <2>3 DEF ToldFields
  <2> QED BY <1>1, <2>1, <2>4 DEF Heeded
<1>8. CASE Ensure
  <2>1. /\ calls # <<>> /\ Head(calls).op = "ensure"
        /\ UNCHANGED <<app, told, settled>>
    BY <1>8 DEF Ensure, Pending, Idle
  <2>2. CASE calls' = Tail(calls)
    BY <2>1, <2>2, HeededIfPending
  <2>3. CASE calls' = <<Do("init"), Do("initialized")>> \o Tail(calls)
    <3>1. Do("init") \in Frame /\ Do("initialized") \in Frame
      BY FrameTypes
    <3>2. (\E i \in 1..Len(calls) : calls[i].op = "terminate") =>
            \E i \in 1..Len(Tail(calls)) : Tail(calls)[i].op = "terminate"
      BY <1>1, <2>1, TailKeepsTerminate
    <3>3. \E r \in Seq(Frame), f, g \in Frame :
            /\ calls' = <<f, g>> \o r
            /\ (\E i \in 1..Len(calls) : calls[i].op = "terminate") =>
                  \E i \in 1..Len(r) : r[i].op = "terminate"
      BY <1>2, <2>1, <2>3, <3>1, <3>2
    <3> QED BY <2>1, <3>3, HeededIfPending
  <2> QED BY <1>8, <2>2, <2>3 DEF Ensure
<1>9. CASE CallInit
  <2>1. /\ calls # <<>> /\ Head(calls).op = "init" /\ UNCHANGED settled
        /\ told' = [told EXCEPT ![d] = Hear(told[d], "init")]
    BY <1>1, <1>9 DEF CallInit, Pending, Idle, Tell
  <2>2. \A e \in Delegates : told'[e].ends = told[e].ends
    <3>1. Hear(told[d], "init").ends = told[d].ends
      BY <1>1, HearIs
    <3> QED BY <1>1, <2>1, <3>1
  <2>3. CASE calls' = Tail(calls) /\ app' = app
    BY <2>1, <2>2, <2>3, HeededIfPending
  <2>4. CASE calls' = ActivationFrames(TRUE) \o Tail(calls) /\ app' = Activated(app, TRUE)
    <3>1. app'.delegate = app.delegate /\ app'.terminated = app.terminated
      BY <1>1, <2>4, ActivatedIs
    <3>2. PICK f \in Frame, g \in Frame : ActivationFrames(TRUE) = <<f, g>>
      BY <1>1, FramesAre DEF IInv
    <3>3. (\E i \in 1..Len(calls) : calls[i].op = "terminate") =>
            \E i \in 1..Len(Tail(calls)) : Tail(calls)[i].op = "terminate"
      BY <1>1, <2>1, TailKeepsTerminate
    <3>4. \E r \in Seq(Frame), h, k \in Frame :
            /\ calls' = <<h, k>> \o r
            /\ (\E i \in 1..Len(calls) : calls[i].op = "terminate") =>
                  \E i \in 1..Len(r) : r[i].op = "terminate"
      BY <1>2, <2>1, <2>4, <3>2, <3>3
    <3> QED BY <2>1, <2>2, <3>1, <3>4, HeededIfPending
  <2> QED BY <1>9, <2>3, <2>4 DEF CallInit
<1> QED BY <1>3, <1>4, <1>5, <1>6, <1>7, <1>8, <1>9 DEF Work

LEMMA HeededByRemoved ==
  ASSUME IInv, NEW d \in Delegates, Heeded(d), settled, settled' = settled, Idle, told' = told,
         NEW exits \in BOOLEAN, NEW native \in BOOLEAN,
         ~exits => app'.terminated = app.terminated, app'.delegate = app.delegate,
         exits => calls' = EndFrames(app, TRUE, native)
  PROVE  Heeded(d)'
<1>1. /\ app.delegate = d /\ d # None /\ app \in AppFields
      /\ ~app.terminated \/ told[d].ends = 1
  BY Types, ConstantsAssumption DEF Heeded, IInv, Idle
<1>2. CASE told[d].ends = 1
  BY <1>1, <1>2 DEF Heeded
<1>3. CASE ~app.terminated /\ ~exits
  BY <1>1, <1>3 DEF Heeded
<1>4. CASE ~app.terminated /\ exits
  <2>1. \E i \in 1..Len(calls') : calls'[i].op = "terminate"
    BY <1>1, <1>4, EndFramesTell
  <2> QED BY <1>1, <2>1 DEF Heeded
<1> QED BY <1>1, <1>2, <1>3, <1>4

LEMMA HeededKeeps ==
  ASSUME NEW d \in Delegates
  PROVE  IInv /\ Heeded(d) /\ [Next]_vars => Heeded(d)'
<1> SUFFICES ASSUME IInv, Heeded(d), [Next]_vars PROVE Heeded(d)'
    OBVIOUS
<1> SUFFICES ASSUME settled' PROVE Heeded(d)'
    BY DEF Heeded
<1>1. settled
  BY DEF Next, Work, vars, Destroyed, Ensure, CallInit, Initialized, Sync, Settle, Terminate,
         SetDelegate, Run, LoopReturns, Activation, CreateWindow, CloseWindow, DestroyWindow
<1>2. /\ app.delegate = d /\ d # None /\ app \in AppFields /\ calls \in Seq(Frame)
  BY <1>1, Types, ConstantsAssumption DEF Heeded, IInv
<1>3. CASE Work
  BY <1>3, HeededInWork
<1>4. CASE \E c \in Delegates \cup {None} : SetDelegate(c)
  BY <1>2, <1>4 DEF SetDelegate
<1>5. CASE Run
  <2>1. /\ Idle /\ UNCHANGED <<told, settled>>
        /\ app'.delegate = app.delegate /\ app'.terminated = app.terminated
    BY <1>2, <1>5 DEF Run, AppFields
  <2> QED BY <1>1, <2>1 DEF Heeded, Idle
<1>6. CASE LoopReturns
  <2>1. /\ Idle /\ UNCHANGED <<told, settled>> /\ calls' = TerminateFrames(app)
        /\ app'.delegate = app.delegate
    BY <1>2, <1>6 DEF LoopReturns, AppFields
  <2>2. TerminateFrames(app) \in Seq(Frame)
    BY FrameTypes DEF TerminateFrames
  <2>3. calls' = EndFrames(app, TRUE, FALSE)
    BY <2>1, <2>2 DEF EndFrames
  <2> QED BY <1>1, <2>1, <2>3, HeededByRemoved
<1>7. CASE \E active \in BOOLEAN : Activation(active)
  <2>1. PICK active \in BOOLEAN : Activation(active)
    BY <1>7
  <2>2. /\ app' = Activated(app, active) /\ calls' = ActivationFrames(active) \o calls
        /\ UNCHANGED <<told, settled>>
    BY <2>1 DEF Activation
  <2>3. app'.delegate = app.delegate /\ app'.terminated = app.terminated
    BY <1>2, <2>2, ActivatedIs
  <2>4. PICK f \in Frame, g \in Frame : ActivationFrames(active) = <<f, g>>
    BY <1>2, FramesAre DEF IInv
  <2>5. \E r \in Seq(Frame), h, k \in Frame :
          /\ calls' = <<h, k>> \o r
          /\ (\E i \in 1..Len(calls) : calls[i].op = "terminate") =>
                \E i \in 1..Len(r) : r[i].op = "terminate"
    BY <1>2, <2>2, <2>4
  <2> QED BY <2>2, <2>3, <2>5, HeededIfPending
<1>8. CASE \E w \in Windows : CreateWindow(w)
  BY <1>8 DEF CreateWindow, Heeded
<1>9. ASSUME NEW w \in Windows, CloseWindow(w) \/ DestroyWindow(w)
      PROVE  Heeded(d)'
  <2>1. PICK native \in BOOLEAN :
          Idle /\ UNCHANGED <<told, settled>> /\ Removed(window', native)
    <3>1. (window[w] = "registered") \in BOOLEAN
      OBVIOUS
    <3> QED BY <1>9, <3>1 DEF CloseWindow, DestroyWindow
  <2> DEFINE exits == ~app.exitRequested /\ \A v \in Windows : window'[v] # "registered"
  <2>2. exits \in BOOLEAN
    BY <1>2 DEF AppFields
  <2>3. /\ app' = IF exits THEN ExitRequested(app) ELSE app
        /\ calls' = EndFrames(app, exits, native)
    BY <2>1 DEF Removed, EndFrames
  <2> HIDE DEF exits
  <2>4. /\ ~exits => app'.terminated = app.terminated
        /\ app'.delegate = app.delegate
        /\ exits => calls' = EndFrames(app, TRUE, native)
    BY <1>2, <2>2, <2>3 DEF ExitRequested, AppFields
  <2> QED BY <1>1, <2>1, <2>2, <2>4, HeededByRemoved
<1>10. CASE UNCHANGED vars
  BY <1>10 DEF vars, Heeded
<1> QED BY <1>3, <1>4, <1>5, <1>6, <1>7, <1>8, <1>9, <1>10 DEF Next

\* The only delegate ever installed, if before the end was announced, has heard of the
\* end when run() has returned, however the loop was left.
THEOREM EndIsAlwaysHeard == Spec => DelegateHearsTheEnd
<1> SUFFICES ASSUME NEW d \in Delegates
             PROVE  Spec => [](app.delegate = d /\ ~app.terminated
                        => [](settled /\ phase = "returned" /\ Idle => told[d].ends = 1))
    BY DEF DelegateHearsTheEnd
<1>1. app.delegate = d /\ ~app.terminated => Heeded(d)
  BY DEF Heeded
<1>2. IInv /\ Heeded(d) /\ [Next]_vars => Heeded(d)'
  BY HeededKeeps
<1>3. IInv /\ Heeded(d) => (settled /\ phase = "returned" /\ Idle => told[d].ends = 1)
  BY DEF IInv, Ending, Heeded, Idle
<1> QED BY <1>1, <1>2, <1>3, InvariantHolds, PTL DEF Spec

============================================================================
