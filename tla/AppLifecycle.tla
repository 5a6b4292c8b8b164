---------------------------- MODULE AppLifecycle ----------------------------
(***************************************************************************)
(* The application object (coreui/app.cc, platform/win/win32_app.cc): the  *)
(* registry of windows that ends the program when the last one goes, the   *)
(* message loop, and the notifications an app_delegate receives.           *)
(*                                                                         *)
(* Notifications are synchronous calls.  A delegate's init() is where a    *)
(* program opens its windows, and showing one makes the system send        *)
(* WM_ACTIVATEAPP before show() returns, so notify_app_activation runs     *)
(* inside init().  The variable calls is that call stack: what is still to *)
(* be done, innermost first.  The other notifications call nothing back,   *)
(* and no notification replaces the delegate.                              *)
(*                                                                         *)
(* A definition named X_mut_Y is the slip Y in X, seeded to see that the   *)
(* properties notice it; the specification never uses one.                 *)
(***************************************************************************)
EXTENDS Naturals, Sequences

CONSTANTS
  Delegates,    \* app_delegate objects
  Windows,      \* window objects a program may create
  None,         \* nullptr
  Openers       \* the delegates whose init() shows a window

ASSUME ConstantsAssumption == None \notin Delegates /\ Openers \subseteq Delegates

VARIABLES
  app,      \* the fields of priv::app
  phase,    \* where the program is: before run(), in its loop, after it
  window,   \* each window object: not created, registered, or closed
  calls,    \* pending work of the current call into app, innermost first
  told,     \* what each delegate has been told: times init() and
            \* will_terminate() ran, and whether it was last told it is in
            \* the foreground and active
  settled   \* so far the program installed at most one delegate, once, and not
            \* while the app was active before run()

vars == <<app, phase, window, calls, told, settled>>

Event == {"init", "foreground", "active", "resign", "background", "terminate"}

\* A pending piece of a function of app.cc; on a "settle" frame, the activation
\* to report and the flags it found.
Frame == [op : {"ensure", "init", "initialized", "sync", "terminate", "destroyed"}]
         \cup [op : {"settle"}, active : BOOLEAN, was : BOOLEAN, wasBack : BOOLEAN]

Do(op) == [op |-> op]

MaxInits == 3       \* bounds the counting of init() calls, not the calls

TypeOK ==
  /\ app \in [delegate : Delegates \cup {None}, initialized : BOOLEAN,
              runStarted : BOOLEAN, active : BOOLEAN, background : BOOLEAN,
              exitRequested : BOOLEAN, terminated : BOOLEAN]
  /\ phase \in {"setup", "loop", "returned"}
  /\ window \in [Windows -> {"none", "registered", "closed", "destroyed"}]
  /\ calls \in Seq(Frame)
  /\ told \in [Delegates -> [inits : 0..MaxInits, foreground : BOOLEAN,
                             active : BOOLEAN, ends : 0..1]]
  /\ settled \in BOOLEAN

Idle == calls = <<>>

----------------------------------------------------------------------------
(* What a delegate makes of the notifications it gets, one after another. *)

Hear(t, event) ==
  CASE event = "init"       -> [t EXCEPT !.inits = IF @ < MaxInits THEN @ + 1 ELSE @]
    [] event = "foreground" -> [t EXCEPT !.foreground = TRUE]
    [] event = "active"     -> [t EXCEPT !.active = TRUE]
    [] event = "resign"     -> [t EXCEPT !.active = FALSE]
    [] event = "background" -> [t EXCEPT !.foreground = FALSE]
    [] event = "terminate"  -> [t EXCEPT !.ends = @ + 1]

Tell(event) == told' = [told EXCEPT ![app.delegate] = Hear(@, event)]

Tell2(said1, event1, said2, event2) ==
  LET first(t) == IF said1 THEN Hear(t, event1) ELSE t
  IN  told' = [told EXCEPT ![app.delegate] = IF said2 THEN Hear(first(@), event2) ELSE first(@)]

----------------------------------------------------------------------------
(* The functions of app.cc, up to the first call into a delegate. *)

ActivationFrames_mut_NoEnsure(active) ==
  IF app.delegate = None THEN <<>>
  ELSE <<[op |-> "settle", active |-> active, was |-> app.active, wasBack |-> app.background]>>

\* notify_app_activation: the flags change even while nobody listens.
ActivationFrames(active) ==
  IF app.delegate = None THEN <<>>
  ELSE <<Do("ensure"), [op |-> "settle", active |-> active,
                        was |-> app.active, wasBack |-> app.background]>>

Activated_mut_KeepsBackground(a, active) == [a EXCEPT !.active = active]

Activated(a, active) == [a EXCEPT !.active = active, !.background = ~active]

TerminateFrames_mut_Again(a) ==
  IF a.delegate = None THEN <<>> ELSE <<Do("ensure"), Do("terminate")>>

\* notify_will_terminate: once per program, told or not.
TerminateFrames(a) ==
  IF a.terminated \/ a.delegate = None THEN <<>> ELSE <<Do("ensure"), Do("terminate")>>

\* request_exit, and the same after the loop returned.
ExitRequested(a) == [a EXCEPT !.exitRequested = TRUE, !.terminated = TRUE]

----------------------------------------------------------------------------
(* The pending calls, innermost first. *)

Pending(op) == ~Idle /\ Head(calls).op = op

Ensure ==
  /\ Pending("ensure")
  /\ calls' = IF app.delegate = None \/ app.initialized THEN Tail(calls)
              ELSE <<Do("init"), Do("initialized")>> \o Tail(calls)
  /\ UNCHANGED <<app, phase, window, told, settled>>

\* delegate_->init(): the flag that says so is set only when it has returned.
CallInit ==
  /\ Pending("init")
  /\ Tell("init")
  /\ IF app.delegate \in Openers /\ ~app.active /\ \E w \in Windows : window[w] = "none"
     THEN /\ calls' = ActivationFrames(TRUE) \o Tail(calls)
          /\ app' = Activated(app, TRUE)
          /\ \E w \in Windows : window[w] = "none" /\ window' = [window EXCEPT ![w] = "registered"]
     ELSE /\ calls' = Tail(calls)
          /\ UNCHANGED <<app, window>>
  /\ UNCHANGED <<phase, settled>>

Initialized ==
  /\ Pending("initialized")
  /\ app' = [app EXCEPT !.initialized = TRUE]
  /\ calls' = Tail(calls)
  /\ UNCHANGED <<phase, window, told, settled>>

Sync_mut_OnlyActive ==
  /\ Pending("sync")
  /\ IF app.initialized /\ app.active THEN Tell("active") ELSE UNCHANGED told
  /\ calls' = Tail(calls)
  /\ UNCHANGED <<app, phase, window, settled>>

\* The second half of sync_delegate_state.
Sync ==
  /\ Pending("sync")
  /\ IF app.initialized THEN Tell2(~app.background, "foreground", app.active, "active")
     ELSE UNCHANGED told
  /\ calls' = Tail(calls)
  /\ UNCHANGED <<app, phase, window, settled>>

\* The second half of notify_app_activation.
Settle ==
  /\ Pending("settle")
  /\ LET f == Head(calls)
     IN  IF f.active THEN Tell2(f.wasBack, "foreground", ~f.was, "active")
         ELSE Tell2(f.was, "resign", ~f.wasBack, "background")
  /\ calls' = Tail(calls)
  /\ UNCHANGED <<app, phase, window, settled>>

Terminate ==
  /\ Pending("terminate")
  /\ Tell("terminate")
  /\ calls' = Tail(calls)
  /\ UNCHANGED <<app, phase, window, settled>>

----------------------------------------------------------------------------
(* What the program and the system do between calls. *)

\* A replaced delegate is not told, and a new one only once it is initialised.
SetDelegate(d) ==
  /\ Idle
  /\ settled' = (settled /\ d # None /\ app.delegate = None /\ (app.active => app.runStarted))
  /\ app' = [app EXCEPT !.delegate = d, !.initialized = @ /\ app.delegate = d]
  /\ calls' = IF d = None THEN <<>>
              ELSE IF app.runStarted THEN <<Do("ensure"), Do("sync")>> ELSE <<Do("sync")>>
  /\ UNCHANGED <<phase, window, told>>

\* run(): mark_run_started, then the loop.
Run ==
  /\ Idle /\ phase = "setup"
  /\ phase' = "loop"
  /\ app' = [app EXCEPT !.runStarted = TRUE]
  /\ calls' = <<Do("ensure")>>
  /\ UNCHANGED <<window, told, settled>>

LoopReturns_mut_Silent ==
  /\ Idle /\ phase = "loop"
  /\ phase' = "returned"
  /\ UNCHANGED <<app, window, calls, told, settled>>

\* The loop ends on WM_QUIT, which the last window posts and others may.
LoopReturns ==
  /\ Idle /\ phase = "loop"
  /\ phase' = "returned"
  /\ app' = [app EXCEPT !.terminated = TRUE]
  /\ calls' = TerminateFrames(app)
  /\ UNCHANGED <<window, told, settled>>

\* WM_ACTIVATEAPP goes to every top-level window alike, so a second one for the
\* same change finds the flags already set.  It also comes, once, from inside
\* the DestroyWindow of a window that held the focus.
Activation(active) ==
  /\ phase # "returned"
  /\ \/ Idle /\ \E w \in Windows : window[w] = "registered"
     \/ Pending("destroyed") /\ app.active /\ ~active
  /\ app' = Activated(app, active)
  /\ calls' = ActivationFrames(active) \o calls
  /\ UNCHANGED <<phase, window, told, settled>>

CreateWindow(w) ==
  /\ Idle /\ phase # "returned" /\ window[w] = "none"
  /\ window' = [window EXCEPT ![w] = "registered"]
  /\ UNCHANGED <<app, phase, calls, told, settled>>

Removed_mut_WaitsForDestructor(after, native) ==
  LET exits == ~app.exitRequested /\ \A w \in Windows : after[w] \in {"none", "destroyed"}
  IN  /\ app' = IF exits THEN ExitRequested(app) ELSE app
      /\ calls' = (IF exits THEN TerminateFrames(app) ELSE <<>>)
                  \o IF native THEN <<Do("destroyed")>> ELSE <<>>

\* remove_window: when the registry is empty the program is to end.  A window
\* that still has its native window destroys that next.
Removed(after, native) ==
  LET exits == ~app.exitRequested /\ \A w \in Windows : after[w] # "registered"
  IN  /\ app' = IF exits THEN ExitRequested(app) ELSE app
      /\ calls' = (IF exits THEN TerminateFrames(app) ELSE <<>>)
                  \o IF native THEN <<Do("destroyed")>> ELSE <<>>

\* close() takes the window out of the registry before it destroys it.
CloseWindow(w) ==
  /\ Idle /\ phase # "returned" /\ window[w] = "registered"
  /\ window' = [window EXCEPT ![w] = "closed"]
  /\ Removed(window', TRUE)
  /\ UNCHANGED <<phase, told, settled>>

\* The destructor removes it again, closed or not.
DestroyWindow(w) ==
  /\ Idle /\ phase # "returned" /\ window[w] \in {"registered", "closed"}
  /\ window' = [window EXCEPT ![w] = "destroyed"]
  /\ Removed(window', window[w] = "registered")
  /\ UNCHANGED <<phase, told, settled>>

Init ==
  /\ app = [delegate |-> None, initialized |-> FALSE, runStarted |-> FALSE,
            active |-> FALSE, background |-> TRUE,
            exitRequested |-> FALSE, terminated |-> FALSE]
  /\ phase = "setup"
  /\ window = [w \in Windows |-> "none"]
  /\ calls = <<>>
  /\ told = [d \in Delegates |->
              [inits |-> 0, foreground |-> FALSE, active |-> FALSE, ends |-> 0]]
  /\ settled = TRUE

\* DestroyWindow returns.
Destroyed ==
  /\ Pending("destroyed")
  /\ calls' = Tail(calls)
  /\ UNCHANGED <<app, phase, window, told, settled>>

Work == Destroyed \/ Ensure \/ CallInit \/ Initialized \/ Sync \/ Settle \/ Terminate

Next ==
  \/ Work
  \/ \E d \in Delegates \cup {None} : SetDelegate(d)
  \/ Run
  \/ LoopReturns
  \/ \E active \in BOOLEAN : Activation(active)
  \/ \E w \in Windows : CreateWindow(w) \/ CloseWindow(w) \/ DestroyWindow(w)

Spec == Init /\ [][Next]_vars

\* A call that has begun is finished.  The WM_QUIT that remove_window posts stays
\* in the queue until the loop, whenever it is back in GetMessage, reads it.
Fairness == WF_vars(Work) /\ SF_vars(app.exitRequested /\ LoopReturns)

FairSpec == Spec /\ Fairness
----------------------------------------------------------------------------
\* No delegate hears anything before its init() was called (app.cc 54-78).
InitComesFirst ==
  \A d \in Delegates :
    told[d].foreground \/ told[d].active \/ told[d].ends > 0 => told[d].inits > 0

\* Active implies foreground, for the app and for what any delegate was told,
\* so enter_foreground comes before become_active and resign_active before
\* enter_background (app.cc 151-183).
ActiveInForeground ==
  /\ app.active <=> ~app.background
  /\ \A d \in Delegates : told[d].active => told[d].foreground

\* The program's end is announced once, to one delegate (app.cc 185-197),
\* though the last close, its destructor and the loop's end all announce it.
EndsOnce ==
  \A d, e \in Delegates : told[d].ends <= 1 /\ (told[d].ends + told[e].ends > 1 => d = e)

\* Between calls the only delegate ever installed knows whether the app is active and
\* in the foreground, once it is initialised (app.cc 62-78, 151-183).
DelegateUpToDate ==
  settled /\ Idle /\ app.delegate # None /\ app.initialized =>
    /\ told[app.delegate].active = app.active
    /\ told[app.delegate].foreground = ~app.background

\* The only delegate ever installed, if it was before the end is announced, has heard
\* of the end when run() has returned, however the loop was left (app.cc 92-98).
DelegateHearsTheEnd ==
  \A d \in Delegates :
    [](app.delegate = d /\ ~app.terminated
       => [](settled /\ phase = "returned" /\ Idle => told[d].ends = 1))

\* Once windows were opened and the last is closed the loop returns, whether or
\* not the objects are ever destroyed (win32_app.cc 314-353).
LastWindowClosed ==
  /\ \E w \in Windows : window[w] # "none"
  /\ \A w \in Windows : window[w] # "registered"

ExitEndsTheLoop == phase = "loop" /\ LastWindowClosed ~> phase = "returned"
============================================================================
