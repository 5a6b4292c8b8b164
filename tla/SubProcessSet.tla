--------------------------- MODULE SubProcessSet ---------------------------
(***************************************************************************)
(* sub_process_set of common/os.cc as built for Windows: child processes   *)
(* whose output comes through named pipes read with overlapped I/O, one    *)
(* completion port that do_work takes the results from, and the console    *)
(* control handler, which runs in a thread of its own.                     *)
(*                                                                         *)
(* The key of a completion packet is the address of the sub_process.  A    *)
(* name in Procs is an address: once the object was deleted, add() may get *)
(* the same one again.                                                     *)
(*                                                                         *)
(* The repository has no caller.  This one deletes a process when it was   *)
(* handed out and nothing for it is left in the port (which only matters   *)
(* for one that could not be started), and does nothing after clear(): the *)
(* code follows the pointer in a packet without asking whose it is.        *)
(* The handle iterated over by the control handler is erased inside its    *)
(* loop; with one set the loop is taken to end there.                      *)
(*                                                                         *)
(* A definition named X_mut_Y is the slip Y in X, seeded to see that the   *)
(* properties notice it; the specification never uses one.                 *)
(***************************************************************************)
EXTENDS Naturals, Sequences, FiniteSets

CONSTANTS
  Procs,      \* addresses of sub_process objects
  None,       \* the key of a packet that means an interrupt
  MaxOutput   \* bounds what one child writes

ASSUME ConstantsAssumption == None \notin Procs /\ MaxOutput \in Nat

VARIABLES
  where,        \* each object: not allocated, m_running, m_finished, handed out
  finished,     \* m_finished
  proc,         \* pipe, read and child of each process, and its m_buf
  port,         \* packets queued at m_ioport
  listening,    \* the set is in set_ports
  interrupted,  \* what the last do_work returned
  over          \* clear() was called

vars == <<where, finished, proc, port, listening, interrupted, over>>

\* pipe: m_pipe is open; reading: a ReadFile is pending; child: the child has the
\* pipe open; wrote, unread, buf: bytes the child wrote, in the pipe, in m_buf;
\* started: m_child was set.
Process == [pipe : BOOLEAN, reading : BOOLEAN, child : BOOLEAN, started : BOOLEAN,
            wrote : 0..MaxOutput, unread : 0..MaxOutput, buf : 0..MaxOutput]

NoProcess == [pipe |-> FALSE, reading |-> FALSE, child |-> FALSE, started |-> FALSE,
              wrote |-> 0, unread |-> 0, buf |-> 0]

Packet == [to : Procs \cup {None}, bytes : 0..MaxOutput, broken : BOOLEAN]

TypeOK ==
  /\ where \in [Procs -> {"none", "running", "finished", "out"}]
  /\ finished \in Seq(Procs)
  /\ proc \in [Procs -> Process]
  /\ port \in Seq(Packet)
  /\ listening \in BOOLEAN
  /\ interrupted \in BOOLEAN
  /\ over \in BOOLEAN

For(p, bytes, broken) == [to |-> p, bytes |-> bytes, broken |-> broken]

----------------------------------------------------------------------------
(* Reading.  An operation that completes posts a packet, one that fails at *)
(* once does not.                                                          *)

Close(r) == [r EXCEPT !.pipe = FALSE]

\* on_pipe_ready: takes the bytes of the packet, then reads again.  A process
\* that could not be started has no pipe to read.
Ready_mut_WholeBuffer(r, bytes) == [r EXCEPT !.buf = @ + MaxOutput]

Ready(r, bytes) == [r EXCEPT !.buf = @ + bytes]

Read(p, r, rest) ==
  \/ /\ ~r.pipe
     /\ proc' = [proc EXCEPT ![p] = r]
     /\ port' = rest
  \/ /\ r.pipe /\ r.unread = 0 /\ r.child
     /\ proc' = [proc EXCEPT ![p] = [r EXCEPT !.reading = TRUE]]
     /\ port' = rest
  \/ /\ r.pipe /\ r.unread = 0 /\ ~r.child
     /\ proc' = [proc EXCEPT ![p] = Close(r)]
     /\ port' = rest
  \/ /\ r.pipe
     /\ \E n \in 1..r.unread :
          /\ proc' = [proc EXCEPT ![p] = [r EXCEPT !.unread = @ - n]]
          /\ port' = Append(rest, For(p, n, FALSE))

OnPipeReady_mut_NoRead(p, packet, rest) ==
  /\ proc' = [proc EXCEPT ![p] = IF packet.broken THEN Close(@) ELSE Ready(@, packet.bytes)]
  /\ port' = rest

OnPipeReady_mut_DropsBytes(p, packet, rest) ==
  IF packet.broken THEN proc' = [proc EXCEPT ![p] = Close(@)] /\ port' = rest
  ELSE Read(p, proc[p], rest)

OnPipeReady(p, packet, rest) ==
  IF packet.broken THEN proc' = [proc EXCEPT ![p] = Close(@)] /\ port' = rest
  ELSE Read(p, Ready(proc[p], packet.bytes), rest)

----------------------------------------------------------------------------
(* What the caller calls. *)

\* The pipe is connected while it is set up, which posts the first packet.
Connected(p) == port' = Append(port, For(p, 0, FALSE))

Add(p) ==
  /\ ~over /\ where[p] = "none"
  /\ where' = [where EXCEPT ![p] = "running"]
  /\ proc' = [proc EXCEPT ![p] =
                [NoProcess EXCEPT !.pipe = TRUE, !.child = TRUE, !.started = TRUE]]
  /\ Connected(p)
  /\ UNCHANGED <<finished, listening, interrupted, over>>

\* CreateProcess fails: without a child the process is finished at once, with its
\* pipe still open unless the error was "file not found".
AddFails(p) ==
  /\ ~over /\ where[p] = "none"
  /\ where' = [where EXCEPT ![p] = "finished"]
  /\ finished' = Append(finished, p)
  /\ \E open \in BOOLEAN : proc' = [proc EXCEPT ![p] = [NoProcess EXCEPT !.pipe = open]]
  /\ Connected(p)
  /\ UNCHANGED <<listening, interrupted, over>>

\* Only a process found in m_running moves to m_finished.
MoveIfDone(p) ==
  IF ~proc'[p].pipe /\ where[p] = "running"
  THEN /\ where' = [where EXCEPT ![p] = "finished"]
       /\ finished' = Append(finished, p)
  ELSE UNCHANGED <<where, finished>>

DoWork_mut_NotTold ==
  /\ ~over /\ port # <<>>
  /\ interrupted' = FALSE
  /\ \/ /\ Head(port).to = None
        /\ port' = Tail(port)
        /\ UNCHANGED <<where, finished, proc>>
     \/ /\ Head(port).to # None
        /\ OnPipeReady(Head(port).to, Head(port), Tail(port))
        /\ MoveIfDone(Head(port).to)
  /\ UNCHANGED <<listening, over>>

\* do_work blocks while the port is empty.
DoWork ==
  /\ ~over /\ port # <<>>
  /\ interrupted' = (Head(port).to = None)
  /\ \/ /\ Head(port).to = None
        /\ port' = Tail(port)
        /\ UNCHANGED <<where, finished, proc>>
     \/ /\ Head(port).to # None
        /\ OnPipeReady(Head(port).to, Head(port), Tail(port))
        /\ MoveIfDone(Head(port).to)
  /\ UNCHANGED <<listening, over>>

NextFinished_mut_Keeps ==
  /\ ~over /\ finished # <<>>
  /\ where' = [where EXCEPT ![Head(finished)] = "out"]
  /\ UNCHANGED <<finished, proc, port, listening, interrupted, over>>

NextFinished ==
  /\ ~over /\ finished # <<>>
  /\ where' = [where EXCEPT ![Head(finished)] = "out"]
  /\ finished' = Tail(finished)
  /\ UNCHANGED <<proc, port, listening, interrupted, over>>

Packets(p) == {i \in DOMAIN port : port[i].to = p}

\* The caller deletes a process it was given.
Delete(p) ==
  /\ ~over /\ where[p] = "out"
  /\ ~proc[p].started => Packets(p) = {}
  /\ where' = [where EXCEPT ![p] = "none"]
  /\ proc' = [proc EXCEPT ![p] = NoProcess]
  /\ UNCHANGED <<finished, port, listening, interrupted, over>>

\* The running processes are deleted; those in m_finished stay.
Clear ==
  /\ ~over
  /\ over' = TRUE
  /\ where' = [p \in Procs |-> IF where[p] = "running" THEN "none" ELSE where[p]]
  /\ UNCHANGED <<finished, proc, port, listening, interrupted>>

----------------------------------------------------------------------------
(* What the children and the system do. *)

Writes(p) ==
  /\ proc[p].child /\ proc[p].wrote < MaxOutput
  /\ LET r == [proc[p] EXCEPT !.wrote = @ + 1]
     IN  IF r.reading
         THEN /\ proc' = [proc EXCEPT ![p] = [r EXCEPT !.reading = FALSE]]
              /\ port' = Append(port, For(p, 1, FALSE))
         ELSE /\ proc' = [proc EXCEPT ![p] = [r EXCEPT !.unread = @ + 1]]
              /\ UNCHANGED port
  /\ UNCHANGED <<where, finished, listening, interrupted, over>>

\* The end of the child breaks the pipe.
Exits(p) ==
  /\ proc[p].child
  /\ proc' = [proc EXCEPT ![p] = [@ EXCEPT !.child = FALSE, !.reading = FALSE]]
  /\ port' = IF proc[p].reading THEN Append(port, For(p, 0, TRUE)) ELSE port
  /\ UNCHANGED <<where, finished, listening, interrupted, over>>

\* notify_interrupted: CTRL+C or CTRL+BREAK, in the handler's thread.
Interrupt ==
  /\ listening
  /\ listening' = FALSE
  /\ port' = Append(port, For(None, 0, FALSE))
  /\ UNCHANGED <<where, finished, proc, interrupted, over>>

Init ==
  /\ where = [p \in Procs |-> "none"]
  /\ finished = <<>>
  /\ proc = [p \in Procs |-> NoProcess]
  /\ port = <<>>
  /\ listening = TRUE
  /\ interrupted = FALSE
  /\ over = FALSE

Next ==
  \/ \E p \in Procs : Add(p) \/ AddFails(p) \/ Delete(p) \/ Writes(p) \/ Exits(p)
  \/ DoWork
  \/ NextFinished
  \/ Clear
  \/ Interrupt

Spec == Init /\ [][Next]_vars

\* The caller goes on asking for work and for results until it clears the set.
FairSpec == Spec /\ WF_vars(DoWork) /\ WF_vars(NextFinished)
----------------------------------------------------------------------------
\* A running process has exactly one operation under way: a read that pends or a
\* packet in the port.  With none it would never finish, and with two a packet
\* would outlive it (os.cc 1451-1475).
OneOperation ==
  ~over => \A p \in Procs :
    proc[p].started =>
      Cardinality(Packets(p)) + (IF proc[p].reading THEN 1 ELSE 0)
        = IF where[p] = "running" THEN 1 ELSE 0

\* A started process is handed out when its child has ended and with everything
\* the child wrote (os.cc 1451-1475, 1790-1796).
OutputComplete ==
  \A p \in Procs :
    where[p] \in {"finished", "out"} /\ proc[p].started =>
      ~proc[p].child /\ proc[p].buf = proc[p].wrote

\* A process whose child has ended is handed out in the end.
EndedIsHandedOut ==
  \A p \in Procs :
    where[p] = "running" /\ ~proc[p].child ~> where[p] = "out" \/ over

\* An interrupt reaches the caller of do_work (os.cc 1834-1845, 1984-1986).
InterruptArrives == Packets(None) # {} ~> interrupted \/ over

----------------------------------------------------------------------------
(* The set of jobs this implements. *)

Job(p) ==
  CASE where[p] = "finished" -> "ready"
    [] where[p] = "running" -> IF proc[p].child THEN "running" ELSE "ended"
    [] OTHER -> where[p]

Jobs == INSTANCE JobSet WITH job <- [p \in Procs |-> Job(p)], ready <- finished

\* Pipes, packets and late completions included, the set does what JobSet says.
WorksAsPromised == Jobs!Spec
============================================================================
