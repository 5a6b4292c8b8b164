------------------------------- MODULE JobSet -------------------------------
(***************************************************************************)
(* What a set of processes promises its caller, with no pipes and no       *)
(* completion port: a process runs, is ready once it has ended, and is     *)
(* handed out once, in the order the processes became ready.               *)
(***************************************************************************)
EXTENDS Naturals, Sequences

CONSTANT Procs

VARIABLES
  job,    \* where each process is
  ready   \* those that ended and were not handed out yet, oldest first

jobVars == <<job, ready>>

Start(p) ==
  /\ job[p] = "none"
  /\ job' = [job EXCEPT ![p] = "running"]
  /\ UNCHANGED ready

\* A process that could not be started is ready at once.
Refuse(p) ==
  /\ job[p] = "none"
  /\ job' = [job EXCEPT ![p] = "ready"]
  /\ ready' = Append(ready, p)

End(p) ==
  /\ job[p] = "running"
  /\ job' = [job EXCEPT ![p] = "ended"]
  /\ UNCHANGED ready

Finish(p) ==
  /\ job[p] = "ended"
  /\ job' = [job EXCEPT ![p] = "ready"]
  /\ ready' = Append(ready, p)

HandOut ==
  /\ ready # <<>>
  /\ job' = [job EXCEPT ![Head(ready)] = "out"]
  /\ ready' = Tail(ready)

Forget(p) ==
  /\ job[p] = "out"
  /\ job' = [job EXCEPT ![p] = "none"]
  /\ UNCHANGED ready

Abandon ==
  /\ job' = [p \in Procs |-> IF job[p] \in {"running", "ended"} THEN "none" ELSE job[p]]
  /\ UNCHANGED ready

Init == job = [p \in Procs |-> "none"] /\ ready = <<>>

Next ==
  \/ \E p \in Procs : Start(p) \/ Refuse(p) \/ End(p) \/ Finish(p) \/ Forget(p)
  \/ HandOut
  \/ Abandon

Spec == Init /\ [][Next]_jobVars
============================================================================
