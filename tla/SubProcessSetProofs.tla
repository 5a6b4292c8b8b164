------------------------- MODULE SubProcessSetProofs -------------------------
(***************************************************************************)
(* Proofs about SubProcessSet, for any number of processes and any amount  *)
(* of output, and that it implements JobSet.                               *)
(***************************************************************************)
EXTENDS SubProcessSet, TLAPS, SequenceTheorems, FiniteSetTheorems

Posted(s, p) == \E i \in 1..Len(s) : s[i].to = p

AtMostOne(s, p) ==
  \A i, j \in 1..Len(s) : s[i].to = p /\ s[j].to = p => i = j

\* What holds of process p that is at w with r, while the packets of s are queued.
Sound(w, r, s, p) ==
  /\ AtMostOne(s, p)
  /\ w = "none" => r = NoProcess /\ ~Posted(s, p)
  /\ ~r.started => w # "running" /\ ~r.child /\ ~r.reading
                   /\ r.wrote = 0 /\ r.unread = 0 /\ r.buf = 0
  /\ r.started /\ w = "running" =>
       /\ r.pipe /\ (r.reading <=> ~Posted(s, p))
       /\ r.reading => r.child /\ r.unread = 0 /\ r.wrote = r.buf
  /\ r.started /\ w # "running" => ~r.reading /\ ~Posted(s, p)
  \* Every byte that was written is in the pipe, in the packet or in the buffer.
  /\ \A i \in 1..Len(s) : s[i].to = p =>
       /\ r.wrote = r.unread + r.buf + s[i].bytes
       /\ s[i].broken => r.started /\ ~r.child /\ r.unread = 0 /\ s[i].bytes = 0

Complete(w, r) ==
  w \in {"finished", "out"} /\ r.started => ~r.child /\ r.buf = r.wrote

\* m_finished holds what was finished and not handed out, once each.
Waiting ==
  \A i, j \in 1..Len(finished) :
    /\ where[finished[i]] = "finished"
    /\ finished[i] = finished[j] => i = j

\* After clear() the children go on writing, and nobody takes the packets.
IInv ==
  /\ TypeOK
  /\ Waiting
  /\ \A p \in Procs : proc[p].unread <= proc[p].wrote /\ Complete(where[p], proc[p])
  /\ ~over => \A p \in Procs : Sound(where[p], proc[p], port, p)

----------------------------------------------------------------------------
(* The queue of packets. *)

LEMMA Appended ==
  ASSUME NEW s \in Seq(Packet), NEW q \in Packet
  PROVE  /\ Append(s, q) \in Seq(Packet) /\ Len(Append(s, q)) = Len(s) + 1
         /\ Len(s) \in Nat /\ Append(s, q)[Len(s) + 1] = q
         /\ \A i \in 1..Len(s) : Append(s, q)[i] = s[i]
OBVIOUS

LEMMA Tailed ==
  ASSUME NEW s \in Seq(Packet), s # <<>>
  PROVE  /\ Tail(s) \in Seq(Packet) /\ Len(Tail(s)) = Len(s) - 1
         /\ Len(s) \in Nat \ {0} /\ Head(s) = s[1] /\ Head(s) \in Packet
         /\ \A i \in 1..Len(Tail(s)) : Tail(s)[i] = s[i + 1]
<1>1. Len(s) \in Nat \ {0}
  OBVIOUS
<1>2. Head(s) = s[1] /\ s[1] \in Packet
  BY <1>1
<1> QED BY <1>1, <1>2

\* A packet for somebody else, queued or taken, makes no difference to a process.
LEMMA SoundBeside ==
  ASSUME NEW s \in Seq(Packet), NEW q \in Packet, NEW p \in Procs, q.to # p, NEW w, NEW r,
         Sound(w, r, s, p)
  PROVE  Sound(w, r, Append(s, q), p)
<1> DEFINE t == Append(s, q)
<1>1. \A i \in 1..Len(t) : t[i].to = p => i \in 1..Len(s) /\ t[i] = s[i]
  BY Appended
<1>2. \A i \in 1..Len(s) : i \in 1..Len(t) /\ t[i] = s[i]
  BY Appended
<1> HIDE DEF t
<1>3. Posted(t, p) <=> Posted(s, p)
  BY <1>1, <1>2 DEF Posted
<1>4. AtMostOne(t, p)
  BY <1>1 DEF Sound, AtMostOne
<1> QED BY <1>1, <1>3, <1>4 DEF Sound, t

LEMMA SoundBehind ==
  ASSUME NEW s \in Seq(Packet), s # <<>>, NEW p \in Procs, Head(s).to # p, NEW w, NEW r,
         Sound(w, r, s, p)
  PROVE  Sound(w, r, Tail(s), p)
<1> DEFINE t == Tail(s)
<1>1. \A i \in 1..Len(t) : i + 1 \in 1..Len(s) /\ t[i] = s[i + 1]
  BY Tailed
<1>2. \A i \in 1..Len(s) : s[i].to = p => i - 1 \in 1..Len(t) /\ s[i] = t[i - 1]
  <2> SUFFICES ASSUME NEW i \in 1..Len(s), s[i].to = p
               PROVE  i - 1 \in 1..Len(t) /\ s[i] = t[i - 1]
      OBVIOUS
  <2>1. i # 1
    BY Tailed
  <2>2. i - 1 \in 1..Len(t) /\ (i - 1) + 1 = i
    BY <2>1, Tailed
  <2> QED BY <1>1, <2>2
<1> HIDE DEF t
<1>3. Posted(t, p) <=> Posted(s, p)
  BY <1>1, <1>2 DEF Posted
<1>4. AtMostOne(t, p)
  <2> SUFFICES ASSUME NEW i \in 1..Len(t), NEW j \in 1..Len(t), t[i].to = p, t[j].to = p
               PROVE  i = j
      BY DEF AtMostOne
  <2>1. i + 1 = j + 1
    BY <1>1 DEF Sound, AtMostOne
  <2> QED BY <2>1
<1> QED BY <1>1, <1>3, <1>4 DEF Sound, t

\* The packet of a process that is taken was its only one.
LEMMA NoneBehind ==
  ASSUME NEW s \in Seq(Packet), s # <<>>, NEW p \in Procs, Head(s).to = p, AtMostOne(s, p)
  PROVE  ~Posted(Tail(s), p)
<1> SUFFICES ASSUME NEW i \in 1..Len(Tail(s)), Tail(s)[i].to = p
             PROVE  FALSE
    BY DEF Posted
<1>1. 1 \in 1..Len(s) /\ i + 1 \in 1..Len(s) /\ i + 1 # 1 /\ s[1].to = p /\ s[i + 1].to = p
  BY Tailed
<1> QED BY <1>1 DEF AtMostOne

\* One packet in an otherwise empty mailbox.
LEMMA OneBehind ==
  ASSUME NEW s \in Seq(Packet), NEW q \in Packet, NEW p \in Procs, q.to = p, ~Posted(s, p)
  PROVE  /\ Posted(Append(s, q), p) /\ AtMostOne(Append(s, q), p)
         /\ \A i \in 1..Len(Append(s, q)) : Append(s, q)[i].to = p => Append(s, q)[i] = q
<1> DEFINE t == Append(s, q)
<1>1. \A i \in 1..Len(t) : t[i].to = p => i = Len(s) + 1
  BY Appended DEF Posted
<1>2. Len(s) + 1 \in 1..Len(t) /\ t[Len(s) + 1] = q
  BY Appended
<1> HIDE DEF t
<1>3. Posted(t, p)
  BY <1>2 DEF Posted
<1>4. AtMostOne(t, p)
  BY <1>1 DEF AtMostOne
<1> QED BY <1>1, <1>2, <1>3, <1>4 DEF t

LEMMA EmptyMailbox ==
  ASSUME NEW s, NEW p, ~Posted(s, p)
  PROVE  AtMostOne(s, p) /\ \A i \in 1..Len(s) : s[i].to # p
BY DEF Posted, AtMostOne

LEMMA ForType ==
  ASSUME NEW p \in Procs \cup {None}, NEW n \in 0..MaxOutput, NEW b \in BOOLEAN
  PROVE  For(p, n, b) \in Packet /\ For(p, n, b).to = p /\ For(p, n, b).bytes = n
         /\ For(p, n, b).broken = b
BY DEF For, Packet

LEMMA ConnectionType ==
  ASSUME NEW p \in Procs
  PROVE  For(p, 0, FALSE) \in Packet /\ For(p, 0, FALSE).to = p
         /\ For(p, 0, FALSE).bytes = 0 /\ ~For(p, 0, FALSE).broken
BY ConstantsAssumption DEF For, Packet

\* A step of one process leaves the others as they were.
LEMMA OneProcess ==
  ASSUME TypeOK, NEW p \in Procs, NEW r \in Process, proc' = [proc EXCEPT ![p] = r]
  PROVE  /\ proc' \in [Procs -> Process] /\ proc'[p] = r
         /\ \A o \in Procs : o # p => proc'[o] = proc[o]
BY DEF TypeOK

LEMMA OneWhere ==
  ASSUME TypeOK, NEW p \in Procs, NEW w \in {"none", "running", "finished", "out"},
         where' = [where EXCEPT ![p] = w]
  PROVE  /\ where' \in [Procs -> {"none", "running", "finished", "out"}] /\ where'[p] = w
         /\ \A o \in Procs : o # p => where'[o] = where[o]
BY DEF TypeOK

LEMMA NothingThere ==
  /\ NoProcess \in Process
  /\ ~NoProcess.pipe /\ ~NoProcess.reading /\ ~NoProcess.child /\ ~NoProcess.started
  /\ NoProcess.wrote = 0 /\ NoProcess.unread = 0 /\ NoProcess.buf = 0
BY ConstantsAssumption DEF NoProcess, Process

LEMMA FreshIsSound ==
  ASSUME NEW s, NEW p, ~Posted(s, p)
  PROVE  Sound("none", NoProcess, s, p)
<1>1. AtMostOne(s, p) /\ \A i \in 1..Len(s) : s[i].to # p
  BY EmptyMailbox
<1> QED BY <1>1, NothingThere DEF Sound

\* A process that moves to the end of m_finished, or that is not in it.
LEMMA WaitingOneMore ==
  ASSUME TypeOK, Waiting, NEW p \in Procs, where[p] # "finished",
         where' = [where EXCEPT ![p] = "finished"], finished' = Append(finished, p)
  PROVE  Waiting' /\ finished' \in Seq(Procs)
<1>1. /\ finished \in Seq(Procs) /\ Len(finished) \in Nat
      /\ \A i \in 1..Len(finished) : finished[i] \in Procs
  BY ElementOfSeq, LenProperties DEF TypeOK
<1>2. where'[p] = "finished" /\ \A o \in Procs : o # p => where'[o] = where[o]
  BY OneWhere
<1>3. \A i \in 1..Len(finished) : finished[i] # p
  BY <1>1 DEF Waiting
<1>4. /\ finished' \in Seq(Procs) /\ Len(finished') = Len(finished) + 1
      /\ finished'[Len(finished) + 1] = p
      /\ \A i \in 1..Len(finished) : finished'[i] = finished[i]
  BY <1>1
<1>5. \A i \in 1..Len(finished') : where'[finished'[i]] = "finished"
  BY <1>1, <1>2, <1>3, <1>4 DEF Waiting
<1>6. \A i, j \in 1..Len(finished') : finished'[i] = finished'[j] => i = j
  BY <1>1, <1>3, <1>4 DEF Waiting
<1> QED BY <1>4, <1>5, <1>6 DEF Waiting

LEMMA WaitingTheSame ==
  ASSUME TypeOK, Waiting, UNCHANGED finished,
         \A o \in Procs : where[o] = "finished" => where'[o] = "finished"
  PROVE  Waiting'
<1>1. \A i \in 1..Len(finished) : finished[i] \in Procs
  BY ElementOfSeq DEF TypeOK
<1> QED BY <1>1 DEF Waiting

----------------------------------------------------------------------------
LEMMA InitHolds == Init => IInv
<1> SUFFICES ASSUME Init PROVE IInv
    OBVIOUS
<1>1. NoProcess \in Process /\ NoProcess.unread = 0 /\ NoProcess.wrote = 0
      /\ ~NoProcess.started
  BY NothingThere
<1>2. TypeOK
  <2>1. proc \in [Procs -> Process]
    BY <1>1 DEF Init
  <2>2. where \in [Procs -> {"none", "running", "finished", "out"}]
    BY DEF Init
  <2>3. finished \in Seq(Procs) /\ port \in Seq(Packet)
    BY DEF Init
  <2>4. listening \in BOOLEAN /\ interrupted \in BOOLEAN /\ over \in BOOLEAN
    BY DEF Init
  <2> QED BY <2>1, <2>2, <2>3, <2>4 DEF TypeOK
<1>3. \A p \in Procs : where[p] = "none" /\ proc[p] = NoProcess
  BY DEF Init
<1>4. Len(port) = 0
  BY DEF Init
<1>5. \A p \in Procs : Sound("none", NoProcess, port, p)
  <2>1. \A p \in Procs : ~Posted(port, p)
    BY <1>4 DEF Posted
  <2> QED BY <2>1, FreshIsSound
<1>6. Waiting
  BY DEF Init, Waiting
<1> QED BY <1>1, <1>2, <1>3, <1>5, <1>6 DEF IInv, Complete

\* A process that is allocated has the packet of its connection in the port.
LEMMA ConnectedIsSound ==
  ASSUME NEW s \in Seq(Packet), NEW p \in Procs, ~Posted(s, p), NEW w, NEW r \in Process,
         w # "none", ~r.reading, r.wrote = 0, r.unread = 0, r.buf = 0,
         r.started => w = "running" /\ r.pipe, ~r.started => w # "running" /\ ~r.child
  PROVE  Sound(w, r, Append(s, For(p, 0, FALSE)), p)
<1> DEFINE q == For(p, 0, FALSE)
           t == Append(s, q)
<1>1. q \in Packet /\ q.to = p /\ q.bytes = 0 /\ ~q.broken
  BY ConnectionType
<1>2. /\ Posted(t, p) /\ AtMostOne(t, p)
      /\ \A i \in 1..Len(t) : t[i].to = p => t[i] = q
  BY <1>1, OneBehind
<1> HIDE DEF q, t
<1>3. \A i \in 1..Len(t) : t[i].to = p => t[i].bytes = 0 /\ ~t[i].broken
  BY <1>1, <1>2
<1>4. Sound(w, r, t, p)
  BY <1>2, <1>3 DEF Sound
<1> QED BY <1>4 DEF q, t

LEMMA AddKeeps ==
  ASSUME IInv, NEW p \in Procs, Add(p)
  PROVE  IInv'
<1> DEFINE r == [NoProcess EXCEPT !.pipe = TRUE, !.child = TRUE, !.started = TRUE]
           q == For(p, 0, FALSE)
<1>1. /\ r \in Process /\ r.pipe /\ r.child /\ r.started /\ ~r.reading
      /\ r.wrote = 0 /\ r.unread = 0 /\ r.buf = 0
  BY NothingThere DEF Process
<1>2. /\ ~over /\ where[p] = "none" /\ where' = [where EXCEPT ![p] = "running"]
      /\ proc' = [proc EXCEPT ![p] = r] /\ port' = Append(port, q)
      /\ UNCHANGED <<finished, listening, interrupted, over>>
  BY DEF Add, Connected
<1> HIDE DEF r
<1>3. TypeOK /\ \A o \in Procs : Sound(where[o], proc[o], port, o)
  BY <1>2 DEF IInv
<1>4. ~Posted(port, p)
  BY <1>2, <1>3 DEF Sound
<1>5. q \in Packet /\ q.to = p
  BY ConnectionType
<1>6. Sound("running", r, Append(port, q), p)
  BY <1>1, <1>3, <1>4, ConnectedIsSound DEF TypeOK
<1> HIDE DEF q
<1>7. /\ proc' \in [Procs -> Process] /\ proc'[p] = r
      /\ \A o \in Procs : o # p => proc'[o] = proc[o]
  BY <1>1, <1>2, <1>3, OneProcess
<1>8. /\ where' \in [Procs -> {"none", "running", "finished", "out"}] /\ where'[p] = "running"
      /\ \A o \in Procs : o # p => where'[o] = where[o]
  BY <1>2, <1>3, OneWhere
<1>9. TypeOK'
  BY <1>2, <1>3, <1>5, <1>7, <1>8 DEF TypeOK
<1>10. \A o \in Procs : Sound(where'[o], proc'[o], port', o)
  BY <1>2, <1>3, <1>5, <1>6, <1>7, <1>8, SoundBeside DEF TypeOK
<1>11. \A o \in Procs : proc'[o].unread <= proc'[o].wrote /\ Complete(where'[o], proc'[o])
  BY <1>1, <1>7, <1>8 DEF IInv, Complete
<1>12. Waiting'
  BY <1>2, <1>3, <1>8, WaitingTheSame DEF IInv
<1> QED BY <1>9, <1>10, <1>11, <1>12 DEF IInv

LEMMA AddFailsKeeps ==
  ASSUME IInv, NEW p \in Procs, AddFails(p)
  PROVE  IInv'
<1>1. PICK open \in BOOLEAN : proc' = [proc EXCEPT ![p] = [NoProcess EXCEPT !.pipe = open]]
  BY DEF AddFails
<1> DEFINE r == [NoProcess EXCEPT !.pipe = open]
           q == For(p, 0, FALSE)
<1>2. /\ r \in Process /\ ~r.child /\ ~r.started /\ ~r.reading
      /\ r.wrote = 0 /\ r.unread = 0 /\ r.buf = 0
  BY NothingThere DEF Process
<1>3. /\ ~over /\ where[p] = "none" /\ where' = [where EXCEPT ![p] = "finished"]
      /\ finished' = Append(finished, p)
      /\ proc' = [proc EXCEPT ![p] = r] /\ port' = Append(port, q)
      /\ UNCHANGED <<listening, interrupted, over>>
  BY <1>1 DEF AddFails, Connected
<1> HIDE DEF r
<1>4. TypeOK /\ \A o \in Procs : Sound(where[o], proc[o], port, o)
  BY <1>3 DEF IInv
<1>5. ~Posted(port, p)
  BY <1>3, <1>4 DEF Sound
<1>6. q \in Packet /\ q.to = p
  BY ConnectionType
<1>7. Sound("finished", r, Append(port, q), p)
  BY <1>2, <1>4, <1>5, ConnectedIsSound DEF TypeOK
<1> HIDE DEF q
<1>8. /\ proc' \in [Procs -> Process] /\ proc'[p] = r
      /\ \A o \in Procs : o # p => proc'[o] = proc[o]
  BY <1>2, <1>3, <1>4, OneProcess
<1>9. /\ where' \in [Procs -> {"none", "running", "finished", "out"}] /\ where'[p] = "finished"
      /\ \A o \in Procs : o # p => where'[o] = where[o]
  BY <1>3, <1>4, OneWhere
<1>10. TypeOK' /\ Waiting'
  <2>1. Waiting' /\ finished' \in Seq(Procs)
    BY <1>3, <1>4, WaitingOneMore DEF IInv
  <2> QED BY <1>3, <1>4, <1>6, <1>8, <1>9, <2>1, Appended DEF TypeOK
<1>11. \A o \in Procs : Sound(where'[o], proc'[o], port', o)
  BY <1>3, <1>4, <1>6, <1>7, <1>8, <1>9, SoundBeside DEF TypeOK
<1>12. \A o \in Procs : proc'[o].unread <= proc'[o].wrote /\ Complete(where'[o], proc'[o])
  BY <1>2, <1>8, <1>9 DEF IInv, Complete
<1> QED BY <1>10, <1>11, <1>12 DEF IInv

----------------------------------------------------------------------------
(* do_work. *)

\* Where a process is once do_work has seen to its packet.
Moved(w, r) == IF ~r.pipe /\ w = "running" THEN "finished" ELSE w

\* A process with no packet after its packet was taken: it reads, or its pipe is closed.
LEMMA SoundWithout ==
  ASSUME NEW s, NEW p, ~Posted(s, p), NEW w, NEW r \in Process, w # "none",
         r.wrote = r.unread + r.buf,
         ~r.started => w # "running" /\ ~r.child /\ ~r.reading
                       /\ r.wrote = 0 /\ r.unread = 0 /\ r.buf = 0,
         r.started => w = "running" /\ ~(r.reading <=> ~r.pipe),
         r.reading => r.child /\ r.unread = 0
  PROVE  Sound(Moved(w, r), r, s, p)
<1>1. AtMostOne(s, p) /\ \A i \in 1..Len(s) : s[i].to # p
  BY EmptyMailbox
<1>2. /\ r.pipe \in BOOLEAN /\ r.reading \in BOOLEAN /\ r.started \in BOOLEAN
      /\ r.unread \in Nat /\ r.buf \in Nat /\ r.wrote \in Nat
  BY ConstantsAssumption DEF Process
<1>3. Moved(w, r) # "none" /\ (Moved(w, r) = "running" <=> w = "running" /\ r.pipe)
  BY DEF Moved
<1> QED BY <1>1, <1>2, <1>3 DEF Sound

\* What on_pipe_ready leaves of the process, and of the packets.
LEMMA Outcome ==
  ASSUME IInv, ~over, port # <<>>, NEW p \in Procs, Head(port).to = p,
         OnPipeReady(p, Head(port), Tail(port))
  PROVE  \E r \in Process, t \in Seq(Packet) :
           /\ proc' = [proc EXCEPT ![p] = r] /\ port' = t
           /\ r.child = proc[p].child /\ r.started = proc[p].started /\ where[p] # "none"
           /\ r.unread <= r.wrote /\ Complete(Moved(where[p], r), r)
           /\ Sound(Moved(where[p], r), r, t, p)
           /\ \A o \in Procs : o # p => Sound(where[o], proc[o], t, o)
<1> DEFINE s == Tail(port)
           k == Head(port)
           r0 == proc[p]
           w == where[p]
<1>1. /\ TypeOK /\ r0 \in Process /\ port \in Seq(Packet) /\ k \in Packet /\ s \in Seq(Packet)
      /\ k = port[1] /\ 1 \in 1..Len(port)
  BY Tailed DEF IInv, TypeOK
<1>2. \A o \in Procs : Sound(where[o], proc[o], port, o)
  BY DEF IInv
<1>3. ~Posted(s, p) /\ Posted(port, p)
  <2>1. AtMostOne(port, p)
    BY <1>2 DEF Sound
  <2>2. ~Posted(s, p)
    BY <1>1, <2>1, NoneBehind
  <2> QED BY <1>1, <2>2 DEF Posted
<1>4. \A o \in Procs : o # p => Sound(where[o], proc[o], s, o)
  BY <1>1, <1>2, SoundBehind
<1>5. w # "none" /\ r0.wrote = r0.unread + r0.buf + k.bytes
      /\ (k.broken => r0.started /\ ~r0.child /\ r0.unread = 0 /\ k.bytes = 0)
  BY <1>1, <1>2, <1>3 DEF Sound
<1>6. r0.started => w = "running" /\ r0.pipe /\ ~r0.reading
  BY <1>2, <1>3 DEF Sound
<1>7. ~r0.started => w # "running" /\ ~r0.child /\ ~r0.reading
                     /\ r0.wrote = 0 /\ r0.unread = 0 /\ r0.buf = 0
  BY <1>2 DEF Sound
<1>8. /\ r0.wrote \in 0..MaxOutput /\ r0.unread \in 0..MaxOutput /\ r0.buf \in 0..MaxOutput
      /\ k.bytes \in Nat /\ MaxOutput \in Nat
  BY <1>1, ConstantsAssumption DEF Process, Packet
<1> HIDE DEF s, k, r0, w
<1>9. CASE k.broken
  <2> DEFINE r == Close(r0)
  <2>1. /\ r \in Process /\ ~r.pipe /\ r.child = r0.child /\ r.started = r0.started
        /\ r.reading = r0.reading /\ r.wrote = r0.wrote /\ r.unread = r0.unread /\ r.buf = r0.buf
    BY <1>1 DEF Close, Process
  <2>2. proc' = [proc EXCEPT ![p] = r] /\ port' = s
    BY <1>9 DEF OnPipeReady, s, k, r0
  <2> HIDE DEF r
  <2>3. Sound(Moved(w, r), r, s, p)
    BY <1>3, <1>5, <1>6, <1>7, <1>8, <1>9, <2>1, SoundWithout
  <2>4. r.unread <= r.wrote /\ Complete(Moved(w, r), r)
    BY <1>5, <1>6, <1>8, <1>9, <2>1 DEF Complete
  <2> QED BY <1>1, <1>4, <1>5, <2>1, <2>2, <2>3, <2>4 DEF w, r0
<1>10. CASE ~k.broken
  <2> DEFINE r1 == Ready(r0, k.bytes)
  <2>1. r0.buf + k.bytes \in 0..MaxOutput
    BY <1>5, <1>8
  <2>2. /\ r1 \in Process /\ r1.pipe = r0.pipe /\ r1.child = r0.child
        /\ r1.started = r0.started /\ r1.reading = r0.reading /\ r1.wrote = r0.wrote
        /\ r1.unread = r0.unread /\ r1.buf = r0.buf + k.bytes
    BY <1>1, <2>1 DEF Ready, Process
  <2>3. Read(p, r1, s)
    BY <1>10 DEF OnPipeReady, s, k, r0
  <2> HIDE DEF r1
  <2>4. r1.wrote = r1.unread + r1.buf /\ r1.unread \in 0..MaxOutput /\ r1.buf \in 0..MaxOutput
    BY <1>5, <1>8, <2>1, <2>2
  <2>5. r1.started => w = "running" /\ r1.pipe /\ ~r1.reading
    BY <1>6, <2>2
  <2>6. ~r1.started => w # "running" /\ ~r1.child /\ ~r1.reading
                       /\ r1.wrote = 0 /\ r1.unread = 0 /\ r1.buf = 0
    BY <1>5, <1>7, <1>8, <2>2
  <2>7. CASE ~r1.pipe /\ proc' = [proc EXCEPT ![p] = r1] /\ port' = s
    <3>1. Sound(Moved(w, r1), r1, s, p)
      BY <1>3, <1>5, <2>2, <2>4, <2>5, <2>6, <2>7, SoundWithout
    <3>2. r1.unread <= r1.wrote /\ Complete(Moved(w, r1), r1)
      BY <2>4, <2>5, <2>7, <1>8 DEF Complete
    <3> QED BY <1>1, <1>4, <1>5, <2>2, <2>7, <3>1, <3>2 DEF w, r0
  <2>8. CASE /\ r1.pipe /\ r1.unread = 0 /\ r1.child /\ port' = s
             /\ proc' = [proc EXCEPT ![p] = [r1 EXCEPT !.reading = TRUE]]
    <3> DEFINE r == [r1 EXCEPT !.reading = TRUE]
    <3>1. /\ r \in Process /\ r.pipe /\ r.child = r1.child /\ r.started = r1.started
          /\ r.reading /\ r.wrote = r1.wrote /\ r.unread = r1.unread /\ r.buf = r1.buf
      BY <2>2, <2>8 DEF Process
    <3>2. proc' = [proc EXCEPT ![p] = r]
      BY <2>8
    <3> HIDE DEF r
    <3>3. r1.started
      BY <2>6, <2>8
    <3>4. Sound(Moved(w, r), r, s, p)
      BY <1>3, <1>5, <2>4, <2>5, <2>8, <3>1, <3>3, SoundWithout
    <3>5. r.unread <= r.wrote /\ Complete(Moved(w, r), r)
      BY <1>8, <2>4, <2>5, <3>1, <3>3 DEF Complete, Moved
    <3> QED BY <1>1, <1>4, <1>5, <2>2, <2>8, <3>1, <3>2, <3>4, <3>5 DEF w, r0
  <2>9. CASE /\ r1.pipe /\ r1.unread = 0 /\ ~r1.child /\ port' = s
             /\ proc' = [proc EXCEPT ![p] = Close(r1)]
    <3> DEFINE r == Close(r1)
    <3>1. /\ r \in Process /\ ~r.pipe /\ r.child = r1.child /\ r.started = r1.started
          /\ r.reading = r1.reading /\ r.wrote = r1.wrote /\ r.unread = r1.unread
          /\ r.buf = r1.buf
      BY <2>2 DEF Close, Process
    <3>2. proc' = [proc EXCEPT ![p] = r]
      BY <2>9
    <3> HIDE DEF r
    <3>3. Sound(Moved(w, r), r, s, p)
      BY <1>3, <1>5, <2>4, <2>5, <2>6, <2>9, <3>1, SoundWithout
    <3>4. r.unread <= r.wrote /\ Complete(Moved(w, r), r)
      BY <1>8, <2>4, <2>9, <3>1 DEF Complete
    <3> QED BY <1>1, <1>4, <1>5, <2>2, <2>9, <3>1, <3>2, <3>3, <3>4 DEF w, r0
  <2>10. CASE r1.pipe /\ \E n \in 1..r1.unread :
                /\ proc' = [proc EXCEPT ![p] = [r1 EXCEPT !.unread = @ - n]]
                /\ port' = Append(s, For(p, n, FALSE))
    <3>1. PICK n \in 1..r1.unread :
                /\ proc' = [proc EXCEPT ![p] = [r1 EXCEPT !.unread = @ - n]]
                /\ port' = Append(s, For(p, n, FALSE))
      BY <2>10
    <3> DEFINE r == [r1 EXCEPT !.unread = @ - n]
               q == For(p, n, FALSE)
               t == Append(s, q)
    <3>2. n \in 0..MaxOutput /\ n >= 1 /\ r1.unread - n \in 0..MaxOutput
      BY <1>8, <2>4
    <3>3. /\ r \in Process /\ r.pipe = r1.pipe /\ r.child = r1.child /\ r.started = r1.started
          /\ r.reading = r1.reading /\ r.wrote = r1.wrote /\ r.unread = r1.unread - n
          /\ r.buf = r1.buf
      BY <2>2, <3>2 DEF Process
    <3>4. q \in Packet /\ q.to = p /\ q.bytes = n /\ ~q.broken
      BY <3>2 DEF For, Packet
    <3>5. r1.started
      BY <2>4, <2>6, <3>2
    <3>6. /\ Posted(t, p) /\ AtMostOne(t, p)
          /\ \A i \in 1..Len(t) : t[i].to = p => t[i] = q
      BY <1>1, <1>3, <3>4, OneBehind
    <3>7. \A o \in Procs : o # p => Sound(where[o], proc[o], t, o)
      BY <1>1, <1>4, <3>4, SoundBeside
    <3>8. t \in Seq(Packet)
      BY <1>1, <3>4, Appended
    <3>9. proc' = [proc EXCEPT ![p] = r] /\ port' = t
      BY <3>1
    <3> HIDE DEF r, q, t
    <3>10. Moved(w, r) = "running"
      BY <2>5, <2>10, <3>3, <3>5 DEF Moved
    <3>11. \A i \in 1..Len(t) : t[i].to = p => t[i].bytes = n /\ ~t[i].broken
      BY <3>4, <3>6
    <3>12. r.wrote = r.unread + r.buf + n
      BY <1>8, <2>4, <3>2, <3>3
    <3>13. Sound("running", r, t, p)
      BY <2>5, <2>10, <3>3, <3>5, <3>6, <3>11, <3>12 DEF Sound
    <3>14. r.unread <= r.wrote /\ Complete("running", r)
      BY <1>8, <2>4, <3>2, <3>3 DEF Complete
    <3> QED BY <1>1, <1>5, <2>2, <3>3, <3>7, <3>8, <3>9, <3>10, <3>13, <3>14 DEF w, r0
  <2> QED BY <2>3, <2>7, <2>8, <2>9, <2>10 DEF Read
<1> QED BY <1>9, <1>10

LEMMA DoWorkKeeps ==
  ASSUME IInv, DoWork
  PROVE  IInv'
<1>1. /\ ~over /\ port # <<>> /\ UNCHANGED <<listening, over>> /\ interrupted' \in BOOLEAN
      /\ TypeOK /\ Waiting /\ \A o \in Procs : Sound(where[o], proc[o], port, o)
  BY DEF DoWork, IInv
<1>2. /\ Head(port) \in Packet /\ Tail(port) \in Seq(Packet)
      /\ Head(port).to \in Procs \cup {None}
  BY <1>1, Tailed DEF TypeOK, Packet
<1>3. CASE Head(port).to \notin Procs
  <2>1. port' = Tail(port) /\ UNCHANGED <<where, finished, proc>>
    BY <1>2, <1>3 DEF DoWork
  <2>2. \A o \in Procs : Sound(where[o], proc[o], port', o)
    BY <1>1, <1>3, <2>1, SoundBehind DEF TypeOK
  <2>3. TypeOK'
    BY <1>1, <1>2, <2>1 DEF TypeOK
  <2> QED BY <1>1, <2>1, <2>2, <2>3 DEF IInv, Waiting, Complete
<1>4. CASE Head(port).to \in Procs
  <2> DEFINE p == Head(port).to
  <2>1. OnPipeReady(p, Head(port), Tail(port)) /\ MoveIfDone(p)
    BY <1>4, ConstantsAssumption DEF DoWork
  <2>2. PICK r \in Process, t \in Seq(Packet) :
           /\ proc' = [proc EXCEPT ![p] = r] /\ port' = t
           /\ r.child = proc[p].child /\ r.started = proc[p].started /\ where[p] # "none"
           /\ r.unread <= r.wrote /\ Complete(Moved(where[p], r), r)
           /\ Sound(Moved(where[p], r), r, t, p)
           /\ \A o \in Procs : o # p => Sound(where[o], proc[o], t, o)
    BY <1>1, <1>4, <2>1, Outcome
  <2> HIDE DEF p
  <2>3. p \in Procs
    BY <1>4 DEF p
  <2>4. /\ proc' \in [Procs -> Process] /\ proc'[p] = r
        /\ \A o \in Procs : o # p => proc'[o] = proc[o]
    BY <1>1, <2>2, <2>3, OneProcess
  <2>5. /\ where' \in [Procs -> {"none", "running", "finished", "out"}]
        /\ where'[p] = Moved(where[p], r)
        /\ \A o \in Procs : o # p => where'[o] = where[o]
        /\ Waiting' /\ finished' \in Seq(Procs)
    <3>1. CASE ~r.pipe /\ where[p] = "running"
      <4>1. where' = [where EXCEPT ![p] = "finished"] /\ finished' = Append(finished, p)
        BY <2>1, <2>4, <3>1 DEF MoveIfDone
      <4>2. Waiting' /\ finished' \in Seq(Procs)
        BY <1>1, <2>3, <3>1, <4>1, WaitingOneMore
      <4> QED BY <1>1, <2>3, <3>1, <4>1, <4>2, OneWhere DEF Moved
    <3>2. CASE ~(~r.pipe /\ where[p] = "running")
      <4>1. UNCHANGED <<where, finished>>
        BY <2>1, <2>4, <3>2 DEF MoveIfDone
      <4> QED BY <1>1, <3>2, <4>1 DEF Moved, Waiting, TypeOK
    <3> QED BY <3>1, <3>2
  <2>6. TypeOK'
    BY <1>1, <2>2, <2>4, <2>5 DEF TypeOK
  <2>7. \A o \in Procs : Sound(where'[o], proc'[o], port', o)
    BY <2>2, <2>3, <2>4, <2>5
  <2>8. \A o \in Procs : proc'[o].unread <= proc'[o].wrote /\ Complete(where'[o], proc'[o])
    BY <2>2, <2>3, <2>4, <2>5 DEF IInv
  <2> QED BY <2>5, <2>6, <2>7, <2>8 DEF IInv
<1> QED BY <1>3, <1>4

----------------------------------------------------------------------------
(* The rest of the steps. *)

LEMMA NextFinishedKeeps ==
  ASSUME IInv, NextFinished
  PROVE  IInv'
<1> DEFINE p == Head(finished)
<1>1. /\ ~over /\ finished # <<>> /\ where' = [where EXCEPT ![p] = "out"]
      /\ finished' = Tail(finished) /\ UNCHANGED <<proc, port, listening, interrupted, over>>
      /\ TypeOK /\ Waiting /\ finished \in Seq(Procs)
      /\ \A o \in Procs : Sound(where[o], proc[o], port, o)
  BY DEF NextFinished, IInv, TypeOK
<1>2. /\ Len(finished) \in Nat \ {0} /\ p = finished[1] /\ p \in Procs
      /\ finished' \in Seq(Procs) /\ Len(finished') = Len(finished) - 1
      /\ \A i \in 1..Len(finished') : finished'[i] = finished[i + 1]
      /\ \A i \in 1..Len(finished) : finished[i] \in Procs
  <2>1. Len(finished) \in Nat \ {0}
    BY <1>1
  <2> QED BY <1>1, <2>1, ElementOfSeq
<1> HIDE DEF p
<1>3. where[p] = "finished"
  BY <1>1, <1>2 DEF Waiting
<1>4. /\ where' \in [Procs -> {"none", "running", "finished", "out"}] /\ where'[p] = "out"
      /\ \A o \in Procs : o # p => where'[o] = where[o]
  BY <1>1, <1>2, OneWhere
<1>5. Waiting'
  <2>1. \A i \in 1..Len(finished') : i + 1 \in 1..Len(finished) /\ i + 1 # 1 /\ 1 \in 1..Len(finished)
    BY <1>2
  <2>2. \A i \in 1..Len(finished') : where'[finished'[i]] = "finished"
    <3> SUFFICES ASSUME NEW i \in 1..Len(finished')
                 PROVE  where'[finished'[i]] = "finished"
        OBVIOUS
    <3>1. finished[i + 1] # p /\ finished[i + 1] \in Procs /\ where[finished[i + 1]] = "finished"
      BY <1>1, <1>2, <2>1 DEF Waiting
    <3> QED BY <1>2, <1>4, <3>1
  <2>3. ASSUME NEW i \in 1..Len(finished'), NEW j \in 1..Len(finished'),
               finished'[i] = finished'[j]
        PROVE  i = j
    <3>1. i + 1 = j + 1
      BY <1>1, <1>2, <2>1, <2>3 DEF Waiting
    <3> QED BY <3>1
  <2> QED BY <2>2, <2>3 DEF Waiting
<1>6. TypeOK'
  BY <1>1, <1>2, <1>4 DEF TypeOK
<1>7. Sound("out", proc[p], port, p)
  <2>1. Sound("finished", proc[p], port, p)
    BY <1>1, <1>2, <1>3
  <2> QED BY <2>1 DEF Sound
<1>8. \A o \in Procs : Sound(where'[o], proc'[o], port', o)
  BY <1>1, <1>4, <1>7
<1>9. \A o \in Procs : proc'[o].unread <= proc'[o].wrote /\ Complete(where'[o], proc'[o])
  BY <1>1, <1>2, <1>3, <1>4 DEF IInv, Complete
<1> QED BY <1>5, <1>6, <1>8, <1>9 DEF IInv

LEMMA DeleteKeeps ==
  ASSUME IInv, NEW p \in Procs, Delete(p)
  PROVE  IInv'
<1>1. /\ ~over /\ where[p] = "out" /\ (~proc[p].started => Packets(p) = {})
      /\ where' = [where EXCEPT ![p] = "none"] /\ proc' = [proc EXCEPT ![p] = NoProcess]
      /\ UNCHANGED <<finished, port, listening, interrupted, over>>
      /\ TypeOK /\ Waiting /\ port \in Seq(Packet)
      /\ \A o \in Procs : Sound(where[o], proc[o], port, o)
  BY DEF Delete, IInv, TypeOK
<1>2. /\ where' \in [Procs -> {"none", "running", "finished", "out"}] /\ where'[p] = "none"
      /\ \A o \in Procs : o # p => where'[o] = where[o]
  BY <1>1, OneWhere
<1>3. /\ proc' \in [Procs -> Process] /\ proc'[p] = NoProcess
      /\ \A o \in Procs : o # p => proc'[o] = proc[o]
  BY <1>1, NothingThere, OneProcess
<1>4. ~Posted(port, p)
  <2>1. CASE proc[p].started
    BY <1>1, <2>1 DEF Sound
  <2>2. CASE ~proc[p].started
    <3>1. DOMAIN port = 1..Len(port)
      BY <1>1, LenProperties
    <3> QED BY <1>1, <2>2, <3>1 DEF Packets, Posted
  <2> QED BY <2>1, <2>2
<1>5. \A o \in Procs : Sound(where'[o], proc'[o], port', o)
  BY <1>1, <1>2, <1>3, <1>4, FreshIsSound
<1>6. TypeOK'
  BY <1>1, <1>2, <1>3 DEF TypeOK
<1>7. Waiting'
  BY <1>1, <1>2, WaitingTheSame
<1>8. \A o \in Procs : proc'[o].unread <= proc'[o].wrote /\ Complete(where'[o], proc'[o])
  BY <1>2, <1>3, NothingThere DEF IInv, Complete
<1> QED BY <1>5, <1>6, <1>7, <1>8 DEF IInv

LEMMA ClearKeeps ==
  ASSUME IInv, Clear
  PROVE  IInv'
<1>1. /\ over' = TRUE /\ UNCHANGED <<finished, proc, port, listening, interrupted>>
      /\ TypeOK /\ Waiting
  BY DEF Clear, IInv
<1>2. \A o \in Procs : where'[o] = IF where[o] = "running" THEN "none" ELSE where[o]
  BY DEF Clear
<1>3. where' \in [Procs -> {"none", "running", "finished", "out"}]
  BY <1>1 DEF Clear, TypeOK
<1>4. TypeOK'
  BY <1>1, <1>3 DEF TypeOK
<1>5. Waiting'
  BY <1>1, <1>2, WaitingTheSame
<1>6. \A o \in Procs : proc'[o].unread <= proc'[o].wrote /\ Complete(where'[o], proc'[o])
  BY <1>1, <1>2 DEF IInv, Complete
<1> QED BY <1>1, <1>4, <1>5, <1>6 DEF IInv

\* While the set is in use, only the child of a running process is alive.
LEMMA ChildRuns ==
  ASSUME IInv, ~over, NEW p \in Procs, proc[p].child
  PROVE  /\ proc[p].started /\ where[p] = "running" /\ proc[p].pipe
         /\ (proc[p].reading <=> ~Posted(port, p))
         /\ (proc[p].reading => proc[p].unread = 0 /\ proc[p].wrote = proc[p].buf)
<1>1. Sound(where[p], proc[p], port, p) /\ Complete(where[p], proc[p])
      /\ where[p] \in {"none", "running", "finished", "out"}
  BY DEF IInv, TypeOK
<1>2. where[p] # "none"
  BY <1>1, NothingThere DEF Sound
<1>3. proc[p].started
  BY <1>1 DEF Sound
<1> QED BY <1>1, <1>2, <1>3 DEF Sound, Complete

LEMMA WritesKeeps ==
  ASSUME IInv, NEW p \in Procs, Writes(p)
  PROVE  IInv'
<1> DEFINE r0 == proc[p]
           r1 == [r0 EXCEPT !.wrote = @ + 1]
<1>1. /\ r0.child /\ r0.wrote < MaxOutput /\ UNCHANGED <<where, finished, listening, interrupted, over>>
      /\ TypeOK /\ Waiting /\ r0 \in Process /\ r0.unread <= r0.wrote
      /\ Complete(where[p], r0) /\ port \in Seq(Packet)
  BY DEF Writes, IInv, TypeOK
<1>2. /\ r0.wrote \in 0..MaxOutput /\ r0.unread \in 0..MaxOutput /\ r0.buf \in 0..MaxOutput
      /\ MaxOutput \in Nat /\ r0.reading \in BOOLEAN
  BY <1>1, ConstantsAssumption DEF Process
<1>3. /\ r1 \in Process /\ r1.pipe = r0.pipe /\ r1.child = r0.child /\ r1.started = r0.started
      /\ r1.reading = r0.reading /\ r1.wrote = r0.wrote + 1 /\ r1.unread = r0.unread
      /\ r1.buf = r0.buf
  <2>1. r0.wrote + 1 \in 0..MaxOutput
    BY <1>1, <1>2
  <2> QED BY <1>1, <2>1 DEF Process
<1>4. IF r1.reading
      THEN /\ proc' = [proc EXCEPT ![p] = [r1 EXCEPT !.reading = FALSE]]
           /\ port' = Append(port, For(p, 1, FALSE))
      ELSE /\ proc' = [proc EXCEPT ![p] = [r1 EXCEPT !.unread = @ + 1]]
           /\ UNCHANGED port
  BY DEF Writes
<1> HIDE DEF r1
<1>5. ~over => \A o \in Procs : Sound(where[o], proc[o], port, o)
  BY DEF IInv
<1>6. CASE r0.reading
  <2> DEFINE r == [r1 EXCEPT !.reading = FALSE]
             q == For(p, 1, FALSE)
  <2>1. /\ r \in Process /\ r.pipe = r0.pipe /\ r.child /\ r.started = r0.started
        /\ ~r.reading /\ r.wrote = r0.wrote + 1 /\ r.unread = r0.unread /\ r.buf = r0.buf
    BY <1>1, <1>3 DEF Process
  <2>2. proc' = [proc EXCEPT ![p] = r] /\ port' = Append(port, q)
    BY <1>3, <1>4, <1>6
  <2>3. q \in Packet /\ q.to = p /\ q.bytes = 1 /\ ~q.broken
    BY <1>1, <1>2 DEF For, Packet
  <2> HIDE DEF r, q
  <2>4. /\ proc' \in [Procs -> Process] /\ proc'[p] = r
        /\ \A o \in Procs : o # p => proc'[o] = proc[o]
    BY <1>1, <2>1, <2>2, OneProcess
  <2>5. TypeOK'
    BY <1>1, <2>2, <2>3, <2>4, Appended DEF TypeOK
  <2>6. \A o \in Procs : proc'[o].unread <= proc'[o].wrote /\ Complete(where'[o], proc'[o])
    BY <1>1, <1>2, <2>1, <2>4 DEF IInv, Complete
  <2>7. ASSUME ~over
        PROVE  \A o \in Procs : Sound(where'[o], proc'[o], port', o)
    <3>1. /\ r0.started /\ where[p] = "running" /\ r0.pipe
          /\ ~Posted(port, p) /\ r0.unread = 0 /\ r0.wrote = r0.buf
      BY <1>1, <1>6, <2>7, ChildRuns
    <3>2. /\ Posted(port', p) /\ AtMostOne(port', p)
          /\ \A i \in 1..Len(port') : port'[i].to = p => port'[i] = q
      BY <1>1, <2>2, <2>3, <3>1, OneBehind
    <3>3. \A i \in 1..Len(port') : port'[i].to = p => port'[i].bytes = 1 /\ ~port'[i].broken
      BY <2>3, <3>2
    <3>4. r.wrote = r.unread + r.buf + 1
      BY <1>2, <2>1, <3>1
    <3>5. Sound("running", r, port', p)
      BY <2>1, <3>1, <3>2, <3>3, <3>4 DEF Sound
    <3> QED BY <1>1, <1>5, <2>2, <2>3, <2>4, <2>7, <3>1, <3>5, SoundBeside
  <2> QED BY <1>1, <2>5, <2>6, <2>7, WaitingTheSame DEF IInv
<1>7. CASE ~r0.reading
  <2> DEFINE r == [r1 EXCEPT !.unread = @ + 1]
  <2>1. /\ r \in Process /\ r.pipe = r0.pipe /\ r.child /\ r.started = r0.started
        /\ ~r.reading /\ r.wrote = r0.wrote + 1 /\ r.unread = r0.unread + 1 /\ r.buf = r0.buf
    <3>1. r1.unread + 1 \in 0..MaxOutput
      BY <1>1, <1>2, <1>3
    <3> QED BY <1>1, <1>3, <1>7, <3>1 DEF Process
  <2>2. proc' = [proc EXCEPT ![p] = r] /\ UNCHANGED port
    BY <1>3, <1>4, <1>7
  <2> HIDE DEF r
  <2>3. /\ proc' \in [Procs -> Process] /\ proc'[p] = r
        /\ \A o \in Procs : o # p => proc'[o] = proc[o]
    BY <1>1, <2>1, <2>2, OneProcess
  <2>4. TypeOK'
    BY <1>1, <2>2, <2>3 DEF TypeOK
  <2>5. \A o \in Procs : proc'[o].unread <= proc'[o].wrote /\ Complete(where'[o], proc'[o])
    BY <1>1, <1>2, <2>1, <2>3 DEF IInv, Complete
  <2>6. ASSUME ~over
        PROVE  \A o \in Procs : Sound(where'[o], proc'[o], port', o)
    <3>1. r0.started /\ where[p] = "running" /\ r0.pipe /\ Posted(port, p)
      BY <1>1, <1>7, <2>6, ChildRuns
    <3>2. /\ AtMostOne(port, p)
          /\ \A i \in 1..Len(port) : port[i].to = p =>
               r0.wrote = r0.unread + r0.buf + port[i].bytes /\ ~port[i].broken
      BY <1>1, <1>5, <2>6 DEF Sound
    <3>3. \A i \in 1..Len(port) : port[i].bytes \in 0..MaxOutput
      <4>1. \A i \in 1..Len(port) : port[i] \in Packet
        BY <1>1, ElementOfSeq
      <4> QED BY <4>1 DEF Packet
    <3>4. ASSUME NEW i \in 1..Len(port), port[i].to = p
          PROVE  r.wrote = r.unread + r.buf + port[i].bytes /\ ~port[i].broken
      <4>1. r0.wrote = r0.unread + r0.buf + port[i].bytes /\ ~port[i].broken
        BY <3>2, <3>4
      <4>2. port[i].bytes \in Nat
        BY <1>2, <3>3
      <4> QED BY <1>2, <2>1, <4>1, <4>2
    <3>5. Sound("running", r, port, p)
      BY <2>1, <3>1, <3>2, <3>4 DEF Sound
    <3> QED BY <1>1, <1>5, <2>2, <2>3, <2>6, <3>1, <3>5
  <2> QED BY <1>1, <2>4, <2>5, <2>6, WaitingTheSame DEF IInv
<1> QED BY <1>2, <1>6, <1>7

LEMMA ExitsKeeps ==
  ASSUME IInv, NEW p \in Procs, Exits(p)
  PROVE  IInv'
<1> DEFINE r0 == proc[p]
           r == [r0 EXCEPT !.child = FALSE, !.reading = FALSE]
           q == For(p, 0, TRUE)
<1>1. /\ r0.child /\ UNCHANGED <<where, finished, listening, interrupted, over>>
      /\ TypeOK /\ Waiting /\ r0 \in Process /\ r0.unread <= r0.wrote
      /\ Complete(where[p], r0) /\ port \in Seq(Packet)
      /\ proc' = [proc EXCEPT ![p] = r]
      /\ port' = IF r0.reading THEN Append(port, q) ELSE port
  BY DEF Exits, IInv, TypeOK
<1>2. /\ r \in Process /\ r.pipe = r0.pipe /\ ~r.child /\ r.started = r0.started
      /\ ~r.reading /\ r.wrote = r0.wrote /\ r.unread = r0.unread /\ r.buf = r0.buf
  BY <1>1 DEF Process
<1>3. r0.wrote \in Nat /\ r0.unread \in Nat /\ r0.buf \in Nat /\ r0.reading \in BOOLEAN
  BY <1>1, ConstantsAssumption DEF Process
<1>4. q \in Packet /\ q.to = p /\ q.bytes = 0 /\ q.broken
  BY ConstantsAssumption DEF For, Packet
<1> HIDE DEF r, q
<1>5. /\ proc' \in [Procs -> Process] /\ proc'[p] = r
      /\ \A o \in Procs : o # p => proc'[o] = proc[o]
  BY <1>1, <1>2, OneProcess
<1>6. port' \in Seq(Packet)
  BY <1>1, <1>4, Appended
<1>7. TypeOK'
  BY <1>1, <1>5, <1>6 DEF TypeOK
<1>8. \A o \in Procs : proc'[o].unread <= proc'[o].wrote /\ Complete(where'[o], proc'[o])
  BY <1>1, <1>2, <1>5 DEF IInv, Complete
<1>9. ASSUME ~over
      PROVE  \A o \in Procs : Sound(where'[o], proc'[o], port', o)
  <2>1. /\ r0.started /\ where[p] = "running" /\ r0.pipe
        /\ (r0.reading <=> ~Posted(port, p))
        /\ (r0.reading => r0.unread = 0 /\ r0.wrote = r0.buf)
    BY <1>1, <1>9, ChildRuns
  <2>2. \A o \in Procs : Sound(where[o], proc[o], port, o)
    BY <1>9 DEF IInv
  <2>3. CASE r0.reading
    <3>1. port' = Append(port, q)
      BY <1>1, <2>3
    <3>2. /\ Posted(port', p) /\ AtMostOne(port', p)
          /\ \A i \in 1..Len(port') : port'[i].to = p => port'[i] = q
      BY <1>1, <1>4, <2>1, <2>3, <3>1, OneBehind
    <3>3. \A i \in 1..Len(port') : port'[i].to = p => port'[i].bytes = 0
      BY <1>4, <3>2
    <3>4. r.unread = 0 /\ r.wrote = r.unread + r.buf + 0
      BY <1>2, <1>3, <2>1, <2>3
    <3>5. Sound("running", r, port', p)
      BY <1>2, <2>1, <3>2, <3>3, <3>4 DEF Sound
    <3> QED BY <1>1, <1>4, <1>5, <2>1, <2>2, <3>1, <3>5, SoundBeside
  <2>4. CASE ~r0.reading
    <3>1. port' = port /\ Posted(port, p)
      BY <1>1, <2>1, <2>4
    <3>2. Sound("running", r0, port, p)
      BY <2>1, <2>2
    <3>3. Sound("running", r, port, p)
      BY <1>1, <1>2, <2>1, <3>1, <3>2 DEF Sound
    <3> QED BY <1>1, <1>5, <2>1, <2>2, <3>1, <3>3
  <2> QED BY <1>3, <2>3, <2>4
<1> QED BY <1>1, <1>7, <1>8, <1>9, WaitingTheSame DEF IInv

LEMMA InterruptKeeps ==
  ASSUME IInv, Interrupt
  PROVE  IInv'
<1> DEFINE q == For(None, 0, FALSE)
<1>1. /\ listening' = FALSE /\ port' = Append(port, q)
      /\ UNCHANGED <<where, finished, proc, interrupted, over>>
      /\ TypeOK /\ Waiting /\ port \in Seq(Packet)
  BY DEF Interrupt, IInv, TypeOK
<1>2. q \in Packet /\ q.to = None /\ None \notin Procs
  BY ConstantsAssumption DEF For, Packet
<1> HIDE DEF q
<1>3. TypeOK'
  BY <1>1, <1>2, Appended DEF TypeOK
<1>4. ~over => \A o \in Procs : Sound(where'[o], proc'[o], port', o)
  BY <1>1, <1>2, SoundBeside DEF IInv
<1>5. \A o \in Procs : proc'[o].unread <= proc'[o].wrote /\ Complete(where'[o], proc'[o])
  BY <1>1 DEF IInv
<1> QED BY <1>1, <1>3, <1>4, <1>5, WaitingTheSame DEF IInv

LEMMA StepKeeps ==
  ASSUME IInv, [Next]_vars
  PROVE  IInv'
<1>1. CASE UNCHANGED vars
  BY <1>1 DEF vars, IInv, TypeOK, Waiting
<1> QED BY <1>1, AddKeeps, AddFailsKeeps, DeleteKeeps, WritesKeeps, ExitsKeeps, DoWorkKeeps,
       NextFinishedKeeps, ClearKeeps, InterruptKeeps DEF Next

----------------------------------------------------------------------------
\* The pipes, the packets and the queues of the set agree after every step (os.cc 1451-1845).
THEOREM InvariantHolds == Spec => []IInv
BY InitHolds, StepKeeps, PTL DEF Spec

\* TypeOK holds of any number of processes and any amount of output.
THEOREM TypeCorrect == Spec => []TypeOK
<1>1. IInv => TypeOK
  BY DEF IInv
<1> QED BY <1>1, InvariantHolds, PTL

\* A running process has one read or one packet under way, and one that ended has none
\* that could outlive it (os.cc 1451-1475).
THEOREM AlwaysOneOperation == Spec => []OneOperation
<1>1. IInv => OneOperation
  <2> SUFFICES ASSUME IInv, ~over, NEW p \in Procs, proc[p].started
               PROVE  Cardinality(Packets(p)) + (IF proc[p].reading THEN 1 ELSE 0)
                        = IF where[p] = "running" THEN 1 ELSE 0
      BY DEF OneOperation
  <2>1. Sound(where[p], proc[p], port, p) /\ port \in Seq(Packet) /\ proc[p].reading \in BOOLEAN
    BY DEF IInv, TypeOK, Process
  <2>2. DOMAIN port = 1..Len(port)
    BY <2>1, LenProperties
  <2>3. CASE Posted(port, p)
    <3>1. where[p] = "running" /\ ~proc[p].reading
      BY <2>1, <2>3 DEF Sound
    <3>2. PICK i \in 1..Len(port) : port[i].to = p
      BY <2>3 DEF Posted
    <3>3. Packets(p) = {i}
      BY <2>1, <2>2, <3>2 DEF Packets, Sound, AtMostOne
    <3>4. Cardinality(Packets(p)) = 1
      BY <3>3, FS_Singleton
    <3> QED BY <3>1, <3>4
  <2>4. CASE ~Posted(port, p)
    <3>1. Packets(p) = {}
      BY <2>2, <2>4 DEF Packets, Posted
    <3>2. Cardinality(Packets(p)) = 0
      BY <3>1, FS_EmptySet
    <3>3. proc[p].reading <=> where[p] = "running"
      BY <2>1, <2>4 DEF Sound
    <3> QED BY <3>2, <3>3
  <2> QED BY <2>3, <2>4
<1> QED BY <1>1, InvariantHolds, PTL

\* What is handed out is ended and has all of its output (os.cc 1451-1475, 1790-1796).
THEOREM OutputAlwaysComplete == Spec => []OutputComplete
<1>1. IInv => OutputComplete
  BY DEF IInv, OutputComplete, Complete
<1> QED BY <1>1, InvariantHolds, PTL

----------------------------------------------------------------------------
(* The refinement. *)

JobMap == [p \in Procs |-> Job(p)]

LEMMA JobIs ==
  ASSUME TypeOK, NEW p \in Procs
  PROVE  /\ JobMap[p] = Job(p)
         /\ where[p] = "none" => Job(p) = "none"
         /\ where[p] = "running" /\ proc[p].child => Job(p) = "running"
         /\ where[p] = "running" /\ ~proc[p].child => Job(p) = "ended"
         /\ where[p] = "finished" => Job(p) = "ready"
         /\ where[p] = "out" => Job(p) = "out"
BY DEF JobMap, Job, TypeOK

\* A step that changes where one process is, or whether its child is alive.
LEMMA JobStep ==
  ASSUME NEW p \in Procs, NEW v, Job(p)' = v,
         \A o \in Procs : o # p =>
           where'[o] = where[o] /\ proc'[o].child = proc[o].child
  PROVE  JobMap' = [JobMap EXCEPT ![p] = v]
<1>1. \A o \in Procs : o # p => Job(o)' = Job(o)
  BY DEF Job
<1> QED BY <1>1 DEF JobMap

LEMMA NoJobStep ==
  ASSUME UNCHANGED where, \A o \in Procs : where[o] = "running" => proc'[o].child = proc[o].child
  PROVE  JobMap' = JobMap
<1>1. \A o \in Procs : Job(o)' = Job(o)
  BY DEF Job
<1> QED BY <1>1 DEF JobMap

LEMMA StepsAsPromised ==
  ASSUME IInv, IInv', [Next]_vars
  PROVE  Jobs!Next \/ (JobMap' = JobMap /\ finished' = finished)
<1> DEFINE Promised == Jobs!Next \/ (JobMap' = JobMap /\ finished' = finished)
<1>0. TypeOK /\ TypeOK' /\ proc \in [Procs -> Process]
      /\ where \in [Procs -> {"none", "running", "finished", "out"}]
  BY DEF IInv, TypeOK
<1>1. ASSUME NEW p \in Procs, Add(p) PROVE Promised
  <2>1. /\ where' = [where EXCEPT ![p] = "running"] /\ where[p] = "none" /\ UNCHANGED finished
        /\ proc' = [proc EXCEPT ![p] =
                      [NoProcess EXCEPT !.pipe = TRUE, !.child = TRUE, !.started = TRUE]]
    BY <1>1 DEF Add
  <2>2. where'[p] = "running" /\ proc'[p].child
    BY <1>0, <2>1 DEF NoProcess
  <2>3. \A o \in Procs : o # p => where'[o] = where[o] /\ proc'[o] = proc[o]
    BY <1>0, <2>1
  <2>4. Job(p) = "none" /\ JobMap[p] = "none"
    BY <1>0, <2>1, JobIs
  <2>5. Job(p)' = "running"
    BY <2>2 DEF Job
  <2>6. JobMap' = [JobMap EXCEPT ![p] = "running"]
    BY <2>3, <2>5, JobStep
  <2>7. Jobs!Start(p)
    BY <2>1, <2>4, <2>6 DEF Jobs!Start, JobMap
  <2> QED BY <2>7 DEF Jobs!Next
<1>2. ASSUME NEW p \in Procs, AddFails(p) PROVE Promised
  <2>1. /\ where' = [where EXCEPT ![p] = "finished"] /\ where[p] = "none"
        /\ finished' = Append(finished, p) /\ \E r : proc' = [proc EXCEPT ![p] = r]
    BY <1>2 DEF AddFails
  <2>2. \A o \in Procs : o # p => where'[o] = where[o] /\ proc'[o] = proc[o]
    BY <1>0, <2>1
  <2>3. JobMap[p] = "none"
    BY <1>0, <2>1, JobIs
  <2>4. Job(p)' = "ready"
    BY <1>0, <2>1 DEF Job
  <2>5. JobMap' = [JobMap EXCEPT ![p] = "ready"]
    BY <2>2, <2>4, JobStep
  <2>6. Jobs!Refuse(p)
    BY <2>1, <2>3, <2>5 DEF Jobs!Refuse, JobMap
  <2> QED BY <2>6 DEF Jobs!Next
<1>3. ASSUME NEW p \in Procs, Delete(p) PROVE Promised
  <2>1. /\ where' = [where EXCEPT ![p] = "none"] /\ where[p] = "out" /\ UNCHANGED finished
        /\ proc' = [proc EXCEPT ![p] = NoProcess]
    BY <1>3 DEF Delete
  <2>2. \A o \in Procs : o # p => where'[o] = where[o] /\ proc'[o] = proc[o]
    BY <1>0, <2>1
  <2>3. JobMap[p] = "out"
    BY <1>0, <2>1, JobIs
  <2>4. Job(p)' = "none"
    BY <1>0, <2>1 DEF Job
  <2>5. JobMap' = [JobMap EXCEPT ![p] = "none"]
    BY <2>2, <2>4, JobStep
  <2>6. Jobs!Forget(p)
    BY <2>1, <2>3, <2>5 DEF Jobs!Forget, JobMap
  <2> QED BY <2>6 DEF Jobs!Next
<1>4. ASSUME NEW p \in Procs, Writes(p) PROVE Promised
  <2>1. UNCHANGED <<where, finished>>
    BY <1>4 DEF Writes
  <2>2. proc'[p].child = proc[p].child /\ \A o \in Procs : o # p => proc'[o] = proc[o]
    BY <1>0, <1>4 DEF Writes, Process
  <2>3. JobMap' = JobMap
    BY <2>1, <2>2, NoJobStep
  <2> QED BY <2>1, <2>3
<1>5. ASSUME NEW p \in Procs, Exits(p) PROVE Promised
  <2>1. UNCHANGED <<where, finished>> /\ proc[p].child
        /\ proc' = [proc EXCEPT ![p] = [@ EXCEPT !.child = FALSE, !.reading = FALSE]]
    BY <1>5 DEF Exits
  <2>2. ~proc'[p].child /\ \A o \in Procs : o # p => where'[o] = where[o] /\ proc'[o] = proc[o]
    BY <1>0, <2>1 DEF Process
  <2>3. CASE where[p] = "running"
    <3>1. JobMap[p] = "running"
      BY <1>0, <2>1, <2>3, JobIs
    <3>2. Job(p)' = "ended"
      BY <2>1, <2>2, <2>3 DEF Job
    <3>3. JobMap' = [JobMap EXCEPT ![p] = "ended"]
      BY <2>2, <3>2, JobStep
    <3>4. Jobs!End(p)
      BY <2>1, <3>1, <3>3 DEF Jobs!End, JobMap
    <3> QED BY <3>4 DEF Jobs!Next
  <2>4. CASE where[p] # "running"
    <3>1. JobMap' = JobMap
      BY <2>1, <2>2, <2>4, NoJobStep
    <3> QED BY <2>1, <3>1
  <2> QED BY <2>3, <2>4
<1>6. CASE DoWork
  <2>1. ~over /\ port # <<>> /\ port \in Seq(Packet)
    BY <1>0, <1>6 DEF DoWork, TypeOK
  <2>2. CASE Head(port).to = None
    <3>1. UNCHANGED <<where, finished, proc>>
      BY <1>6, <2>2, ConstantsAssumption, <2>1, Tailed DEF DoWork
    <3>2. JobMap' = JobMap
      BY <3>1, NoJobStep
    <3> QED BY <3>1, <3>2
  <2>3. CASE Head(port).to # None
    <3>1. PICK p \in Procs : p = Head(port).to
      <4>1. Head(port) \in Packet
        BY <2>1, Tailed
      <4> QED BY <2>3, <4>1 DEF Packet
    <3>2. OnPipeReady(p, Head(port), Tail(port)) /\ MoveIfDone(p)
      BY <1>6, <2>3, <3>1 DEF DoWork
    <3>3. PICK r \in Process, t \in Seq(Packet) :
             /\ proc' = [proc EXCEPT ![p] = r] /\ port' = t
             /\ r.child = proc[p].child /\ r.started = proc[p].started /\ where[p] # "none"
             /\ r.unread <= r.wrote /\ Complete(Moved(where[p], r), r)
             /\ Sound(Moved(where[p], r), r, t, p)
             /\ \A o \in Procs : o # p => Sound(where[o], proc[o], t, o)
      BY <2>1, <3>1, <3>2, Outcome
    <3>4. proc'[p] = r /\ \A o \in Procs : o # p => proc'[o] = proc[o]
      BY <1>0, <3>3
    <3>5. CASE ~r.pipe /\ where[p] = "running"
      <4>1. where' = [where EXCEPT ![p] = "finished"] /\ finished' = Append(finished, p)
        BY <3>2, <3>4, <3>5 DEF MoveIfDone
      <4>2. r.started
        BY <3>3, <3>5, <2>1 DEF IInv, Sound
      <4>3. ~proc[p].child
        BY <3>3, <3>5, <4>2 DEF Complete, Moved
      <4>4. JobMap[p] = "ended"
        BY <1>0, <3>5, <4>3, JobIs
      <4>5. Job(p)' = "ready"
        BY <1>0, <4>1 DEF Job
      <4>6. \A o \in Procs : o # p => where'[o] = where[o] /\ proc'[o].child = proc[o].child
        BY <1>0, <3>4, <4>1
      <4>7. JobMap' = [JobMap EXCEPT ![p] = "ready"]
        BY <4>5, <4>6, JobStep
      <4>8. Jobs!Finish(p)
        BY <4>1, <4>4, <4>7 DEF Jobs!Finish, JobMap
      <4> QED BY <4>8 DEF Jobs!Next
    <3>6. CASE ~(~r.pipe /\ where[p] = "running")
      <4>1. UNCHANGED <<where, finished>>
        BY <3>2, <3>4, <3>6 DEF MoveIfDone
      <4>2. JobMap' = JobMap
        BY <3>3, <3>4, <4>1, NoJobStep
      <4> QED BY <4>1, <4>2
    <3> QED BY <3>5, <3>6
  <2> QED BY <2>2, <2>3
<1>7. CASE NextFinished
  <2>1. /\ finished # <<>> /\ where' = [where EXCEPT ![Head(finished)] = "out"]
        /\ finished' = Tail(finished) /\ UNCHANGED proc /\ finished \in Seq(Procs)
    BY <1>0, <1>7 DEF NextFinished, TypeOK
  <2>2. PICK p \in Procs : p = Head(finished)
    BY <2>1, HeadTailProperties
  <2>3. Job(p)' = "out"
    BY <1>0, <2>1, <2>2 DEF Job
  <2>4. \A o \in Procs : o # p => where'[o] = where[o] /\ proc'[o].child = proc[o].child
    BY <1>0, <2>1, <2>2
  <2>5. JobMap' = [JobMap EXCEPT ![p] = "out"]
    BY <2>3, <2>4, JobStep
  <2>6. Jobs!HandOut
    BY <2>1, <2>2, <2>5 DEF Jobs!HandOut, JobMap
  <2> QED BY <2>6 DEF Jobs!Next
<1>8. CASE Clear
  <2>1. /\ where' = [o \in Procs |-> IF where[o] = "running" THEN "none" ELSE where[o]]
        /\ UNCHANGED <<finished, proc>>
    BY <1>8 DEF Clear
  <2>2. \A o \in Procs :
          Job(o)' = IF JobMap[o] \in {"running", "ended"} THEN "none" ELSE JobMap[o]
    BY <1>0, <2>1 DEF Job, JobMap
  <2>3. JobMap' = [o \in Procs |->
                    IF JobMap[o] \in {"running", "ended"} THEN "none" ELSE JobMap[o]]
    BY <2>2 DEF JobMap
  <2>4. Jobs!Abandon
    BY <2>1, <2>3 DEF Jobs!Abandon, JobMap
  <2> QED BY <2>4 DEF Jobs!Next
<1>9. CASE Interrupt
  <2>1. UNCHANGED <<where, finished, proc>>
    BY <1>9 DEF Interrupt
  <2> QED BY <2>1, NoJobStep
<1>10. CASE UNCHANGED vars
  <2>1. UNCHANGED <<where, finished, proc>>
    BY <1>10 DEF vars
  <2> QED BY <2>1, NoJobStep
<1> QED BY <1>1, <1>2, <1>3, <1>4, <1>5, <1>6, <1>7, <1>8, <1>9, <1>10 DEF Next

\* Through pipes, packets and late completions, the caller sees what JobSet promises:
\* processes start, end, become ready in order and are handed out once (os.cc 1451-1845).
THEOREM ImplementsJobSet == Spec => WorksAsPromised
<1>1. Init => Jobs!Init
  <2> SUFFICES ASSUME Init PROVE Jobs!Init
      OBVIOUS
  <2>1. \A p \in Procs : Job(p) = "none"
    BY DEF Init, Job
  <2> QED BY <2>1 DEF Init, Jobs!Init
<1>2. IInv /\ IInv' /\ [Next]_vars => [Jobs!Next]_Jobs!jobVars
  BY StepsAsPromised DEF Jobs!jobVars, JobMap
<1> QED BY <1>1, <1>2, InvariantHolds, PTL DEF Spec, WorksAsPromised, Jobs!Spec

============================================================================
