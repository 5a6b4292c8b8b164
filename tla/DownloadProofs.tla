---------------------------- MODULE DownloadProofs ----------------------------
(***************************************************************************)
(* Proofs about Download, for any number of processes and any contents.    *)
(***************************************************************************)
EXTENDS Download, TLAPS, SequenceTheorems

\* A call that is under way has no answer yet and has written nothing before it created
\* the file.
Unanswered ==
  \A d \in Jobs :
    /\ ~At(d, "idle") => answer[d] = "none"
    /\ ~At(d, "receiving") => job[d].pos = 0

\* While no other writes, the digest a call took when it started is the file's, or that of
\* no file when it could not read it.
DigestCurrent ==
  \A d \in alone :
    /\ job[d].at \in {"asking", "placing"} =>
         /\ job[d].hash \in {PathDigest, None}
         /\ d \notin unread => job[d].hash = PathDigest
    /\ At(d, "creating") /\ job[d].md5 /\ job[d].inside = isDir /\ d \notin unread =>
         file # Body(job[d].version)

\* The beginning of Body(v), n pieces long.
Begun(v, n) == [i \in 1..n |-> <<v, i>>]

\* While no other writes, the file is what the call has written.
OwnFile ==
  \A d \in alone : At(d, "receiving") => file = Begun(job[d].version, job[d].pos)

Right(v, k) == k \in 1..Len(file) /\ file[k] = <<v, k>>

\* Calls that write the same version: a piece is right, or one of them still comes to it.
Merging ==
  /\ \A d \in Jobs : At(d, "receiving") => job[d].version \in written /\ file \in Seq(Piece)
  /\ \A v \in Versions : ~spoiled /\ written = {v} =>
       /\ file \in Seq(Piece) /\ Len(file) <= Pieces[v]
       /\ \A k \in 1..Pieces[v] :
            Right(v, k) \/ \E d \in Jobs : At(d, "receiving") /\ job[d].pos < k

IInv == TypeOK /\ Unanswered /\ DigestCurrent /\ OwnFile /\ Merging
----------------------------------------------------------------------------
(* What the operators return. *)

LEMMA BodyType ==
  ASSUME NEW v \in Versions
  PROVE  Body(v) \in Seq(Piece) /\ Len(Body(v)) = Pieces[v] /\ Body(v) # None
<1>1. Pieces[v] \in Nat
  BY ConstantsAssumption
<1>2. \A i \in 1..Pieces[v] : <<v, i>> \in Piece
  BY <1>1 DEF Piece
<1>3. Body(v) \in [1..Pieces[v] -> Piece]
  BY <1>2 DEF Body
<1>4. Body(v) \in Seq(Piece) /\ Len(Body(v)) = Pieces[v]
  BY <1>1, <1>3
<1> QED BY <1>4, NoneAssumption

\* A sequence that is as long as a version and has its pieces is the version.
LEMMA WholeBody ==
  ASSUME NEW v \in Versions, NEW c \in Seq(Piece), Len(c) = Pieces[v],
         \A k \in 1..Pieces[v] : c[k] = <<v, k>>
  PROVE  c = Body(v)
<1>1. \A k \in 1..Len(c) : Body(v)[k] = c[k]
  BY DEF Body
<1> QED BY <1>1, BodyType, SeqEqual

\* A digest tells whether the file is a version.
LEMMA DigestTells ==
  ASSUME NEW c \in Seq(Piece) \cup {None}, NEW v \in Versions
  PROVE  Md5(c) # None /\ v \in Md5(c) <=> c = Body(v)
<1>1. CASE c = None
  BY <1>1, BodyType DEF Md5
<1>2. CASE c # None
  <2>1. Md5(c) = {u \in Versions : Body(u) = c}
    BY <1>2 DEF Md5
  <2>2. Md5(c) \in SUBSET Versions
    BY <2>1
  <2> QED BY <2>1, <2>2, NoneAssumption
<1> QED BY <1>1, <1>2

LEMMA DigestType ==
  ASSUME NEW c \in Seq(Piece) \cup {None}
  PROVE  Md5(c) \in (SUBSET Versions) \cup {None}
BY DEF Md5

\* What is in the file after a piece is written to it.
LEMMA WrittenIs ==
  ASSUME NEW c \in Seq(Piece), NEW i \in Nat \ {0}, NEW x \in Piece
  PROVE  /\ Written(c, i, x) \in Seq(Piece)
         /\ Len(Written(c, i, x)) = IF i > Len(c) THEN i ELSE Len(c)
         /\ i \in 1..Len(Written(c, i, x)) /\ Written(c, i, x)[i] = x
         /\ \A k \in 1..Len(c) : k # i => Written(c, i, x)[k] = c[k]
<1> DEFINE n == IF i > Len(c) THEN i ELSE Len(c)
           w == Written(c, i, x)
<1>1. n \in Nat /\ n >= i /\ n >= Len(c) /\ Len(c) \in Nat
  BY LenProperties
<1>2. w = [k \in 1..n |-> IF k = i THEN x ELSE IF k <= Len(c) THEN c[k] ELSE Gap]
  BY DEF Written
<1> HIDE DEF n, w
<1>3. \A k \in 1..Len(c) : c[k] \in Piece
  BY ElementOfSeq
<1>4. \A k \in 1..n : (IF k = i THEN x ELSE IF k <= Len(c) THEN c[k] ELSE Gap) \in Piece
  BY <1>1, <1>3 DEF Piece
<1>5. w \in [1..n -> Piece]
  BY <1>2, <1>4
<1>6. w \in Seq(Piece) /\ Len(w) = n
  BY <1>1, <1>5
<1>7. i \in 1..n /\ w[i] = x
  BY <1>1, <1>2
<1>8. \A k \in 1..Len(c) : k # i => w[k] = c[k]
  BY <1>1, <1>2
<1> QED BY <1>6, <1>7, <1>8 DEF w, n

\* A step of one call leaves the others where they are.
LEMMA OneCall ==
  ASSUME TypeOK, NEW d \in Jobs, NEW c \in Call, job' = [job EXCEPT ![d] = c]
  PROVE  /\ job' \in [Jobs -> Call] /\ job'[d] = c
         /\ \A o \in Jobs : o # d => job'[o] = job[o]
BY DEF TypeOK

LEMMA IdleType ==
  /\ Idle \in Call /\ Idle.at = "idle" /\ Idle.pos = 0
BY DEF Idle, Call

----------------------------------------------------------------------------
LEMMA InitHolds == Init => IInv
<1> SUFFICES ASSUME Init PROVE IInv
    OBVIOUS
<1>1. file \in Seq(Piece) \cup {None}
  <2>1. <<Gap>> \in Seq(Piece)
    BY DEF Piece
  <2> QED BY <2>1, BodyType DEF Init
<1>2. job \in [Jobs -> Call] /\ \A d \in Jobs : job[d].at = "idle" /\ job[d].pos = 0
  BY IdleType DEF Init
<1>3. alone = {} /\ unread = {} /\ written = {} /\ spoiled = FALSE
  BY DEF Init
<1>4. TypeOK
  BY <1>1, <1>2, <1>3 DEF Init, TypeOK
<1>5. Unanswered
  BY <1>2 DEF Unanswered, At
<1>6. DigestCurrent /\ OwnFile
  BY <1>3 DEF DigestCurrent, OwnFile
<1>7. Merging
  BY <1>2, <1>3 DEF Merging, At
<1> QED BY <1>4, <1>5, <1>6, <1>7 DEF IInv

\* A step of a call that neither writes nor ends writing: it only has to keep what the
\* invariant says of that call.
LEMMA QuietStep ==
  ASSUME IInv, NEW d \in Jobs, NEW c \in Call,
         NEW a \in {"none", "succeed", "md5_unchanged", "failed"},
         job' = [job EXCEPT ![d] = c], answer' = [answer EXCEPT ![d] = a],
         UNCHANGED <<server, isDir, file>>,
         alone' \subseteq alone \cup {d},
         unread' \subseteq Jobs, \A o \in Jobs : o # d => (o \in unread' <=> o \in unread),
         \/ UNCHANGED <<written, spoiled>>
         \/ written' = {} /\ spoiled' \in BOOLEAN /\ \A o \in Jobs : At(o, "idle"),
         ~At(d, "receiving"), c.at # "receiving", c.pos = 0,
         c.at \in {"placing", "creating"} => c.version \in Versions,
         c.at # "idle" => a = "none",
         d \in alone' /\ c.at \in {"asking", "placing"} =>
           c.hash \in {PathDigest, None} /\ (d \notin unread' => c.hash = PathDigest),
         d \in alone' /\ c.at = "creating" /\ c.md5 /\ c.inside = isDir /\ d \notin unread' =>
           file # Body(c.version)
  PROVE  IInv'
<1>1. /\ job' \in [Jobs -> Call] /\ job'[d] = c
      /\ \A o \in Jobs : o # d => job'[o] = job[o]
  BY OneCall DEF IInv
<1>2. /\ answer' \in [Jobs -> {"none", "succeed", "md5_unchanged", "failed"}]
      /\ answer'[d] = a /\ \A o \in Jobs : o # d => answer'[o] = answer[o]
  BY DEF IInv, TypeOK
<1>3. TypeOK'
  <2>1. \A o \in Jobs : job'[o].at \in {"placing", "creating", "receiving"} =>
          job'[o].version \in Versions /\ job'[o].pos <= Pieces[job'[o].version]
    BY <1>1, ConstantsAssumption DEF IInv, TypeOK
  <2>2. alone' \subseteq Jobs /\ written' \subseteq Versions /\ spoiled' \in BOOLEAN
    BY DEF IInv, TypeOK
  <2> QED BY <1>1, <1>2, <2>1, <2>2 DEF IInv, TypeOK
<1>4. Unanswered'
  BY <1>1, <1>2 DEF IInv, Unanswered, At
<1>5. DigestCurrent'
  <2>0. PathDigest' = PathDigest
    BY DEF PathDigest, Md5
  <2> SUFFICES ASSUME NEW o \in alone'
               PROVE  /\ job'[o].at \in {"asking", "placing"} =>
                            /\ job'[o].hash \in {PathDigest, None}
                            /\ o \notin unread' => job'[o].hash = PathDigest
                      /\ job'[o].at = "creating" /\ job'[o].md5 /\ job'[o].inside = isDir
                         /\ o \notin unread' => file # Body(job'[o].version)
      BY <2>0 DEF DigestCurrent, At
  <2>1. CASE o = d
    BY <1>1, <2>1
  <2>2. CASE o # d
    <3>1. o \in alone /\ job'[o] = job[o] /\ (o \in unread' <=> o \in unread)
      BY <1>1, <2>2 DEF IInv, TypeOK
    <3> QED BY <3>1 DEF IInv, DigestCurrent, At
  <2> QED BY <2>1, <2>2
<1>6. OwnFile'
  <2>1. \A o \in alone' : job'[o].at = "receiving" => o \in alone /\ job'[o] = job[o]
    BY <1>1 DEF IInv, TypeOK
  <2> QED BY <2>1 DEF IInv, OwnFile, At
<1>7. Merging'
  <2>1. \A o \in Jobs : job'[o].at = "receiving" <=> job[o].at = "receiving"
    BY <1>1 DEF At
  <2>2. \A o \in Jobs : job[o].at = "receiving" => job'[o] = job[o]
    BY <1>1 DEF At
  <2>3. CASE UNCHANGED <<written, spoiled>>
    BY <2>1, <2>2, <2>3 DEF IInv, Merging, At, Right
  <2>4. CASE written' = {} /\ \A o \in Jobs : At(o, "idle")
    BY <2>1, <2>4 DEF Merging, At
  <2> QED BY <2>3, <2>4
<1> QED BY <1>3, <1>4, <1>5, <1>6, <1>7 DEF IInv

LEMMA StartKeeps ==
  ASSUME IInv, NEW d \in Jobs, Start(d)
  PROVE  IInv'
<1>1. PICK hash \in {PathDigest, None} :
        /\ job' = [job EXCEPT ![d] = [Idle EXCEPT !.at = "asking", !.hash = hash]]
        /\ unread' = IF hash = PathDigest THEN unread \ {d} ELSE unread \cup {d}
  BY DEF Start
<1> DEFINE c == [Idle EXCEPT !.at = "asking", !.hash = hash]
<1>2. hash \in (SUBSET Versions) \cup {None}
  BY DigestType DEF PathDigest, IInv, TypeOK
<1>3. c \in Call /\ c.at = "asking" /\ c.pos = 0 /\ c.hash = hash
  BY <1>2 DEF Idle, Call
<1>4. job' = [job EXCEPT ![d] = c]
  BY <1>1
<1> HIDE DEF c
<1>5. ~At(d, "receiving")
  BY DEF Start, At
<1>6. \/ UNCHANGED <<written, spoiled>>
      \/ written' = {} /\ spoiled' \in BOOLEAN /\ \A o \in Jobs : At(o, "idle")
  BY DEF Start
<1>7. /\ answer' = [answer EXCEPT ![d] = "none"] /\ UNCHANGED <<server, isDir, file>>
      /\ alone' \subseteq alone \cup {d}
  BY DEF Start
<1>8. /\ unread' \subseteq Jobs /\ \A o \in Jobs : o # d => (o \in unread' <=> o \in unread)
      /\ d \notin unread' => hash = PathDigest
  BY <1>1 DEF IInv, TypeOK
<1> QED BY <1>3, <1>4, <1>5, <1>6, <1>7, <1>8, QuietStep

\* A call that ends before it created the file.
LEMMA EndsEarlyKeeps ==
  ASSUME IInv, NEW d \in Jobs, NEW a \in {"md5_unchanged", "failed"}, Ends(d, a),
         ~At(d, "receiving"), UNCHANGED <<server, isDir, file, alone, written, spoiled>>,
         unread' \in {unread, unread \cup {d}}
  PROVE  IInv'
<1>1. job' = [job EXCEPT ![d] = Idle] /\ answer' = [answer EXCEPT ![d] = a]
  BY DEF Ends
<1>2. unread' \subseteq Jobs /\ \A o \in Jobs : o # d => (o \in unread' <=> o \in unread)
  BY DEF IInv, TypeOK
<1> QED BY <1>1, <1>2, IdleType, QuietStep

LEMMA RespondKeeps ==
  ASSUME IInv, NEW d \in Jobs, Respond(d)
  PROVE  IInv'
<1>1. PICK md5 \in BOOLEAN, named \in BOOLEAN :
        job' = [job EXCEPT ![d].at = "placing", ![d].version = server,
                           ![d].md5 = md5, ![d].named = named]
  BY DEF Respond
<1> DEFINE c == [job[d] EXCEPT !.at = "placing", !.version = server,
                               !.md5 = md5, !.named = named]
<1>2. job[d] \in Call /\ At(d, "asking") /\ server \in Versions /\ job \in [Jobs -> Call]
  BY DEF Respond, IInv, TypeOK
<1>3. c \in Call /\ c.at = "placing" /\ c.version = server
      /\ c.pos = job[d].pos /\ c.hash = job[d].hash
  BY <1>1, <1>2 DEF Call
<1>4. job' = [job EXCEPT ![d] = c]
  BY <1>1, <1>2
<1> HIDE DEF c
<1>5. answer[d] = "none" /\ job[d].pos = 0 /\ ~At(d, "receiving")
  BY <1>2 DEF IInv, Unanswered, At
<1>6. answer' = [answer EXCEPT ![d] = "none"]
  BY <1>5 DEF Respond, IInv, TypeOK
<1>7. d \in alone => c.hash \in {PathDigest, None} /\ (d \notin unread => c.hash = PathDigest)
  BY <1>2, <1>3 DEF IInv, DigestCurrent, At
<1>8. /\ UNCHANGED <<server, isDir, file>> /\ UNCHANGED <<written, spoiled>>
      /\ alone' = alone /\ unread' = unread /\ unread' \subseteq Jobs
  BY DEF Respond, history, IInv, TypeOK
<1>9. c.at # "creating" /\ c.at # "receiving" /\ c.version \in Versions /\ c.pos = 0
  BY <1>2, <1>3, <1>5
<1>10. d \in alone' => c.hash \in {PathDigest, None} /\ (d \notin unread' => c.hash = PathDigest)
  BY <1>7, <1>8
<1>11. \A o \in Jobs : o # d => (o \in unread' <=> o \in unread)
  BY <1>8
<1> QED BY <1>3, <1>4, <1>5, <1>6, <1>8, <1>9, <1>10, <1>11, QuietStep

LEMMA PlaceKeeps ==
  ASSUME IInv, NEW d \in Jobs, Place(d)
  PROVE  IInv'
<1> DEFINE inside == SaysDirectory /\ job[d].named
           digest == IF inside THEN InsideDigest ELSE job[d].hash
<1>1. PICK hash \in IF inside THEN {digest, None} ELSE {digest} :
        /\ unread' = IF hash = digest THEN unread ELSE unread \cup {d}
        /\ IF job[d].md5 /\ hash # None /\ job[d].version \in hash
           THEN Ends(d, "md5_unchanged")
           ELSE /\ job' = [job EXCEPT ![d].at = "creating", ![d].inside = inside,
                                      ![d].hash = hash]
                /\ UNCHANGED answer
  BY DEF Place
<1> DEFINE c == [job[d] EXCEPT !.at = "creating", !.inside = inside, !.hash = hash]
<1>2. /\ At(d, "placing") /\ job[d] \in Call /\ job \in [Jobs -> Call]
      /\ UNCHANGED <<server, isDir, file, alone, written, spoiled>>
      /\ file \in Seq(Piece) \cup {None} /\ isDir \in BOOLEAN
      /\ job[d].version \in Versions /\ ~At(d, "receiving")
  BY DEF Place, IInv, TypeOK, At
<1>3. /\ unread' \in {unread, unread \cup {d}} /\ unread' \subseteq Jobs
      /\ \A o \in Jobs : o # d => (o \in unread' <=> o \in unread)
      /\ d \notin unread' => d \notin unread /\ hash = digest
  BY <1>1 DEF IInv, TypeOK
<1>4. CASE job[d].md5 /\ hash # None /\ job[d].version \in hash
  BY <1>1, <1>2, <1>3, <1>4, EndsEarlyKeeps
<1>5. CASE ~(job[d].md5 /\ hash # None /\ job[d].version \in hash)
  <2>1. job' = [job EXCEPT ![d] = c] /\ UNCHANGED answer
    BY <1>1, <1>2, <1>5
  <2>2. hash \in (SUBSET Versions) \cup {None} /\ inside \in BOOLEAN
    <3>1. digest \in (SUBSET Versions) \cup {None}
      BY <1>2, DigestType DEF Call, InsideDigest
    <3>2. inside \in BOOLEAN
      BY <1>2 DEF Call, SaysDirectory
    <3> HIDE DEF digest, inside
    <3> QED BY <3>1, <3>2
  <2>3. c \in Call /\ c.at = "creating" /\ c.pos = job[d].pos /\ c.md5 = job[d].md5
        /\ c.version = job[d].version /\ c.inside = inside
    <3> HIDE DEF inside, digest
    <3> QED BY <1>2, <2>2 DEF Call
  <2>4. answer[d] = "none" /\ job[d].pos = 0
    BY <1>2 DEF IInv, Unanswered, At
  <2>5. answer' = [answer EXCEPT ![d] = "none"]
    BY <2>1, <2>4 DEF IInv, TypeOK
  <2>6. ASSUME d \in alone, c.md5, c.inside = isDir, d \notin unread'
        PROVE  file # Body(c.version)
    <3>1. job[d].hash = PathDigest
      BY <1>2, <1>3, <2>6 DEF IInv, DigestCurrent, At
    <3>2. inside = isDir
      BY <2>3, <2>6
    <3>3. digest = Md5(file)
      <4> HIDE DEF inside, c
      <4> QED BY <1>2, <3>1, <3>2 DEF PathDigest, InsideDigest
    <3> HIDE DEF digest, inside, c
    <3>4. hash = Md5(file)
      BY <1>3, <2>6, <3>3
    <3>5. ~(Md5(file) # None /\ job[d].version \in Md5(file))
      BY <1>5, <2>3, <2>6, <3>4
    <3> QED BY <1>2, <2>3, <3>5, DigestTells
  <2> HIDE DEF c, digest, inside
  <2> QED BY <1>2, <1>3, <2>1, <2>3, <2>4, <2>5, <2>6, QuietStep
<1> QED BY <1>4, <1>5

----------------------------------------------------------------------------
(* The steps of a call that writes. *)

\* After one, no call but this one is alone, and nobody else has moved.
LEMMA WriterLeavesOthers ==
  ASSUME IInv, NEW d \in Jobs, NEW c \in Call, job' = [job EXCEPT ![d] = c],
         c.at = "receiving", answer[d] = "none", UNCHANGED <<isDir, answer, unread>>,
         alone' \subseteq {d}, c.version \in Versions, c.pos <= Pieces[c.version],
         server' \in Versions, file' \in Seq(Piece),
         written' \subseteq Versions, UNCHANGED spoiled,
         d \in alone' => file' = Begun(c.version, c.pos)
  PROVE  TypeOK' /\ Unanswered' /\ DigestCurrent' /\ OwnFile'
<1>1. /\ job' \in [Jobs -> Call] /\ job'[d] = c
      /\ \A o \in Jobs : o # d => job'[o] = job[o]
  BY OneCall DEF IInv
<1>2. TypeOK'
  <2>1. \A o \in Jobs : job'[o].at \in {"placing", "creating", "receiving"} =>
          job'[o].version \in Versions /\ job'[o].pos <= Pieces[job'[o].version]
    BY <1>1 DEF IInv, TypeOK
  <2>2. alone' \subseteq Jobs /\ unread' \subseteq Jobs /\ isDir' \in BOOLEAN /\ spoiled' \in BOOLEAN
        /\ answer' \in [Jobs -> {"none", "succeed", "md5_unchanged", "failed"}]
    BY DEF IInv, TypeOK
  <2> QED BY <1>1, <2>1, <2>2 DEF TypeOK
<1>3. Unanswered'
  BY <1>1 DEF IInv, Unanswered, At
<1>4. DigestCurrent'
  BY <1>1 DEF DigestCurrent, At
<1>5. OwnFile'
  BY <1>1 DEF OwnFile, At, Begun
<1> QED BY <1>2, <1>3, <1>4, <1>5

LEMMA CreateKeeps ==
  ASSUME IInv, NEW d \in Jobs, Create(d)
  PROVE  IInv'
<1> DEFINE c == [job[d] EXCEPT !.at = "receiving"]
<1>1. /\ At(d, "creating") /\ job[d] \in Call /\ job \in [Jobs -> Call]
      /\ job[d].version \in Versions /\ job[d].pos <= Pieces[job[d].version]
      /\ job[d].pos = 0 /\ answer[d] = "none"
  BY DEF Create, IInv, TypeOK, Unanswered, At
<1>2. /\ file' = <<>> /\ alone' = alone \cap {d} /\ written' = written \cup {job[d].version}
      /\ UNCHANGED <<server, isDir, answer, unread, spoiled>>
  BY DEF Create
<1>3. job' = [job EXCEPT ![d] = c]
  BY <1>1 DEF Create
<1>4. c \in Call /\ c.at = "receiving" /\ c.version = job[d].version /\ c.pos = 0
  BY <1>1 DEF Call
<1> HIDE DEF c
<1>5. file' \in Seq(Piece) /\ Len(file') = 0
  BY <1>2
<1>6. file' = Begun(c.version, c.pos)
  BY <1>2, <1>4 DEF Begun
<1>7. server' \in Versions /\ written' \subseteq Versions
  BY <1>1, <1>2 DEF IInv, TypeOK
<1>8. TypeOK' /\ Unanswered' /\ DigestCurrent' /\ OwnFile'
  BY <1>1, <1>2, <1>3, <1>4, <1>5, <1>6, <1>7, WriterLeavesOthers
<1>9. Merging'
  <2>1. job'[d] = c /\ \A o \in Jobs : o # d => job'[o] = job[o]
    BY <1>3, <1>4, OneCall DEF IInv
  <2>2. \A o \in Jobs : job'[o].at = "receiving" =>
          job'[o].version \in written' /\ file' \in Seq(Piece)
    BY <1>2, <1>4, <1>5, <2>1 DEF IInv, Merging, At
  <2>3. \A v \in Versions : Len(file') <= Pieces[v]
    BY <1>5, ConstantsAssumption
  <2>4. \A k \in Nat \ {0} : job'[d].at = "receiving" /\ job'[d].pos < k
    BY <1>4, <2>1
  <2>5. \A v \in Versions : \A k \in 1..Pieces[v] : k \in Nat \ {0}
    BY ConstantsAssumption
  <2> QED BY <1>5, <2>2, <2>3, <2>4, <2>5 DEF Merging, At
<1> QED BY <1>8, <1>9 DEF IInv

LEMMA ReceiveKeeps ==
  ASSUME IInv, NEW d \in Jobs, Receive(d)
  PROVE  IInv'
<1> DEFINE i == job[d].pos + 1
           u == job[d].version
           c == [job[d] EXCEPT !.pos = i]
<1>1. /\ At(d, "receiving") /\ job[d] \in Call /\ job \in [Jobs -> Call]
      /\ u \in Versions /\ i \in Nat \ {0} /\ i <= Pieces[u] /\ answer[d] = "none"
  BY DEF Receive, IInv, TypeOK, Unanswered, At, Call
<1>2. /\ file' = Written(file, i, <<u, i>>) /\ alone' = alone \cap {d}
      /\ UNCHANGED <<server, isDir, answer, unread, written, spoiled>>
  BY DEF Receive
<1>3. job' = [job EXCEPT ![d] = c]
  BY <1>1 DEF Receive
<1>4. c \in Call /\ c.at = "receiving" /\ c.version = u /\ c.pos = i
  BY <1>1 DEF Call, At
<1>5. job'[d] = c /\ \A o \in Jobs : o # d => job'[o] = job[o]
  BY <1>3, <1>4, OneCall DEF IInv
<1>6. <<u, i>> \in Piece
  BY <1>1 DEF Piece
<1>7. server' \in Versions /\ written' \subseteq Versions
  BY <1>2 DEF IInv, TypeOK
<1>8. job[d].pos \in Nat /\ i = job[d].pos + 1
  BY <1>1 DEF Call
<1> HIDE DEF c, i, u
<1>9. file \in Seq(Piece) /\ u \in written
  BY <1>1 DEF IInv, Merging, u
<1> DEFINE x == <<u, i>>
           w == Written(file, i, x)
<1>10. /\ w \in Seq(Piece) /\ Len(w) = IF i > Len(file) THEN i ELSE Len(file)
       /\ i \in 1..Len(w) /\ w[i] = <<u, i>>
       /\ \A k \in 1..Len(file) : k # i => w[k] = file[k]
  <2>1. x \in Piece /\ file \in Seq(Piece) /\ i \in Nat \ {0}
    BY <1>1, <1>6, <1>9
  <2> HIDE DEF x
  <2>2. /\ Written(file, i, x) \in Seq(Piece)
        /\ Len(Written(file, i, x)) = IF i > Len(file) THEN i ELSE Len(file)
        /\ i \in 1..Len(Written(file, i, x)) /\ Written(file, i, x)[i] = x
        /\ \A k \in 1..Len(file) : k # i => Written(file, i, x)[k] = file[k]
    BY ONLY <2>1, WrittenIs
  <2>3. QED BY <2>2 DEF x
<1>11. file' = w
  BY <1>2
<1> HIDE DEF w
<1>12. d \in alone' => file' = Begun(c.version, c.pos)
  <2> SUFFICES ASSUME d \in alone
               PROVE  w = Begun(u, i)
      BY <1>2, <1>4, <1>11
  <2>1. file = Begun(u, job[d].pos)
    BY <1>1 DEF IInv, OwnFile, u
  <2>2. Len(file) = job[d].pos
    BY <1>8, <1>9, <2>1, LenProperties DEF Begun
  <2>3. Len(w) = i /\ w \in [1..i -> Piece]
    BY <1>1, <1>8, <1>10, <2>2, LenProperties
  <2>4. \A k \in 1..i : w[k] = <<u, k>>
    <3> SUFFICES ASSUME NEW k \in 1..i, k # i
                 PROVE  w[k] = <<u, k>>
        BY <1>10
    <3>1. k \in 1..Len(file)
      BY <1>8, <2>2
    <3>2. file[k] = <<u, k>>
      BY <2>1, <2>2, <3>1 DEF Begun
    <3> QED BY <1>10, <3>1, <3>2
  <2> QED BY <2>3, <2>4 DEF Begun
<1>13. TypeOK' /\ Unanswered' /\ DigestCurrent' /\ OwnFile'
  BY <1>1, <1>2, <1>3, <1>4, <1>7, <1>10, <1>11, <1>12, WriterLeavesOthers
<1>14. Merging'
  <2>1. \A o \in Jobs : job'[o].at = "receiving" =>
          job'[o].version \in written' /\ file' \in Seq(Piece)
    BY <1>2, <1>4, <1>5, <1>9, <1>10, <1>11 DEF IInv, Merging, At
  <2>2. ASSUME NEW v \in Versions, ~spoiled, written = {v}
        PROVE  /\ Len(w) <= Pieces[v]
               /\ \A k \in 1..Pieces[v] :
                    (k \in 1..Len(w) /\ w[k] = <<v, k>>)
                    \/ \E o \in Jobs : job'[o].at = "receiving" /\ job'[o].pos < k
    <3>1. u = v
      BY <1>9, <2>2
    <3>2. Len(file) <= Pieces[v] /\ Len(file) \in Nat /\ Pieces[v] \in Nat
      BY <1>9, <2>2, ConstantsAssumption, LenProperties DEF IInv, Merging
    <3>3. Len(w) <= Pieces[v]
      BY <1>1, <1>10, <3>1, <3>2
    <3> SUFFICES ASSUME NEW k \in 1..Pieces[v], k # i
                 PROVE  (k \in 1..Len(w) /\ w[k] = <<v, k>>)
                        \/ \E o \in Jobs : job'[o].at = "receiving" /\ job'[o].pos < k
        BY <1>10, <3>1, <3>3
    <3>4. CASE Right(v, k)
      <4>1. k \in 1..Len(file) /\ file[k] = <<v, k>>
        BY <3>4 DEF Right
      <4>2. k \in 1..Len(w)
        BY <1>1, <1>10, <3>2, <4>1
      <4> QED BY <1>10, <4>1, <4>2
    <3>5. CASE \E o \in Jobs : At(o, "receiving") /\ job[o].pos < k
      <4>1. PICK o \in Jobs : At(o, "receiving") /\ job[o].pos < k
        BY <3>5
      <4>2. CASE o = d
        BY <1>4, <1>5, <1>8, <4>1, <4>2
      <4>3. CASE o # d
        BY <1>5, <4>1, <4>3 DEF At
      <4> QED BY <4>2, <4>3
    <3> QED BY <2>2, <3>4, <3>5 DEF IInv, Merging
  <2> QED BY <1>2, <1>10, <1>11, <2>1, <2>2 DEF Merging, At, Right
<1> QED BY <1>13, <1>14 DEF IInv

\* A call that has been writing ends.
LEMMA WriterEnds ==
  ASSUME IInv, NEW d \in Jobs, NEW a \in {"failed", "succeed"}, Ends(d, a),
         At(d, "receiving"), UNCHANGED <<server, isDir, file, unread, written>>,
         alone' \subseteq alone, spoiled' \in BOOLEAN,
         spoiled' \/ (spoiled' = spoiled /\ job[d].pos = Pieces[job[d].version])
  PROVE  IInv'
<1>1. /\ job' \in [Jobs -> Call] /\ job'[d] = Idle
      /\ \A o \in Jobs : o # d => job'[o] = job[o]
  BY IdleType, OneCall DEF Ends, IInv
<1>2. /\ answer' \in [Jobs -> {"none", "succeed", "md5_unchanged", "failed"}]
      /\ \A o \in Jobs : o # d => answer'[o] = answer[o]
  BY DEF Ends, IInv, TypeOK
<1>3. TypeOK'
  <2>1. \A o \in Jobs : job'[o].at \in {"placing", "creating", "receiving"} =>
          job'[o].version \in Versions /\ job'[o].pos <= Pieces[job'[o].version]
    BY <1>1, IdleType DEF IInv, TypeOK
  <2> QED BY <1>1, <1>2, <2>1 DEF IInv, TypeOK
<1>4. Unanswered'
  BY <1>1, <1>2, IdleType DEF IInv, Unanswered, At
<1>5. \A o \in alone' : o \in alone /\ (o # d => job'[o] = job[o])
  BY <1>1 DEF IInv, TypeOK
<1>6. DigestCurrent'
  BY <1>1, <1>5, IdleType DEF IInv, DigestCurrent, At, Md5, PathDigest
<1>7. OwnFile'
  BY <1>1, <1>5, IdleType DEF IInv, OwnFile, At, Begun
<1>8. Merging'
  <2>1. \A o \in Jobs : job'[o].at = "receiving" =>
          job'[o].version \in written' /\ file' \in Seq(Piece)
    BY <1>1, IdleType DEF IInv, Merging, At
  <2>2. ASSUME NEW v \in Versions, ~spoiled', written = {v}
        PROVE  /\ file \in Seq(Piece) /\ Len(file) <= Pieces[v]
               /\ \A k \in 1..Pieces[v] :
                    Right(v, k) \/ \E o \in Jobs : job'[o].at = "receiving" /\ job'[o].pos < k
    <3>1. job[d].version = v /\ job[d].pos = Pieces[v] /\ ~spoiled
      BY <2>2 DEF IInv, Merging
    <3>2. Pieces[v] \in Nat
      BY ConstantsAssumption
    <3>3. ASSUME NEW k \in 1..Pieces[v], NEW o \in Jobs, At(o, "receiving"), job[o].pos < k
          PROVE  job'[o].at = "receiving" /\ job'[o].pos < k
      <4>1. o # d
        BY <3>1, <3>2, <3>3
      <4> QED BY <1>1, <3>3, <4>1 DEF At
    <3>4. /\ file \in Seq(Piece) /\ Len(file) <= Pieces[v]
          /\ \A k \in 1..Pieces[v] :
               Right(v, k) \/ \E o \in Jobs : At(o, "receiving") /\ job[o].pos < k
      BY <2>2, <3>1 DEF IInv, Merging
    <3> QED BY <3>3, <3>4
  <2> QED BY <2>1, <2>2 DEF Merging, At, Right
<1> QED BY <1>3, <1>4, <1>6, <1>7, <1>8 DEF IInv

LEMMA FinishKeeps ==
  ASSUME IInv, NEW d \in Jobs, Finish(d)
  PROVE  IInv'
<1>1. spoiled' \in BOOLEAN
  BY DEF Finish, history, IInv, TypeOK
<1> QED BY <1>1, WriterEnds DEF Finish, history

LEMMA StopKeeps ==
  ASSUME IInv, NEW d \in Jobs, Stop(d)
  PROVE  IInv'
<1>1. PICK status \in {"failed", "succeed"} : Ends(d, status)
  BY DEF Stop
<1>2. /\ At(d, "receiving") /\ UNCHANGED <<server, isDir, file, unread, written>>
      /\ alone' \subseteq alone /\ spoiled' = TRUE
  BY DEF Stop
<1> QED BY <1>1, <1>2, WriterEnds

LEMMA PublishKeeps ==
  ASSUME IInv, NEW v \in Versions, Publish(v)
  PROVE  IInv'
BY DEF Publish, history, IInv, TypeOK, Unanswered, DigestCurrent, OwnFile, Merging,
       At, Md5, PathDigest, Begun, Right

LEMMA StepKeeps ==
  ASSUME IInv, [Next]_vars
  PROVE  IInv'
<1>1. ASSUME NEW d \in Jobs, NoResponse(d) PROVE IInv'
  BY <1>1, EndsEarlyKeeps DEF NoResponse, At, history
<1>2. ASSUME NEW d \in Jobs, CreateFails(d) PROVE IInv'
  BY <1>2, EndsEarlyKeeps DEF CreateFails, At, history
<1>3. CASE UNCHANGED vars
  BY <1>3 DEF vars, history, IInv, TypeOK, Unanswered, DigestCurrent, OwnFile, Merging,
       At, Md5, PathDigest, Begun, Right
<1> QED BY <1>1, <1>2, <1>3, StartKeeps, RespondKeeps, PlaceKeeps, CreateKeeps, ReceiveKeeps,
       FinishKeeps, StopKeeps, PublishKeeps DEF Next

----------------------------------------------------------------------------
\* What the downloads hold of the file, of what was there before and of one another is true
\* of it after every step (download.cc 114-280).
THEOREM InvariantHolds == Spec => []IInv
BY InitHolds, StepKeeps, PTL DEF Spec

\* TypeOK holds of every number of processes and every set of contents.
THEOREM TypeCorrect == Spec => []TypeOK
<1>1. IInv => TypeOK
  BY DEF IInv
<1> QED BY <1>1, InvariantHolds, PTL

\* However many calls overlap: when all got one version and came to the end, the file is
\* that version (download.cc 229-275).
THEOREM OverlapAlwaysEndsWhole == Spec => []OverlapEndsWhole
<1>1. IInv => OverlapEndsWhole
  <2> SUFFICES ASSUME IInv, NEW v \in Versions, \A d \in Jobs : At(d, "idle"),
                      ~spoiled, written = {v}
               PROVE  file = Body(v)
      BY DEF OverlapEndsWhole
  <2>1. \A d \in Jobs : ~At(d, "receiving")
    BY DEF At
  <2>2. /\ file \in Seq(Piece) /\ Len(file) <= Pieces[v]
        /\ \A k \in 1..Pieces[v] : k \in 1..Len(file) /\ file[k] = <<v, k>>
    BY <2>1 DEF IInv, Merging, Right
  <2>3. Pieces[v] \in Nat /\ Len(file) \in Nat
    BY <2>2, ConstantsAssumption, LenProperties
  <2>4. Len(file) = Pieces[v]
    <3>1. CASE Pieces[v] = 0
      BY <2>2, <2>3, <3>1
    <3>2. CASE Pieces[v] # 0
      <4>1. Pieces[v] \in 1..Pieces[v]
        BY <2>3, <3>2
      <4>2. Pieces[v] \in 1..Len(file)
        BY <2>2, <4>1
      <4> QED BY <2>2, <2>3, <4>2
    <3> QED BY <3>1, <3>2
  <2> QED BY <2>2, <2>4, WholeBody
<1> QED BY <1>1, InvariantHolds, PTL

\* No call empties a file that is up to date, when the server tells the digest, the file
\* could be read and no other call writes (download.cc 119, 205, 220-229).
THEOREM NeverNeedless == Spec => NoNeedlessDownload
<1>1. ASSUME IInv, [Next]_vars
      PROVE  [\A d \in Jobs :
                At(d, "creating") /\ job'[d].at = "receiving" /\ job[d].md5
                /\ d \in alone \ unread => file # Body(job[d].version)]_vars
  <2> SUFFICES ASSUME Next, NEW d \in Jobs, At(d, "creating"), job'[d].at = "receiving",
                      job[d].md5, d \in alone \ unread
               PROVE  file # Body(job[d].version)
      BY <1>1
  <2>1. job[d].inside = isDir
    <3>1. job \in [Jobs -> Call]
      BY <1>1 DEF IInv, TypeOK
    <3>2. ASSUME NEW o \in Jobs,
                 \/ Start(o) \/ Respond(o) \/ NoResponse(o) \/ Place(o) \/ CreateFails(o)
                 \/ Receive(o) \/ Finish(o) \/ Stop(o)
          PROVE  job'[d].at # "receiving"
      BY <3>1, <3>2, IdleType DEF Start, Respond, NoResponse, Place, CreateFails, Receive,
         Finish, Stop, Ends, At, Idle, Call
    <3>3. ASSUME NEW o \in Jobs, Create(o), o # d
          PROVE  job'[d].at # "receiving"
      BY <3>1, <3>3 DEF Create, At
    <3>4. ASSUME NEW v \in Versions, Publish(v)
          PROVE  job'[d].at # "receiving"
      BY <3>4 DEF Publish, At
    <3> QED BY <3>2, <3>3, <3>4 DEF Next, Create
  <2> QED BY <1>1, <2>1 DEF IInv, DigestCurrent
<1> QED BY <1>1, InvariantHolds, PTL DEF Spec, NoNeedlessDownload

\* An answer of a call that no other wrote beside is true of the file (download.cc 114-280).
THEOREM AnswersAlwaysTrue == Spec => AnswersTrue
<1>1. ASSUME IInv, [Next]_vars
      PROVE  [\A d \in Jobs :
                d \in alone' /\ ~At(d, "idle") /\ answer'[d] \in {"succeed", "md5_unchanged"}
                  => file' = Body(job[d].version)]_vars
  <2> SUFFICES ASSUME Next, NEW d \in Jobs, d \in alone', ~At(d, "idle"),
                      answer'[d] \in {"succeed", "md5_unchanged"}
               PROVE  file' = Body(job[d].version)
      BY <1>1
  <2>1. /\ answer[d] = "none" /\ answer \in [Jobs -> {"none", "succeed", "md5_unchanged", "failed"}]
        /\ job \in [Jobs -> Call] /\ job[d] \in Call /\ file \in Seq(Piece) \cup {None}
    BY <1>1 DEF IInv, TypeOK, Unanswered
  <2>2. ASSUME NEW o \in Jobs, Finish(o) \/ Stop(o) \/ Place(o), o # d
        PROVE  answer'[d] = "none"
    BY <2>1, <2>2 DEF Finish, Stop, Place, Ends
  <2>3. ASSUME NEW o \in Jobs,
               Start(o) \/ Respond(o) \/ NoResponse(o) \/ Create(o) \/ CreateFails(o) \/ Receive(o)
        PROVE  answer'[d] \in {"none", "failed"}
    BY <2>1, <2>3 DEF Start, Respond, NoResponse, Create, CreateFails, Receive, Ends
  <2>4. ASSUME NEW v \in Versions, Publish(v)
        PROVE  answer'[d] = "none"
    BY <2>1, <2>4 DEF Publish
  <2>5. CASE Finish(d)
    <3>1. d \in alone /\ At(d, "receiving") /\ file' = file
          /\ job[d].pos = Pieces[job[d].version]
      BY <2>5 DEF Finish, history
    <3> QED BY <1>1, <3>1 DEF IInv, OwnFile, Begun, Body
  <2>6. ~Stop(d)
    BY DEF Stop
  <2>7. CASE Place(d)
    <3> DEFINE inside == SaysDirectory /\ job[d].named
               digest == IF inside THEN InsideDigest ELSE job[d].hash
    <3>1. d \in alone /\ At(d, "placing") /\ file' = file
      BY <2>7 DEF Place
    <3>2. PICK hash \in IF inside THEN {digest, None} ELSE {digest} :
            hash # None /\ job[d].version \in hash
      BY <2>1, <2>7 DEF Place
    <3>3. job[d].hash \in {PathDigest, None}
      BY <1>1, <3>1 DEF IInv, DigestCurrent, At
    <3>4. hash \in {Md5(file), None}
      BY <3>2, <3>3 DEF PathDigest, InsideDigest
    <3>5. Md5(file) # None /\ job[d].version \in Md5(file)
      BY <3>2, <3>4
    <3>6. job[d].version \in Versions
      BY <1>1, <3>1 DEF IInv, TypeOK, At
    <3> QED BY <2>1, <3>1, <3>5, <3>6, DigestTells
  <2> QED BY <2>2, <2>3, <2>4, <2>5, <2>6, <2>7 DEF Next
<1> QED BY <1>1, InvariantHolds, PTL DEF Spec, AnswersTrue

=============================================================================
