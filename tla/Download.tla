------------------------------ MODULE Download ------------------------------
(***************************************************************************)
(* winhttp_download (common/download.cc): processes that download one url  *)
(* to one file_path, while the server may put something else at the url    *)
(* and every call to WinHTTP or to the file system may fail.               *)
(*                                                                         *)
(* The url is an https one with a path.  The server gives a Content-Length,*)
(* and may give Content-MD5 and the name of a file.  No two contents have  *)
(* the same MD5, and what the server sends comes in pieces of one size.    *)
(* Whether file_path is a directory does not change.  The directory it is  *)
(* in is made when it is missing, and where that fails the file cannot be  *)
(* created.  WinHTTP and the server, which are not in the repository,      *)
(* answer as the code expects or fail.  They may also end a body early, as *)
(* the code does not compare what came with content_length, and an error   *)
(* page is one more version, as the code does not ask for the status.      *)
(*                                                                         *)
(* A definition named X_mut_Y is the slip Y in X, seeded to see that the   *)
(* properties notice it; the specification never uses one.                 *)
(***************************************************************************)
EXTENDS Naturals, Sequences

CONSTANTS
  Jobs,       \* the processes that call download_url
  Versions,   \* what the server may hold at the url
  Pieces,     \* how many pieces each version comes in
  Gap,        \* what a file holds where nothing was written
  None

ASSUME ConstantsAssumption ==
  /\ Pieces \in [Versions -> Nat]
  /\ \A u, v \in Versions : Pieces[u] = 0 /\ Pieces[v] = 0 => u = v
  /\ Gap \notin Versions \X (Nat \ {0})

VARIABLES
  server,    \* the version at the url
  isDir,     \* file_path is a directory
  file,      \* the file downloaded to, at file_path or in it: its pieces, or None
  job,       \* where the call of each job is
  answer,    \* the download_status of each job's last call
  \* History, for the properties:
  alone,     \* jobs in whose call nothing went wrong and no other wrote the file
  unread,    \* jobs in whose call a file that is there could not be opened to hash it
  written,   \* versions written since a job last started with no other at work
  spoiled    \* whether a write stopped halfway since then

history == <<alone, unread, written, spoiled>>
vars == <<server, isDir, file, job, answer, history>>

Piece == (Versions \X (Nat \ {0})) \cup {Gap}

\* None is no file and no digest.
ASSUME NoneAssumption ==
  None \notin Seq(Piece) /\ \A digest \in SUBSET Versions : digest # None

Call ==
  [at: {"idle", "asking", "placing", "creating", "receiving"},
   hash: (SUBSET Versions) \cup {None}, \* file_md5, None when it is empty
   version: Versions \cup {None},       \* what the server answers with
   md5: BOOLEAN, named: BOOLEAN,        \* md5_base64 and filename are not empty
   inside: BOOLEAN,                     \* download_path is file_path/filename
   pos: Nat]                            \* pieces written

TypeOK ==
  /\ server \in Versions
  /\ isDir \in BOOLEAN
  /\ file \in Seq(Piece) \cup {None}
  /\ job \in [Jobs -> Call]
  /\ \A d \in Jobs : job[d].at \in {"placing", "creating", "receiving"} =>
       job[d].version \in Versions /\ job[d].pos <= Pieces[job[d].version]
  /\ answer \in [Jobs -> {"none", "succeed", "md5_unchanged", "failed"}]
  /\ alone \subseteq Jobs /\ unread \subseteq Jobs /\ written \subseteq Versions /\ spoiled \in BOOLEAN

----------------------------------------------------------------------------
Idle ==
  [at |-> "idle", hash |-> None, version |-> None,
   md5 |-> FALSE, named |-> FALSE, inside |-> FALSE, pos |-> 0]

Body(v) == [i \in 1..Pieces[v] |-> <<v, i>>]

\* file_content_md5: the digest as the versions it belongs to, None for no file.
Md5(c) == IF c = None THEN None ELSE {v \in Versions : Body(v) = c}

\* What the digest of the file at file_path should be, and what that at file_path/filename.
PathDigest == IF isDir THEN None ELSE Md5(file)
InsideDigest == IF isDir THEN Md5(file) ELSE None

\* WriteFile puts piece i where the handle is, whatever else the file holds.
Written_mut_Appends(c, i, x) == Append(c, x)

Written(c, i, x) ==
  [k \in 1..(IF i > Len(c) THEN i ELSE Len(c)) |->
     IF k = i THEN x ELSE IF k <= Len(c) THEN c[k] ELSE Gap]

At(d, stage) == job[d].at = stage

Ends(d, status) ==
  /\ job' = [job EXCEPT ![d] = Idle]
  /\ answer' = [answer EXCEPT ![d] = status]

----------------------------------------------------------------------------
(* The steps of winhttp_download *)

Start(d) ==
  /\ At(d, "idle")
  /\ \E hash \in {PathDigest, None} :
       /\ job' = [job EXCEPT ![d] = [Idle EXCEPT !.at = "asking", !.hash = hash]]
       /\ unread' = IF hash = PathDigest THEN unread \ {d} ELSE unread \cup {d}
  /\ answer' = [answer EXCEPT ![d] = "none"]
  /\ alone' = alone \cup {d}
  /\ IF \A o \in Jobs : At(o, "idle")
     THEN written' = {} /\ spoiled' = FALSE
     ELSE UNCHANGED <<written, spoiled>>
  /\ UNCHANGED <<server, isDir, file>>

\* WinHttpSendRequest to the last header that is asked for.
Respond(d) ==
  /\ At(d, "asking")
  /\ \E md5, named \in BOOLEAN :
       job' = [job EXCEPT ![d].at = "placing", ![d].version = server,
                          ![d].md5 = md5, ![d].named = named]
  /\ UNCHANGED <<server, isDir, file, answer, history>>

NoResponse(d) ==
  /\ At(d, "asking")
  /\ Ends(d, "failed")
  /\ UNCHANGED <<server, isDir, file, history>>

\* GetFileAttributesA of what is not there is INVALID_FILE_ATTRIBUTES, all of its bits set.
SaysDirectory == isDir \/ file = None

\* download_path, and whether it has to be downloaded.
Place_mut_OldHash(d) ==
  LET inside == SaysDirectory /\ job[d].named
  IN  /\ At(d, "placing")
      /\ IF job[d].md5 /\ job[d].hash # None /\ job[d].version \in job[d].hash
         THEN Ends(d, "md5_unchanged")
         ELSE /\ job' = [job EXCEPT ![d].at = "creating", ![d].inside = inside]
              /\ UNCHANGED answer
      /\ UNCHANGED <<server, isDir, file, history>>

Place(d) ==
  LET inside == SaysDirectory /\ job[d].named
      digest == IF inside THEN InsideDigest ELSE job[d].hash
  IN  /\ At(d, "placing")
      /\ \E hash \in IF inside THEN {digest, None} ELSE {digest} :
           /\ unread' = IF hash = digest THEN unread ELSE unread \cup {d}
           /\ IF job[d].md5 /\ hash # None /\ job[d].version \in hash
              THEN Ends(d, "md5_unchanged")
              ELSE /\ job' = [job EXCEPT ![d].at = "creating", ![d].inside = inside,
                                         ![d].hash = hash]
                   /\ UNCHANGED answer
      /\ UNCHANGED <<server, isDir, file, alone, written, spoiled>>

\* CreateFileA, with CREATE_ALWAYS and shared with other writers.
Create_mut_KeepsTail(d) ==
  /\ At(d, "creating")
  /\ job[d].inside = isDir
  /\ file' = IF file = None THEN <<>> ELSE file
  /\ job' = [job EXCEPT ![d].at = "receiving"]
  /\ alone' = alone \cap {d}
  /\ written' = written \cup {job[d].version}
  /\ UNCHANGED <<server, isDir, answer, unread, spoiled>>

Create(d) ==
  /\ At(d, "creating")
  /\ job[d].inside = isDir
  /\ file' = <<>>
  /\ job' = [job EXCEPT ![d].at = "receiving"]
  /\ alone' = alone \cap {d}
  /\ written' = written \cup {job[d].version}
  /\ UNCHANGED <<server, isDir, answer, unread, spoiled>>

\* It does so for any reason of the system, and always when the path is a directory or
\* leads through something that is none.
CreateFails(d) ==
  /\ At(d, "creating")
  /\ Ends(d, "failed")
  /\ UNCHANGED <<server, isDir, file, history>>

\* One turn of the loop: a piece is read and written.
Receive_mut_OneMore(d) ==
  LET i == job[d].pos + 1
  IN  /\ At(d, "receiving") /\ job[d].pos <= Pieces[job[d].version]
      /\ file' = Written(file, i, <<job[d].version, i>>)
      /\ job' = [job EXCEPT ![d].pos = i]
      /\ alone' = alone \cap {d}
      /\ UNCHANGED <<server, isDir, answer, unread, written, spoiled>>

Receive(d) ==
  LET i == job[d].pos + 1
  IN  /\ At(d, "receiving") /\ i <= Pieces[job[d].version]
      /\ file' = Written(file, i, <<job[d].version, i>>)
      /\ job' = [job EXCEPT ![d].pos = i]
      /\ alone' = alone \cap {d}
      /\ UNCHANGED <<server, isDir, answer, unread, written, spoiled>>

\* Nothing more is available.
Finish(d) ==
  /\ At(d, "receiving") /\ job[d].pos = Pieces[job[d].version]
  /\ Ends(d, "succeed")
  /\ UNCHANGED <<server, isDir, file, history>>

\* The loop is left before the end: WinHTTP fails; or WriteFile does, or the body ends
\* early, and both of these are taken for success.
Stop(d) ==
  /\ At(d, "receiving")
  /\ \E status \in {"failed", "succeed"} : Ends(d, status)
  /\ alone' = alone \ {d}
  /\ spoiled' = TRUE
  /\ UNCHANGED <<server, isDir, file, unread, written>>

----------------------------------------------------------------------------
Publish(v) ==
  /\ v # server
  /\ server' = v
  /\ UNCHANGED <<isDir, file, job, answer, history>>

\* An earlier download or another program left a file, or none.
Init ==
  /\ server \in Versions
  /\ isDir \in BOOLEAN
  /\ file \in {None, <<Gap>>} \cup {Body(v) : v \in Versions}
  /\ job = [d \in Jobs |-> Idle]
  /\ answer = [d \in Jobs |-> "none"]
  /\ alone = {} /\ unread = {} /\ written = {} /\ spoiled = FALSE

Next ==
  \/ \E d \in Jobs :
       \/ Start(d)
       \/ Respond(d)
       \/ NoResponse(d)
       \/ Place(d)
       \/ Create(d)
       \/ CreateFails(d)
       \/ Receive(d)
       \/ Finish(d)
       \/ Stop(d)
  \/ \E v \in Versions : Publish(v)

Spec == Init /\ [][Next]_vars
----------------------------------------------------------------------------
\* A call in which nothing went wrong and during which no other wrote the file, answers
\* succeed or md5_unchanged only when the file is what the server answered it with, to
\* the last piece and no further, whatever the calls before it left (download.cc
\* 114-280).
AnswersTrue ==
  [][\A d \in Jobs :
       d \in alone' /\ ~At(d, "idle") /\ answer'[d] \in {"succeed", "md5_unchanged"}
         => file' = Body(job[d].version)]_vars

\* Calls that overlap share the file.  If all of them that wrote it got the same version
\* and came to the end, then once the last one has ended the file is that version, though
\* each may have emptied what the other had written (download.cc 229-275).
OverlapEndsWhole ==
  \A v \in Versions :
    (\A d \in Jobs : At(d, "idle")) /\ ~spoiled /\ written = {v} => file = Body(v)

\* With Content-MD5, a call that could read the file, and during which no other wrote it,
\* never empties one that is up to date: the digest is of the very file that would be
\* replaced, in a directory or not (download.cc 119, 205, 220-229).
NoNeedlessDownload ==
  [][\A d \in Jobs :
       At(d, "creating") /\ job'[d].at = "receiving" /\ job[d].md5 /\ d \in alone \ unread
         => file # Body(job[d].version)]_vars
=============================================================================
