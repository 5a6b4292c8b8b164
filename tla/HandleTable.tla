---------------------------- MODULE HandleTable ----------------------------
(***************************************************************************)
(* The handles of common/handle.cc: an id that counts up, a generation     *)
(* that counts the uses of the id, a type, and a priority queue of the     *)
(* handles that were freed.  The Windows build; the magic number, the same *)
(* in every handle, is left out.                                           *)
(*                                                                         *)
(* The callers free a handle once and only a handle they have.  The queue  *)
(* is not locked: the calls come one at a time.                            *)
(*                                                                         *)
(* A definition named X_mut_Y is the slip Y in X, seeded to see that the   *)
(* properties notice it; the specification never uses one.                 *)
(***************************************************************************)
EXTENDS Integers, FiniteSets

CONSTANTS
  MaxId,   \* bounds the ids in use at once
  MaxUses, \* bounds the uses of an id
  Gens     \* gen_ counts modulo Gens: 65536 in the code

ASSUME ConstantsAssumption ==
  MaxId \in Nat \ {0} /\ MaxUses \in Nat \ {0} /\ Gens \in Nat \ {0}

Types == {"process", "file"}
Ids == 1..MaxId
Handles == [id : Ids, gen : 0..(Gens - 1), type : Types]

VARIABLES
  initial,  \* s_initial_value
  free,     \* free_slots_: how often each handle is in it
  held,     \* the handles the callers have
  uses,     \* how often each id was given out
  asked     \* the type the last new handle was asked for

vars == <<initial, free, held, uses, asked>>

TypeOK ==
  /\ initial \in 0..MaxId
  /\ free \in [Handles -> Nat]
  /\ held \subseteq Handles
  /\ uses \in [Ids -> 0..MaxUses]
  /\ asked \in Types

Slots == {h \in Handles : free[h] > 0}

\* value_, by which the queue is ordered: from the lowest bits up the id, the generation
\* and the type.
Value(h) == h.id + (MaxId + 1) * (h.gen + Gens * IF h.type = "file" THEN 1 ELSE 0)

\* The constructor, when no slot is free.
NewId(type) ==
  /\ Slots = {} /\ initial < MaxId
  /\ initial' = initial + 1
  /\ held' = held \cup {[id |-> initial + 1, gen |-> 0, type |-> type]}
  /\ uses' = [uses EXCEPT ![initial + 1] = @ + 1]
  /\ asked' = type
  /\ UNCHANGED free

NextGen(h) == [h EXCEPT !.gen = (@ + 1) % Gens]

Reuse_mut_SameGen(type) ==
  \E h \in Slots :
    /\ uses[h.id] < MaxUses
    /\ free' = [free EXCEPT ![h] = @ - 1]
    /\ held' = held \cup {h}
    /\ uses' = [uses EXCEPT ![h.id] = @ + 1]
    /\ asked' = type
    /\ UNCHANGED initial

Reuse_mut_NotPopped(type) ==
  \E h \in Slots :
    /\ uses[h.id] < MaxUses
    /\ held' = held \cup {NextGen(h)}
    /\ uses' = [uses EXCEPT ![h.id] = @ + 1]
    /\ asked' = type
    /\ UNCHANGED <<free, initial>>

\* The constructor, when there are free slots: the whole of the top one is taken over,
\* its type included.
Reuse(type) ==
  \E h \in Slots :
    /\ \A k \in Slots : Value(k) <= Value(h)
    /\ uses[h.id] < MaxUses
    /\ free' = [free EXCEPT ![h] = @ - 1]
    /\ held' = held \cup {NextGen(h)}
    /\ uses' = [uses EXCEPT ![h.id] = @ + 1]
    /\ asked' = type
    /\ UNCHANGED initial

Free(h) ==
  /\ h \in held
  /\ free' = [free EXCEPT ![h] = @ + 1]
  /\ held' = held \ {h}
  /\ UNCHANGED <<initial, uses, asked>>

Init ==
  /\ initial = 0
  /\ free = [h \in Handles |-> 0]
  /\ held = {}
  /\ uses = [i \in Ids |-> 0]
  /\ asked = "process"

Next ==
  \/ \E t \in Types : NewId(t) \/ Reuse(t)
  \/ \E h \in Handles : Free(h)

Spec == Init /\ [][Next]_vars
----------------------------------------------------------------------------
\* An id that was given out belongs to one handle, which a caller has or which is in
\* the queue once; no handle has an id that was not (handle.cc 19-38).
OneHandlePerId ==
  /\ \A h \in held \cup Slots : h.id <= initial
  /\ \A h, k \in held \cup Slots : h.id = k.id => h = k
  /\ \A h \in Slots : free[h] = 1 /\ h \notin held
  /\ \A i \in 1..initial : \E h \in held \cup Slots : h.id = i

\* The generation tells the uses of an id apart, until it wraps: an old handle is
\* that of the current use again only after Gens uses (handle.cc 29-31).
GenIsAge ==
  \A h \in held \cup Slots : uses[h.id] > 0 /\ h.gen = (uses[h.id] - 1) % Gens

\* new_process() and new_file() return a handle of the type they are named for
\* (handle.h 23-24, handle_test.cc 28-36).
TypeAsAsked == [][\A h \in held' \ held : h.type = asked']_vars
============================================================================
