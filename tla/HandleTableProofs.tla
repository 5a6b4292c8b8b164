------------------------- MODULE HandleTableProofs -------------------------
(***************************************************************************)
(* Proofs about HandleTable, for any number of ids and generations.        *)
(***************************************************************************)
EXTENDS HandleTable, TLAPS

\* An id that was not given out was not used.
Fresh == \A i \in Ids : i > initial => uses[i] = 0

IInv == TypeOK /\ OneHandlePerId /\ Fresh

----------------------------------------------------------------------------
(* Counting modulo G. *)

LEMMA Quotient ==
  ASSUME NEW G \in Nat \ {0}, NEW n \in Nat
  PROVE  n \div G \in Nat /\ n % G \in 0..(G - 1) /\ n = G * (n \div G) + (n % G)
OBVIOUS

LEMMA Remainder ==
  ASSUME NEW G \in Nat \ {0}, NEW q \in Nat, NEW r \in 0..(G - 1)
  PROVE  (G * q + r) % G = r
OBVIOUS

\* The remainder of a successor can be had from the remainder.
LEMMA SuccessorRemainder ==
  ASSUME NEW G \in Nat \ {0}, NEW n \in Nat
  PROVE  ((n % G) + 1) % G = (n + 1) % G
<1> DEFINE q == n \div G
           r == n % G
<1>1. q \in Nat /\ r \in 0..(G - 1) /\ n = G * q + r
  BY Quotient
<1> HIDE DEF q, r
<1>2. CASE r + 1 < G
  <2>1. r + 1 \in 0..(G - 1) BY <1>1, <1>2
  <2>2. (G * q + (r + 1)) % G = r + 1 BY <1>1, <2>1, Remainder
  <2>3. (G * 0 + (r + 1)) % G = r + 1 BY <2>1, Remainder
  <2>4. G * q + (r + 1) = n + 1 BY <1>1
  <2>5. G * 0 + (r + 1) = r + 1 BY <1>1
  <2> QED BY <2>2, <2>3, <2>4, <2>5 DEF r
<1>3. CASE r + 1 = G
  <2>1. (G * (q + 1) + 0) % G = 0 BY <1>1, Remainder
  <2>2. (G * 1 + 0) % G = 0 BY Remainder
  <2>3. G * (q + 1) + 0 = n + 1 BY <1>1, <1>3
  <2>4. G * 1 + 0 = r + 1 BY <1>1, <1>3
  <2> QED BY <2>1, <2>2, <2>3, <2>4 DEF r
<1> QED BY <1>1, <1>2, <1>3

----------------------------------------------------------------------------
LEMMA NextGenType ==
  ASSUME NEW h \in Handles
  PROVE  NextGen(h) \in Handles /\ NextGen(h).id = h.id
<1>1. h.gen + 1 \in Nat
  BY ConstantsAssumption DEF Handles
<1>2. (h.gen + 1) % Gens \in 0..(Gens - 1)
  BY <1>1, ConstantsAssumption
<1> QED BY <1>2 DEF NextGen, Handles

LEMMA InitHolds == Init => IInv
<1> SUFFICES ASSUME Init PROVE IInv
    OBVIOUS
<1>1. Slots = {} /\ held = {} /\ initial = 0
  BY DEF Init, Slots
<1>2. TypeOK
  BY ConstantsAssumption DEF Init, TypeOK, Types, Ids
<1>3. OneHandlePerId
  BY <1>1 DEF OneHandlePerId
<1>4. Fresh
  BY DEF Init, Fresh
<1> QED BY <1>2, <1>3, <1>4 DEF IInv

LEMMA NewIdKeeps ==
  ASSUME IInv, NEW type \in Types, NewId(type)
  PROVE  IInv'
<1> DEFINE new == [id |-> initial + 1, gen |-> 0, type |-> type]
<1>1. /\ initial' = initial + 1 /\ held' = held \cup {new} /\ UNCHANGED free
      /\ uses' = [uses EXCEPT ![initial + 1] = @ + 1] /\ asked' = type
      /\ initial \in Nat /\ initial < MaxId /\ Slots = {}
  BY DEF NewId, IInv, TypeOK
<1>2. new \in Handles /\ initial + 1 \in Ids /\ initial + 1 \in 0..MaxId
  BY <1>1, ConstantsAssumption DEF Handles, Ids
<1>3. Slots' = {}
  BY <1>1 DEF Slots
<1>4. \A h \in held : h.id <= initial /\ h.id \in Nat
  BY DEF IInv, TypeOK, OneHandlePerId, Handles, Ids
<1>5. uses[initial + 1] = 0
  BY <1>1, <1>2 DEF IInv, Fresh, Ids
<1>6. uses' \in [Ids -> 0..MaxUses] /\ \A i \in Ids : i # initial + 1 => uses'[i] = uses[i]
  BY <1>1, <1>2, <1>5, ConstantsAssumption DEF IInv, TypeOK
<1>7. TypeOK'
  BY <1>1, <1>2, <1>6 DEF IInv, TypeOK
<1>8. Fresh'
  BY <1>1, <1>6 DEF IInv, Fresh, Ids
<1>9. OneHandlePerId'
  <2>1. held' \cup Slots' = held \cup {new}
    BY <1>1, <1>3
  <2>2. \A h \in held \cup {new} : h.id <= initial + 1
    BY <1>1, <1>4
  <2>3. \A h, k \in held \cup {new} : h.id = k.id => h = k
    <3>1. new.id = initial + 1 OBVIOUS
    <3>2. \A h \in held : h.id # new.id BY <1>1, <1>4, <3>1
    <3> QED BY <3>2 DEF IInv, OneHandlePerId
  <2>4. \A i \in 1..(initial + 1) : \E h \in held \cup {new} : h.id = i
    <3> SUFFICES ASSUME NEW i \in 1..(initial + 1)
                 PROVE  \E h \in held \cup {new} : h.id = i
        OBVIOUS
    <3>1. CASE i = initial + 1
      <4>1. new \in held \cup {new} /\ new.id = i BY <3>1
      <4> QED BY <4>1
    <3>2. CASE i # initial + 1
      <4>1. i \in 1..initial BY <1>1, <3>2
      <4> QED BY <1>1, <4>1 DEF IInv, OneHandlePerId
    <3> QED BY <3>1, <3>2
  <2> QED BY <1>1, <1>3, <2>1, <2>2, <2>3, <2>4 DEF OneHandlePerId
<1> QED BY <1>7, <1>8, <1>9 DEF IInv

LEMMA ReuseKeeps ==
  ASSUME IInv, NEW type \in Types, Reuse(type)
  PROVE  IInv'
<1>1. PICK h \in Slots :
        /\ uses[h.id] < MaxUses
        /\ free' = [free EXCEPT ![h] = @ - 1]
        /\ held' = held \cup {NextGen(h)}
        /\ uses' = [uses EXCEPT ![h.id] = @ + 1]
        /\ asked' = type
        /\ UNCHANGED initial
  BY DEF Reuse
<1> DEFINE new == NextGen(h)
<1>2. h \in Handles /\ free[h] = 1 /\ h \notin held /\ h.id \in Ids /\ h.id <= initial
  BY DEF Slots, IInv, OneHandlePerId, Handles
<1>3. new \in Handles /\ new.id = h.id
  BY <1>2, NextGenType
<1> HIDE DEF new
<1>4. free' \in [Handles -> Nat] /\ free'[h] = 0 /\ \A k \in Handles : k # h => free'[k] = free[k]
  BY <1>1, <1>2 DEF IInv, TypeOK
<1>5. Slots' = Slots \ {h}
  BY <1>4 DEF Slots
<1>6. held' = held \cup {new}
  BY <1>1 DEF new
<1>7. \A k \in held \cup (Slots \ {h}) : k.id # h.id
  BY <1>2 DEF IInv, OneHandlePerId
<1>8. uses' \in [Ids -> 0..MaxUses] /\ \A i \in Ids : i # h.id => uses'[i] = uses[i]
  BY <1>1, <1>2, ConstantsAssumption DEF IInv, TypeOK
<1>9. TypeOK'
  BY <1>1, <1>3, <1>4, <1>6, <1>8 DEF IInv, TypeOK
<1>10. Fresh'
  BY <1>1, <1>2, <1>8 DEF IInv, TypeOK, Fresh, Ids
<1>11. OneHandlePerId'
  <2>1. \A k \in held' \cup Slots' : k.id <= initial'
    BY <1>1, <1>2, <1>3, <1>5, <1>6 DEF IInv, OneHandlePerId
  <2>2. \A k, l \in held' \cup Slots' : k.id = l.id => k = l
    BY <1>3, <1>5, <1>6, <1>7 DEF IInv, OneHandlePerId
  <2>3. \A k \in Slots' : free'[k] = 1 /\ k \notin held'
    <3> SUFFICES ASSUME NEW k \in Slots \ {h} PROVE free'[k] = 1 /\ k \notin held'
        BY <1>5
    <3>1. k \in Handles /\ free[k] = 1 /\ k \notin held
      BY DEF Slots, IInv, OneHandlePerId
    <3>2. k # new BY <1>3, <1>7
    <3> QED BY <1>4, <1>6, <3>1, <3>2
  <2>4. \A i \in 1..initial' : \E k \in held' \cup Slots' : k.id = i
    <3> SUFFICES ASSUME NEW i \in 1..initial PROVE \E k \in held' \cup Slots' : k.id = i
        BY <1>1
    <3>1. PICK k \in held \cup Slots : k.id = i
      BY DEF IInv, OneHandlePerId
    <3>2. CASE k = h BY <1>3, <1>6, <3>1, <3>2
    <3>3. CASE k # h BY <1>5, <1>6, <3>1, <3>3
    <3> QED BY <3>2, <3>3
  <2> QED BY <2>1, <2>2, <2>3, <2>4 DEF OneHandlePerId
<1> QED BY <1>9, <1>10, <1>11 DEF IInv

LEMMA FreeKeeps ==
  ASSUME IInv, NEW h \in Handles, Free(h)
  PROVE  IInv'
<1>1. /\ h \in held /\ free' = [free EXCEPT ![h] = @ + 1] /\ held' = held \ {h}
      /\ UNCHANGED <<initial, uses, asked>>
  BY DEF Free
<1>2. h \notin Slots /\ free[h] = 0
  BY <1>1 DEF IInv, TypeOK, OneHandlePerId, Slots
<1>3. free' \in [Handles -> Nat] /\ free'[h] = 1 /\ \A k \in Handles : k # h => free'[k] = free[k]
  BY <1>1, <1>2 DEF IInv, TypeOK
<1>4. Slots' = Slots \cup {h}
  BY <1>3 DEF Slots
<1>5. held' \cup Slots' = held \cup Slots
  BY <1>1, <1>4
<1>6. \A k \in Slots' : free'[k] = 1 /\ k \notin held'
  <2> SUFFICES ASSUME NEW k \in Slots' PROVE free'[k] = 1 /\ k \notin held'
      OBVIOUS
  <2>1. CASE k = h BY <1>1, <1>3, <2>1
  <2>2. CASE k # h
    <3>1. k \in Slots /\ k \in Handles BY <1>4, <2>2 DEF Slots
    <3> QED BY <1>1, <1>3, <2>2, <3>1 DEF IInv, OneHandlePerId
  <2> QED BY <2>1, <2>2
<1>7. OneHandlePerId'
  BY <1>1, <1>5, <1>6 DEF IInv, OneHandlePerId
<1>8. TypeOK' /\ Fresh'
  BY <1>1, <1>3 DEF IInv, TypeOK, Fresh
<1> QED BY <1>7, <1>8 DEF IInv

LEMMA StepHolds == IInv /\ [Next]_vars => IInv'
<1> SUFFICES ASSUME IInv, [Next]_vars PROVE IInv'
    OBVIOUS
<1>1. ASSUME NEW t \in Types, NewId(t) PROVE IInv' BY <1>1, NewIdKeeps
<1>2. ASSUME NEW t \in Types, Reuse(t) PROVE IInv' BY <1>2, ReuseKeeps
<1>3. ASSUME NEW h \in Handles, Free(h) PROVE IInv' BY <1>3, FreeKeeps
<1>4. CASE UNCHANGED vars
  BY <1>4 DEF vars, IInv, TypeOK, OneHandlePerId, Fresh, Slots
<1> QED BY <1>1, <1>2, <1>3, <1>4 DEF Next

\* Ids, generations and types stay in their fields, for any number of each.
THEOREM TypeCorrect == Spec => []TypeOK
<1>1. Spec => []IInv BY InitHolds, StepHolds, PTL DEF Spec
<1> QED BY <1>1, PTL DEF IInv

\* Whatever is given out and freed, an id belongs to one handle.
THEOREM AlwaysOneHandlePerId == Spec => []OneHandlePerId
<1>1. Spec => []IInv BY InitHolds, StepHolds, PTL DEF Spec
<1> QED BY <1>1, PTL DEF IInv

----------------------------------------------------------------------------
LEMMA AgeStep ==
  ASSUME IInv, GenIsAge, [Next]_vars
  PROVE  GenIsAge'
<1>1. ASSUME NEW t \in Types, NewId(t) PROVE GenIsAge'
  <2> DEFINE new == [id |-> initial + 1, gen |-> 0, type |-> t]
  <2>0. initial \in Nat /\ initial < MaxId
    BY <1>1 DEF NewId, IInv, TypeOK
  <2>1. /\ held' = held \cup {new} /\ UNCHANGED free /\ Slots = {} /\ initial + 1 \in Ids
        /\ uses' = [uses EXCEPT ![initial + 1] = @ + 1] /\ initial \in Nat
    BY <1>1, <2>0, ConstantsAssumption DEF NewId, Ids
  <2>2. Slots' = {}
    BY <2>1 DEF Slots
  <2>3. uses[initial + 1] = 0
    BY <2>1 DEF IInv, Fresh, Ids
  <2>4. uses'[initial + 1] = 1 /\ \A i \in Ids : i # initial + 1 => uses'[i] = uses[i]
    BY <2>1, <2>3 DEF IInv, TypeOK
  <2>5. (1 - 1) % Gens = 0
    <3>1. (Gens * 0 + 0) % Gens = 0 BY ConstantsAssumption, Remainder
    <3> QED BY <3>1, ConstantsAssumption
  <2>6. new.gen = 0 /\ new.id = initial + 1
    OBVIOUS
  <2>7. uses'[new.id] > 0 /\ new.gen = (uses'[new.id] - 1) % Gens
    BY <2>4, <2>5, <2>6
  <2>8. \A h \in held : uses'[h.id] = uses[h.id]
    <3> SUFFICES ASSUME NEW h \in held PROVE uses'[h.id] = uses[h.id]
        OBVIOUS
    <3>1. h.id \in Ids /\ h.id <= initial
      BY DEF IInv, TypeOK, OneHandlePerId, Handles
    <3> QED BY <2>1, <2>4, <3>1 DEF Ids
  <2> HIDE DEF new
  <2>9. ASSUME NEW h \in held
        PROVE  uses'[h.id] > 0 /\ h.gen = (uses'[h.id] - 1) % Gens
    <3>1. uses[h.id] > 0 /\ h.gen = (uses[h.id] - 1) % Gens
      BY DEF GenIsAge
    <3> QED BY <2>8, <3>1
  <2>10. held' \cup Slots' = held \cup {new}
    BY <2>1, <2>2
  <2> QED BY <2>7, <2>9, <2>10 DEF GenIsAge
<1>2. ASSUME NEW t \in Types, Reuse(t) PROVE GenIsAge'
  <2>1. PICK h \in Slots :
          /\ free' = [free EXCEPT ![h] = @ - 1]
          /\ held' = held \cup {NextGen(h)}
          /\ uses' = [uses EXCEPT ![h.id] = @ + 1]
    BY <1>2 DEF Reuse
  <2> DEFINE new == NextGen(h)
  <2>2. h \in Handles /\ h.id \in Ids /\ free[h] = 1 /\ new.id = h.id /\ new.gen = (h.gen + 1) % Gens
    BY NextGenType DEF Slots, IInv, OneHandlePerId, Handles, NextGen
  <2>3. uses[h.id] \in Nat /\ uses[h.id] > 0 /\ h.gen = (uses[h.id] - 1) % Gens
    BY <2>2 DEF GenIsAge, IInv, TypeOK
  <2>4. uses'[h.id] = uses[h.id] + 1 /\ \A i \in Ids : i # h.id => uses'[i] = uses[i]
    BY <2>1, <2>2 DEF IInv, TypeOK
  <2>5. new.gen = (uses'[new.id] - 1) % Gens
    <3> DEFINE n == uses[h.id] - 1
    <3>1. n \in Nat /\ h.gen = n % Gens /\ uses'[h.id] - 1 = n + 1
      BY <2>3, <2>4
    <3> HIDE DEF n
    <3>2. ((n % Gens) + 1) % Gens = (n + 1) % Gens
      BY <3>1, ConstantsAssumption, SuccessorRemainder
    <3> QED BY <2>2, <3>1, <3>2
  <2>6. uses'[new.id] > 0
    BY <2>2, <2>3, <2>4
  <2> HIDE DEF new
  <2>7. held' = held \cup {new}
    BY <2>1 DEF new
  <2>8. Slots' \subseteq Slots \ {h}
    BY <2>1, <2>2 DEF Slots, IInv, TypeOK
  <2>9. \A k \in held \cup (Slots \ {h}) : uses'[k.id] = uses[k.id]
    <3> SUFFICES ASSUME NEW k \in held \cup (Slots \ {h}) PROVE uses'[k.id] = uses[k.id]
        OBVIOUS
    <3>1. k \in Handles /\ k.id \in Ids
      BY DEF Slots, IInv, TypeOK, Handles
    <3>2. h \notin held
      BY DEF IInv, OneHandlePerId
    <3>3. k # h /\ k.id # h.id
      BY <3>2 DEF IInv, OneHandlePerId
    <3> QED BY <2>4, <3>1, <3>3
  <2> QED BY <2>5, <2>6, <2>7, <2>8, <2>9 DEF GenIsAge
<1>3. ASSUME NEW h \in Handles, Free(h) PROVE GenIsAge'
  <2>1. h \in held /\ free' = [free EXCEPT ![h] = @ + 1] /\ held' = held \ {h} /\ UNCHANGED uses
    BY <1>3 DEF Free
  <2>2. Slots' \subseteq Slots \cup {h}
    BY <2>1 DEF Slots, IInv, TypeOK
  <2> QED BY <2>1, <2>2 DEF GenIsAge
<1>4. CASE UNCHANGED vars
  BY <1>4 DEF vars, GenIsAge, Slots
<1> QED BY <1>1, <1>2, <1>3, <1>4 DEF Next

\* A generation says which use of its id a handle is from, as far as it can count.
THEOREM GenIsAlwaysAge == Spec => []GenIsAge
<1>1. Init => GenIsAge
  BY DEF Init, GenIsAge, Slots
<1>2. Spec => [](IInv /\ GenIsAge)
  <2>1. Init => IInv /\ GenIsAge BY InitHolds, <1>1
  <2>2. IInv /\ GenIsAge /\ [Next]_vars => (IInv /\ GenIsAge)' BY StepHolds, AgeStep
  <2> QED BY <2>1, <2>2, PTL DEF Spec
<1> QED BY <1>2, PTL
============================================================================
