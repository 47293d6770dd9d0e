------------------------ MODULE RandomXWrapperProofs ------------------------
(***************************************************************************)
(* Ownership of RandomX resources for any set of wrappers and addresses    *)
(* and any number of threads.                                              *)
(***************************************************************************)
EXTENDS RandomXWrapper, TLAPS

(* A destroyed or never constructed wrapper holds nothing.                 *)
DeadHoldNothing ==
  \A w \in Wrappers : ~exists[w] => /\ cache[w] = Null /\ dataset[w] = Null
                                    /\ vms[w] = {}

OwnInv == TypeOK /\ DeadHoldNothing /\ NothingLeaks /\ UniquelyHeld /\ VmsHaveTheirMemory

USE WrapperAssumption

(* The initial state satisfies it.                                         *)
LEMMA OwnInit == Init => OwnInv
BY DEF Init, OwnInv, TypeOK, DeadHoldNothing, NothingLeaks, UniquelyHeld, VmsHaveTheirMemory,
       Held

(* Giving back what w holds and taking c, d and new instead.               *)
LEMMA HoldsKeepsOwn ==
  ASSUME OwnInv, NEW w \in Wrappers, exists[w],
         NEW c \in Handles \cup {Null}, NEW d \in Handles \cup {Null},
         NEW new \in SUBSET Handles,
         c \notin Freed(w), d \notin Freed(w), new \cap Freed(w) = {},
         c = d => c = Null,
         c \notin new, d \notin new,
         new # {} => c # Null /\ d # Null,
         Holds(w, c, d, new)
  PROVE  OwnInv'
<1>1. TypeOK'
  BY DEF OwnInv, TypeOK, Holds, Freed, Kept
<1>2. DeadHoldNothing'
  BY DEF OwnInv, TypeOK, DeadHoldNothing, Holds
<1>3. /\ cache'[w] = c /\ dataset'[w] = d /\ vms'[w] = new
      /\ \A v \in Wrappers \ {w} : /\ cache'[v] = cache[v] /\ dataset'[v] = dataset[v]
                                   /\ vms'[v] = vms[v]
      /\ \A v \in Wrappers : exists'[v] = exists[v]
  BY DEF OwnInv, TypeOK, Holds
<1>4. /\ Held(w)' = ({c, d} \ {Null}) \cup new
      /\ \A v \in Wrappers \ {w} : Held(v)' = Held(v)
  BY <1>3 DEF Held
<1>5. live' = Freed(w) \cup Held(w)'
  BY <1>4 DEF Holds
<1>6. \A v \in Wrappers \ {w} : Held(v) \subseteq Freed(w)
  BY DEF OwnInv, UniquelyHeld, Freed
<1>7. NothingLeaks'
  <2>1. ASSUME NEW h \in live' PROVE \E v \in Wrappers : exists'[v] /\ h \in Held(v)'
    <3>1. CASE h \in Held(w)'
      BY <1>3, <3>1
    <3>2. CASE h \in Freed(w)
      <4>1. PICK v \in Wrappers : exists[v] /\ h \in Held(v)
        BY <3>2 DEF OwnInv, NothingLeaks, Freed
      <4>2. v # w
        BY <3>2, <4>1 DEF Freed
      <4>3. QED BY <1>3, <1>4, <4>1, <4>2
    <3>3. QED BY <1>5, <2>1, <3>1, <3>2
  <2>2. QED BY <2>1 DEF NothingLeaks
<1>8. UniquelyHeld'
  <2>1. \A v \in Wrappers : Held(v)' \subseteq live'
    BY <1>4, <1>5, <1>6
  <2>2. \A v \in Wrappers \ {w} : Held(v)' \cap Held(w)' = {}
    BY <1>4, <1>6
  <2>3. \A u, v \in Wrappers : u # v => Held(u)' \cap Held(v)' = {}
    BY <1>4, <2>2 DEF OwnInv, UniquelyHeld
  <2>4. \A v \in Wrappers :
          /\ cache'[v] \notin vms'[v] /\ dataset'[v] \notin vms'[v]
          /\ cache'[v] = dataset'[v] => cache'[v] = Null
    BY <1>3 DEF OwnInv, UniquelyHeld
  <2>5. QED BY <2>1, <2>3, <2>4 DEF UniquelyHeld
<1>9. VmsHaveTheirMemory'
  <2>1. ASSUME NEW v \in Wrappers, NEW h \in vms'[v]
        PROVE  /\ backing'[h] = <<cache'[v], dataset'[v]>>
               /\ {cache'[v], dataset'[v]} \subseteq live'
    <3>1. CASE v = w
      BY <1>1, <1>3, <1>4, <1>5, <2>1, <3>1 DEF TypeOK, Holds
    <3>2. CASE v # w
      <4>1. h \in vms[v] /\ h \in Handles /\ h \in Freed(w)
        BY <1>3, <1>6, <2>1, <3>2 DEF OwnInv, TypeOK, Held
      <4>2. backing[h] = <<cache[v], dataset[v]>> /\ {cache[v], dataset[v]} \subseteq live
        BY <4>1 DEF OwnInv, VmsHaveTheirMemory
      <4>3. cache[v] # Null /\ dataset[v] # Null
        BY <4>2 DEF OwnInv, TypeOK
      <4>4. {cache[v], dataset[v]} \subseteq Freed(w)
        BY <1>6, <3>2, <4>3 DEF Held
      <4>5. h \notin new
        BY <4>1
      <4>6. backing'[h] = backing[h]
        BY <4>1, <4>5 DEF Holds, Kept
      <4>7. QED BY <1>3, <1>5, <3>2, <4>2, <4>4, <4>6
    <3>3. QED BY <3>1, <3>2
  <2>2. QED BY <2>1 DEF VmsHaveTheirMemory
<1>10. QED BY <1>1, <1>2, <1>7, <1>8, <1>9 DEF OwnInv

(* initialize(), with every way it can end.                                *)
LEMMA InitializeKeepsOwn ==
  ASSUME OwnInv, NEW w \in Wrappers, NEW n, Initialize(w, n)
  PROVE  OwnInv'
<1>1. exists[w]
  BY DEF Initialize
<1>2. Freed(w) \subseteq Handles
  BY DEF OwnInv, TypeOK, Freed
<1>3. CASE NoMemory(w)
  <2>1. Holds(w, Null, Null, {})
    BY <1>3 DEF NoMemory
  <2>2. QED BY <1>1, <1>2, <2>1, HoldsKeepsOwn
<1>4. CASE Built(w, n)
  <2>1. PICK c, d \in Handles \ Freed(w), new \in SUBSET (Handles \ Freed(w)) :
          /\ c # d /\ c \notin new /\ d \notin new
          /\ Holds(w, c, d, new)
    BY <1>4 DEF Built
  <2>2. QED BY <1>1, <2>1, HoldsKeepsOwn
<1>5. QED BY <1>3, <1>4 DEF Initialize

(* Moving into storage that holds nothing: what w held, v holds.           *)
LEMMA HandOverKeepsOwn ==
  ASSUME OwnInv, NEW v \in Wrappers, NEW w \in Wrappers, v # w, exists[w],
         exists' = [exists EXCEPT ![v] = TRUE],
         cache' = HandOver(cache, v, w, Null),
         dataset' = HandOver(dataset, v, w, Null),
         vms' = HandOver(vms, v, w, {}),
         live' = live \ Held(v),
         backing' \in {backing, Kept(live')}
  PROVE  OwnInv'
<1>1. TypeOK'
  BY DEF OwnInv, TypeOK, HandOver, Kept
<1>2. /\ cache'[v] = cache[w] /\ dataset'[v] = dataset[w] /\ vms'[v] = vms[w]
      /\ cache'[w] = Null /\ dataset'[w] = Null /\ vms'[w] = {}
      /\ \A u \in Wrappers \ {v, w} : /\ cache'[u] = cache[u] /\ dataset'[u] = dataset[u]
                                      /\ vms'[u] = vms[u]
      /\ exists'[v] /\ \A u \in Wrappers \ {v} : exists'[u] = exists[u]
  BY DEF OwnInv, TypeOK, HandOver
<1>3. /\ Held(v)' = Held(w)
      /\ Held(w)' = {}
      /\ \A u \in Wrappers \ {v, w} : Held(u)' = Held(u)
  BY <1>2 DEF Held
<1>4. \A u \in Wrappers \ {v} : Held(u) \subseteq live'
  BY DEF OwnInv, UniquelyHeld
<1>5. DeadHoldNothing'
  BY <1>2 DEF OwnInv, DeadHoldNothing
<1>6. NothingLeaks'
  <2>1. ASSUME NEW h \in live' PROVE \E u \in Wrappers : exists'[u] /\ h \in Held(u)'
    <3>1. PICK u \in Wrappers : exists[u] /\ h \in Held(u)
      BY DEF OwnInv, NothingLeaks
    <3>2. u # v
      BY <3>1
    <3>3. CASE u = w
      BY <1>2, <1>3, <3>1, <3>3
    <3>4. CASE u # w
      BY <1>2, <1>3, <3>1, <3>2, <3>4
    <3>5. QED BY <3>3, <3>4
  <2>2. QED BY <2>1 DEF NothingLeaks
<1>7. UniquelyHeld'
  <2>1. \A u \in Wrappers : Held(u)' \subseteq live'
    BY <1>3, <1>4
  <2>2. \A t, u \in Wrappers : t # u => Held(t)' \cap Held(u)' = {}
    BY <1>3 DEF OwnInv, UniquelyHeld
  <2>3. \A u \in Wrappers :
          /\ cache'[u] \notin vms'[u] /\ dataset'[u] \notin vms'[u]
          /\ cache'[u] = dataset'[u] => cache'[u] = Null
    BY <1>2 DEF OwnInv, UniquelyHeld
  <2>4. QED BY <2>1, <2>2, <2>3 DEF UniquelyHeld
<1>8. VmsHaveTheirMemory'
  <2>1. ASSUME NEW t \in Wrappers, t # v, NEW h \in vms[t]
        PROVE  /\ backing'[h] = <<cache[t], dataset[t]>>
               /\ {cache[t], dataset[t]} \subseteq live'
    <3>1. backing[h] = <<cache[t], dataset[t]>> /\ {cache[t], dataset[t]} \subseteq live
      BY <2>1 DEF OwnInv, VmsHaveTheirMemory
    <3>2. cache[t] # Null /\ dataset[t] # Null
      BY <3>1 DEF OwnInv, TypeOK
    <3>3. {cache[t], dataset[t], h} \subseteq live' /\ h \in Handles
      BY <1>4, <2>1, <3>2 DEF Held, OwnInv, TypeOK
    <3>4. QED BY <3>1, <3>3 DEF Kept
  <2>2. ASSUME NEW u \in Wrappers, NEW h \in vms'[u]
        PROVE  /\ backing'[h] = <<cache'[u], dataset'[u]>>
               /\ {cache'[u], dataset'[u]} \subseteq live'
    <3>1. CASE u = v
      <4>1. h \in vms[w] /\ cache'[u] = cache[w] /\ dataset'[u] = dataset[w]
        BY <1>2, <2>2, <3>1
      <4>2. QED BY <2>1, <4>1
    <3>2. CASE u = w
      BY <1>2, <2>2, <3>2
    <3>3. CASE u \notin {v, w}
      <4>1. h \in vms[u] /\ cache'[u] = cache[u] /\ dataset'[u] = dataset[u]
        BY <1>2, <2>2, <3>3
      <4>2. QED BY <2>1, <3>3, <4>1
    <3>4. QED BY <3>1, <3>2, <3>3
  <2>3. QED BY <2>2 DEF VmsHaveTheirMemory
<1>9. QED BY <1>1, <1>5, <1>6, <1>7, <1>8 DEF OwnInv

(* Constructing adds a wrapper that holds nothing.                         *)
LEMMA ConstructKeepsOwn ==
  ASSUME OwnInv, NEW w \in Wrappers, Construct(w)
  PROVE  OwnInv'
<1>1. /\ cache' = cache /\ dataset' = dataset /\ vms' = vms
      /\ live' = live /\ backing' = backing
      /\ exists' = [exists EXCEPT ![w] = TRUE]
  BY DEF Construct, OwnInv, TypeOK, DeadHoldNothing
<1>2. TypeOK'
  BY <1>1 DEF Construct, OwnInv, TypeOK
<1>3. DeadHoldNothing'
  BY <1>1 DEF OwnInv, TypeOK, DeadHoldNothing
<1>4. NothingLeaks'
  BY <1>1 DEF OwnInv, TypeOK, NothingLeaks, Held
<1>5. UniquelyHeld' /\ VmsHaveTheirMemory'
  BY <1>1 DEF OwnInv, UniquelyHeld, VmsHaveTheirMemory, Held
<1>6. QED BY <1>2, <1>3, <1>4, <1>5 DEF OwnInv

(* The destructor gives everything back.                                   *)
LEMMA DestructKeepsOwn ==
  ASSUME OwnInv, NEW w \in Wrappers, Destruct(w)
  PROVE  OwnInv'
<1>1. TypeOK'
  BY DEF Destruct, OwnInv, TypeOK, Kept
<1>2. /\ cache'[w] = Null /\ dataset'[w] = Null /\ vms'[w] = {} /\ ~exists'[w]
      /\ \A u \in Wrappers \ {w} : /\ cache'[u] = cache[u] /\ dataset'[u] = dataset[u]
                                   /\ vms'[u] = vms[u] /\ exists'[u] = exists[u]
      /\ live' = live \ Held(w)
  BY DEF Destruct, OwnInv, TypeOK
<1>3. Held(w)' = {} /\ \A u \in Wrappers \ {w} : Held(u)' = Held(u)
  BY <1>2 DEF Held
<1>4. \A u \in Wrappers \ {w} : Held(u) \subseteq live'
  BY <1>2 DEF OwnInv, UniquelyHeld
<1>5. DeadHoldNothing'
  BY <1>2 DEF OwnInv, DeadHoldNothing
<1>6. NothingLeaks'
  <2>1. ASSUME NEW h \in live' PROVE \E u \in Wrappers : exists'[u] /\ h \in Held(u)'
    <3>1. PICK u \in Wrappers : exists[u] /\ h \in Held(u)
      BY <1>2 DEF OwnInv, NothingLeaks
    <3>2. u # w
      BY <1>2, <3>1
    <3>3. QED BY <1>2, <1>3, <3>1, <3>2
  <2>2. QED BY <2>1 DEF NothingLeaks
<1>7. UniquelyHeld'
  BY <1>2, <1>3, <1>4 DEF OwnInv, UniquelyHeld
<1>8. VmsHaveTheirMemory'
  <2>1. ASSUME NEW u \in Wrappers, NEW h \in vms'[u]
        PROVE  /\ backing'[h] = <<cache'[u], dataset'[u]>>
               /\ {cache'[u], dataset'[u]} \subseteq live'
    <3>1. u # w /\ h \in vms[u]
      BY <1>2, <2>1
    <3>2. backing[h] = <<cache[u], dataset[u]>> /\ {cache[u], dataset[u]} \subseteq live
      BY <3>1 DEF OwnInv, VmsHaveTheirMemory
    <3>3. cache[u] # Null /\ dataset[u] # Null
      BY <3>2 DEF OwnInv, TypeOK
    <3>4. {cache[u], dataset[u], h} \subseteq live' /\ h \in Handles
      BY <1>4, <3>1, <3>3 DEF Held, OwnInv, TypeOK
    <3>5. backing' = Kept(live')
      BY DEF Destruct
    <3>6. QED BY <1>2, <3>1, <3>2, <3>4, <3>5 DEF Kept
  <2>2. QED BY <2>1 DEF VmsHaveTheirMemory
<1>9. QED BY <1>1, <1>5, <1>6, <1>7, <1>8 DEF OwnInv

(* Move construction is a hand-over into storage that holds nothing.       *)
LEMMA MoveConstructKeepsOwn ==
  ASSUME OwnInv, NEW v \in Wrappers, NEW w \in Wrappers, MoveConstruct(v, w)
  PROVE  OwnInv'
<1>1. v # w /\ exists[w]
  BY DEF MoveConstruct
<1>2. Held(v) = {}
  BY DEF MoveConstruct, OwnInv, DeadHoldNothing, Held
<1>3. live' = live \ Held(v)
  BY <1>2 DEF MoveConstruct
<1>4. backing' = backing
  BY DEF MoveConstruct
<1>5. QED BY <1>1, <1>3, <1>4, HandOverKeepsOwn DEF MoveConstruct

(* Move assignment first gives back what the target held.                  *)
LEMMA MoveAssignKeepsOwn ==
  ASSUME OwnInv, NEW v \in Wrappers, NEW w \in Wrappers, MoveAssign(v, w)
  PROVE  OwnInv'
<1>1. exists' = [exists EXCEPT ![v] = TRUE]
  BY DEF MoveAssign, OwnInv, TypeOK
<1>2. QED BY <1>1, HandOverKeepsOwn DEF MoveAssign

(* Every step keeps the invariant.                                         *)
LEMMA OwnStep ==
  ASSUME OwnInv, [Next]_vars
  PROVE  OwnInv'
<1>1. ASSUME NEW w \in Wrappers, Construct(w) \/ Destruct(w) PROVE OwnInv'
  BY <1>1, ConstructKeepsOwn, DestructKeepsOwn
<1>2. ASSUME NEW v \in Wrappers, NEW w \in Wrappers,
             MoveConstruct(v, w) \/ MoveAssign(v, w)
      PROVE  OwnInv'
  BY <1>2, MoveConstructKeepsOwn, MoveAssignKeepsOwn
<1>3. ASSUME NEW w \in Wrappers, NEW n, Initialize(w, n) \/ InitializeAndroid(w, n)
      PROVE  OwnInv'
  BY <1>3, InitializeKeepsOwn DEF InitializeAndroid
<1>4. CASE UNCHANGED vars
  BY <1>4 DEF vars, OwnInv, TypeOK, DeadHoldNothing, NothingLeaks, UniquelyHeld,
     VmsHaveTheirMemory, Held
<1>5. ASSUME NEW w \in Wrappers, NEW temp, RefuseHot(w, temp) PROVE OwnInv'
  BY <1>4, <1>5 DEF RefuseHot
<1>6. QED BY <1>1, <1>2, <1>3, <1>4, <1>5 DEF Next

(* Every variable keeps its type; no null pointer is ever held as a VM.    *)
THEOREM TypeCorrect == Spec => []TypeOK
<1>1. OwnInv /\ [Next]_vars => OwnInv'
  BY OwnStep
<1>2. OwnInv => TypeOK
  BY DEF OwnInv
<1>3. QED BY <1>1, <1>2, OwnInit, PTL DEF Spec

(* Whatever is allocated is held by a wrapper that exists: no sequence of  *)
(* failures, re-initialisations and moves leaks.                           *)
THEOREM NoLeak == Spec => []NothingLeaks
<1>1. OwnInv /\ [Next]_vars => OwnInv'
  BY OwnStep
<1>2. OwnInv => NothingLeaks
  BY DEF OwnInv
<1>3. QED BY <1>1, <1>2, OwnInit, PTL DEF Spec

(* Each address has at most one holder, and only while it is in use: no    *)
(* double free, no use after free.                                         *)
THEOREM SingleOwner == Spec => []UniquelyHeld
<1>1. OwnInv /\ [Next]_vars => OwnInv'
  BY OwnStep
<1>2. OwnInv => UniquelyHeld
  BY DEF OwnInv
<1>3. QED BY <1>1, <1>2, OwnInit, PTL DEF Spec

(* A VM's cache and dataset are alive and are its wrapper's.               *)
THEOREM VmMemory == Spec => []VmsHaveTheirMemory
<1>1. OwnInv /\ [Next]_vars => OwnInv'
  BY OwnStep
<1>2. OwnInv => VmsHaveTheirMemory
  BY DEF OwnInv
<1>3. QED BY <1>1, <1>2, OwnInit, PTL DEF Spec
=============================================================================
