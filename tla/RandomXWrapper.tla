--------------------------- MODULE RandomXWrapper ---------------------------
(***************************************************************************)
(* Ownership in libs/randomx_wrapper.cpp: wrapper objects that own a       *)
(* RandomX cache, a dataset and a VM per mining thread, allocate them in   *)
(* initialize(), may fail half way, hand them over when moved, and give    *)
(* them back in destroy().  The RandomX library is the allocator: a        *)
(* released address may come back from a later allocation.                 *)
(*                                                                         *)
(* Each member function is one action: a wrapper is used by one thread.    *)
(* The order of the VMs, their flags and the bytes hashed are left out.    *)
(***************************************************************************)
EXTENDS Integers, FiniteSets

CONSTANTS Wrappers,     \* storage a RandomXWrapper may be constructed in
          Handles,      \* addresses the RandomX library may return
          Null,         \* nullptr
          MaxThreads    \* bound: the num_threads a caller asks for

ASSUME WrapperAssumption == Null \notin Handles /\ MaxThreads \in Nat

(* Readings on either side of every threshold of initialize_android().     *)
Levels == {19, 39, 40}
Temps  == {40, 45, 55, 56}

VARIABLES
  exists,       \* the wrapper is constructed and not yet destroyed
  cache,        \* m_cache
  dataset,      \* m_dataset
  vms,          \* m_vms
  live,         \* addresses the library has handed out
  backing       \* the cache and dataset a VM was created on

vars == <<exists, cache, dataset, vms, live, backing>>

(* Every variable has its type: a VM that is held was created, it is no    *)
(* null pointer.                                                           *)
TypeOK ==
  /\ exists \in [Wrappers -> BOOLEAN]
  /\ cache \in [Wrappers -> Handles \cup {Null}]
  /\ dataset \in [Wrappers -> Handles \cup {Null}]
  /\ vms \in [Wrappers -> SUBSET Handles]
  /\ live \in SUBSET Handles
  /\ backing \in [Handles -> (Handles \cup {Null}) \X (Handles \cup {Null})]

Init ==
  /\ exists = [w \in Wrappers |-> FALSE]
  /\ cache = [w \in Wrappers |-> Null]
  /\ dataset = [w \in Wrappers |-> Null]
  /\ vms = [w \in Wrappers |-> {}]
  /\ live = {}
  /\ backing = [h \in Handles |-> <<Null, Null>>]

(* What the wrapper w holds.                                               *)
Held(w) == ({cache[w], dataset[w]} \ {Null}) \cup vms[w]

(* What is left of backing when only the addresses in use remain.          *)
Kept(use) == [h \in Handles |-> IF h \in use THEN backing[h] ELSE <<Null, Null>>]

-----------------------------------------------------------------------------

Construct(w) ==
  /\ ~exists[w]
  /\ exists' = [exists EXCEPT ![w] = TRUE]
  /\ cache' = [cache EXCEPT ![w] = Null]
  /\ dataset' = [dataset EXCEPT ![w] = Null]
  /\ vms' = [vms EXCEPT ![w] = {}]
  /\ UNCHANGED <<live, backing>>

(* The destructor calls destroy().                                         *)
Destruct(w) ==
  /\ exists[w]
  /\ exists' = [exists EXCEPT ![w] = FALSE]
  /\ live' = live \ Held(w)
  /\ cache' = [cache EXCEPT ![w] = Null]
  /\ dataset' = [dataset EXCEPT ![w] = Null]
  /\ vms' = [vms EXCEPT ![w] = {}]
  /\ backing' = Kept(live')

(* The members of w after v has taken them over.                           *)
HandOver_KeepsSource(m, v, w, empty) == [m EXCEPT ![v] = m[w]]      \* mutant
HandOver(m, v, w, empty) == [m EXCEPT ![v] = m[w], ![w] = empty]

MoveConstruct(v, w) ==
  /\ ~exists[v] /\ exists[w]
  /\ exists' = [exists EXCEPT ![v] = TRUE]
  /\ cache' = HandOver(cache, v, w, Null)
  /\ dataset' = HandOver(dataset, v, w, Null)
  /\ vms' = HandOver(vms, v, w, {})
  /\ UNCHANGED <<live, backing>>

(* Self-assignment changes nothing.                                        *)
MoveAssign_Leaks(v, w) ==                            \* mutant: no destroy()
  /\ exists[v] /\ exists[w]
  /\ v # w
  /\ cache' = HandOver(cache, v, w, Null)
  /\ dataset' = HandOver(dataset, v, w, Null)
  /\ vms' = HandOver(vms, v, w, {})
  /\ UNCHANGED <<exists, live, backing>>

MoveAssign(v, w) ==
  /\ exists[v] /\ exists[w]
  /\ v # w
  /\ live' = live \ Held(v)
  /\ cache' = HandOver(cache, v, w, Null)
  /\ dataset' = HandOver(dataset, v, w, Null)
  /\ vms' = HandOver(vms, v, w, {})
  /\ backing' = Kept(live')
  /\ UNCHANGED exists

-----------------------------------------------------------------------------
(* initialize() begins with destroy() and ends in one of four ways.  Freed *)
(* is what is in use once the old resources are back.                      *)

Freed(w) == live \ Held(w)

Holds_KeepsVms(w, c, d, new) ==                 \* mutant: no m_vms.clear()
  /\ cache' = [cache EXCEPT ![w] = c]
  /\ dataset' = [dataset EXCEPT ![w] = d]
  /\ vms' = [vms EXCEPT ![w] = @ \cup new]
  /\ live' = Freed(w) \cup ({c, d} \ {Null}) \cup new
  /\ backing' = [h \in Handles |-> IF h \in new THEN <<c, d>> ELSE Kept(Freed(w))[h]]
  /\ UNCHANGED exists

Holds(w, c, d, new) ==
  /\ cache' = [cache EXCEPT ![w] = c]
  /\ dataset' = [dataset EXCEPT ![w] = d]
  /\ vms' = [vms EXCEPT ![w] = new]
  /\ live' = Freed(w) \cup ({c, d} \ {Null}) \cup new
  /\ backing' = [h \in Handles |-> IF h \in new THEN <<c, d>> ELSE Kept(Freed(w))[h]]
  /\ UNCHANGED exists

(* No cache; or no dataset, and the cache given back.                      *)
NoMemory(w) == Holds(w, Null, Null, {})

Built_PushesNull(w, n) ==                            \* mutant: no null check
  \E c, d \in Handles \ Freed(w), new \in SUBSET ((Handles \cup {Null}) \ Freed(w)) :
    /\ c # d /\ c \notin new /\ d \notin new
    /\ Cardinality(new) <= n
    /\ Holds(w, c, d, new)

(* All num_threads VMs; or fewer, when one can be created neither with nor *)
(* without JIT: the exception leaves what was built so far in place.       *)
Built(w, n) ==
  \E c, d \in Handles \ Freed(w), new \in SUBSET (Handles \ Freed(w)) :
    /\ c # d /\ c \notin new /\ d \notin new
    /\ Cardinality(new) <= n
    /\ Holds(w, c, d, new)

Initialize(w, n) == exists[w] /\ (NoMemory(w) \/ Built(w, n))

(* initialize_android(): fewer threads on a low battery or a warm device.  *)
Least(a, b) == IF a < b THEN a ELSE b

BatteryCap(level, n) ==
  IF level < 20 THEN Least(n, 1) ELSE IF level < 40 THEN Least(n, 2) ELSE n

ThermalCap(temp, n) ==
  IF temp > 45 THEN Least(n, 1) ELSE IF temp > 40 THEN Least(n, 2) ELSE n

AndroidThreads(n) ==
  {ThermalCap(temp, BatteryCap(level, n)) : level \in Levels, temp \in {t \in Temps : t <= 55}}

InitializeAndroid(w, n) == \E t \in AndroidThreads(n) : Initialize(w, t)

(* Above 55 degrees it returns false before destroy(): what the wrapper    *)
(* held it still holds.                                                    *)
RefuseHot(w, temp) == exists[w] /\ temp > 55 /\ UNCHANGED vars

Next ==
  \/ \E w \in Wrappers : Construct(w) \/ Destruct(w)
  \/ \E v, w \in Wrappers : MoveConstruct(v, w) \/ MoveAssign(v, w)
  \/ \E w \in Wrappers, n \in 0..MaxThreads : Initialize(w, n) \/ InitializeAndroid(w, n)
  \/ \E w \in Wrappers, temp \in Temps : RefuseHot(w, temp)

Spec == Init /\ [][Next]_vars

-----------------------------------------------------------------------------
(* Nothing leaks: whatever the library handed out is held by a wrapper     *)
(* that still exists, after failures, re-initialisation and moves too.     *)
NothingLeaks ==
  \A h \in live : \E w \in Wrappers : exists[w] /\ h \in Held(w)

(* Nothing is freed twice or used after it was freed: a wrapper holds only *)
(* what is in use, no two wrappers hold the same address, and no address   *)
(* serves as two things.                                                   *)
UniquelyHeld ==
  /\ \A w \in Wrappers : Held(w) \subseteq live
  /\ \A v, w \in Wrappers : v # w => Held(v) \cap Held(w) = {}
  /\ \A w \in Wrappers :
       /\ cache[w] \notin vms[w] /\ dataset[w] \notin vms[w]
       /\ cache[w] = dataset[w] => cache[w] = Null

(* A VM hashes with the cache and dataset it was created on: they are the  *)
(* ones its wrapper holds, wherever the VM has been moved to since.        *)
VmsHaveTheirMemory ==
  \A w \in Wrappers : \A h \in vms[w] :
    /\ backing[h] = <<cache[w], dataset[w]>>
    /\ {cache[w], dataset[w]} \subseteq live

=============================================================================
