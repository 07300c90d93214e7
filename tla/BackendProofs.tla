---------------------------- MODULE BackendProofs ----------------------------
(***************************************************************************)
(* What Backend objects do for any number of them, of windows and of names *)
(* of what they make.                                                      *)
(*                                                                         *)
(* One inductive invariant, BInv: which attributes the object of create()  *)
(* or ~Backend() has at each stage, that a Backend of the program is empty *)
(* or whole, that no two have parts of the same init(), and exactly which  *)
(* objects exist.                                                          *)
(***************************************************************************)
EXTENDS Backend, TLAPS

USE BackendAssumption


----------------------------------------------------------------------------
(* The attributes init() has stored when a stage of it is next.            *)
Made(stage) ==
  IF stage \in {"volk", "instance"} THEN {}
  ELSE IF stage = "surface" THEN {"instance", "messenger"}
  ELSE IF stage = "device" THEN {"instance", "messenger", "surface"}
  ELSE IF stage = "pool" THEN Kinds \ {"pool"}
  ELSE Kinds

(* The attributes whose objects exist still when a stage is next: all but  *)
(* what the destructor is past.                                            *)
Left(stage) ==
  IF stage = "~surface" THEN Kinds \ {"device"}
  ELSE IF stage = "~messenger" THEN {"instance", "messenger", "pool"}
  ELSE IF stage = "~instance" THEN {"instance", "pool"}
  ELSE IF stage = "nullify" THEN {"pool"}
  ELSE Kinds

InitStages == {"volk", "instance", "surface", "device", "pool", "surface_caps"}

(* All a Backend has comes from one init(), which its instance names.      *)
Uniform(b) ==
  /\ \A k \in Kinds : b.has[k] \in {Null, b.has["instance"]}
  /\ b.nulled => b.has["instance"] = Null

SelfShape ==
  /\ Uniform(self)
  /\ self.nulled <=> pc = "idle"
  /\ pc \in InitStages =>
       \A k \in Kinds : self.has[k] # Null <=> k \in Made(pc)

(* What create() returned is whole, wherever it was moved since.           *)
Whole ==
  \A b \in Backends :
    /\ Uniform(backend[b])
    /\ ~backend[b].nulled =>
         \A k \in Kinds : backend[b].has[k] = backend[b].has["instance"]
    /\ backend[b].has["instance"] = Null => backend[b].nulled

(* No two Backends have parts of one init(), nor of one whose objects were *)
(* abandoned.                                                              *)
Apart ==
  \A id \in Ids :
    /\ \A b \in Backends : backend[b].has["instance"] = id =>
         /\ self.has["instance"] # id
         /\ \A c \in Backends \ {b} : backend[c].has["instance"] # id
    /\ \A k \in Kinds : Object(k, id) \in abandoned =>
         /\ k # "pool"
         /\ Object("instance", id) \in abandoned
         /\ self.has["instance"] # id
         /\ \A b \in Backends : backend[b].has["instance"] # id

(* What exists: what Backends refer to, but for what a destructor is past, *)
(* and what was abandoned.                                                 *)
Accounted ==
  \A k \in Kinds, id \in Ids :
    Object(k, id) \in live <=>
      \/ k \in Left(pc) /\ self.has[k] = id
      \/ \E b \in Backends : backend[b].has[k] = id
      \/ Object(k, id) \in abandoned

(* Handles that clients return in time point to the pools of Backends the  *)
(* program has.                                                            *)
HandlesPooled ==
  \A p \in handles \ KeptPools : \E b \in Backends : backend[b].has["pool"] = p

BInv ==
  /\ TypeOK
  /\ SelfShape
  /\ Whole
  /\ Apart
  /\ Accounted
  /\ HandlesPooled

----------------------------------------------------------------------------
(* The state is well typed.                                                *)
LEMMA NulledTyped == Nulled \in BackendType
  BY DEF Nulled, BackendType

(* Initially all is well typed.                                            *)
LEMMA TypeInit == Init => TypeOK
  BY NulledTyped DEF Init, TypeOK, Stages

(* What init() stores is well typed.                                       *)
LEMMA StoreTyped ==
  ASSUME TypeOK, NEW kinds \in SUBSET Kinds, NEW id \in Ids, Store(kinds, id)
  PROVE  /\ volk_init' \in BOOLEAN
         /\ self' \in BackendType
         /\ backend' \in [Backends -> BackendType]
         /\ live' \subseteq Kinds \X Ids
         /\ abandoned' \subseteq Kinds \X Ids
         /\ handles' \subseteq Ids
  BY DEF Store, TypeOK, BackendType, Object

(* A stage past vkb::InstanceBuilder has the name of its init().           *)
LEMMA SelfNamed ==
  ASSUME TypeOK, SelfShape, pc \in {"surface", "device", "pool", "surface_caps"}
  PROVE  self.has["instance"] \in Ids
  BY DEF TypeOK, SelfShape, Made, InitStages, Kinds, BackendType

(* Each step keeps the types.                                              *)
LEMMA TypeStep == BInv /\ [Next]_vars => TypeOK'
<1> SUFFICES ASSUME BInv, [Next]_vars PROVE TypeOK'
  OBVIOUS
<1> USE DEF BInv, TypeOK, Stages
<1>1. ASSUME NEW w \in Windows \cup {Null}, CallCreate(w) PROVE TypeOK'
  BY <1>1, NulledTyped DEF CallCreate, Nulled, BackendType
<1>2. CASE LoadVulkan
  BY <1>2 DEF LoadVulkan
<1>3. ASSUME NEW id \in Ids, CreateInstance(id) PROVE TypeOK'
  BY <1>3, StoreTyped DEF CreateInstance, Kinds
<1>4. CASE CreateSurface
  BY <1>4, StoreTyped, SelfNamed DEF CreateSurface, Kinds
<1>5. CASE CreateDevice
  BY <1>5, StoreTyped, SelfNamed DEF CreateDevice, Kinds
<1>6. CASE CreatePool
  BY <1>6, StoreTyped, SelfNamed DEF CreatePool, Kinds
<1>7. ASSUME NEW b \in Backends, ReturnBackend(b) PROVE TypeOK'
  BY <1>7, NulledTyped DEF ReturnBackend
<1>8. CASE InitFails
  BY <1>8, NulledTyped DEF InitFails, Destruct
<1>9. CASE DestroyStage
  BY <1>9, NulledTyped
     DEF DestroyStage, DestroyDevice, DestroySurface, DestroyMessenger,
         DestroyInstance, Nullify, DestroyObject
<1>10. ASSUME NEW b \in Backends, DestroyBackend(b) PROVE TypeOK'
  BY <1>10, NulledTyped DEF DestroyBackend, Destruct
<1>11. ASSUME NEW dst \in Backends, NEW src \in Backends, MoveBackend(dst, src)
       PROVE  TypeOK'
  BY <1>11, NulledTyped DEF MoveBackend, call, ObjectsOf, Object, BackendType
<1>12. ASSUME NEW b \in Backends, AcquireHandle(b) PROVE TypeOK'
  BY <1>12 DEF AcquireHandle, call, BackendType, Kinds
<1>13. ASSUME NEW p \in Ids, ReleaseHandles(p) PROVE TypeOK'
  BY <1>13 DEF ReleaseHandles, call
<1>14. CASE UNCHANGED vars
  BY <1>14 DEF vars, call
<1> QED
  BY <1>1, <1>2, <1>3, <1>4, <1>5, <1>6, <1>7, <1>8, <1>9, <1>10, <1>11,
     <1>12, <1>13, <1>14 DEF Next, InitStage, Client


----------------------------------------------------------------------------
(* Whatever a Backend or an abandoned object is named after exists, so a   *)
(* name that no object bears is nobody's.                                  *)
LEMMA FreshName ==
  ASSUME BInv, pc = "instance", NEW id \in Ids,
         \A k \in Kinds : Object(k, id) \notin live
  PROVE  /\ \A b \in Backends : backend[b].has["instance"] # id
         /\ \A k \in Kinds : Object(k, id) \notin abandoned
         /\ self.has["instance"] = Null
<1>1. "instance" \in Kinds
  BY DEF Kinds
<1>2. \A b \in Backends : backend[b].has["instance"] # id
  BY <1>1 DEF BInv, Accounted
<1>3. \A k \in Kinds : Object(k, id) \notin abandoned
  BY DEF BInv, Accounted
<1>4. self.has["instance"] = Null
  BY <1>1 DEF BInv, SelfShape, InitStages, Made
<1> QED
  BY <1>2, <1>3, <1>4

(* A stage of init() that stores attributes under the name of this init(). *)
LEMMA StoreStep ==
  ASSUME BInv, NEW kinds \in SUBSET Kinds, NEW id \in Ids, Store(kinds, id),
         pc \in InitStages, pc' \in InitStages,
         self.has["instance"] \in {Null, id},
         "instance" \in kinds \/ self.has["instance"] = id,
         \A k \in Kinds : k \in Made(pc') <=> k \in Made(pc) \cup kinds,
         \A b \in Backends : backend[b].has["instance"] # id,
         \A k \in Kinds : Object(k, id) \notin abandoned
  PROVE  (SelfShape /\ Whole /\ Apart /\ Accounted /\ HandlesPooled)'
<1> USE DEF BInv
<1>1. /\ UNCHANGED <<backend, abandoned, handles>>
      /\ self'.nulled = self.nulled
      /\ \A k \in Kinds :
           self'.has[k] = IF k \in kinds THEN id ELSE self.has[k]
  BY DEF Store, TypeOK, BackendType
<1>2. \A k \in Kinds, i \in Ids :
        Object(k, i) \in live' <=> Object(k, i) \in live \/ (k \in kinds /\ i = id)
  BY DEF Store, Object
<1>3. "instance" \in Kinds /\ self'.has["instance"] = id
  BY <1>1 DEF Kinds
<1>4. \A k \in Kinds : self.has[k] \in {Null, id}
  BY DEF SelfShape, Uniform
<1>5. ~self.nulled /\ pc # "idle" /\ pc' # "idle"
  BY DEF SelfShape, InitStages
<1>6. SelfShape'
  BY <1>1, <1>3, <1>4, <1>5 DEF SelfShape, Uniform
<1>7. Whole' /\ HandlesPooled'
  BY <1>1 DEF Whole, HandlesPooled, Uniform
<1>8. Apart'
  BY <1>1, <1>3 DEF Apart
<1>9. Left(pc) = Kinds /\ Left(pc') = Kinds
  BY DEF Left, InitStages
<1>10. Accounted'
  <2> SUFFICES ASSUME NEW k \in Kinds, NEW i \in Ids
               PROVE  Object(k, i) \in live' <=>
                        \/ self'.has[k] = i
                        \/ \E b \in Backends : backend[b].has[k] = i
                        \/ Object(k, i) \in abandoned
    BY <1>1, <1>9 DEF Accounted
  <2>1. Object(k, i) \in live <=>
          \/ self.has[k] = i
          \/ \E b \in Backends : backend[b].has[k] = i
          \/ Object(k, i) \in abandoned
    BY <1>9 DEF Accounted
  <2>2. self'.has[k] = i <=> self.has[k] = i \/ (k \in kinds /\ i = id)
    BY <1>1, <1>4
  <2> QED
    BY <1>2, <2>1, <2>2
<1> QED
  BY <1>6, <1>7, <1>8, <1>10

(* The name of an init() past its instance is not a Backend's, nor that of *)
(* an abandoned object.                                                    *)
LEMMA OwnName ==
  ASSUME BInv, pc \in {"surface", "device", "pool", "surface_caps"}
  PROVE  /\ self.has["instance"] \in Ids
         /\ \A b \in Backends :
              backend[b].has["instance"] # self.has["instance"]
         /\ \A k \in Kinds :
              Object(k, self.has["instance"]) \notin abandoned
<1>1. self.has["instance"] \in Ids
  BY SelfNamed DEF BInv
<1> QED
  BY <1>1 DEF BInv, Apart

(* The stages of init() that make something keep the invariant.            *)
LEMMA CreateStep ==
  ASSUME BInv,
         \/ \E id \in Ids : CreateInstance(id)
         \/ CreateSurface
         \/ CreateDevice
         \/ CreatePool
  PROVE  (SelfShape /\ Whole /\ Apart /\ Accounted /\ HandlesPooled)'
<1> USE DEF InitStages, Kinds, Made
<1>1. ASSUME NEW id \in Ids, CreateInstance(id)
      PROVE  (SelfShape /\ Whole /\ Apart /\ Accounted /\ HandlesPooled)'
  BY <1>1, StoreStep, FreshName DEF CreateInstance
<1>2. CASE CreateSurface
  BY <1>2, StoreStep, OwnName DEF CreateSurface
<1>3. CASE CreateDevice
  BY <1>3, StoreStep, OwnName DEF CreateDevice
<1>4. CASE CreatePool
  BY <1>4, StoreStep, OwnName DEF CreatePool
<1> QED
  BY <1>1, <1>2, <1>3, <1>4

(* create() returns: the whole object moves to a place that is empty.      *)
LEMMA ReturnStep ==
  ASSUME BInv, NEW b \in Backends, ReturnBackend(b)
  PROVE  (SelfShape /\ Whole /\ Apart /\ Accounted /\ HandlesPooled)'
<1> DEFINE name == self.has["instance"]
<1> USE DEF BInv
<1>1. /\ pc = "surface_caps" /\ pc' = "idle"
      /\ self' = Nulled
      /\ backend' = [backend EXCEPT ![b] = self]
      /\ backend[b] = Nulled
      /\ UNCHANGED <<live, abandoned, handles>>
  BY DEF ReturnBackend
<1>2. /\ backend'[b] = self
      /\ \A c \in Backends \ {b} : backend'[c] = backend[c]
  BY <1>1 DEF TypeOK
<1>3. /\ ~self.nulled
      /\ name \in Ids
      /\ \A k \in Kinds : self.has[k] = name
  BY <1>1, SelfNamed DEF SelfShape, InitStages, Made, Uniform
<1>4. \A k \in Kinds : Nulled.has[k] = Null
  BY DEF Nulled
<1>5. SelfShape'
  BY <1>1, <1>4 DEF SelfShape, Uniform, InitStages, Nulled, Kinds
<1>6. Whole'
  BY <1>2, <1>3 DEF Whole, Uniform
<1>7. Apart'
  BY <1>1, <1>2, <1>3, <1>4, OwnName DEF Apart, Kinds
<1>8. Accounted'
  <2>1. Left(pc) = Kinds /\ Left(pc') = Kinds
    BY <1>1 DEF Left
  <2> SUFFICES ASSUME NEW k \in Kinds, NEW i \in Ids
               PROVE  Object(k, i) \in live <=>
                        \/ \E c \in Backends : backend'[c].has[k] = i
                        \/ Object(k, i) \in abandoned
    BY <1>1, <1>4, <2>1 DEF Accounted
  <2>2. Object(k, i) \in live <=>
          \/ self.has[k] = i
          \/ \E c \in Backends : backend[c].has[k] = i
          \/ Object(k, i) \in abandoned
    BY <2>1 DEF Accounted
  <2>3. (\E c \in Backends : backend'[c].has[k] = i) <=>
          self.has[k] = i \/ \E c \in Backends : backend[c].has[k] = i
    BY <1>1, <1>2, <1>4
  <2> QED
    BY <2>2, <2>3
<1>9. HandlesPooled'
  BY <1>1, <1>2, <1>4 DEF HandlesPooled, Kinds, TypeOK
<1> QED
  BY <1>5, <1>6, <1>7, <1>8, <1>9

(* ~Backend() begins, for an object init() gave up or for one of the       *)
(* program's: it is out of reach before its first object goes.             *)
LEMMA DestructStep ==
  ASSUME BInv,
         \/ InitFails
         \/ \E b \in Backends : HandlesReturned(b) /\ DestroyBackend(b)
  PROVE  (SelfShape /\ Whole /\ Apart /\ Accounted /\ HandlesPooled)'
<1> USE DEF BInv
<1>1. CASE InitFails
  <2>1. /\ ~self.nulled
        /\ self' = self
        /\ pc' = "~device"
        /\ UNCHANGED <<backend, live, abandoned, handles>>
    BY <1>1 DEF InitFails, Destruct, SelfShape
  <2>2. Left(pc) = Kinds /\ Left(pc') = Kinds
    BY <1>1, <2>1 DEF InitFails, Left
  <2>3. SelfShape'
    BY <2>1 DEF SelfShape, Uniform, InitStages
  <2> QED
    BY <2>1, <2>2, <2>3 DEF Whole, Uniform, Apart, Accounted, HandlesPooled
<1>2. ASSUME NEW b \in Backends, DestroyBackend(b), backend[b].nulled
      PROVE  (SelfShape /\ Whole /\ Apart /\ Accounted /\ HandlesPooled)'
  <2>1. /\ backend[b] \in BackendType
        /\ \A k \in Kinds : backend[b].has[k] = Null
    BY <1>2 DEF TypeOK, Whole, Uniform
  <2>2. backend[b] = Nulled
    BY <1>2, <2>1 DEF BackendType, Nulled
  <2>3. self \in BackendType /\ self.nulled /\ \A k \in Kinds : self.has[k] = Null
    BY <1>2 DEF DestroyBackend, TypeOK, SelfShape, Uniform
  <2>4. self = Nulled
    BY <2>3 DEF BackendType, Nulled
  <2>5. /\ self' = self /\ pc' = pc /\ pc = "idle"
        /\ UNCHANGED <<backend, live, abandoned, handles>>
    BY <1>2, <2>2, <2>4 DEF DestroyBackend, Destruct, TypeOK
  <2> QED
    BY <2>5 DEF SelfShape, Whole, Uniform, Apart, Accounted, HandlesPooled
<1>3. ASSUME NEW b \in Backends, HandlesReturned(b), DestroyBackend(b),
             ~backend[b].nulled
      PROVE  (SelfShape /\ Whole /\ Apart /\ Accounted /\ HandlesPooled)'
  <2>1. /\ pc = "idle" /\ pc' = "~device"
        /\ self' = backend[b]
        /\ backend' = [backend EXCEPT ![b] = Nulled]
        /\ backend[b].has["pool"] \notin handles \ KeptPools
        /\ UNCHANGED <<live, abandoned, handles>>
    BY <1>3 DEF DestroyBackend, Destruct, HandlesReturned
  <2>2. /\ backend'[b] = Nulled
        /\ \A c \in Backends \ {b} : backend'[c] = backend[c]
    BY <2>1 DEF TypeOK
  <2>3. \A k \in Kinds : Nulled.has[k] = Null
    BY DEF Nulled
  <2>4. \A k \in Kinds : self.has[k] = Null
    BY <2>1 DEF SelfShape, Uniform
  <2>5. Left(pc) = Kinds /\ Left(pc') = Kinds
    BY <2>1 DEF Left
  <2>6. SelfShape'
    BY <1>3, <2>1 DEF SelfShape, InitStages, Whole, Uniform
  <2>7. Whole'
    BY <2>2, <2>3 DEF Whole, Uniform, Nulled, Kinds
  <2>8. Apart'
    BY <2>1, <2>2, <2>3 DEF Apart, Kinds
  <2>9. Accounted'
    <3> SUFFICES ASSUME NEW k \in Kinds, NEW i \in Ids
                 PROVE  Object(k, i) \in live <=>
                          \/ backend[b].has[k] = i
                          \/ \E c \in Backends : backend'[c].has[k] = i
                          \/ Object(k, i) \in abandoned
      BY <2>1, <2>5 DEF Accounted
    <3>1. Object(k, i) \in live <=>
            \/ \E c \in Backends : backend[c].has[k] = i
            \/ Object(k, i) \in abandoned
      BY <2>4, <2>5 DEF Accounted
    <3>2. (\E c \in Backends : backend[c].has[k] = i) <=>
            backend[b].has[k] = i \/ \E c \in Backends : backend'[c].has[k] = i
      BY <2>2, <2>3
    <3> QED
      BY <3>1, <3>2
  <2>10. HandlesPooled'
    BY <2>1, <2>2 DEF HandlesPooled
  <2> QED
    BY <2>6, <2>7, <2>8, <2>9, <2>10
<1> QED
  BY <1>1, <1>2, <1>3

(* One call of the destructor: what is left is one attribute less.         *)
LEMMA GoneStep ==
  ASSUME BInv, NEW k \in Kinds,
         pc # "idle", k \in Left(pc), Left(pc') = Left(pc) \ {k},
         pc' \notin InitStages \cup {"idle"},
         self' = self,
         live' = live \ {Object(k, self.has[k])},
         UNCHANGED <<backend, abandoned, handles>>
  PROVE  (SelfShape /\ Whole /\ Apart /\ Accounted /\ HandlesPooled)'
<1> USE DEF BInv
<1>1. SelfShape'
  BY DEF SelfShape, Uniform, InitStages
<1>2. Whole' /\ Apart' /\ HandlesPooled'
  BY DEF Whole, Uniform, Apart, HandlesPooled
<1>3. Accounted'
  <2> SUFFICES ASSUME NEW j \in Kinds, NEW i \in Ids
               PROVE  Object(j, i) \in live' <=>
                        \/ j \in Left(pc') /\ self.has[j] = i
                        \/ \E b \in Backends : backend[b].has[j] = i
                        \/ Object(j, i) \in abandoned
    BY DEF Accounted
  <2>1. Object(j, i) \in live <=>
          \/ j \in Left(pc) /\ self.has[j] = i
          \/ \E b \in Backends : backend[b].has[j] = i
          \/ Object(j, i) \in abandoned
    BY DEF Accounted
  <2>2. CASE j = k /\ self.has[k] = i
    <3>1. self.has["instance"] = i
      BY <2>2 DEF SelfShape, Uniform
    <3>2. \A b \in Backends : backend[b].has[j] # i
      BY <3>1 DEF Apart, Whole, Uniform
    <3>3. Object(j, i) \notin abandoned
      BY <3>1 DEF Apart
    <3> QED
      BY <2>2, <3>2, <3>3 DEF Object
  <2>3. CASE ~(j = k /\ self.has[k] = i)
    <3>1. Object(j, i) \in live' <=> Object(j, i) \in live
      BY <2>3 DEF Object
    <3> QED
      BY <2>1, <2>3, <3>1
  <2> QED
    BY <2>2, <2>3
<1> QED
  BY <1>1, <1>2, <1>3

(* Each call of the destructor keeps the invariant.                        *)
LEMMA DestroyStep ==
  ASSUME BInv, DestroyStage
  PROVE  (SelfShape /\ Whole /\ Apart /\ Accounted /\ HandlesPooled)'
<1> USE DEF Kinds, Left, InitStages
<1>1. CASE DestroyDevice
  BY <1>1, GoneStep DEF DestroyDevice, DestroyObject
<1>2. CASE DestroySurface
  BY <1>2, GoneStep DEF DestroySurface, DestroyObject
<1>3. CASE DestroyMessenger
  BY <1>3, GoneStep DEF DestroyMessenger, DestroyObject
<1>4. CASE DestroyInstance
  BY <1>4, GoneStep DEF DestroyInstance, DestroyObject
<1>5. CASE Nullify
  <2> USE DEF BInv
  <2>1. /\ pc = "nullify" /\ pc' = "idle"
        /\ live' = live \ {Object("pool", self.has["pool"])}
        /\ self' = Nulled
        /\ UNCHANGED <<backend, abandoned, handles>>
    BY <1>5 DEF Nullify
  <2>2. \A k \in Kinds : Nulled.has[k] = Null
    BY DEF Nulled
  <2>3. SelfShape'
    BY <2>1, <2>2 DEF SelfShape, Uniform, Nulled
  <2>4. Whole' /\ Apart' /\ HandlesPooled'
    BY <2>1, <2>2 DEF Whole, Uniform, Apart, HandlesPooled
  <2>5. Accounted'
    <3> SUFFICES ASSUME NEW j \in Kinds, NEW i \in Ids
                 PROVE  Object(j, i) \in live' <=>
                          \/ \E b \in Backends : backend[b].has[j] = i
                          \/ Object(j, i) \in abandoned
      BY <2>1, <2>2 DEF Accounted
    <3>1. Object(j, i) \in live <=>
            \/ j = "pool" /\ self.has[j] = i
            \/ \E b \in Backends : backend[b].has[j] = i
            \/ Object(j, i) \in abandoned
      BY <2>1 DEF Accounted
    <3>2. CASE j = "pool" /\ self.has["pool"] = i
      <4>1. self.has["instance"] = i
        BY <3>2 DEF SelfShape, Uniform
      <4>2. \A b \in Backends : backend[b].has[j] # i
        BY <4>1 DEF Apart, Whole, Uniform
      <4> QED
        BY <2>1, <3>2, <4>1, <4>2 DEF Apart, Object
    <3>3. CASE ~(j = "pool" /\ self.has["pool"] = i)
      <4>1. Object(j, i) \in live' <=> Object(j, i) \in live
        BY <2>1, <3>3 DEF Object
      <4> QED
        BY <3>1, <3>3, <4>1
    <3> QED
      BY <3>2, <3>3
  <2> QED
    BY <2>3, <2>4, <2>5
<1> QED
  BY <1>1, <1>2, <1>3, <1>4, <1>5 DEF DestroyStage

(* A move: the parts of src are now those of dst; those dst had, except    *)
(* its pool, are abandoned.                                                *)
LEMMA MoveStep ==
  ASSUME BInv, NEW dst \in Backends, NEW src \in Backends,
         HandlesReturned(dst), MoveBackend(dst, src)
  PROVE  (SelfShape /\ Whole /\ Apart /\ Accounted /\ HandlesPooled)'
<1> DEFINE pool == Object("pool", backend[dst].has["pool"])
<1> USE DEF BInv
<1>1. /\ dst # src
      /\ backend[dst].has["pool"] \notin handles \ KeptPools
      /\ live' = live \ {pool}
      /\ abandoned' = abandoned \cup (ObjectsOf(backend[dst]) \ {pool})
      /\ backend' = [backend EXCEPT ![dst] = backend[src], ![src] = Nulled]
      /\ UNCHANGED <<pc, self, handles>>
  BY DEF MoveBackend, HandlesReturned, call
<1>2. /\ backend'[dst] = backend[src]
      /\ backend'[src] = Nulled
      /\ \A b \in Backends \ {dst, src} : backend'[b] = backend[b]
  BY <1>1 DEF TypeOK
<1>3. \A k \in Kinds : Nulled.has[k] = Null
  BY DEF Nulled
<1>4. "instance" \in Kinds /\ "pool" \in Kinds
  BY DEF Kinds
<1>5. \A k \in Kinds, i \in Ids :
        Object(k, i) \in live' <=>
          Object(k, i) \in live /\ ~(k = "pool" /\ backend[dst].has[k] = i)
  BY <1>1 DEF Object
<1>6. \A k \in Kinds, i \in Ids :
        Object(k, i) \in abandoned' <=>
          \/ Object(k, i) \in abandoned
          \/ k # "pool" /\ backend[dst].has[k] = i
  BY <1>1 DEF ObjectsOf, Object
<1>7. SelfShape'
  BY <1>1 DEF SelfShape, Uniform, InitStages
<1>8. Whole'
  BY <1>2, <1>3, <1>4 DEF Whole, Uniform, Nulled
<1>9. Apart'
  <2> SUFFICES ASSUME NEW id \in Ids
               PROVE  /\ \A b \in Backends : backend'[b].has["instance"] = id =>
                           /\ self.has["instance"] # id
                           /\ \A c \in Backends \ {b} :
                                backend'[c].has["instance"] # id
                      /\ \A k \in Kinds : Object(k, id) \in abandoned' =>
                           /\ k # "pool"
                           /\ Object("instance", id) \in abandoned'
                           /\ self.has["instance"] # id
                           /\ \A b \in Backends : backend'[b].has["instance"] # id
    BY <1>1 DEF Apart
  <2>1. \A b \in Backends : backend'[b].has["instance"] = id =>
          /\ self.has["instance"] # id
          /\ \A c \in Backends \ {b} : backend'[c].has["instance"] # id
    BY <1>2, <1>3, <1>4 DEF Apart
  <2>2. ASSUME NEW k \in Kinds, k # "pool", backend[dst].has[k] = id
        PROVE  /\ Object("instance", id) \in abandoned'
               /\ self.has["instance"] # id
               /\ \A b \in Backends : backend'[b].has["instance"] # id
    <3>1. backend[dst].has["instance"] = id
      BY <2>2 DEF Whole, Uniform
    <3> QED
      BY <1>2, <1>3, <1>4, <1>6, <3>1 DEF Apart
  <2>3. ASSUME NEW k \in Kinds, Object(k, id) \in abandoned
        PROVE  /\ k # "pool"
               /\ Object("instance", id) \in abandoned'
               /\ self.has["instance"] # id
               /\ \A b \in Backends : backend'[b].has["instance"] # id
    BY <1>2, <1>3, <1>4, <1>6, <2>3 DEF Apart
  <2> QED
    BY <1>6, <2>1, <2>2, <2>3
<1>10. Accounted'
  <2> SUFFICES ASSUME NEW k \in Kinds, NEW i \in Ids
               PROVE  Object(k, i) \in live' <=>
                        \/ k \in Left(pc) /\ self.has[k] = i
                        \/ \E b \in Backends : backend'[b].has[k] = i
                        \/ Object(k, i) \in abandoned'
    BY <1>1 DEF Accounted
  <2>1. Object(k, i) \in live <=>
          \/ k \in Left(pc) /\ self.has[k] = i
          \/ \E b \in Backends : backend[b].has[k] = i
          \/ Object(k, i) \in abandoned
    BY DEF Accounted
  <2>2. (\E b \in Backends : backend[b].has[k] = i) <=>
          backend[dst].has[k] = i \/ \E b \in Backends : backend'[b].has[k] = i
    BY <1>2, <1>3
  <2>3. ASSUME k = "pool", backend[dst].has[k] = i
        PROVE  /\ self.has[k] # i
               /\ \A b \in Backends : backend'[b].has[k] # i
               /\ Object(k, i) \notin abandoned'
    <3>1. backend[dst].has["instance"] = i
      BY <2>3 DEF Whole, Uniform
    <3>2. self.has[k] # i
      BY <3>1 DEF Apart, SelfShape, Uniform
    <3>3. \A b \in Backends \ {dst} : backend[b].has[k] # i
      BY <3>1 DEF Apart, Whole, Uniform
    <3>4. Object(k, i) \notin abandoned
      BY <2>3 DEF Apart
    <3>5. \A b \in Backends : backend'[b].has[k] # i
      BY <1>1, <1>2, <1>3, <3>3
    <3>6. Object(k, i) \notin abandoned'
      BY <1>6, <2>3, <3>4
    <3> QED
      BY <3>2, <3>5, <3>6
  <2> QED
    BY <1>5, <1>6, <2>1, <2>2, <2>3
<1>11. HandlesPooled'
  BY <1>1, <1>2 DEF HandlesPooled
<1> QED
  BY <1>7, <1>8, <1>9, <1>10, <1>11

(* volkInitialize(), CallCreate and the handles of queues.                 *)
LEMMA OtherStep ==
  ASSUME BInv,
         \/ \E w \in Windows \cup {Null} : CallCreate(w)
         \/ LoadVulkan
         \/ \E b \in Backends : AcquireHandle(b)
         \/ \E p \in Ids : ReleaseHandles(p)
         \/ UNCHANGED vars
  PROVE  (SelfShape /\ Whole /\ Apart /\ Accounted /\ HandlesPooled)'
<1> USE DEF BInv
<1>1. ASSUME NEW w \in Windows \cup {Null}, CallCreate(w)
      PROVE  (SelfShape /\ Whole /\ Apart /\ Accounted /\ HandlesPooled)'
  <2>1. /\ pc = "idle" /\ pc' = "volk"
        /\ ~self'.nulled
        /\ \A k \in Kinds : self'.has[k] = Null
        /\ UNCHANGED <<backend, live, abandoned, handles>>
    BY <1>1 DEF CallCreate, Nulled
  <2>2. \A k \in Kinds : self.has[k] = Null
    BY <2>1 DEF SelfShape, Uniform
  <2>3. SelfShape'
    BY <2>1 DEF SelfShape, Uniform, InitStages, Made, Kinds
  <2>4. Whole' /\ Apart' /\ HandlesPooled'
    BY <2>1 DEF Whole, Uniform, Apart, HandlesPooled, Kinds
  <2>5. Accounted'
    BY <2>1, <2>2 DEF Accounted, Left
  <2> QED
    BY <2>3, <2>4, <2>5
<1>2. CASE LoadVulkan
  <2>1. /\ pc = "volk" /\ pc' = "instance"
        /\ UNCHANGED <<self, backend, live, abandoned, handles>>
    BY <1>2 DEF LoadVulkan
  <2>2. SelfShape'
    BY <2>1 DEF SelfShape, Uniform, InitStages, Made
  <2>3. Left(pc) = Left(pc')
    BY <2>1 DEF Left
  <2> QED
    BY <2>1, <2>2, <2>3 DEF Whole, Uniform, Apart, Accounted, HandlesPooled
<1>3. ASSUME UNCHANGED <<pc, self, backend, live, abandoned>>
      PROVE  (SelfShape /\ Whole /\ Apart /\ Accounted)'
  BY <1>3 DEF SelfShape, Whole, Uniform, Apart, Accounted
<1>4. ASSUME NEW b \in Backends, AcquireHandle(b) PROVE HandlesPooled'
  BY <1>4 DEF AcquireHandle, HandlesPooled
<1>5. ASSUME NEW p \in Ids, ReleaseHandles(p) PROVE HandlesPooled'
  BY <1>5 DEF ReleaseHandles, HandlesPooled
<1>6. ASSUME UNCHANGED vars PROVE HandlesPooled'
  BY <1>6 DEF vars, HandlesPooled
<1> QED
  BY <1>1, <1>2, <1>3, <1>4, <1>5, <1>6
     DEF AcquireHandle, ReleaseHandles, vars, call

(* Initially there is nothing.                                             *)
LEMMA BInvInit == Init => BInv
<1> SUFFICES ASSUME Init PROVE BInv
  OBVIOUS
<1>1. /\ pc = "idle" /\ self = Nulled /\ live = {} /\ abandoned = {} /\ handles = {}
      /\ \A b \in Backends : backend[b] = Nulled
  BY DEF Init
<1>2. Nulled.nulled /\ \A k \in Kinds : Nulled.has[k] = Null
  BY DEF Nulled
<1>3. SelfShape
  BY <1>1, <1>2 DEF SelfShape, Uniform, InitStages, Kinds
<1>4. Whole /\ Apart /\ HandlesPooled
  BY <1>1, <1>2 DEF Whole, Uniform, Apart, HandlesPooled, Kinds
<1>5. Accounted
  BY <1>1, <1>2 DEF Accounted
<1> QED
  BY <1>3, <1>4, <1>5, TypeInit DEF BInv

(* Each step keeps the inductive invariant.                                *)
LEMMA BInvStep == BInv /\ [Next]_vars => BInv'
<1> SUFFICES ASSUME BInv, [Next]_vars PROVE BInv'
  OBVIOUS
<1>1. TypeOK'
  BY TypeStep
<1>2. (SelfShape /\ Whole /\ Apart /\ Accounted /\ HandlesPooled)'
  BY CreateStep, ReturnStep, DestructStep, DestroyStep, MoveStep, OtherStep
     DEF Next, InitStage, Client
<1> QED
  BY <1>1, <1>2 DEF BInv

(* The inductive invariant holds in every reachable state.                 *)
THEOREM BInvCorrect == Spec => []BInv
  BY BInvInit, BInvStep, PTL DEF Spec

(* Every reachable state is well typed.                                    *)
THEOREM TypeCorrect == Spec => []TypeOK
  BY BInvCorrect, PTL DEF BInv

----------------------------------------------------------------------------
(* The consequences, for a state.                                          *)

(* What a Backend owns, attribute by attribute.                            *)
LEMMA OwnedObjects ==
  ASSUME TypeOK
  PROVE  /\ \A b \in Backends, k \in Kinds, id \in Ids :
              Object(k, id) \in ObjectsOf(backend[b]) <=> backend[b].has[k] = id
         /\ \A b \in Backends, k \in Kinds :
              backend[b].has[k] \in Ids \cup {Null}
         /\ \A k \in Kinds, id \in Ids :
              Object(k, id) \in ObjectsOf(self) <=> self.has[k] = id
  BY DEF TypeOK, BackendType, ObjectsOf, Object

(* Every object that exists is accounted for.                              *)
LEMMA BInvImpliesEveryObjectOwned == BInv => EveryObjectOwned
<1> SUFFICES ASSUME BInv,
                    NEW o \in live
             PROVE  \/ o \in ObjectsOf(self) \cup abandoned
                    \/ \E b \in Backends : o \in ObjectsOf(backend[b])
  BY DEF EveryObjectOwned
<1>1. PICK k \in Kinds, id \in Ids : o = Object(k, id)
  BY DEF BInv, TypeOK, Object
<1> QED
  BY <1>1, OwnedObjects DEF BInv, Accounted

(* Parts of different init()s are different objects.                       *)
LEMMA BInvImpliesSoleOwner == BInv => SoleOwner
<1> SUFFICES ASSUME BInv, NEW b \in Backends
             PROVE  /\ ObjectsOf(backend[b]) \subseteq live
                    /\ ObjectsOf(backend[b]) \cap ObjectsOf(self) = {}
                    /\ \A c \in Backends \ {b} :
                         ObjectsOf(backend[b]) \cap ObjectsOf(backend[c]) = {}
  BY DEF SoleOwner
<1> USE DEF BInv
<1> SUFFICES ASSUME NEW o \in ObjectsOf(backend[b])
             PROVE  /\ o \in live
                    /\ o \notin ObjectsOf(self)
                    /\ \A c \in Backends \ {b} : o \notin ObjectsOf(backend[c])
  OBVIOUS
<1>1. PICK k \in Kinds : k \in Kinds /\ backend[b].has[k] # Null
                           /\ o = Object(k, backend[b].has[k])
  BY DEF ObjectsOf
<1>2. PICK id \in Ids : backend[b].has[k] = id /\ o = Object(k, id)
  BY <1>1, OwnedObjects
<1>3. backend[b].has["instance"] = id
  BY <1>2 DEF Whole, Uniform
<1>4. o \in live
  BY <1>2 DEF Accounted
<1>5. self.has[k] # id
  BY <1>3 DEF Apart, SelfShape, Uniform
<1>6. \A c \in Backends \ {b} : backend[c].has[k] # id
  BY <1>3 DEF Apart, Whole, Uniform
<1> QED
  BY <1>2, <1>4, <1>5, <1>6, OwnedObjects

(* The destructor's order, read off what is left at each stage.            *)
LEMMA BInvImpliesInstanceOutlives == BInv => InstanceOutlives
<1> SUFFICES ASSUME BInv, NEW id \in Ids,
                    NEW k \in {"messenger", "surface", "device"},
                    Object(k, id) \in live
             PROVE  Object("instance", id) \in live
  BY DEF InstanceOutlives
<1> USE DEF BInv
<1>1. k \in Kinds /\ "instance" \in Kinds
  BY DEF Kinds
<1>2. CASE k \in Left(pc) /\ self.has[k] = id
  <2>1. "instance" \in Left(pc)
    BY <1>1, <1>2 DEF Left
  <2>2. self.has["instance"] = id
    BY <1>1, <1>2 DEF SelfShape, Uniform
  <2> QED
    BY <1>1, <2>1, <2>2 DEF Accounted
<1>3. CASE \E b \in Backends : backend[b].has[k] = id
  BY <1>1, <1>3 DEF Accounted, Whole, Uniform
<1>4. CASE Object(k, id) \in abandoned
  BY <1>1, <1>4 DEF Accounted, Apart
<1> QED
  BY <1>1, <1>2, <1>3, <1>4 DEF Accounted

(* The pool of a handle is that of a whole Backend.                        *)
LEMMA BInvImpliesHandlesStayValid == BInv => HandlesStayValid
<1> SUFFICES ASSUME BInv, NEW p \in handles \ KeptPools
             PROVE  Object("pool", p) \in live /\ Object("device", p) \in live
  BY DEF HandlesStayValid
<1> USE DEF BInv
<1>1. "pool" \in Kinds /\ "device" \in Kinds /\ p \in Ids
  BY DEF Kinds, TypeOK
<1>2. PICK b \in Backends : backend[b].has["pool"] = p
  BY DEF HandlesPooled
<1>3. backend[b].has["device"] = p
  BY <1>1, <1>2 DEF Whole, Uniform
<1> QED
  BY <1>1, <1>2, <1>3 DEF Accounted

----------------------------------------------------------------------------
(* A create() that fails leaves nothing behind, whichever stage fails;     *)
(* moves lose only what they overwrite.                                    *)
THEOREM EveryObjectOwnedCorrect == Spec => []EveryObjectOwned
  BY BInvCorrect, BInvImpliesEveryObjectOwned, PTL

(* However Backends are moved, what one refers to exists and nobody else   *)
(* would destroy it.                                                       *)
THEOREM SoleOwnerCorrect == Spec => []SoleOwner
  BY BInvCorrect, BInvImpliesSoleOwner, PTL

(* ~Backend() destroys what was made from an instance before the instance, *)
(* also when init() got only part of the way.                              *)
THEOREM InstanceOutlivesCorrect == Spec => []InstanceOutlives
  BY BInvCorrect, BInvImpliesInstanceOutlives, PTL

(* A queue handle's pool and device exist as long as the handle, whatever  *)
(* moves the Backend goes through, if its client returns it before it      *)
(* destroys or overwrites that one; what clients do with the handles of    *)
(* other pools does not matter.                                            *)
THEOREM HandlesStayValidCorrect == Spec => []HandlesStayValid
  BY BInvCorrect, BInvImpliesHandlesStayValid, PTL
=============================================================================
