------------------------------ MODULE Backend ------------------------------
(***************************************************************************)
(* backends/vulkan_backend.cpp: the life of Backend objects. create() runs *)
(* init() on a fresh object; when a stage fails, the destructor of that    *)
(* object undoes the earlier ones. A created Backend is moved about, hands *)
(* out queue handles that point to its pool, and destroys what it has in a *)
(* fixed order. One create() or destruction runs at a time (volk_init is   *)
(* not guarded); moves and handles go on meanwhile.                        *)
(***************************************************************************)

CONSTANTS
  Backends,     (* the Backend objects of the program                      *)
  Ids,          (* names for what one init() makes                         *)
  Windows,      (* windows a VkSurfaceKHR may be made for                  *)
  KeptPools,    (* names of the pools whose queue handles clients keep     *)
                (* when they destroy or overwrite the Backend              *)
  Null          (* VK_NULL_HANDLE, nullptr, no window                      *)

ASSUME BackendAssumption ==
  /\ Null \notin Ids /\ Null \notin Windows
  /\ KeptPools \subseteq Ids

VARIABLES
  volk_init,    (* the static flag of that name                            *)
  pc,           (* the stage of init() or of ~Backend() that is next       *)
  self,         (* the object it works on                                  *)
  given,        (* the window of the IVkSurface create() was given         *)
  backend,      (* each Backend of the program                             *)
  live,         (* the driver objects and queue pools that exist           *)
  made_for,     (* the window each VkSurfaceKHR was made for               *)
  abandoned,    (* objects whose last reference was overwritten            *)
  handles       (* the pools that live queue handles point to              *)

call == <<volk_init, pc, self, given>>
vars == <<call, backend, live, made_for, abandoned, handles>>

----------------------------------------------------------------------------
(* The attributes of a Backend that it has to give back.                   *)
Kinds == {"instance", "messenger", "surface", "device", "pool"}

(* A Backend: its nulled flag, and of each kind the init() that made what  *)
(* the attribute refers to, or Null.                                       *)
Nulled == [nulled |-> TRUE, has |-> [k \in Kinds |-> Null]]

Object(k, id) == <<k, id>>
ObjectsOf(b) == {Object(k, b.has[k]) : k \in {j \in Kinds : b.has[j] # Null}}

Init ==
  /\ volk_init = FALSE
  /\ pc = "idle"
  /\ self = Nulled
  /\ given = Null
  /\ backend = [b \in Backends |-> Nulled]
  /\ live = {}
  /\ made_for = [id \in Ids |-> Null]
  /\ abandoned = {}
  /\ handles = {}

----------------------------------------------------------------------------
(* create() and init()                                                     *)

(* The first thing init() does is to take the object out of its nulled     *)
(* state, so that whatever it stores is given back if it fails.            *)
CallCreate_NulledUntilDone(w) ==
  /\ pc = "idle"
  /\ given' = w
  /\ pc' = "volk"
  /\ UNCHANGED <<volk_init, self, backend, live, made_for, abandoned, handles>>

CallCreate(w) ==
  /\ pc = "idle"
  /\ self' = [Nulled EXCEPT !.nulled = FALSE]
  /\ given' = w
  /\ pc' = "volk"
  /\ UNCHANGED <<volk_init, backend, live, made_for, abandoned, handles>>

(* volkInitialize(), the first time only.                                  *)
LoadVulkan ==
  /\ pc = "volk"
  /\ volk_init' = TRUE
  /\ pc' = "instance"
  /\ UNCHANGED <<self, given, backend, live, made_for, abandoned, handles>>

(* The object gets an attribute for each of kinds.                         *)
Store(kinds, id) ==
  /\ self' = [self EXCEPT !.has = [k \in Kinds |->
                                     IF k \in kinds THEN id ELSE self.has[k]]]
  /\ live' = live \cup {Object(k, id) : k \in kinds}
  /\ UNCHANGED <<volk_init, backend, abandoned, handles>>

(* vkb::InstanceBuilder makes both, or neither. The name is one that       *)
(* nothing in the program bears, nor a handle that outlived its pool.      *)
CreateInstance(id) ==
  /\ pc = "instance"
  /\ \A k \in Kinds : Object(k, id) \notin live
  /\ id \notin handles
  /\ Store({"instance", "messenger"}, id)
  /\ pc' = "surface"
  /\ UNCHANGED <<given, made_for>>

(* get_vk_surface(), which needs a window.                                 *)
CreateSurface ==
  /\ pc = "surface"
  /\ given # Null
  /\ Store({"surface"}, self.has["instance"])
  /\ made_for' = [made_for EXCEPT ![self.has["instance"]] = given]
  /\ pc' = "device"
  /\ UNCHANGED given

(* The physical device is selected, the queues are counted (InitQueues     *)
(* models how) and the device is built.                                    *)
CreateDevice ==
  /\ pc = "device"
  /\ Store({"device"}, self.has["instance"])
  /\ pc' = "pool"
  /\ UNCHANGED <<given, made_for>>

(* init_queue_pool() makes the pool last, on the heap.                     *)
CreatePool ==
  /\ pc = "pool"
  /\ Store({"pool"}, self.has["instance"])
  /\ pc' = "surface_caps"
  /\ UNCHANGED <<given, made_for>>

(* The capabilities and the formats of the surface are known: create()     *)
(* moves the object out.                                                   *)
ReturnBackend(b) ==
  /\ pc = "surface_caps"
  /\ backend[b] = Nulled
  /\ backend' = [backend EXCEPT ![b] = self]
  /\ self' = Nulled
  /\ given' = Null
  /\ pc' = "idle"
  /\ UNCHANGED <<volk_init, live, made_for, abandoned, handles>>

----------------------------------------------------------------------------
(* ~Backend(), for a Backend the client gives up and for the one a failed  *)
(* init() leaves                                                           *)

Destruct(b) ==
  /\ self' = IF b.nulled THEN Nulled ELSE b
  /\ pc' = IF b.nulled THEN "idle" ELSE "~device"
  /\ given' = Null
  /\ UNCHANGED <<volk_init, live, made_for, abandoned, handles>>

(* A stage of init() fails and create() returns the error. volkInitialize  *)
(* is not called again once it has succeeded.                              *)
InitFails ==
  /\ pc \in {"volk", "instance", "surface", "device", "pool", "surface_caps"}
  /\ pc = "volk" => ~volk_init
  /\ Destruct(self)
  /\ UNCHANGED backend

(* Nothing here asks whether queue handles still point into the pool.      *)
DestroyBackend(b) ==
  /\ pc = "idle"
  /\ Destruct(backend[b])
  /\ backend' = [backend EXCEPT ![b] = Nulled]

(* One call of the destructor; next is where it goes on.                   *)
DestroyObject(k, next) ==
  /\ live' = live \ {Object(k, self.has[k])}
  /\ pc' = next
  /\ UNCHANGED <<volk_init, self, given, backend, made_for, abandoned, handles>>

DestroyDevice == pc = "~device" /\ DestroyObject("device", "~surface")

DestroySurface_InstanceFirst ==
  pc = "~surface" /\ DestroyObject("instance", "~messenger")

DestroySurface == pc = "~surface" /\ DestroyObject("surface", "~messenger")

DestroyMessenger ==
  pc = "~messenger" /\ DestroyObject("messenger", "~instance")

DestroyInstance == pc = "~instance" /\ DestroyObject("instance", "nullify")

(* nullify() frees the pool.                                               *)
Nullify ==
  /\ pc = "nullify"
  /\ live' = live \ {Object("pool", self.has["pool"])}
  /\ self' = Nulled
  /\ pc' = "idle"
  /\ UNCHANGED <<volk_init, given, backend, made_for, abandoned, handles>>

----------------------------------------------------------------------------
(* Moves and handles                                                       *)

(* The move constructor and the move assignment copy every attribute, then *)
(* nullify() the source. What the destination had is lost, but for its     *)
(* pool: the unique_ptr frees that one, whatever handles point into it.    *)
MoveBackend_SourceKept(dst, src) ==
  /\ dst # src
  /\ LET pool == {Object("pool", backend[dst].has["pool"])}
     IN  /\ live' = live \ pool
         /\ abandoned' = abandoned \cup (ObjectsOf(backend[dst]) \ pool)
  /\ backend' = [backend EXCEPT ![dst] = backend[src]]
  /\ UNCHANGED <<call, made_for, handles>>

MoveBackend_PoolByValue(dst, src) ==
  /\ dst # src
  /\ LET pool == {Object("pool", backend[dst].has["pool"])}
     IN  /\ live' = live \ (pool \cup
                            {Object("pool", backend[src].has["pool"])})
         /\ abandoned' = abandoned \cup (ObjectsOf(backend[dst]) \ pool)
  /\ backend' = [backend EXCEPT ![dst] = backend[src], ![src] = Nulled]
  /\ UNCHANGED <<call, made_for, handles>>

MoveBackend(dst, src) ==
  /\ dst # src
  /\ LET pool == {Object("pool", backend[dst].has["pool"])}
     IN  /\ live' = live \ pool
         /\ abandoned' = abandoned \cup (ObjectsOf(backend[dst]) \ pool)
  /\ backend' = [backend EXCEPT ![dst] = backend[src], ![src] = Nulled]
  /\ UNCHANGED <<call, made_for, handles>>

(* queue_pool().acquire(), which QueuePool models.                         *)
AcquireHandle_PoolNotTested(b) ==
  /\ handles' = handles \cup {backend[b].has["pool"]}
  /\ UNCHANGED <<call, backend, live, made_for, abandoned>>

AcquireHandle(b) ==
  /\ backend[b].has["pool"] # Null
  /\ handles' = handles \cup {backend[b].has["pool"]}
  /\ UNCHANGED <<call, backend, live, made_for, abandoned>>

(* The end of the last handle of a pool. A handle writes to its pool then: *)
(* once the pool is freed that is undefined, and no step is modelled.      *)
ReleaseHandles(p) ==
  /\ p \in handles
  /\ Object("pool", p) \in live
  /\ handles' = handles \ {p}
  /\ UNCHANGED <<call, backend, live, made_for, abandoned>>

----------------------------------------------------------------------------
InitStage ==
  \/ LoadVulkan
  \/ \E id \in Ids : CreateInstance(id)
  \/ CreateSurface
  \/ CreateDevice
  \/ CreatePool
  \/ \E b \in Backends : ReturnBackend(b)
  \/ InitFails

DestroyStage ==
  \/ DestroyDevice
  \/ DestroySurface
  \/ DestroyMessenger
  \/ DestroyInstance
  \/ Nullify

(* What clients see to, but for KeptPools: before they destroy or          *)
(* overwrite a Backend they give back the handles that point to its pool.  *)
HandlesReturned(b) == backend[b].has["pool"] \notin handles \ KeptPools

Client ==
  \/ \E b \in Backends : HandlesReturned(b) /\ DestroyBackend(b)
  \/ \E dst, src \in Backends : HandlesReturned(dst) /\ MoveBackend(dst, src)
  \/ \E b \in Backends : AcquireHandle(b)
  \/ \E p \in Ids : ReleaseHandles(p)

Next ==
  \/ \E w \in Windows \cup {Null} : CallCreate(w)
  \/ InitStage
  \/ DestroyStage
  \/ Client

Spec == Init /\ [][Next]_vars

----------------------------------------------------------------------------
(* The calls of init() and of the destructor, in their order.              *)
Stages == {"idle", "volk", "instance", "surface", "device", "pool",
           "surface_caps", "~device", "~surface", "~messenger", "~instance",
           "nullify"}

BackendType == [nulled : BOOLEAN, has : [Kinds -> Ids \cup {Null}]]

(* The variables have their types; no handle was taken from a Backend that *)
(* has no pool.                                                            *)
TypeOK ==
  /\ volk_init \in BOOLEAN
  /\ pc \in Stages
  /\ self \in BackendType
  /\ given \in Windows \cup {Null}
  /\ backend \in [Backends -> BackendType]
  /\ live \subseteq Kinds \X Ids
  /\ made_for \in [Ids -> Windows \cup {Null}]
  /\ abandoned \subseteq Kinds \X Ids
  /\ handles \subseteq Ids

(* Nothing is leaked: whatever exists, one Backend refers to it (the one   *)
(* under construction or destruction included), or a move assignment has   *)
(* overwritten the reference. In particular a create() that fails at any   *)
(* stage leaves nothing behind.                                            *)
EveryObjectOwned ==
  live \subseteq ObjectsOf(self) \cup abandoned
                 \cup UNION {ObjectsOf(backend[b]) : b \in Backends}

(* Nothing is used or destroyed twice: all a Backend refers to exists, and *)
(* no other Backend, and no destructor, refers to it as well.              *)
SoleOwner ==
  \A b \in Backends :
    /\ ObjectsOf(backend[b]) \subseteq live
    /\ ObjectsOf(backend[b]) \cap ObjectsOf(self) = {}
    /\ \A c \in Backends \ {b} :
         ObjectsOf(backend[b]) \cap ObjectsOf(backend[c]) = {}

(* An instance outlives what was made from it: the order of ~Backend().    *)
InstanceOutlives ==
  \A id \in Ids :
    Object("instance", id) \notin live =>
      \A k \in {"messenger", "surface", "device"} : Object(k, id) \notin live

(* A queue handle keeps pointing to a pool, and its queues to a device,    *)
(* that exist, however often the Backend is moved and whatever becomes of  *)
(* other Backends, if the client is one that returns its handles in time.  *)
HandlesStayValid ==
  \A p \in handles \ KeptPools :
    Object("pool", p) \in live /\ Object("device", p) \in live
=============================================================================
