------------------------------ MODULE Wrappers ------------------------------
(***************************************************************************)
(* The classes around one driver object each: Fence, Semaphore, CmdPool,   *)
(* CommandBuffer, MemoryAllocator and Buffer. They share a pattern. The    *)
(* static create() puts the handle into a wrapper before Result looks at   *)
(* whether the driver gave one; a move copies the attributes and nullifies *)
(* the source; the destructor destroys the object of a wrapper that is not *)
(* nullified. A CommandBuffer keeps the raw handle of its pool, a Buffer   *)
(* that of its allocator.                                                  *)
(*                                                                         *)
(* The client gives a wrapper up only when it holds no wrapper that was    *)
(* made from it. A call with a handle the driver does not know, or that    *)
(* destroys what still has children, is recorded in misuse; what follows   *)
(* is undefined, and the behaviour ends there.                             *)
(***************************************************************************)
EXTENDS Naturals

CONSTANTS
  Places,      (* the wrapper objects of the client, those in a Result too *)
  Ids,         (* names for driver objects                                 *)
  Device,      (* the VkDevice of the Backend they are all made from       *)
  Null,        (* VK_NULL_HANDLE                                           *)
  Counts,      (* the counts create_buffer() is called with                *)
  ElementSize, (* sizeof(T)                                                *)
  SizeRange    (* the number of values of a size_t, 2^w                    *)

ASSUME WrappersAssumption ==
  /\ Device \notin Ids
  /\ Null \notin Ids \cup {Device}
  /\ Counts \subseteq Nat
  /\ {ElementSize, SizeRange} \subseteq Nat \ {0}

VARIABLES
  place,       (* the attributes of each wrapper                           *)
  object,      (* the driver's objects                                     *)
  abandoned,   (* objects whose only handle a move assignment overwrote    *)
  stolen,      (* objects destroyed through a handle nobody had written    *)
  misuse       (* the first call that broke a rule of the driver           *)

wrapperVars == <<place, object, abandoned, stolen, misuse>>

----------------------------------------------------------------------------
Kinds == {"fence", "semaphore", "pool", "cmd", "allocator", "buffer"}

(* A wrapper that was moved from, or whose lifetime has ended.             *)
Nulled == [kind |-> "none", id |-> Null, parent |-> Null]

Exists(kind, id) == object[id] # Null /\ object[id].kind = kind

Children(id) == {c \in Ids : object[c] # Null /\ object[c].parent = id}

Wrong(id, why) ==
  /\ misuse' = {[id |-> id, why |-> why]}
  /\ UNCHANGED <<object, abandoned>>

(* The driver destroys an object. A command pool takes its command buffers *)
(* with it; nothing else may have children left.                           *)
DriverDestroys(kind, id) ==
  /\ object' = [i \in DOMAIN object |->
                  IF i \in {id} \cup Children(id) THEN Null ELSE object[i]]
  /\ abandoned' = abandoned \ ({id} \cup Children(id))
  /\ UNCHANGED misuse

DriverCall(kind, id) ==
  IF ~Exists(kind, id) THEN Wrong(id, "gone")
  ELSE IF kind # "pool" /\ Children(id) # {} THEN Wrong(id, "children")
  ELSE DriverDestroys(kind, id)

----------------------------------------------------------------------------
(* The pattern                                                             *)

(* create() is given an object of the driver, under a name nothing bears.  *)
(* What the driver keeps for it besides is its content.                    *)
Create(kind, parent, p, id, content) ==
  /\ misuse = {}
  /\ place[p] = Nulled
  /\ object[id] = Null
  /\ \A q \in Places : id \notin {place[q].id, place[q].parent}
  /\ IF object[parent] = Null
     THEN Wrong(parent, "gone") /\ UNCHANGED <<place, stolen>>
     ELSE /\ object' = [object EXCEPT ![id] = [kind |-> kind,
                                               parent |-> parent,
                                               content |-> content]]
          /\ place' = [place EXCEPT ![p] = [kind |-> kind, id |-> id,
                                            parent |-> parent]]
          /\ stolen' = stolen \ {id}
          /\ UNCHANGED <<abandoned, misuse>>

(* The calls on the device that leave the handle alone when they fail. For *)
(* command buffers and allocators a null handle is written, and a refused  *)
(* create() changes nothing; for buffers see create_buffer_refused.        *)
LeaveUnwritten == {"fence", "semaphore", "pool"}

(* create() is refused. Result::replace_ok() returns the error; the        *)
(* wrapper it was given is destroyed as a temporary, with what happened to *)
(* be in the handle: nothing (and nothing happens), or any handle of this  *)
(* program, or none that parent has.                                       *)
Refuse(kind, parent, stale) ==
  /\ misuse = {}
  /\ IF Exists(kind, stale) /\ object[stale].parent = parent
     THEN /\ DriverDestroys(kind, stale)
          /\ stolen' = stolen \cup {stale} \cup Children(stale)
     ELSE Wrong(stale, "stale") /\ UNCHANGED stolen
  /\ UNCHANGED place

Overwrite(id) ==
  abandoned' = abandoned \cup {i \in Ids : i = id /\ object[i] # Null}

(* Move construction, when dst is Nulled, and move assignment, which       *)
(* forgets what dst had.                                                   *)
Move_SourceKept(kind, dst, src) ==
  /\ misuse = {}
  /\ dst # src
  /\ {place[dst].kind, place[src].kind} \in {{kind}, {kind, "none"}}
  /\ place' = [place EXCEPT ![dst] = place[src]]
  /\ Overwrite(place[dst].id)
  /\ UNCHANGED <<object, stolen, misuse>>

Move_NullifiedFirst(kind, dst, src) ==
  /\ misuse = {}
  /\ dst # src
  /\ {place[dst].kind, place[src].kind} \in {{kind}, {kind, "none"}}
  /\ place' = [place EXCEPT ![dst] = Nulled, ![src] = Nulled]
  /\ Overwrite(place[dst].id)
  /\ UNCHANGED <<object, stolen, misuse>>

Move_OldDestroyed(kind, dst, src) ==
  /\ misuse = {}
  /\ dst # src
  /\ {place[dst].kind, place[src].kind} \in {{kind}, {kind, "none"}}
  /\ place' = [place EXCEPT ![dst] = place[src], ![src] = Nulled]
  /\ IF place[dst] = Nulled THEN UNCHANGED <<object, abandoned, misuse>>
     ELSE DriverCall(kind, place[dst].id)
  /\ UNCHANGED stolen

Move(kind, dst, src) ==
  /\ misuse = {}
  /\ dst # src
  /\ {place[dst].kind, place[src].kind} \in {{kind}, {kind, "none"}}
  /\ place' = [place EXCEPT ![dst] = place[src], ![src] = Nulled]
  /\ Overwrite(place[dst].id)
  /\ UNCHANGED <<object, stolen, misuse>>

(* The destructor of a wrapper that is not nullified.                      *)
Destroy(kind, p) ==
  /\ misuse = {}
  /\ place[p].kind = kind
  /\ \A q \in Places : place[q].parent # place[p].id
  /\ DriverCall(kind, place[p].id)
  /\ place' = [place EXCEPT ![p] = Nulled]
  /\ UNCHANGED stolen

----------------------------------------------------------------------------
(* Fence                                                                   *)
CreateFence(p, id) == Create("fence", Device, p, id, Null)

(* Backend::create_fence()                                                 *)
create_fence(p, id) == object[Device] # Null /\ CreateFence(p, id)

MoveFence(dst, src) == Move("fence", dst, src)
DestroyFence(p) == Destroy("fence", p)

(* Semaphore, with BinarySemaphore, which keeps nothing that matters here, *)
(* and TimelineSemaphore, which keeps a value.                             *)
CreateBinary(p, id) == Create("semaphore", Device, p, id, Null)
CreateTimeline(p, id, initial_value) ==
  Create("semaphore", Device, p, id, [value |-> initial_value])

(* Backend::create_binary_semaphore() and create_timeline_semaphore(); the *)
(* client starts from 0.                                                   *)
create_semaphore(p, id) ==
  /\ object[Device] # Null
  /\ CreateBinary(p, id) \/ CreateTimeline(p, id, 0)

MoveSemaphore(dst, src) == Move("semaphore", dst, src)
DestroySemaphore(p) == Destroy("semaphore", p)

----------------------------------------------------------------------------
(* CmdPool                                                                 *)
CreatePool(p, id) == Create("pool", Device, p, id, Null)

(* Queue::create_cmd_pool(), of a queue that is there as long as its       *)
(* Backend (QueuePool models how the client comes by it).                  *)
create_cmd_pool(p, id) == object[Device] # Null /\ CreatePool(p, id)

MovePool(dst, src) == Move("pool", dst, src)
DestroyPool(p) == Destroy("pool", p)

(* CommandBuffer, made by CmdPool::create_cmd() of the pool in q.          *)
CreateCmd(pool, p, id) == Create("cmd", pool, p, id, Null)
create_cmd(q, p, id) ==
  place[q].kind = "pool" /\ CreateCmd(place[q].id, p, id)

MoveCmd(dst, src) == Move("cmd", dst, src)
DestroyCmd(p) == Destroy("cmd", p)

----------------------------------------------------------------------------
(* MemoryAllocator                                                         *)
CreateAllocator(p, id) == Create("allocator", Device, p, id, Null)

(* Backend::create_memory_allocator()                                      *)
create_memory_allocator(p, id) ==
  object[Device] # Null /\ CreateAllocator(p, id)

MoveAllocator(dst, src) == Move("allocator", dst, src)
DestroyAllocator(p) == Destroy("allocator", p)

(* Buffer: count elements for its client, a mapped memory of some bytes    *)
(* for the driver. The memory counts for two parts that are written one    *)
(* after the other; 0 stands for what was there before the first write.    *)
CreateBuffer(allocator, p, id, count, bytes) ==
  Create("buffer", allocator, p, id,
         [count |-> count, bytes |-> bytes, data |-> [part \in {1, 2} |-> 0]])

(* MemoryAllocator::create_buffer() of the allocator in q. The size is a   *)
(* product of two size_t.                                                  *)
SizeOf(count) == (ElementSize * count) % SizeRange

create_buffer(q, p, id, count) ==
  /\ place[q].kind = "allocator"
  /\ SizeOf(count) > 0
  /\ CreateBuffer(place[q].id, p, id, count, SizeOf(count))

(* VMA refuses a size of 0, of no elements or of a product that wrapped,   *)
(* before it writes to any of the handles; when it fails later it has made *)
(* them null, and ~Buffer() then does nothing. The buffer and the          *)
(* allocation in the temporary are both of the same old buffer, or they    *)
(* are nothing VMA knows.                                                  *)
create_buffer_refused(q, count, stale) ==
  /\ place[q].kind = "allocator"
  /\ SizeOf(count) = 0
  /\ Refuse("buffer", place[q].id, stale)

MoveBuffer(dst, src) == Move("buffer", dst, src)
DestroyBuffer(p) == Destroy("buffer", p)

(* ~Backend() destroys the device, once the client has no wrapper left.    *)
DestroyDevice ==
  /\ misuse = {}
  /\ object[Device] # Null
  /\ \A p \in Places : place[p] = Nulled
  /\ DriverCall("device", Device)
  /\ UNCHANGED <<place, stolen>>

----------------------------------------------------------------------------
WrapperInit ==
  /\ place = [p \in Places |-> Nulled]
  /\ object = [i \in Ids \cup {Device} |->
                 IF i = Device
                 THEN [kind |-> "device", parent |-> Null, content |-> Null]
                 ELSE Null]
  /\ abandoned = {}
  /\ stolen = {}
  /\ misuse = {}

CreateStep ==
  \E p, q \in Places, id \in Ids :
    \/ create_fence(p, id)
    \/ create_semaphore(p, id)
    \/ create_cmd_pool(p, id)
    \/ create_cmd(q, p, id)
    \/ create_memory_allocator(p, id)
    \/ \E count \in Counts : create_buffer(q, p, id, count)

RefuseStep ==
  \E stale \in Ids :
    \/ /\ object[Device] # Null
       /\ \E kind \in LeaveUnwritten : Refuse(kind, Device, stale)
    \/ \E q \in Places, count \in Counts :
         create_buffer_refused(q, count, stale)

MoveStep ==
  \E dst, src \in Places :
    \/ MoveFence(dst, src)
    \/ MoveSemaphore(dst, src)
    \/ MovePool(dst, src)
    \/ MoveCmd(dst, src)
    \/ MoveAllocator(dst, src)
    \/ MoveBuffer(dst, src)

DestroyStep ==
  \E p \in Places :
    \/ DestroyFence(p)
    \/ DestroySemaphore(p)
    \/ DestroyPool(p)
    \/ DestroyCmd(p)
    \/ DestroyAllocator(p)
    \/ DestroyBuffer(p)

WrapperStep ==
  \/ CreateStep
  \/ RefuseStep
  \/ MoveStep
  \/ DestroyStep
  \/ DestroyDevice

----------------------------------------------------------------------------
Held == {place[p].id : p \in Places} \ {Null}

(* Nothing is leaked: what the driver has, a wrapper refers to, or a move  *)
(* assignment has overwritten the last reference.                          *)
EveryObjectOwned ==
  misuse = {} =>
    {i \in Ids : object[i] # Null} \subseteq Held \cup abandoned

(* No two wrappers would destroy the same object.                          *)
SoleOwner ==
  \A p, q \in Places :
    p # q /\ place[p] # Nulled => place[p].id # place[q].id

(* The raw handles in a wrapper, its own and its parent's, stay valid      *)
(* wherever the wrappers are moved, also when the parent's is moved or     *)
(* overwritten: only a create() that the driver refused can have destroyed *)
(* the object.                                                             *)
HandlesExist ==
  \A p \in Places :
    place[p] # Nulled =>
      \/ place[p].id \in stolen
      \/ /\ Exists(place[p].kind, place[p].id)
         /\ object[place[p].parent] # Null

(* A client that destroys children before parents breaks a rule of the     *)
(* driver only in the wake of a refused create() or of a move assignment   *)
(* that overwrote an object: its parent then cannot be destroyed rightly,  *)
(* the device included.                                                    *)
MisuseExplained ==
  \A m \in misuse :
    \/ m.why = "stale"
    \/ m.why = "gone" /\ m.id \in stolen
    \/ m.why = "children" /\ Children(m.id) \subseteq abandoned
=============================================================================
