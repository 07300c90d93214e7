----------------------------- MODULE InitQueues -----------------------------
(***************************************************************************)
(* How Backend::init() decides which queues to ask of the device and       *)
(* init_queue_pool() makes families of what it gets, and the two questions *)
(* QueuePool answers about families. What comes out of it is what          *)
(* QueuePool.tla takes as its constants.                                   *)
(***************************************************************************)
EXTENDS Integers, Sequences, FiniteSetsExt

CONSTANTS
  Capabilities,   (* the bits of QueueFlagBit, which a request can name    *)
  FamilyKinds,    (* what a family of the physical device may be           *)
  RequestKinds,   (* what BackendBuilder::queue_request may hold           *)
  MaxFamilies,    (* bound: families of a device                           *)
  MaxRequests,    (* bound: requests                                       *)
  Null            (* nullopt                                               *)

(* The counts are uint32_t; nullopt is no family index.                    *)
ASSUME InitQueuesAssumption ==
  /\ \A family \in FamilyKinds : family.queueCount \in Nat
  /\ \A request \in RequestKinds : request.count \in Nat
  /\ MaxFamilies \in Nat /\ MaxRequests \in Nat
  /\ Null \notin Nat

VARIABLES
  device,         (* get_queue_families()                                  *)
  requests,       (* builder.queue_request                                 *)
  pc,             (* the loop that runs                                    *)
  next,           (* and its position                                      *)
  asked,          (* the position of the loop inside it, over the requests *)
  total_count,    (* the queues of this family that are wanted so far      *)
  descs,          (* queue_descs: what is asked of the device              *)
  families        (* the families of the pool                              *)

vars ==
  <<device, requests, pc, next, asked, total_count, descs, families>>

Init ==
  /\ device \in UNION {[1..n -> FamilyKinds] : n \in 1..MaxFamilies}
  /\ requests \in UNION {[1..n -> RequestKinds] : n \in 0..MaxRequests}
  /\ pc = "count"
  /\ next = 1
  /\ asked = 1
  /\ total_count = 0
  /\ descs = <<>>
  /\ families = <<>>

----------------------------------------------------------------------------
(* One bit in common is enough; whether the family can present is not      *)
(* looked at.                                                              *)
Wanted(family, request) == family.flags \cap request.flags # {}

(* std::min()                                                              *)
Lesser(a, b) == IF a <= b THEN a ELSE b

(* Each request takes what it asks for of what the ones before it left.    *)
Took_NotCapped(family, request) ==
  IF Wanted(family, request)
  THEN total_count + Lesser(request.count, family.queueCount)
  ELSE total_count

Took_Shared(family, request) ==
  LET count == Lesser(request.count, family.queueCount)
  IN  IF Wanted(family, request) /\ count > total_count
      THEN count ELSE total_count

Took(family, request) ==
  IF Wanted(family, request)
  THEN total_count + Lesser(request.count, family.queueCount - total_count)
  ELSE total_count

CountRequest ==
  /\ pc = "count"
  /\ next <= Len(device)
  /\ asked <= Len(requests)
  /\ total_count' = Took(device[next], requests[asked])
  /\ asked' = asked + 1
  /\ UNCHANGED <<device, requests, pc, next, descs, families>>

(* All the requests have been looked at for this family.                   *)
CountFamily_NextFamily ==
  /\ pc = "count"
  /\ next <= Len(device)
  /\ asked > Len(requests)
  /\ descs' = IF total_count > 0
              THEN Append(descs, [family |-> next + 1, count |-> total_count])
              ELSE descs
  /\ next' = next + 1
  /\ asked' = 1
  /\ total_count' = 0
  /\ UNCHANGED <<device, requests, pc, families>>

CountFamily ==
  /\ pc = "count"
  /\ next <= Len(device)
  /\ asked > Len(requests)
  /\ descs' = IF total_count > 0
              THEN Append(descs, [family |-> next, count |-> total_count])
              ELSE descs
  /\ next' = next + 1
  /\ asked' = 1
  /\ total_count' = 0
  /\ UNCHANGED <<device, requests, pc, families>>

BuildDevice ==
  /\ pc = "count"
  /\ next > Len(device)
  /\ descs # <<>>
  /\ pc' = "families"
  /\ next' = 1
  /\ UNCHANGED <<device, requests, asked, total_count, descs, families>>

(* No queue was wanted, or the device cannot be built.                     *)
NoDevice ==
  /\ pc = "count"
  /\ next > Len(device)
  /\ pc' = "error"
  /\ UNCHANGED <<device, requests, next, asked, total_count, descs, families>>

(* One family of init_queue_pool(): a VkQueue that vkGetDeviceQueue() does *)
(* not give is passed over, and so is a family left without one.           *)
AddFamily ==
  /\ pc = "families"
  /\ next <= Len(descs)
  /\ \E given \in SUBSET (0..(descs[next].count - 1)) :
       LET family == device[descs[next].family]
       IN  families' = IF given = {} THEN families
                       ELSE Append(families, [family_index |-> descs[next].family,
                                              flags |-> family.flags,
                                              present |-> family.present,
                                              queues |-> given])
  /\ next' = next + 1
  /\ UNCHANGED <<device, requests, pc, asked, total_count, descs>>

(* vkGetPhysicalDeviceSurfaceSupportKHR() fails: there is no pool.         *)
SupportUnknown ==
  /\ pc = "families"
  /\ next <= Len(descs)
  /\ pc' = "error"
  /\ families' = <<>>
  /\ UNCHANGED <<device, requests, next, asked, total_count, descs>>

MakePool ==
  /\ pc = "families"
  /\ next > Len(descs)
  /\ pc' = "pool"
  /\ UNCHANGED <<device, requests, next, asked, total_count, descs, families>>

Next ==
  \/ CountRequest
  \/ CountFamily
  \/ BuildDevice
  \/ NoDevice
  \/ AddFamily
  \/ SupportUnknown
  \/ MakePool

Spec == Init /\ [][Next]_vars

----------------------------------------------------------------------------
(* The index of the first family of the pool in a set of positions.        *)
FirstOf(positions) ==
  IF positions = {} THEN Null ELSE families[Min(positions)].family_index

(* A family that has no other flag, of any kind, is preferred.             *)
dedicated_family_AnyWithBit(cap) ==
  FirstOf({i \in DOMAIN families : cap \in families[i].flags})

dedicated_family(cap) ==
  LET exact == {i \in DOMAIN families : families[i].flags = {cap}}
      having == {i \in DOMAIN families : cap \in families[i].flags}
  IN  FirstOf(IF exact # {} THEN exact ELSE having)

all_family_indices == [i \in DOMAIN families |-> families[i].family_index]

----------------------------------------------------------------------------
(* The state is well typed; queueCount - total_count, which is unsigned,   *)
(* never passes below zero.                                                *)
TypeOK ==
  /\ device \in Seq(FamilyKinds)
  /\ requests \in Seq(RequestKinds)
  /\ pc \in {"count", "families", "pool", "error"}
  /\ next \in 1..(MaxFamilies + 1)
  /\ asked \in 1..(MaxRequests + 1)
  /\ total_count \in Nat
  /\ pc = "count" /\ next <= Len(device) =>
       total_count <= device[next].queueCount
  /\ descs \in Seq([family : DOMAIN device, count : Nat])
  /\ families \in Seq([family_index : DOMAIN device,
                       flags : {family.flags : family \in FamilyKinds},
                       present : {family.present : family \in FamilyKinds},
                       queues : SUBSET Nat])
  /\ \A i \in DOMAIN families :
       LET family == device[families[i].family_index]
       IN  /\ families[i].flags = family.flags
           /\ families[i].present = family.present

(* vkCreateDevice() is asked for each family once, and for as many queues  *)
(* as the family has at most.                                              *)
DeviceQueuesValid ==
  \A i \in DOMAIN descs :
    /\ descs[i].count \in 1..device[descs[i].family].queueCount
    /\ \A j \in DOMAIN descs : i < j => descs[i].family < descs[j].family

(* Every queue the requests ask for, each to be acquired by its request.   *)
Acquisitions ==
  UNION {{<<r, n>> : n \in 1..requests[r].count} : r \in DOMAIN requests}

(* The families of the device that QueuePool::acquire() would match with   *)
(* a request, if they were in the pool.                                    *)
Serving(request) ==
  {f \in DOMAIN device : /\ request.flags \subseteq device[f].flags
                         /\ request.present => device[f].present}

(* The ways to get all the requests' queues at once, when family f has     *)
(* available[f] queues: which family each acquisition takes its queue of.  *)
Plans(available) ==
  {plan \in [Acquisitions -> DOMAIN device] :
     /\ \A a \in Acquisitions : plan[a] \in Serving(requests[a[1]])
     /\ \A f \in DOMAIN device :
          Cardinality({a \in Acquisitions : plan[a] = f}) <= available[f]}

InPool == [f \in DOMAIN device |->
             Cardinality(UNION {families[i].queues :
               i \in {j \in DOMAIN families : families[j].family_index = f}})]

(* Choosing queues by a single common bit, first come first served and     *)
(* without a look at presentation, loses nothing: however the whole device *)
(* could serve all the requests at once, so can the pool.                  *)
NothingLost ==
  (/\ pc = "pool"
   /\ \A i \in DOMAIN descs : InPool[descs[i].family] = descs[i].count)
  => Plans([f \in DOMAIN device |-> device[f].queueCount]) = Plans(InPool)

(* dedicated_family() names a family with the capability, which has a      *)
(* queue to acquire and is one of all_family_indices(); one with only that *)
(* capability if the pool has any; and none only if no queue of the pool   *)
(* has the capability.                                                     *)
DedicatedFamilyRight ==
  pc = "pool" =>
    \A cap \in Capabilities :
      LET f == dedicated_family(cap)
          Has(i) == families[i].queues # {} /\ cap \in families[i].flags
      IN  IF f = Null
          THEN \A i \in DOMAIN families : ~Has(i)
          ELSE /\ InPool[f] > 0
               /\ \E i \in DOMAIN families : all_family_indices[i] = f /\ Has(i)
               /\ (\E i \in DOMAIN families : families[i].flags = {cap})
                    => device[f].flags = {cap}
=============================================================================
