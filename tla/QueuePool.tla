----------------------------- MODULE QueuePool -----------------------------
(***************************************************************************)
(* backends/vulkan/queue.cpp: QueuePool and QueuePool::Handle.             *)
(*                                                                         *)
(* The pool owns a fixed list of slots, one per VkQueue, each with a flag  *)
(* in_use. acquire() waits on a condition variable until a slot with the   *)
(* requested capabilities is free; a Handle gives its slot back when it is *)
(* destroyed. A step of a thread is what it does between two points where  *)
(* another thread can be seen: entering and leaving the mutex, going to    *)
(* sleep, and the notification, which the code sends after the unlock.     *)
(***************************************************************************)
EXTENDS Naturals, FiniteSets

CONSTANTS
  Threads,         (* threads of the client                                *)
  Handles,         (* places that can hold a QueuePool::Handle             *)
  N,               (* the number of slots                                  *)
  Flags,           (* the bits of QueueFlagBit                             *)
  Caps,            (* QueueCapabilities of each slot's queue               *)
  Requests,        (* the (required, presentable) pairs that are asked for *)
  Null,            (* nullptr: an empty, moved-from or unborn handle       *)
  NoRequest,       (* a thread outside acquire()                           *)
  NoThread,        (* nobody: the mutex is unlocked                        *)
  OverwritesHeld   (* do clients move-assign onto a handle with a queue?   *)

Slots == 1..N

Request == [required : SUBSET Flags, presentable : BOOLEAN]

ASSUME PoolAssumption ==
  /\ N \in Nat
  /\ Caps \in [Slots -> [flags : SUBSET Flags, present : BOOLEAN]]
  /\ Requests \subseteq Request
  /\ Null \notin Slots
  /\ NoRequest \notin Request
  /\ NoThread \notin Threads
  /\ OverwritesHeld \in BOOLEAN

VARIABLES
  in_use,   (* Slot::in_use                                                *)
  handle,   (* Handle::queue of each handle, as the slot it points to      *)
  mutex,    (* the thread that owns *mutex across two steps, or NoThread   *)
  pc,       (* where each thread is in the pool's code                     *)
  req,      (* the arguments of the acquire() a thread is in               *)
  rel       (* the argument of the release() a thread is in                *)

vars == <<in_use, handle, mutex, pc, req, rel>>

(* idle     outside the pool                                               *)
(* lock     in acquire(), about to lock and test the wait's predicate      *)
(* asleep   in cv->wait, the mutex given up                                *)
(* take     in acquire(), past the wait, the mutex held                    *)
(* release  in release(), before the lock                                  *)
(* notify   in release(), after the unlock                                 *)
PCs == {"idle", "lock", "asleep", "take", "release", "notify"}

Acquiring == {"lock", "asleep", "take"}

----------------------------------------------------------------------------
(* The test the code repeats in acquire, in its wait and in try_acquire.   *)
Matches_AnyBit(q, r) ==
  /\ r.required \intersect Caps[q].flags # {}
  /\ r.presentable => Caps[q].present

Matches(q, r) ==
  /\ r.required \subseteq Caps[q].flags
  /\ r.presentable => Caps[q].present

Matching(r) == {q \in Slots : Matches(q, r)}

FreeMatches(r) == {q \in Matching(r) : ~in_use[q]}

IsFirstFree(q, r) ==
  /\ q \in FreeMatches(r)
  /\ \A p \in FreeMatches(r) : q <= p

----------------------------------------------------------------------------
Init ==
  /\ in_use = [q \in Slots |-> FALSE]
  /\ handle = [h \in Handles |-> Null]
  /\ mutex = NoThread
  /\ pc = [t \in Threads |-> "idle"]
  /\ req = [t \in Threads |-> NoRequest]
  /\ rel = [t \in Threads |-> Null]

(* acquire() up to the lock. If no queue of the pool matches it returns    *)
(* nullopt, having changed nothing.                                        *)
CallAcquire(t, r) ==
  /\ pc[t] = "idle"
  /\ Matching(r) # {}
  /\ pc' = [pc EXCEPT ![t] = "lock"]
  /\ req' = [req EXCEPT ![t] = r]
  /\ UNCHANGED <<in_use, handle, mutex, rel>>

(* The thread locks and the predicate holds: it leaves the wait with the   *)
(* mutex.                                                                  *)
FindFree(t) ==
  /\ pc[t] = "lock"
  /\ mutex = NoThread
  /\ FreeMatches(req[t]) # {}
  /\ mutex' = t
  /\ pc' = [pc EXCEPT ![t] = "take"]
  /\ UNCHANGED <<in_use, handle, req, rel>>

(* The predicate does not hold: the wait unlocks and sleeps in one step.   *)
FallAsleep_NoPredicate(t) ==
  /\ pc[t] = "lock"
  /\ mutex = NoThread
  /\ pc' = [pc EXCEPT ![t] = "asleep"]
  /\ UNCHANGED <<in_use, handle, mutex, req, rel>>

FallAsleep(t) ==
  /\ pc[t] = "lock"
  /\ mutex = NoThread
  /\ FreeMatches(req[t]) = {}
  /\ pc' = [pc EXCEPT ![t] = "asleep"]
  /\ UNCHANGED <<in_use, handle, mutex, req, rel>>

(* The first free slot that matches is marked, its handle returned and the *)
(* mutex unlocked.                                                         *)
Take_NotMarked(t) ==
  /\ pc[t] = "take"
  /\ \E h \in Handles, q \in Slots :
       /\ handle[h] = Null
       /\ IsFirstFree(q, req[t])
       /\ handle' = [handle EXCEPT ![h] = q]
  /\ mutex' = NoThread
  /\ pc' = [pc EXCEPT ![t] = "idle"]
  /\ req' = [req EXCEPT ![t] = NoRequest]
  /\ UNCHANGED <<in_use, rel>>

Take(t) ==
  /\ pc[t] = "take"
  /\ \E h \in Handles, q \in Slots :
       /\ handle[h] = Null
       /\ IsFirstFree(q, req[t])
       /\ in_use' = [in_use EXCEPT ![q] = TRUE]
       /\ handle' = [handle EXCEPT ![h] = q]
  /\ mutex' = NoThread
  /\ pc' = [pc EXCEPT ![t] = "idle"]
  /\ req' = [req EXCEPT ![t] = NoRequest]
  /\ UNCHANGED rel

(* try_acquire() when a slot is free; otherwise it returns nullopt, having *)
(* changed nothing. Its lock is taken and given up within the step.        *)
TryAcquire_NoLock(t, h, q, r) ==
  /\ pc[t] = "idle"
  /\ handle[h] = Null
  /\ IsFirstFree(q, r)
  /\ in_use' = [in_use EXCEPT ![q] = TRUE]
  /\ handle' = [handle EXCEPT ![h] = q]
  /\ UNCHANGED <<mutex, pc, req, rel>>

TryAcquire(t, h, q, r) ==
  /\ pc[t] = "idle"
  /\ mutex = NoThread
  /\ handle[h] = Null
  /\ IsFirstFree(q, r)
  /\ in_use' = [in_use EXCEPT ![q] = TRUE]
  /\ handle' = [handle EXCEPT ![h] = q]
  /\ UNCHANGED <<mutex, pc, req, rel>>

(* ~Handle(): release() is called when the handle has a queue.             *)
DestroyHandle_NoNullTest(t, h) ==
  /\ pc[t] = "idle"
  /\ handle' = [handle EXCEPT ![h] = Null]
  /\ pc' = [pc EXCEPT ![t] = "release"]
  /\ rel' = [rel EXCEPT ![t] = handle[h]]
  /\ UNCHANGED <<in_use, mutex, req>>

DestroyHandle_NoRelease(t, h) ==
  /\ pc[t] = "idle"
  /\ handle[h] # Null
  /\ handle' = [handle EXCEPT ![h] = Null]
  /\ UNCHANGED <<in_use, mutex, pc, req, rel>>

DestroyHandle(t, h) ==
  /\ pc[t] = "idle"
  /\ handle[h] # Null
  /\ handle' = [handle EXCEPT ![h] = Null]
  /\ pc' = [pc EXCEPT ![t] = "release"]
  /\ rel' = [rel EXCEPT ![t] = handle[h]]
  /\ UNCHANGED <<in_use, mutex, req>>

(* release(): lock, clear the slot's flag, unlock.                         *)
Release_NoNotify(t) ==
  /\ pc[t] = "release"
  /\ mutex = NoThread
  /\ in_use' = [in_use EXCEPT ![rel[t]] = FALSE]
  /\ pc' = [pc EXCEPT ![t] = "idle"]
  /\ rel' = [rel EXCEPT ![t] = Null]
  /\ UNCHANGED <<handle, mutex, req>>

Release(t) ==
  /\ pc[t] = "release"
  /\ mutex = NoThread
  /\ in_use' = [in_use EXCEPT ![rel[t]] = FALSE]
  /\ pc' = [pc EXCEPT ![t] = "notify"]
  /\ rel' = [rel EXCEPT ![t] = Null]
  /\ UNCHANGED <<handle, mutex, req>>

(* cv->notify_one(): any one sleeper, whatever it asked for, or nobody     *)
(* when nobody sleeps.                                                     *)
Notify(t) ==
  /\ pc[t] = "notify"
  /\ \/ \E u \in Threads :
          /\ pc[u] = "asleep"
          /\ pc' = [pc EXCEPT ![t] = "idle", ![u] = "lock"]
     \/ /\ \A u \in Threads : pc[u] # "asleep"
        /\ pc' = [pc EXCEPT ![t] = "idle"]
  /\ UNCHANGED <<in_use, handle, mutex, req, rel>>

(* A condition variable may wake a thread nobody notified.                 *)
SpuriousWake(t) ==
  /\ pc[t] = "asleep"
  /\ pc' = [pc EXCEPT ![t] = "lock"]
  /\ UNCHANGED <<in_use, handle, mutex, req, rel>>

(* Handle's move constructor (dst empty) and move assignment. The source   *)
(* becomes empty; what dst pointed to is overwritten, not released.        *)
MoveHandle_KeepsSource(t, dst, src) ==
  /\ pc[t] = "idle"
  /\ dst # src
  /\ OverwritesHeld \/ handle[dst] = Null
  /\ handle' = [handle EXCEPT ![dst] = handle[src]]
  /\ UNCHANGED <<in_use, mutex, pc, req, rel>>

MoveHandle(t, dst, src) ==
  /\ pc[t] = "idle"
  /\ dst # src
  /\ OverwritesHeld \/ handle[dst] = Null
  /\ handle' = [handle EXCEPT ![dst] = handle[src], ![src] = Null]
  /\ UNCHANGED <<in_use, mutex, pc, req, rel>>

Client(t) ==
  \/ \E r \in Requests : CallAcquire(t, r)
  \/ \E h \in Handles, q \in Slots, r \in Requests : TryAcquire(t, h, q, r)
  \/ \E h \in Handles : DestroyHandle(t, h)
  \/ \E dst, src \in Handles : MoveHandle(t, dst, src)

Library(t) ==
  \/ FindFree(t)
  \/ FallAsleep(t)
  \/ Take(t)
  \/ Release(t)
  \/ Notify(t)

Next == \E t \in Threads : Client(t) \/ Library(t) \/ SpuriousWake(t)

Spec == Init /\ [][Next]_vars

(* A thread inside the pool runs on when it can; what the client does, and *)
(* a spurious wake-up, need never happen.                                  *)
FairSpec ==
  /\ Spec
  /\ \A t \in Threads : WF_vars(Library(t))

----------------------------------------------------------------------------
(* The variables have their types, and a thread's arguments are there when *)
(* its code reads them: release() always runs on a slot (the test in       *)
(* ~Handle), a wait always on a request.                                   *)
TypeOK ==
  /\ in_use \in [Slots -> BOOLEAN]
  /\ handle \in [Handles -> Slots \cup {Null}]
  /\ mutex \in Threads \cup {NoThread}
  /\ pc \in [Threads -> PCs]
  /\ req \in [Threads -> Requests \cup {NoRequest}]
  /\ rel \in [Threads -> Slots \cup {Null}]
  /\ \A t \in Threads :
       /\ req[t] # NoRequest <=> pc[t] \in Acquiring
       /\ rel[t] # Null <=> pc[t] = "release"

Held == {q \in Slots : \E h \in Handles : handle[h] = q}

Releasing == {q \in Slots : \E t \in Threads : rel[t] = q}

(* No two handles own one queue, and a queue on its way back through       *)
(* release() is in no handle and in no other release().                    *)
ExclusiveHolder ==
  /\ \A g, h \in Handles : handle[g] = handle[h] /\ handle[h] # Null => g = h
  /\ \A t, u \in Threads : rel[t] = rel[u] /\ rel[u] # Null => t = u
  /\ Held \intersect Releasing = {}

(* A queue somebody owns is never offered to somebody else.                *)
OwnedIsInUse == \A q \in Held \cup Releasing : in_use[q]

(* The scan after the wait always finds a slot: the LOGERR("Unreachable")  *)
(* at the end of acquire() cannot be reached.                              *)
UnreachableNotReached ==
  \A t \in Threads : pc[t] = "take" => FreeMatches(req[t]) # {}

(* No queue is marked in use for ever: its owner is a handle, or it is     *)
(* being released.                                                         *)
NoLostQueue == \A q \in Slots : in_use[q] => q \in Held \cup Releasing

(* While a thread sleeps although a queue it could have is free, a wake-up *)
(* is under way: somebody is about to notify, or to test its predicate.    *)
Awaited(t) == pc[t] = "asleep" /\ FreeMatches(req[t]) # {}

WakeupUnderWay ==
  (\E t \in Threads : Awaited(t)) =>
    \E u \in Threads : pc[u] \in {"notify", "lock", "take"}

(* A thread does not sleep for ever beside a queue it could have.          *)
NoStrandedWaiter ==
  \A t \in Threads : Awaited(t) ~> ~Awaited(t)

(* The pool implements the allocator its interface describes.              *)
Allocator == INSTANCE QueueAllocator WITH
  free <- {q \in Slots : ~in_use[q]},
  holds <- handle,
  wants <- req,
  returning <- Releasing

Implements == Allocator!Spec
=============================================================================
