-------------------------- MODULE QueuePoolProofs --------------------------
(***************************************************************************)
(* What the queue pool does for every number of threads, handles and       *)
(* queues, and whatever the queues' capabilities and the requests are.     *)
(*                                                                         *)
(* Everything rests on one inductive invariant, IInv: the types, the       *)
(* mutual exclusion the mutex gives to the two steps of acquire(), and the *)
(* accounting of owners, each slot belonging to at most one handle or one  *)
(* release() and being marked while it does. Refinement of QueueAllocator  *)
(* follows from it, and so does, with EachHasItsWakeup, that one           *)
(* notification per release is enough for one kind of request.             *)
(***************************************************************************)
EXTENDS QueuePool, TLAPS

USE PoolAssumption DEF Slots, Request

----------------------------------------------------------------------------
(* Every reachable state is well typed, and each thread has the arguments  *)
(* its code is about to use.                                               *)
LEMMA TypeInit == Init => TypeOK
  BY DEF Init, TypeOK, PCs, Acquiring

(* Each step keeps the types.                                              *)
LEMMA TypeStep == TypeOK /\ [Next]_vars => TypeOK'
<1> SUFFICES ASSUME TypeOK, [Next]_vars PROVE TypeOK'
  OBVIOUS
<1> USE DEF TypeOK, PCs, Acquiring
<1>1. ASSUME NEW t \in Threads, NEW r \in Requests, CallAcquire(t, r)
      PROVE  TypeOK'
  BY <1>1 DEF CallAcquire
<1>2. ASSUME NEW t \in Threads, FindFree(t) PROVE TypeOK'
  BY <1>2 DEF FindFree
<1>3. ASSUME NEW t \in Threads, FallAsleep(t) PROVE TypeOK'
  BY <1>3 DEF FallAsleep
<1>4. ASSUME NEW t \in Threads, Take(t) PROVE TypeOK'
  BY <1>4 DEF Take
<1>5. ASSUME NEW t \in Threads, NEW h \in Handles, NEW q \in Slots,
             NEW r \in Requests, TryAcquire(t, h, q, r)
      PROVE  TypeOK'
  BY <1>5 DEF TryAcquire
<1>6. ASSUME NEW t \in Threads, NEW h \in Handles, DestroyHandle(t, h)
      PROVE  TypeOK'
  BY <1>6 DEF DestroyHandle
<1>7. ASSUME NEW t \in Threads, Release(t) PROVE TypeOK'
  BY <1>7 DEF Release
<1>8. ASSUME NEW t \in Threads, Notify(t) PROVE TypeOK'
  BY <1>8 DEF Notify
<1>9. ASSUME NEW t \in Threads, SpuriousWake(t) PROVE TypeOK'
  BY <1>9 DEF SpuriousWake
<1>10. ASSUME NEW t \in Threads, NEW dst \in Handles, NEW src \in Handles,
              MoveHandle(t, dst, src)
       PROVE  TypeOK'
  BY <1>10 DEF MoveHandle
<1>11. CASE UNCHANGED vars
  BY <1>11 DEF vars
<1> QED
  BY <1>1, <1>2, <1>3, <1>4, <1>5, <1>6, <1>7, <1>8, <1>9, <1>10, <1>11
     DEF Next, Client, Library

(* Whatever the threads interleave, release() runs on a slot and a wait on *)
(* a request.                                                              *)
THEOREM TypeCorrect == Spec => []TypeOK
  BY TypeInit, TypeStep, PTL DEF Spec

----------------------------------------------------------------------------
(* A thread holds the mutex across two steps exactly while it is between   *)
(* leaving the wait and taking its slot, so no slot it saw free can be     *)
(* taken in between.                                                       *)
MutexOwner == \A t \in Threads : pc[t] = "take" <=> mutex = t

IInv ==
  /\ TypeOK
  /\ MutexOwner
  /\ UnreachableNotReached
  /\ ExclusiveHolder
  /\ OwnedIsInUse
  /\ ~OverwritesHeld => NoLostQueue

(* Initially nobody owns anything.                                         *)
LEMMA IInvInit == Init => IInv
<1> SUFFICES ASSUME Init PROVE IInv
  OBVIOUS
<1>1. TypeOK
  BY TypeInit
<1>2. Held = {} /\ Releasing = {}
  BY DEF Init, Held, Releasing
<1> QED
  BY <1>1, <1>2 DEF Init, IInv, MutexOwner, UnreachableNotReached,
     ExclusiveHolder, OwnedIsInUse, NoLostQueue, Acquiring

(* Who holds the mutex, and what the holder saw under it, survive a step.  *)
LEMMA WaitStep ==
  ASSUME IInv, [Next]_vars
  PROVE  (MutexOwner /\ UnreachableNotReached)'
<1> USE DEF IInv, TypeOK, MutexOwner, UnreachableNotReached,
            FreeMatches, Matching, PCs, Acquiring
<1> DEFINE Goal == MutexOwner /\ UnreachableNotReached
<1>1. ASSUME NEW t \in Threads, NEW r \in Requests, CallAcquire(t, r)
      PROVE  Goal'
  BY <1>1 DEF CallAcquire, Matches
<1>2. ASSUME NEW t \in Threads, FindFree(t) PROVE Goal'
  BY <1>2 DEF FindFree, Matches
<1>3. ASSUME NEW t \in Threads, FallAsleep(t) PROVE Goal'
  BY <1>3 DEF FallAsleep, Matches
<1>4. ASSUME NEW t \in Threads, Take(t) PROVE Goal'
  BY <1>4 DEF Take, Matches
<1>5. ASSUME NEW t \in Threads, NEW h \in Handles, NEW q \in Slots,
             NEW r \in Requests, TryAcquire(t, h, q, r)
      PROVE  Goal'
  BY <1>5 DEF TryAcquire, Matches
<1>6. ASSUME NEW t \in Threads, NEW h \in Handles, DestroyHandle(t, h)
      PROVE  Goal'
  BY <1>6 DEF DestroyHandle, Matches
<1>7. ASSUME NEW t \in Threads, Release(t) PROVE Goal'
  BY <1>7 DEF Release, Matches
<1>8. ASSUME NEW t \in Threads, Notify(t) PROVE Goal'
  <2>1. /\ UNCHANGED <<in_use, mutex, req>>
        /\ \A u \in Threads : pc[u] = "take" <=> pc'[u] = "take"
        /\ \A u \in Threads : pc'[u] \in Acquiring <=> pc[u] \in Acquiring
    BY <1>8 DEF Notify
  <2> QED
    BY <2>1 DEF Matches
<1>9. ASSUME NEW t \in Threads, SpuriousWake(t) PROVE Goal'
  BY <1>9 DEF SpuriousWake, Matches
<1>10. ASSUME NEW t \in Threads, NEW dst \in Handles, NEW src \in Handles,
              MoveHandle(t, dst, src)
       PROVE  Goal'
  BY <1>10 DEF MoveHandle, Matches
<1>11. CASE UNCHANGED vars
  BY <1>11 DEF vars, Matches
<1> QED
  BY <1>1, <1>2, <1>3, <1>4, <1>5, <1>6, <1>7, <1>8, <1>9, <1>10, <1>11
     DEF Next, Client, Library

(* The accounting of owners survives a step: a queue enters a handle only  *)
(* when it was free, and leaves it only for another handle or for          *)
(* release(), unless a held handle is overwritten.                         *)
LEMMA OwnerStep ==
  ASSUME IInv, [Next]_vars
  PROVE  (/\ ExclusiveHolder
          /\ OwnedIsInUse
          /\ ~OverwritesHeld => NoLostQueue)'
<1> USE DEF IInv, TypeOK, ExclusiveHolder, OwnedIsInUse, NoLostQueue, Held,
            Releasing, PCs, Acquiring
<1> DEFINE Goal == /\ ExclusiveHolder
                   /\ OwnedIsInUse
                   /\ ~OverwritesHeld => NoLostQueue
<1>1. ASSUME NEW t \in Threads, NEW h \in Handles, NEW q \in Slots,
             ~in_use[q], handle[h] = Null,
             in_use' = [in_use EXCEPT ![q] = TRUE],
             handle' = [handle EXCEPT ![h] = q],
             rel' = rel
      PROVE  Goal'
  <2>1. /\ handle'[h] = q
        /\ \A g \in Handles \ {h} : handle'[g] = handle[g]
    BY <1>1
  <2>2. in_use'[q] /\ \A p \in Slots \ {q} : in_use'[p] = in_use[p]
    BY <1>1
  <2>3. q \notin Held /\ q \notin Releasing
    BY <1>1
  <2>4. Held' = Held \cup {q}
    BY <1>1, <2>1
  <2>5. Releasing' = Releasing
    BY <1>1
  <2>6. ExclusiveHolder'
    <3>1. \A g \in Handles : handle[g] # q
      BY <2>3
    <3>2. \A g, k \in Handles :
            handle'[g] = handle'[k] /\ handle'[k] # Null => g = k
      BY <2>1, <3>1
    <3>3. Held' \intersect Releasing' = {}
      BY <2>3, <2>4, <2>5
    <3> QED
      BY <1>1, <3>2, <3>3
  <2>7. OwnedIsInUse /\ (~OverwritesHeld => NoLostQueue)
    BY DEF IInv
  <2> HIDE DEF IInv, TypeOK, ExclusiveHolder, Held, Releasing
  <2>8. OwnedIsInUse' /\ (~OverwritesHeld => NoLostQueue)'
    <3>1. Held \subseteq Slots /\ Releasing \subseteq Slots
      BY DEF Held, Releasing
    <3> QED
      BY <2>2, <2>4, <2>5, <2>7, <3>1
  <2> QED
    BY <2>6, <2>8
<1>2. ASSUME NEW t \in Threads, Take(t) PROVE Goal'
  BY <1>1, <1>2 DEF Take, IsFirstFree, FreeMatches, Matching
<1>3. ASSUME NEW t \in Threads, NEW h \in Handles, NEW q \in Slots,
             NEW r \in Requests, TryAcquire(t, h, q, r)
      PROVE  Goal'
  BY <1>1, <1>3 DEF TryAcquire, IsFirstFree, FreeMatches, Matching
<1>4. ASSUME NEW t \in Threads, NEW h \in Handles, DestroyHandle(t, h)
      PROVE  Goal'
  <2>1. /\ handle[h] \in Slots
        /\ handle'[h] = Null
        /\ \A g \in Handles \ {h} : handle'[g] = handle[g]
        /\ rel[t] = Null
        /\ rel'[t] = handle[h]
        /\ \A u \in Threads \ {t} : rel'[u] = rel[u]
        /\ in_use' = in_use
    BY <1>4 DEF DestroyHandle
  <2>2. Held' = Held \ {handle[h]}
    BY <2>1
  <2>3. Releasing' = Releasing \cup {handle[h]}
    BY <2>1
  <2>4. handle[h] \in Held
    BY <2>1
  <2>5. \A g, k \in Handles :
          handle'[g] = handle'[k] /\ handle'[k] # Null => g = k
    BY <2>1
  <2>6. \A u \in Threads : rel[u] # handle[h]
    BY <2>1, <2>4
  <2>7. \A u, w \in Threads : rel'[u] = rel'[w] /\ rel'[w] # Null => u = w
    BY <2>1, <2>6
  <2>8. ExclusiveHolder'
    BY <2>2, <2>3, <2>5, <2>7
  <2>9. Held' \cup Releasing' = Held \cup Releasing
    BY <2>2, <2>3, <2>4
  <2>10. OwnedIsInUse' /\ (~OverwritesHeld => NoLostQueue)'
    <3>1. OwnedIsInUse /\ (~OverwritesHeld => NoLostQueue)
      BY DEF IInv
    <3> HIDE DEF IInv, TypeOK, ExclusiveHolder, Held, Releasing
    <3> QED
      BY <2>1, <2>9, <3>1
  <2> QED
    BY <2>8, <2>10
<1>5. ASSUME NEW t \in Threads, Release(t) PROVE Goal'
  <2>1. rel[t] \in Slots /\ handle' = handle
    BY <1>5 DEF Release
  <2>2. Held' = Held /\ Releasing' = Releasing \ {rel[t]}
    BY <1>5, <2>1 DEF Release
  <2>3. \A q \in Slots : /\ q # rel[t] => in_use'[q] = in_use[q]
                         /\ q = rel[t] => ~in_use'[q]
    BY <1>5, <2>1 DEF Release
  <2>4. ExclusiveHolder'
    BY <1>5, <2>1 DEF Release
  <2>5. rel[t] \notin Held
    BY <2>1
  <2> HIDE DEF IInv, TypeOK, ExclusiveHolder, Held, Releasing
  <2>6. Held \subseteq Slots /\ Releasing \subseteq Slots
    BY DEF Held, Releasing
  <2>7. OwnedIsInUse
    BY DEF IInv
  <2>8. OwnedIsInUse'
    BY <2>2, <2>3, <2>5, <2>6, <2>7
  <2>9. (~OverwritesHeld => NoLostQueue)'
    BY <2>2, <2>3 DEF IInv
  <2> QED
    BY <2>4, <2>8, <2>9
<1>6. ASSUME NEW t \in Threads, NEW dst \in Handles, NEW src \in Handles,
             MoveHandle(t, dst, src)
      PROVE  Goal'
  <2>1. /\ handle'[src] = Null
        /\ handle'[dst] = handle[src]
        /\ \A h \in Handles \ {dst, src} : handle'[h] = handle[h]
        /\ dst # src
        /\ UNCHANGED <<in_use, rel>>
    BY <1>6 DEF MoveHandle
  <2>2. Held' \subseteq Held /\ Releasing' = Releasing
    BY <2>1
  <2>3. \A g, h \in Handles :
          handle'[g] = handle'[h] /\ handle'[h] # Null => g = h
    BY <2>1
  <2>4. ExclusiveHolder'
    BY <2>1, <2>2, <2>3
  <2>5. OwnedIsInUse'
    BY <2>1, <2>2
  <2>6. ASSUME ~OverwritesHeld PROVE NoLostQueue'
    <3>1. handle[dst] = Null
      BY <1>6, <2>6 DEF MoveHandle
    <3>2. ASSUME NEW q \in Slots, NEW h \in Handles, handle[h] = q
          PROVE  \E g \in Handles : handle'[g] = q
      BY <2>1, <3>1, <3>2
    <3>3. Held \subseteq Held'
      BY <3>2
    <3> QED
      BY <2>1, <2>2, <2>6, <3>3
  <2> QED
    BY <2>4, <2>5, <2>6
<1>7. ASSUME UNCHANGED <<in_use, handle, rel>> PROVE Goal'
  BY <1>7
<1> QED
  BY <1>2, <1>3, <1>4, <1>5, <1>6, <1>7
     DEF Next, Client, Library, CallAcquire, FindFree, FallAsleep, Notify,
         SpuriousWake, vars

(* Each step keeps the inductive invariant.                                *)
LEMMA IInvStep == IInv /\ [Next]_vars => IInv'
  BY TypeStep, WaitStep, OwnerStep DEF IInv

(* The inductive invariant holds in every reachable state.                 *)
THEOREM IInvCorrect == Spec => []IInv
  BY IInvInit, IInvStep, PTL DEF Spec

(* After the wait, acquire() always finds a slot: its last lines, which    *)
(* log "Unreachable", are unreachable.                                     *)
THEOREM UnreachableCorrect == Spec => []UnreachableNotReached
  BY IInvCorrect, PTL DEF IInv

(* No two handles, and no handle and a release(), ever own the same queue, *)
(* whether or not clients overwrite handles.                               *)
THEOREM ExclusiveHolderCorrect == Spec => []ExclusiveHolder
  BY IInvCorrect, PTL DEF IInv

(* A queue that is owned is marked in use.                                 *)
THEOREM OwnedIsInUseCorrect == Spec => []OwnedIsInUse
  BY IInvCorrect, PTL DEF IInv

(* As long as no client assigns to a handle that has a queue, every slot   *)
(* marked in use has an owner that will give it back.                      *)
THEOREM NoLostQueueCorrect ==
  ASSUME ~OverwritesHeld
  PROVE  Spec => []NoLostQueue
<1>1. IInv => NoLostQueue
  BY DEF IInv
<1> QED
  BY <1>1, IInvCorrect, PTL

----------------------------------------------------------------------------
(* The pool's steps are the allocator's. Only Take, TryAcquire,            *)
(* CallAcquire, DestroyHandle, Release and MoveHandle are seen there; the  *)
(* lock, the sleep and the notification are stutters.                      *)
LEMMA RefineInit == Init => Allocator!Init
  BY DEF Init, Allocator!Init, Releasing

(* Every step maps to a step of the allocator or to a stutter.             *)
LEMMA RefineStep == IInv /\ [Next]_vars => [Allocator!Next]_Allocator!vars
<1> SUFFICES ASSUME IInv, [Next]_vars
             PROVE  [Allocator!Next]_Allocator!vars
  OBVIOUS
<1> DEFINE Free == {q \in Slots : ~in_use[q]}
<1> USE DEF IInv, TypeOK, PCs
<1>1. ASSUME NEW t \in Threads, NEW r \in Requests, CallAcquire(t, r)
      PROVE  Allocator!Ask(t, r)
  BY <1>1 DEF CallAcquire, Allocator!Ask, Allocator!Serves, Matching,
     Matches, Releasing, Acquiring
<1>2. ASSUME NEW t \in Threads, NEW h \in Handles, NEW q \in Slots,
             NEW r \in Requests,
             handle[h] = Null,
             IsFirstFree(q, r),
             in_use' = [in_use EXCEPT ![q] = TRUE],
             handle' = [handle EXCEPT ![h] = q],
             rel' = rel
      PROVE  Allocator!Give(h, q, r) /\ Releasing' = Releasing
  <2>1. Allocator!Serves(q, r) /\ q \in Free
    BY <1>2 DEF IsFirstFree, FreeMatches, Matching, Matches, Allocator!Serves
  <2>2. {p \in Slots : ~in_use'[p]} = Free \ {q}
    BY <1>2
  <2> QED
    BY <1>2, <2>1, <2>2 DEF Allocator!Give, Releasing
<1>3. ASSUME NEW t \in Threads, Take(t) PROVE Allocator!Grant(t)
  <2>1. PICK r \in Requests : r = req[t]
    BY <1>3 DEF Take, Acquiring
  <2>2. PICK h \in Handles, q \in Slots :
          /\ handle[h] = Null
          /\ IsFirstFree(q, r)
          /\ in_use' = [in_use EXCEPT ![q] = TRUE]
          /\ handle' = [handle EXCEPT ![h] = q]
    BY <1>3, <2>1 DEF Take
  <2>3. Allocator!Give(h, q, r) /\ Releasing' = Releasing
    BY <1>2, <1>3, <2>2 DEF Take
  <2>4. /\ r = req[t]
        /\ r # NoRequest
        /\ req' = [req EXCEPT ![t] = NoRequest]
    BY <1>3, <2>1 DEF Take
  <2> QED
    BY <2>3, <2>4 DEF Allocator!Grant, Allocator!Give
<1>4. ASSUME NEW t \in Threads, NEW h \in Handles, NEW q \in Slots,
             NEW r \in Requests, TryAcquire(t, h, q, r)
      PROVE  Allocator!TryGrant(h, q, r)
  BY <1>2, <1>4 DEF TryAcquire, Allocator!TryGrant
<1>5. ASSUME NEW t \in Threads, NEW h \in Handles, DestroyHandle(t, h)
      PROVE  Allocator!Drop(h)
  <2>1. /\ handle[h] \in Slots
        /\ rel[t] = Null
        /\ rel'[t] = handle[h]
        /\ \A u \in Threads \ {t} : rel'[u] = rel[u]
    BY <1>5 DEF DestroyHandle, Acquiring
  <2>2. ASSUME NEW q \in Slots
        PROVE  (\E u \in Threads : rel'[u] = q) <=>
                 (q = handle[h] \/ \E u \in Threads : rel[u] = q)
    BY <2>1
  <2>3. Releasing' = Releasing \cup {handle[h]}
    BY <2>1, <2>2 DEF Releasing
  <2> QED
    BY <1>5, <2>3 DEF DestroyHandle, Allocator!Drop
<1>6. ASSUME NEW t \in Threads, Release(t)
      PROVE  \E q \in Slots : Allocator!Return(q)
  <2>1. PICK q \in Slots : q = rel[t] /\ rel'[t] = Null
    BY <1>6 DEF Release
  <2>2. \A u \in Threads \ {t} : rel'[u] = rel[u] /\ rel[u] # q
    BY <1>6, <2>1 DEF Release, ExclusiveHolder
  <2>3. Releasing' = Releasing \ {q} /\ q \in Releasing
    BY <2>1, <2>2 DEF Releasing
  <2>4. {p \in Slots : ~in_use'[p]} = Free \cup {q}
    BY <1>6, <2>1 DEF Release
  <2>5. Allocator!Return(q)
    BY <1>6, <2>3, <2>4 DEF Release, Allocator!Return
  <2> QED
    BY <2>5
<1>7. ASSUME NEW t \in Threads, NEW dst \in Handles, NEW src \in Handles,
             MoveHandle(t, dst, src)
      PROVE  Allocator!Transfer(dst, src)
  BY <1>7 DEF MoveHandle, Allocator!Transfer, Releasing
<1>8. ASSUME UNCHANGED <<in_use, handle, req, rel>>
      PROVE  UNCHANGED Allocator!vars
  BY <1>8 DEF Allocator!vars, Releasing
<1> QED
  BY <1>1, <1>3, <1>4, <1>5, <1>6, <1>7, <1>8
     DEF Next, Client, Library, FindFree, FallAsleep, Notify, SpuriousWake,
         vars, Allocator!Next

(* Every behaviour of the pool is one of the allocator: a thread in        *)
(* acquire() is granted, in one step, a free queue that has every          *)
(* capability it asked for, and queues are free, held or on their way      *)
(* back, whatever the threads interleave.                                  *)
THEOREM ImplementsCorrect == Spec => Implements
<1>1. Spec => [][Allocator!Next]_Allocator!vars
  BY IInvCorrect, RefineStep, PTL DEF Spec
<1> QED
  BY <1>1, RefineInit, PTL DEF Spec, Implements, Allocator!Spec

----------------------------------------------------------------------------
(* One notification for each release is enough when what serves one        *)
(* request serves them all. Every free queue that serves it has, while     *)
(* somebody sleeps, a thread of its own that is about to notify, to test   *)
(* its predicate or to take a queue. (A queue is freed by a thread that    *)
(* then notifies; the notification becomes a thread that tests; one that   *)
(* finds no queue has used up nobody's.)                                   *)
OneKindOfRequest == \A r, s \in Requests : Matching(r) = Matching(s)

UnderWay(t) == pc[t] \in {"notify", "lock", "take"}

Wakes(wake, r) ==
  /\ wake \in [FreeMatches(r) -> Threads]
  /\ \A p, q \in FreeMatches(r) : wake[p] = wake[q] => p = q
  /\ \A q \in FreeMatches(r) : UnderWay(wake[q])

EachHasItsWakeup ==
  \A r \in Requests :
    (\E t \in Threads : pc[t] = "asleep") =>
      \E wake \in [FreeMatches(r) -> Threads] : Wakes(wake, r)

(* With one kind of request, the same queues are free for each waiter.     *)
LEMMA SameMatches ==
  ASSUME OneKindOfRequest, TypeOK, NEW r \in Requests,
         NEW t \in Threads, pc[t] \in Acquiring
  PROVE  req[t] \in Requests /\ FreeMatches(req[t]) = FreeMatches(r)
  BY DEF OneKindOfRequest, TypeOK, FreeMatches

(* Nobody has gone to sleep, no queue has become free and no wake-up has   *)
(* been used up.                                                           *)
LEMMA WakeupsStay ==
  ASSUME EachHasItsWakeup, NEW r \in Requests,
         \A t \in Threads : pc'[t] = "asleep" => pc[t] = "asleep",
         \A t \in Threads : UnderWay(t) => UnderWay(t)',
         FreeMatches(r)' \subseteq FreeMatches(r),
         \E t \in Threads : pc'[t] = "asleep"
  PROVE  \E wake \in [FreeMatches(r)' -> Threads] : Wakes(wake, r)'
<1>1. PICK wake \in [FreeMatches(r) -> Threads] : Wakes(wake, r)
  BY DEF EachHasItsWakeup
<1>2. PICK rest : rest = [q \in FreeMatches(r)' |-> wake[q]]
  OBVIOUS
<1>3. /\ rest \in [FreeMatches(r)' -> Threads]
      /\ \A q \in FreeMatches(r)' : rest[q] = wake[q]
  BY <1>1, <1>2
<1>4. Wakes(rest, r)'
  BY <1>1, <1>3 DEF Wakes
<1> QED
  BY <1>3, <1>4

(* A queue is taken by a thread whose wake-up it uses up: the queue that   *)
(* had this thread gets the one the queue had.                             *)
LEMMA WakeupUsed ==
  ASSUME IInv, EachHasItsWakeup, OneKindOfRequest, NEW r \in Requests,
         NEW t \in Threads, Take(t),
         \E u \in Threads : pc'[u] = "asleep"
  PROVE  \E wake \in [FreeMatches(r)' -> Threads] : Wakes(wake, r)'
<1>1. PICK h \in Handles, s \in Slots :
        /\ IsFirstFree(s, req[t])
        /\ in_use' = [in_use EXCEPT ![s] = TRUE]
  BY DEF Take
<1>2. /\ pc[t] = "take"
      /\ \A u \in Threads \ {t} : pc'[u] = pc[u]
      /\ pc'[t] = "idle"
  BY DEF Take, IInv, TypeOK
<1>3. s \in FreeMatches(r)
  BY <1>1, <1>2, SameMatches DEF IInv, IsFirstFree, Acquiring
<1>4. FreeMatches(r)' = FreeMatches(r) \ {s}
  BY <1>1 DEF FreeMatches, Matching, Matches, IInv, TypeOK
<1>5. PICK wake \in [FreeMatches(r) -> Threads] : Wakes(wake, r)
  BY <1>2 DEF EachHasItsWakeup
<1>6. PICK rest : rest = [q \in FreeMatches(r)' |->
                            IF wake[q] = t THEN wake[s] ELSE wake[q]]
  OBVIOUS
<1>7. /\ rest \in [FreeMatches(r)' -> Threads]
      /\ \A q \in FreeMatches(r)' :
           rest[q] = IF wake[q] = t THEN wake[s] ELSE wake[q]
  BY <1>3, <1>4, <1>5, <1>6
<1>8. \A p, q \in FreeMatches(r)' : rest[p] = rest[q] => p = q
  BY <1>3, <1>4, <1>5, <1>7 DEF Wakes
<1>9. \A q \in FreeMatches(r)' : rest[q] \in Threads \ {t} /\ UnderWay(rest[q])
  BY <1>3, <1>4, <1>5, <1>7 DEF Wakes
<1>10. \A q \in FreeMatches(r)' : UnderWay(rest[q])'
  BY <1>2, <1>9 DEF UnderWay
<1> QED
  BY <1>7, <1>8, <1>10 DEF Wakes

(* A queue becomes free by a thread that is now about to notify.           *)
LEMMA WakeupAdded ==
  ASSUME IInv, EachHasItsWakeup, NEW r \in Requests,
         NEW t \in Threads, Release(t),
         \E u \in Threads : pc'[u] = "asleep"
  PROVE  \E wake \in [FreeMatches(r)' -> Threads] : Wakes(wake, r)'
<1>1. PICK s \in Slots : s = rel[t]
  BY DEF Release, IInv, TypeOK
<1>2. /\ pc[t] = "release"
      /\ \A u \in Threads \ {t} : pc'[u] = pc[u]
      /\ pc'[t] = "notify"
      /\ in_use' = [in_use EXCEPT ![s] = FALSE]
  BY <1>1 DEF Release, IInv, TypeOK
<1>3. FreeMatches(r)' \subseteq FreeMatches(r) \cup {s}
  BY <1>2 DEF FreeMatches, Matching, Matches, IInv, TypeOK
<1>4. PICK wake \in [FreeMatches(r) -> Threads] : Wakes(wake, r)
  BY <1>2 DEF EachHasItsWakeup
<1>5. PICK more : more = [q \in FreeMatches(r)' |->
                            IF q = s THEN t ELSE wake[q]]
  OBVIOUS
<1>6. /\ more \in [FreeMatches(r)' -> Threads]
      /\ \A q \in FreeMatches(r)' : more[q] = IF q = s THEN t ELSE wake[q]
  BY <1>3, <1>4, <1>5
<1>7. \A q \in FreeMatches(r)' : q # s => q \in FreeMatches(r) /\ wake[q] # t
  BY <1>2, <1>3, <1>4 DEF Wakes, UnderWay
<1>8. \A p, q \in FreeMatches(r)' : more[p] = more[q] => p = q
  BY <1>4, <1>6, <1>7 DEF Wakes
<1>9. \A q \in FreeMatches(r)' : UnderWay(more[q])'
  <2>1. UnderWay(t)'
    BY <1>2 DEF UnderWay
  <2>2. ASSUME NEW q \in FreeMatches(r)', q # s PROVE UnderWay(wake[q])'
    BY <1>2, <1>4, <1>7, <2>2 DEF Wakes, UnderWay
  <2> QED
    BY <1>6, <2>1, <2>2
<1> QED
  BY <1>6, <1>8, <1>9 DEF Wakes

(* A notification becomes the thread it wakes, if one slept; if none did,  *)
(* none sleeps now.                                                        *)
LEMMA WakeupPassedOn ==
  ASSUME IInv, EachHasItsWakeup, NEW r \in Requests,
         NEW t \in Threads, Notify(t),
         \E v \in Threads : pc'[v] = "asleep"
  PROVE  \E wake \in [FreeMatches(r)' -> Threads] : Wakes(wake, r)'
<1>1. pc[t] = "notify" /\ in_use' = in_use /\ pc \in [Threads -> PCs]
  BY DEF Notify, IInv, TypeOK
<1>2. PICK u \in Threads :
        /\ pc[u] = "asleep"
        /\ pc' = [pc EXCEPT ![t] = "idle", ![u] = "lock"]
  BY <1>1 DEF Notify
<1>3. /\ pc'[u] = "lock"
      /\ \A v \in Threads \ {t, u} : pc'[v] = pc[v]
  BY <1>1, <1>2
<1>4. FreeMatches(r)' = FreeMatches(r)
  BY <1>1 DEF FreeMatches, Matching, Matches
<1>5. PICK wake \in [FreeMatches(r) -> Threads] : Wakes(wake, r)
  BY <1>2 DEF EachHasItsWakeup
<1>6. PICK passed : passed = [q \in FreeMatches(r) |->
                                IF wake[q] = t THEN u ELSE wake[q]]
  OBVIOUS
<1>7. /\ passed \in [FreeMatches(r) -> Threads]
      /\ \A q \in FreeMatches(r) :
           passed[q] = IF wake[q] = t THEN u ELSE wake[q]
  BY <1>5, <1>6
<1>8. \A q \in FreeMatches(r) : wake[q] # u
  BY <1>2, <1>5 DEF Wakes, UnderWay
<1>9. \A p, q \in FreeMatches(r) : passed[p] = passed[q] => p = q
  BY <1>5, <1>7, <1>8 DEF Wakes
<1>10. \A q \in FreeMatches(r) : UnderWay(passed[q])'
  <2>1. UnderWay(u)'
    BY <1>3 DEF UnderWay
  <2>2. ASSUME NEW q \in FreeMatches(r), wake[q] # t PROVE UnderWay(wake[q])'
    BY <1>3, <1>5, <1>8, <2>2 DEF Wakes, UnderWay
  <2> QED
    BY <1>7, <2>1, <2>2
<1> QED
  BY <1>4, <1>7, <1>9, <1>10 DEF Wakes

(* Each step keeps a wake-up for every free queue.                         *)
LEMMA WakeupStep ==
  ASSUME IInv, EachHasItsWakeup, OneKindOfRequest, [Next]_vars
  PROVE  EachHasItsWakeup'
<1> SUFFICES ASSUME NEW r \in Requests, \E t \in Threads : pc'[t] = "asleep"
             PROVE  \E wake \in [FreeMatches(r)' -> Threads] : Wakes(wake, r)'
  BY DEF EachHasItsWakeup
<1> DEFINE Goal == \E wake \in [FreeMatches(r)' -> Threads] : Wakes(wake, r)'
<1>0. TypeOK
  BY DEF IInv
<1> HIDE DEF Goal
<1>1. ASSUME \A t \in Threads : pc'[t] = "asleep" => pc[t] = "asleep",
             \A t \in Threads : UnderWay(t) => UnderWay(t)',
             \A q \in Slots : in_use[q] => in_use'[q]
      PROVE  Goal
  <2>1. FreeMatches(r)' \subseteq FreeMatches(r)
    BY <1>1 DEF FreeMatches, Matching, Matches
  <2> QED
    BY <1>1, <2>1, WakeupsStay DEF Goal
<1> USE DEF TypeOK, UnderWay
<1>2. ASSUME NEW t \in Threads, NEW k \in Requests, CallAcquire(t, k)
      PROVE  Goal
  BY <1>0, <1>1, <1>2 DEF CallAcquire
<1>3. ASSUME NEW t \in Threads, FindFree(t) PROVE Goal
  BY <1>0, <1>1, <1>3 DEF FindFree
<1>4. ASSUME NEW t \in Threads, FallAsleep(t) PROVE Goal
  <2>1. FreeMatches(r) = {}
    BY <1>0, <1>4, SameMatches DEF FallAsleep, Acquiring
  <2>2. FreeMatches(r)' = {}
    BY <1>4, <2>1 DEF FallAsleep, FreeMatches, Matching, Matches
  <2>3. PICK wake : wake = [q \in FreeMatches(r)' |-> t]
    OBVIOUS
  <2>4. wake \in [FreeMatches(r)' -> Threads]
    BY <2>3
  <2>5. Wakes(wake, r)'
    BY <2>2, <2>4 DEF Wakes
  <2> QED
    BY <2>4, <2>5 DEF Goal
<1>5. ASSUME NEW t \in Threads, Take(t) PROVE Goal
  BY <1>5, WakeupUsed DEF Goal
<1>6. ASSUME NEW t \in Threads, NEW h \in Handles, NEW q \in Slots,
             NEW k \in Requests, TryAcquire(t, h, q, k)
      PROVE  Goal
  BY <1>0, <1>1, <1>6 DEF TryAcquire
<1>7. ASSUME NEW t \in Threads, NEW h \in Handles, DestroyHandle(t, h)
      PROVE  Goal
  BY <1>0, <1>1, <1>7 DEF DestroyHandle
<1>8. ASSUME NEW t \in Threads, Release(t) PROVE Goal
  BY <1>8, WakeupAdded DEF Goal
<1>9. ASSUME NEW t \in Threads, Notify(t) PROVE Goal
  BY <1>9, WakeupPassedOn DEF Goal
<1>10. ASSUME NEW t \in Threads, SpuriousWake(t) PROVE Goal
  BY <1>0, <1>1, <1>10 DEF SpuriousWake
<1>11. ASSUME NEW t \in Threads, NEW dst \in Handles, NEW src \in Handles,
              MoveHandle(t, dst, src)
       PROVE  Goal
  BY <1>1, <1>11 DEF MoveHandle
<1>12. ASSUME UNCHANGED vars PROVE Goal
  BY <1>1, <1>12 DEF vars
<1>13. Goal
  BY <1>2, <1>3, <1>4, <1>5, <1>6, <1>7, <1>8, <1>9, <1>10, <1>11, <1>12
     DEF Next, Client, Library
<1> QED
  BY <1>13 DEF Goal

(* When all clients ask for the same, or for what the same queues serve, a *)
(* thread does not sleep beside a free queue it could have without a       *)
(* wake-up under way, however many sleep and however many queues come back *)
(* at once. The run queue_pool_lost_wakeup shows that the hypothesis is    *)
(* needed.                                                                 *)
THEOREM WakeupUnderWayCorrect ==
  ASSUME OneKindOfRequest
  PROVE  Spec => []WakeupUnderWay
<1>1. Init => EachHasItsWakeup
  BY DEF Init, EachHasItsWakeup
<1>2. IInv /\ EachHasItsWakeup /\ [Next]_vars => EachHasItsWakeup'
  BY WakeupStep
<1>3. IInv /\ EachHasItsWakeup => WakeupUnderWay
  <2> SUFFICES ASSUME IInv, EachHasItsWakeup, NEW t \in Threads, Awaited(t)
               PROVE  \E u \in Threads : UnderWay(u)
    BY DEF WakeupUnderWay, UnderWay
  <2>1. req[t] \in Requests /\ pc[t] = "asleep"
    BY DEF Awaited, IInv, TypeOK, Acquiring
  <2>2. PICK q \in FreeMatches(req[t]) : TRUE
    BY DEF Awaited
  <2>3. PICK wake \in [FreeMatches(req[t]) -> Threads] : Wakes(wake, req[t])
    BY <2>1 DEF EachHasItsWakeup
  <2> QED
    BY <2>2, <2>3 DEF Wakes
<1> QED
  BY <1>1, <1>2, <1>3, IInvCorrect, PTL DEF Spec
=============================================================================
