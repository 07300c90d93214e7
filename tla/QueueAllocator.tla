--------------------------- MODULE QueueAllocator ---------------------------
(***************************************************************************)
(* What the queue pool promises its callers, with no lock, no condition    *)
(* variable and no order among the queues: a queue is free, held by one    *)
(* handle, or on its way back; a thread that asked for a queue is granted, *)
(* in one step, a free queue with the capabilities it asked for.           *)
(***************************************************************************)

CONSTANTS
  Threads,     (* the client's threads                                     *)
  Handles,     (* the client's QueuePool::Handle objects                   *)
  Slots,       (* the queues of the pool                                   *)
  Flags,       (* queue capability bits                                    *)
  Caps,        (* the capabilities of each queue                           *)
  Requests,    (* what threads may ask for                                 *)
  Null,        (* an empty handle, no queue                                *)
  NoRequest    (* a thread that asks for nothing                           *)

VARIABLES
  free,        (* the queues nobody has                                    *)
  holds,       (* the queue each handle owns, or Null                      *)
  wants,       (* what each thread inside acquire() asked for              *)
  returning    (* queues whose handle is gone, not yet free                *)

vars == <<free, holds, wants, returning>>

(* A queue serves a request when it has every capability bit the request   *)
(* names and, if the request is presentable, can present.                  *)
Serves(q, r) ==
  /\ r.required \subseteq Caps[q].flags
  /\ r.presentable => Caps[q].present

Init ==
  /\ free = Slots
  /\ holds = [h \in Handles |-> Null]
  /\ wants = [t \in Threads |-> NoRequest]
  /\ returning = {}

(* A thread asks for a queue and waits for it.                             *)
Ask(t, r) ==
  /\ wants[t] = NoRequest
  /\ \E q \in Slots : Serves(q, r)
  /\ wants' = [wants EXCEPT ![t] = r]
  /\ UNCHANGED <<free, holds, returning>>

(* An empty handle receives a free queue that serves the request.          *)
Give(h, q, r) ==
  /\ q \in free
  /\ Serves(q, r)
  /\ holds[h] = Null
  /\ free' = free \ {q}
  /\ holds' = [holds EXCEPT ![h] = q]

Grant(t) ==
  /\ wants[t] # NoRequest
  /\ \E h \in Handles, q \in Slots : Give(h, q, wants[t])
  /\ wants' = [wants EXCEPT ![t] = NoRequest]
  /\ UNCHANGED returning

(* A thread takes a queue without waiting.                                 *)
TryGrant(h, q, r) ==
  /\ Give(h, q, r)
  /\ UNCHANGED <<wants, returning>>

(* A handle gives its queue up; later the queue is free again.             *)
Drop(h) ==
  /\ holds[h] # Null
  /\ holds' = [holds EXCEPT ![h] = Null]
  /\ returning' = returning \cup {holds[h]}
  /\ UNCHANGED <<free, wants>>

Return(q) ==
  /\ q \in returning
  /\ returning' = returning \ {q}
  /\ free' = free \cup {q}
  /\ UNCHANGED <<holds, wants>>

(* Ownership moves from one handle to another. The destination's own queue *)
(* is nobody's afterwards.                                                 *)
Transfer(dst, src) ==
  /\ dst # src
  /\ holds' = [holds EXCEPT ![dst] = holds[src], ![src] = Null]
  /\ UNCHANGED <<free, wants, returning>>

Next ==
  \/ \E t \in Threads, r \in Requests : Ask(t, r)
  \/ \E t \in Threads : Grant(t)
  \/ \E h \in Handles, q \in Slots, r \in Requests : TryGrant(h, q, r)
  \/ \E h \in Handles : Drop(h)
  \/ \E q \in Slots : Return(q)
  \/ \E dst, src \in Handles : Transfer(dst, src)

Spec == Init /\ [][Next]_vars
=============================================================================
