------------------------------ MODULE Handover ------------------------------
(***************************************************************************)
(* Host threads that share a mapped Buffer and take turns by the value of  *)
(* a TimelineSemaphore, as Buffer and TimelineSemaphore invite them to:    *)
(* thread t waits for the value t - 1, reads what thread t - 1 left,       *)
(* writes the buffer and signals t. A wait may time out or fail; memcpy    *)
(* takes more than one step. Meanwhile the client's main thread goes on    *)
(* with its wrappers (module Wrappers); it leaves alone the two wrappers   *)
(* the threads refer to until it has joined them.                          *)
(***************************************************************************)
EXTENDS Wrappers

CONSTANTS
  LastTurn,    (* the threads are numbered by their turns, 1..LastTurn     *)
  MaxSpan      (* longest span of elements a write is given (InBounds)     *)

(* What the driver keeps for a buffer, for an object, and what the main    *)
(* thread shares.                                                          *)
Contained ==
  [count : Counts, bytes : 1..SizeRange, data : [{1, 2} -> 0..LastTurn]]

Objects ==
  [kind : Kinds \cup {"device"},
   parent : Ids \cup {Device, Null},
   content : {Null} \cup [value : 0..LastTurn] \cup Contained]

Pairs == [buffer : Ids, semaphore : Ids]

ASSUME HandoverAssumption ==
  /\ {LastTurn, MaxSpan} \subseteq Nat
  /\ Null \notin Objects \cup Contained \cup [value : 0..LastTurn] \cup Pairs

VARIABLES
  shared,      (* the buffer and the semaphore the threads use, or Null    *)
  pc,          (* where each thread is                                     *)
  seen         (* what a thread's read returned                            *)

handoverVars == <<shared, pc, seen>>
vars == <<place, object, abandoned, stolen, misuse, shared, pc, seen>>

Turns == 1..LastTurn

----------------------------------------------------------------------------
(* Buffer                                                                  *)

Smaller(a, b) == IF a < b THEN a ELSE b

(* write() and read() insist on this.                                      *)
Accepts(buffer, offset) == offset < buffer.count

(* The bytes memcpy then copies, from or to a span of n elements.          *)
Copied_WholeSpan(buffer, offset, n) == n * ElementSize

Copied(buffer, offset, n) ==
  Smaller(((buffer.count - offset) * ElementSize) % SizeRange,
          n * ElementSize)

(* read(), of the whole buffer.                                            *)
Contents(id) ==
  {object[id].content.data[part] : part \in DOMAIN object[id].content.data}

(* memcpy has got to a part of the buffer.                                 *)
WritePart(id, part, datum) ==
  object' = [object EXCEPT ![id].content.data[part] = datum]

----------------------------------------------------------------------------
(* TimelineSemaphore                                                       *)

(* query_value()                                                           *)
Value(id) == object[id].content.value

(* signal(): the value must grow.                                          *)
Signal_OneTooMany(id, value) ==
  /\ object' = [object EXCEPT ![id].content.value = value + 1]
  /\ UNCHANGED misuse

Signal(id, value) ==
  IF Value(id) < value
  THEN /\ object' = [object EXCEPT ![id].content.value = value]
       /\ UNCHANGED misuse
  ELSE /\ misuse' = {[id |-> id, why |-> "value"]}
       /\ UNCHANGED object

(* wait(), as its result: Ok(true), or Ok(false) when the time is over. An *)
(* error is possible whatever the value is.                                *)
WaitSucceeds_Timeout(id, value) == TRUE

WaitSucceeds_Beyond(id, value) == Value(id) > value

WaitSucceeds_Early(id, value) == Value(id) + 1 >= value

WaitSucceeds(id, value) == Value(id) >= value

----------------------------------------------------------------------------
(* The main thread                                                         *)

Timeline(p) ==
  place[p].kind = "semaphore" /\ Exists("semaphore", place[p].id)
    /\ object[place[p].id].content # Null

(* It starts the threads, with a buffer and a semaphore that is at 0.      *)
Start(b, s) ==
  /\ misuse = {}
  /\ shared = Null
  /\ place[b].kind = "buffer" /\ Exists("buffer", place[b].id)
  /\ Timeline(s) /\ Value(place[s].id) = 0
  /\ shared' = [buffer |-> place[b].id, semaphore |-> place[s].id]
  /\ pc' = [t \in Turns |-> "wait"]
  /\ seen' = [t \in Turns |-> {}]
  /\ UNCHANGED wrapperVars

Join ==
  /\ misuse = {}
  /\ shared # Null
  /\ \A t \in Turns : pc[t] = "done"
  /\ shared' = Null
  /\ pc' = [t \in Turns |-> "unborn"]
  /\ seen' = [t \in Turns |-> {}]
  /\ UNCHANGED wrapperVars

Borrowed(p) ==
  shared # Null /\ place[p].id \in {shared.buffer, shared.semaphore}

Main ==
  /\ WrapperStep
  /\ \A p \in Places : Borrowed(p) => place'[p] = place[p]
  /\ UNCHANGED handoverVars

----------------------------------------------------------------------------
(* The threads                                                             *)

(* Thread t is about to make a call on an object.                          *)
At(t, where, kind, id) ==
  /\ misuse = {}
  /\ pc[t] = where
  /\ Exists(kind, id)

GoTo(t, where) == pc' = [pc EXCEPT ![t] = where]

WaitTurn(t) ==
  /\ At(t, "wait", "semaphore", shared.semaphore)
  /\ WaitSucceeds(shared.semaphore, t - 1)
  /\ GoTo(t, "read")
  /\ UNCHANGED <<wrapperVars, shared, seen>>

(* The wait timed out, and the thread does not try again, or it failed.    *)
GiveUp(t) ==
  /\ At(t, "wait", "semaphore", shared.semaphore)
  /\ GoTo(t, "done")
  /\ UNCHANGED <<wrapperVars, shared, seen>>

Read(t) ==
  /\ At(t, "read", "buffer", shared.buffer)
  /\ seen' = [seen EXCEPT ![t] = Contents(shared.buffer)]
  /\ GoTo(t, "write")
  /\ UNCHANGED <<wrapperVars, shared>>

Write(t) ==
  /\ \/ /\ At(t, "write", "buffer", shared.buffer)
        /\ WritePart(shared.buffer, 1, t)
        /\ GoTo(t, "write on")
     \/ /\ At(t, "write on", "buffer", shared.buffer)
        /\ WritePart(shared.buffer, 2, t)
        /\ GoTo(t, "signal")
  /\ UNCHANGED <<place, abandoned, stolen, misuse, shared, seen>>

SignalTurn(t) ==
  /\ At(t, "signal", "semaphore", shared.semaphore)
  /\ Signal(shared.semaphore, t)
  /\ GoTo(t, "done")
  /\ UNCHANGED <<place, abandoned, stolen, shared, seen>>

(* The object of the call was destroyed by a create() that was refused.    *)
Missing(t) ==
  /\ misuse = {}
  /\ \/ /\ pc[t] \in {"wait", "signal"}
        /\ ~Exists("semaphore", shared.semaphore)
        /\ Wrong(shared.semaphore, "gone")
     \/ /\ pc[t] \in {"read", "write", "write on"}
        /\ ~Exists("buffer", shared.buffer)
        /\ Wrong(shared.buffer, "gone")
  /\ UNCHANGED <<place, stolen, handoverVars>>

ThreadStep(t) ==
  \/ WaitTurn(t)
  \/ Read(t)
  \/ Write(t)
  \/ SignalTurn(t)
  \/ Missing(t)

----------------------------------------------------------------------------
Init ==
  /\ WrapperInit
  /\ shared = Null
  /\ pc = [t \in Turns |-> "unborn"]
  /\ seen = [t \in Turns |-> {}]

(* After a misuse nothing is known; after ~Backend() nothing is left.      *)
Over == (misuse # {} \/ object[Device] = Null) /\ UNCHANGED vars

Next ==
  \/ Main
  \/ \E b, s \in Places : Start(b, s)
  \/ Join
  \/ \E t \in Turns : ThreadStep(t)
  \/ \E t \in Turns : GiveUp(t)
  \/ Over

(* The system runs the threads, and a wait returns once its value is       *)
(* there. The main thread need not go on, and no wait need time out.       *)
Spec == Init /\ [][Next]_vars /\ \A t \in Turns : WF_vars(ThreadStep(t))

----------------------------------------------------------------------------
(* The variables have their types; threads run only while something is     *)
(* shared.                                                                 *)
TypeOK ==
  /\ place \in [Places -> [kind : Kinds \cup {"none"}, id : Ids \cup {Null},
                           parent : Ids \cup {Device, Null}]]
  /\ object \in [Ids \cup {Device} -> Objects \cup {Null}]
  /\ abandoned \subseteq Ids
  /\ stolen \subseteq Ids
  /\ misuse \subseteq [id : Ids \cup {Device},
                       why : {"gone", "stale", "children", "value"}]
  /\ shared \in {Null} \cup Pairs
  /\ pc \in [Turns -> {"unborn", "wait", "read", "write", "write on",
                       "signal", "done"}]
  /\ seen \in [Turns -> SUBSET (0..LastTurn)]
  /\ \A t \in Turns : pc[t] = "unborn" <=> shared = Null

(* Whatever span write() or read() is given, and at whatever offset it     *)
(* accepts, memcpy stays within the memory the driver gave to the buffer,  *)
(* unless the product in create_buffer() had exceeded the width of size_t. *)
InBounds ==
  \A id \in Ids :
    Exists("buffer", id) =>
      LET b == object[id].content
      IN  b.count * ElementSize < SizeRange =>
            \A offset \in 0..MaxSpan, n \in 1..MaxSpan :
              Accepts(b, offset) =>
                offset * ElementSize + Copied(b, offset, n) <= b.bytes

(* A thread that got its turn, Ok(true) and not Ok(false), reads all that  *)
(* its predecessor wrote and nothing else: no torn data, nothing from a    *)
(* thread whose turn comes later.                                          *)
HandedOver ==
  \A t \in Turns : pc[t] \in {"write", "write on", "signal"} /\ t > 1 =>
    seen[t] = {t - 1}

(* Threads that were started all come to their end, unless one of them     *)
(* gives up waiting or a rule of the driver is broken: no turn is lost.    *)
GaveUp(t) == pc[t] = "done" /\ seen[t] = {}

HandoverEnds ==
  shared # Null ~>
    \/ \A t \in Turns : pc[t] \in {"done", "unborn"}
    \/ \E t \in Turns : GaveUp(t)
    \/ misuse # {}
=============================================================================
