--------------------------- MODULE HandoverProofs ---------------------------
(***************************************************************************)
(* What the wrappers, and the threads that hand a buffer on, do for any    *)
(* number of wrappers, driver objects and threads, for any counts and for  *)
(* any width of size_t.                                                    *)
(*                                                                         *)
(* Two inductive invariants: WInv is about wrappers and the driver's       *)
(* objects, TInv about the turns of the threads and the data they find.    *)
(***************************************************************************)
EXTENDS Handover, TLAPS

USE WrappersAssumption, HandoverAssumption

----------------------------------------------------------------------------
(* What the driver keeps for an object of each kind.                       *)
Sized(c) == c.bytes = SizeOf(c.count)

ContentOf(kind) ==
  IF kind = "buffer" THEN {c \in Contained : Sized(c)}
  ELSE IF kind = "semaphore" THEN {Null} \cup [value : 0..LastTurn]
  ELSE {Null}

(* The types of the wrappers, and those of the threads.                    *)
WTypes ==
  /\ place \in [Places -> [kind : Kinds \cup {"none"}, id : Ids \cup {Null},
                           parent : Ids \cup {Device, Null}]]
  /\ object \in [Ids \cup {Device} -> Objects \cup {Null}]
  /\ abandoned \subseteq Ids
  /\ stolen \subseteq Ids
  /\ misuse \subseteq [id : Ids \cup {Device},
                       why : {"gone", "stale", "children", "value"}]

TTypes ==
  /\ shared \in {Null} \cup Pairs
  /\ pc \in [Turns -> {"unborn", "wait", "read", "write", "write on",
                       "signal", "done"}]
  /\ seen \in [Turns -> SUBSET (0..LastTurn)]
  /\ \A t \in Turns : pc[t] = "unborn" <=> shared = Null

(* A wrapper has all its handles or none; an object has the content its    *)
(* kind calls for.                                                         *)
Whole ==
  /\ \A p \in Places :
       \/ place[p] = Nulled
       \/ /\ place[p].kind \in Kinds
          /\ place[p].id \in Ids
          /\ place[p].parent \in Ids \cup {Device}
  /\ \A i \in Ids : object[i] # Null =>
       /\ object[i].kind \in Kinds
       /\ object[i].parent \in Ids \cup {Device}
       /\ object[i].content \in ContentOf(object[i].kind)
  /\ object[Device] # Null => object[Device].kind = "device"

(* No object outlives its parent, and only command buffers and buffers     *)
(* have another parent than the device.                                    *)
Family ==
  \A i \in Ids : object[i] # Null =>
    /\ object[object[i].parent] # Null
    /\ object[i].parent # Device =>
         /\ object[i].kind \in {"cmd", "buffer"}
         /\ object[object[i].parent].kind \in {"pool", "allocator"}

(* A wrapper's object is there, with the parent the wrapper remembers,     *)
(* unless it was destroyed through an unwritten handle.                    *)
KeptAt(p) ==
  \/ place[p].id \in stolen
  \/ /\ Exists(place[p].kind, place[p].id)
     /\ object[place[p].id].parent = place[p].parent

Kept ==
  /\ \A i \in stolen : object[i] = Null
  /\ \A p \in Places : place[p] # Nulled => KeptAt(p)

(* EveryObjectOwned, object by object.                                     *)
Owned ==
  misuse = {} =>
    \A i \in Ids : object[i] # Null =>
      i \in abandoned \/ \E p \in Places : place[p].id = i

(* What the threads use, the main thread still holds; the semaphore is one *)
(* with a value.                                                           *)
Lent ==
  shared # Null =>
    /\ \E p \in Places : /\ place[p].kind = "buffer"
                         /\ place[p].id = shared.buffer
    /\ \E p \in Places : /\ place[p].kind = "semaphore"
                         /\ place[p].id = shared.semaphore
    /\ Exists("semaphore", shared.semaphore) =>
         object[shared.semaphore].content # Null

WInv ==
  /\ WTypes
  /\ Whole
  /\ Family
  /\ Kept
  /\ SoleOwner
  /\ Owned

(* The thread that has its turn is the one the semaphore's value calls, so *)
(* there is one at most, and nobody's value is ahead of him.               *)
Active(t) == pc[t] \in {"read", "write", "write on", "signal"}

InTurn ==
  /\ \A t, u \in Turns : Active(t) /\ Active(u) => t = u
  /\ shared # Null /\ Exists("semaphore", shared.semaphore) =>
       \A t \in Turns :
         /\ pc[t] # "done" => Value(shared.semaphore) < t
         /\ Active(t) => Value(shared.semaphore) = t - 1

(* The buffer holds what the thread of the last turn wrote, or as much as  *)
(* the thread whose turn it is has written since.                          *)
Filled(datum) == \A part \in {1, 2} :
  object[shared.buffer].content.data[part] = datum

DataInTurn ==
  shared # Null /\ Exists("buffer", shared.buffer) =>
    /\ \A t \in Turns :
         /\ pc[t] \in {"read", "write"} /\ t > 1 => Filled(t - 1)
         /\ pc[t] = "write on" =>
              object[shared.buffer].content.data[1] = t
         /\ pc[t] = "signal" => Filled(t)
    /\ Exists("semaphore", shared.semaphore)
         /\ Value(shared.semaphore) > 0
         /\ (\A t \in Turns : ~Active(t)) =>
           Filled(Value(shared.semaphore))

TInv == TTypes /\ Lent /\ InTurn /\ DataInTurn /\ HandedOver

IInv == WInv /\ TInv /\ MisuseExplained

----------------------------------------------------------------------------
(* Everything the classes do is one of five steps.                         *)

(* The contents an object may have are of the right type.                  *)
LEMMA ContentTyped ==
  \A kind \in Kinds :
    ContentOf(kind) \subseteq {Null} \cup [value : 0..LastTurn] \cup Contained
  BY DEF ContentOf, Kinds

(* What may be made from what.                                             *)
Begotten(kind, parent) ==
  \/ /\ parent = Device
     /\ object[Device] # Null
     /\ kind \notin {"cmd", "buffer"}
  \/ /\ kind \in {"cmd", "buffer"}
     /\ \E q \in Places :
          place[q].kind \in {"pool", "allocator"} /\ place[q].id = parent

(* The parent a wrapper of kind pool or allocator offers is an object name.*)
LEMMA ParentNamed ==
  ASSUME Whole, NEW q \in Places, place[q].kind \in {"pool", "allocator"}
  PROVE  place[q].id \in Ids
  BY DEF Whole, Nulled

(* What a new object of each kind contains.                                *)
LEMMA NewContent ==
  /\ \A kind \in Kinds \ {"buffer"} : Null \in ContentOf(kind)
  /\ [value |-> 0] \in ContentOf("semaphore")
  BY DEF ContentOf, Kinds

(* What a new buffer contains.                                             *)
LEMMA NewBuffer ==
  ASSUME NEW count \in Counts, NEW bytes,
         bytes = SizeOf(count), bytes > 0
  PROVE  [count |-> count, bytes |-> bytes,
          data |-> [part \in {1, 2} |-> 0]] \in ContentOf("buffer")
<1>1. ElementSize * count \in Nat
  OBVIOUS
<1>2. bytes \in 1..SizeRange
  BY <1>1 DEF SizeOf
<1>3. [part \in {1, 2} |-> 0] \in [{1, 2} -> 0..LastTurn]
  OBVIOUS
<1> QED
  BY <1>2, <1>3 DEF ContentOf, Contained, Sized

(* Every creating function of the classes is a Create.                     *)
LEMMA CreateCases ==
  ASSUME Whole, CreateStep
  PROVE  \E kind \in Kinds, parent \in Ids \cup {Device}, p \in Places,
            id \in Ids :
           \E content \in ContentOf(kind) :
             Begotten(kind, parent) /\ Create(kind, parent, p, id, content)
<1>1. PICK p \in Places, q \in Places, id \in Ids :
        \/ create_fence(p, id)
        \/ create_semaphore(p, id)
        \/ create_cmd_pool(p, id)
        \/ create_cmd(q, p, id)
        \/ create_memory_allocator(p, id)
        \/ \E count \in Counts : create_buffer(q, p, id, count)
  BY DEF CreateStep
<1> DEFINE Goal(kind, parent, content) ==
             /\ kind \in Kinds
             /\ parent \in Ids \cup {Device}
             /\ content \in ContentOf(kind)
             /\ Begotten(kind, parent)
             /\ Create(kind, parent, p, id, content)
<1> SUFFICES \E kind, parent, content : Goal(kind, parent, content)
  BY <1>1
<1>2. CASE create_fence(p, id)
  <2>1. Goal("fence", Device, Null)
    BY <1>2, NewContent DEF create_fence, CreateFence, Begotten, Kinds
  <2> QED
    BY <2>1
<1>3. CASE create_semaphore(p, id)
  <2>1. Goal("semaphore", Device, Null)
          \/ Goal("semaphore", Device, [value |-> 0])
    BY <1>3, NewContent
       DEF create_semaphore, CreateBinary, CreateTimeline, Begotten, Kinds
  <2> QED
    BY <2>1
<1>4. CASE create_cmd_pool(p, id)
  <2>1. Goal("pool", Device, Null)
    BY <1>4, NewContent DEF create_cmd_pool, CreatePool, Begotten, Kinds
  <2> QED
    BY <2>1
<1>5. CASE create_cmd(q, p, id)
  <2>1. place[q].id \in Ids
    BY <1>5, ParentNamed DEF create_cmd
  <2>2. Goal("cmd", place[q].id, Null)
    BY <1>5, <2>1, NewContent DEF create_cmd, CreateCmd, Begotten, Kinds
  <2> QED
    BY <2>2
<1>6. CASE create_memory_allocator(p, id)
  <2>1. Goal("allocator", Device, Null)
    BY <1>6, NewContent
       DEF create_memory_allocator, CreateAllocator, Begotten, Kinds
  <2> QED
    BY <2>1
<1>7. ASSUME NEW count \in Counts, create_buffer(q, p, id, count)
      PROVE  \E kind, parent, content : Goal(kind, parent, content)
  <2> DEFINE size == SizeOf(count)
             content == [count |-> count, bytes |-> size,
                         data |-> [part \in {1, 2} |-> 0]]
  <2>1. place[q].kind = "allocator" /\ size > 0
        /\ Create("buffer", place[q].id, p, id, content)
    BY <1>7 DEF create_buffer, CreateBuffer
  <2>2. place[q].id \in Ids
    BY <2>1, ParentNamed
  <2>3. content \in ContentOf("buffer")
    BY <2>1, NewBuffer
  <2> HIDE DEF content, size
  <2>4. Goal("buffer", place[q].id, content)
    BY <2>1, <2>2, <2>3 DEF Begotten, Kinds
  <2> QED
    BY <2>4
<1> QED
  BY <1>1, <1>2, <1>3, <1>4, <1>5, <1>6, <1>7

(* Every create() the driver refuses is a Refuse.                          *)
LEMMA RefuseCases ==
  ASSUME RefuseStep
  PROVE  \E kind \in Kinds, stale \in Ids :
           \E parent : Refuse(kind, parent, stale)
<1>1. PICK stale \in Ids :
        \E kind \in Kinds : \E parent : Refuse(kind, parent, stale)
  BY DEF RefuseStep, LeaveUnwritten, create_buffer_refused, Kinds
<1> QED
  BY <1>1

(* Every move is a Move.                                                   *)
LEMMA MoveCases ==
  ASSUME MoveStep
  PROVE  \E kind \in Kinds, dst, src \in Places : Move(kind, dst, src)
<1>1. PICK dst \in Places, src \in Places :
        \E kind \in Kinds : Move(kind, dst, src)
  BY DEF MoveStep, MoveFence, MoveSemaphore, MovePool, MoveCmd,
     MoveAllocator, MoveBuffer, Kinds
<1> QED
  BY <1>1

(* Every destructor is a Destroy.                                          *)
LEMMA DestroyCases ==
  ASSUME DestroyStep
  PROVE  \E kind \in Kinds, p \in Places : Destroy(kind, p)
<1>1. PICK p \in Places : \E kind \in Kinds : Destroy(kind, p)
  BY DEF DestroyStep, DestroyFence, DestroySemaphore, DestroyPool,
     DestroyCmd, DestroyAllocator, DestroyBuffer, Kinds
<1> QED
  BY <1>1

----------------------------------------------------------------------------
(* WInv survives each of the five steps.                                   *)

(* After a call with a handle that will not do, all is as it was.          *)
LEMMA WrongStep ==
  ASSUME WInv, NEW id \in Ids \cup {Device},
         NEW why \in {"gone", "stale", "children", "value"}, Wrong(id, why),
         UNCHANGED stolen,
         \/ UNCHANGED place
         \/ \E p \in Places : place' = [place EXCEPT ![p] = Nulled]
  PROVE  WInv'
<1> USE DEF WInv, Wrong
<1>1. WTypes' /\ UNCHANGED <<object, abandoned, stolen>> /\ misuse' # {}
  BY DEF WTypes, Nulled, Kinds
<1>2. \A p \in Places : place'[p] \in {place[p], Nulled}
  BY DEF WTypes
<1>3. Whole' /\ Family'
  BY <1>1, <1>2 DEF Whole, Family
<1>4. Kept'
  BY <1>1, <1>2 DEF Kept, KeptAt, Exists
<1>5. SoleOwner'
  <2> SUFFICES ASSUME NEW p \in Places, NEW q \in Places, p # q,
                      place'[p] # Nulled
               PROVE  place'[p].id # place'[q].id
    BY DEF SoleOwner
  <2>1. place'[p] = place[p] /\ place[p].id \in Ids
    BY <1>2 DEF Whole
  <2> QED
    BY <1>2, <2>1 DEF SoleOwner, Nulled
<1>6. Owned'
  BY <1>1 DEF Owned
<1> QED
  BY <1>1, <1>3, <1>4, <1>5, <1>6

(* Creation keeps the accounting of wrappers and objects.                  *)
LEMMA CreateKeeps ==
  ASSUME WInv, NEW kind \in Kinds, NEW parent \in Ids \cup {Device},
         NEW p \in Places, NEW id \in Ids, NEW content \in ContentOf(kind),
         Begotten(kind, parent), Create(kind, parent, p, id, content)
  PROVE  WInv'
<1> DEFINE new == [kind |-> kind, parent |-> parent, content |-> content]
           attributes == [kind |-> kind, id |-> id, parent |-> parent]
<1>1. CASE object[parent] = Null
  BY <1>1, WrongStep DEF Create
<1>2. CASE object[parent] # Null
  <2> USE DEF WInv
  <2>1. /\ misuse = {} /\ place[p] = Nulled /\ object[id] = Null
        /\ \A q \in Places : id # place[q].id /\ id # place[q].parent
        /\ object' = [object EXCEPT ![id] = new]
        /\ place' = [place EXCEPT ![p] = attributes]
        /\ stolen' = stolen \ {id}
        /\ UNCHANGED <<abandoned, misuse>>
    BY <1>2 DEF Create
  <2>2. new \in Objects /\ new # Null /\ attributes # Nulled
    <3>1. content \in {Null} \cup [value : 0..LastTurn] \cup Contained
      BY ContentTyped
    <3>2. new \in Objects
      BY <3>1 DEF Objects
    <3>3. attributes.id # Nulled.id
      BY DEF Nulled
    <3> QED
      BY <3>2, <3>3
  <2>3. attributes \in [kind : Kinds \cup {"none"}, id : Ids \cup {Null},
                        parent : Ids \cup {Device, Null}]
    OBVIOUS
  <2>4. WTypes'
    BY <2>1, <2>2, <2>3 DEF WTypes
  <2>5. /\ object'[id] = new
        /\ \A i \in Ids \cup {Device} : i # id => object'[i] = object[i]
        /\ place'[p] = attributes
        /\ \A q \in Places : q # p => place'[q] = place[q]
    BY <2>1 DEF WTypes
  <2>6. Whole'
    BY <2>2, <2>5 DEF Whole
  <2>7. parent # Device =>
          kind \in {"cmd", "buffer"} /\ object[parent].kind \in {"pool", "allocator"}
    <3> SUFFICES ASSUME parent # Device
                 PROVE  /\ kind \in {"cmd", "buffer"}
                        /\ object[parent].kind \in {"pool", "allocator"}
      OBVIOUS
    <3>1. PICK q \in Places :
            place[q].kind \in {"pool", "allocator"} /\ place[q].id = parent
      BY DEF Begotten
    <3>2. place[q] # Nulled
      BY <3>1 DEF Nulled
    <3> QED
      BY <1>2, <3>1, <3>2 DEF Kept, KeptAt, Exists, Begotten
  <2>8. Family'
    <3> SUFFICES ASSUME NEW i \in Ids, object'[i] # Null
                 PROVE  /\ object'[object'[i].parent] # Null
                        /\ object'[i].parent # Device =>
                             /\ object'[i].kind \in {"cmd", "buffer"}
                             /\ object'[object'[i].parent].kind
                                  \in {"pool", "allocator"}
      BY DEF Family
    <3>1. CASE i = id
      BY <1>2, <2>1, <2>2, <2>5, <2>7, <3>1
    <3>2. CASE i # id
      <4>1. object'[i] = object[i] /\ object[i].parent \in Ids \cup {Device}
        BY <2>5, <3>2 DEF Whole
      <4>2. object[i].parent # id
        BY <2>1, <3>2, <4>1 DEF Family
      <4> QED
        BY <2>5, <4>1, <4>2 DEF Family
    <3> QED
      BY <3>1, <3>2
  <2>9. Kept'
    BY <2>1, <2>2, <2>5 DEF Kept, KeptAt, Exists, WTypes, Whole
  <2>10. SoleOwner'
    BY <2>1, <2>5 DEF SoleOwner
  <2>11. Owned'
    <3> SUFFICES ASSUME NEW i \in Ids, object'[i] # Null
                 PROVE  i \in abandoned' \/ \E q \in Places : place'[q].id = i
      BY DEF Owned
    <3>1. CASE i = id
      BY <2>5, <3>1
    <3>2. CASE i # id
      <4>1. i \in abandoned \/ \E q \in Places : place[q].id = i
        BY <2>1, <2>5, <3>2 DEF Owned
      <4>2. place[p].id # i
        BY <2>1 DEF Nulled
      <4> QED
        BY <2>1, <2>5, <4>1, <4>2
    <3> QED
      BY <3>1, <3>2
  <2> QED
    BY <2>4, <2>6, <2>8, <2>9, <2>10, <2>11
<1> QED
  BY <1>1, <1>2

(* Destroying an object, with its children where it has any, hurts no      *)
(* wrapper but those of the objects that die.                              *)
LEMMA DestroyedOnly ==
  ASSUME WInv, NEW kind, NEW id \in Ids, DriverDestroys(kind, id)
  PROVE  /\ \A i \in Ids \cup {Device} :
              \/ i \in {id} \cup Children(id) /\ object'[i] = Null
              \/ i \notin {id} \cup Children(id) /\ object'[i] = object[i]
         /\ object' \in [Ids \cup {Device} -> Objects \cup {Null}]
         /\ abandoned' = abandoned \ ({id} \cup Children(id))
         /\ misuse' = misuse
  BY DEF WInv, WTypes, DriverDestroys

(* What the driver destroys takes its children along.                      *)
LEMMA FamilyKept ==
  ASSUME WInv, NEW kind, NEW id \in Ids, DriverDestroys(kind, id)
  PROVE  Family'
<1> SUFFICES ASSUME NEW i \in Ids, object'[i] # Null
             PROVE  /\ object'[object'[i].parent] # Null
                    /\ object'[i].parent # Device =>
                         /\ object'[i].kind \in {"cmd", "buffer"}
                         /\ object'[object'[i].parent].kind
                              \in {"pool", "allocator"}
  BY DEF Family
<1> DEFINE parent == object[i].parent
<1>1. /\ i \notin {id} \cup Children(id)
      /\ object'[i] = object[i]
  BY DestroyedOnly
<1>2. parent \in Ids \cup {Device} /\ object[parent] # Null
  BY <1>1 DEF WInv, Whole, Family
<1>3. parent # id
  BY <1>1 DEF Children
<1>4. parent \notin Children(id)
  <2>1. SUFFICES ASSUME parent \in Ids, object[parent] # Null,
                        object[parent].parent = id
                 PROVE  FALSE
    BY <1>2 DEF Children
  <2>2. object[parent].kind \in {"cmd", "buffer"}
    BY <2>1 DEF WInv, Family
  <2>3. object[parent].kind \in {"pool", "allocator"}
    BY <1>1, <2>1 DEF WInv, Family
  <2> QED
    BY <2>2, <2>3
<1>5. object'[parent] = object[parent]
  BY <1>2, <1>3, <1>4, DestroyedOnly
<1> QED
  BY <1>1, <1>2, <1>5 DEF WInv, Family

(* A refused create() keeps the accounting of wrappers and objects.        *)
LEMMA RefuseKeeps ==
  ASSUME WInv, NEW kind \in Kinds, NEW parent, NEW id \in Ids,
         Refuse(kind, parent, id)
  PROVE  WInv'
<1> USE DEF WInv
<1> DEFINE Hit == Exists(kind, id) /\ object[id].parent = parent
<1>1. CASE ~Hit
  BY <1>1, WrongStep DEF Refuse
<1>2. CASE Hit
  <2>1. /\ DriverDestroys(kind, id)
        /\ stolen' = stolen \cup {id} \cup Children(id)
        /\ place' = place
    BY <1>2 DEF Refuse
  <2>2. \A i \in Ids \cup {Device} :
          \/ i \in {id} \cup Children(id) /\ object'[i] = Null
          \/ i \notin {id} \cup Children(id) /\ object'[i] = object[i]
    BY <2>1, DestroyedOnly
  <2>3. WTypes'
    BY <2>1, DestroyedOnly DEF WTypes, Children
  <2>4. Whole'
    BY <2>1, <2>2 DEF Whole
  <2>5. Family'
    BY <2>1, FamilyKept
  <2>6. Kept'
    <3>1. Children(id) \subseteq Ids /\ stolen \subseteq Ids
      BY DEF Children, WTypes
    <3>2. \A i \in stolen' : object'[i] = Null
      BY <2>1, <2>2, <3>1 DEF Kept
    <3>3. ASSUME NEW p \in Places, place'[p] # Nulled
          PROVE  KeptAt(p)'
      <4>1. place[p].id \in Ids
        BY <2>1, <3>3 DEF Whole
      <4> QED
        BY <2>1, <2>2, <3>3, <4>1 DEF Kept, KeptAt, Exists
    <3> QED
      BY <3>2, <3>3 DEF Kept
  <2>7. SoleOwner'
    BY <2>1 DEF SoleOwner
  <2>8. Owned'
    BY <2>1, <2>2, DestroyedOnly DEF Owned
  <2> QED
    BY <2>3, <2>4, <2>5, <2>6, <2>7, <2>8
<1> QED
  BY <1>1, <1>2

(* So does a move.                                                         *)
LEMMA MoveKeeps ==
  ASSUME WInv, NEW kind \in Kinds, NEW dst \in Places, NEW src \in Places,
         Move(kind, dst, src)
  PROVE  WInv'
<1> USE DEF WInv
<1>1. /\ dst # src
      /\ place' = [place EXCEPT ![dst] = place[src], ![src] = Nulled]
      /\ abandoned' = abandoned
            \cup {i \in Ids : i = place[dst].id /\ object[i] # Null}
      /\ UNCHANGED <<object, stolen, misuse>>
  BY DEF Move, Overwrite
<1>2. /\ place'[dst] = place[src]
      /\ place'[src] = Nulled
      /\ \A p \in Places \ {dst, src} : place'[p] = place[p]
  BY <1>1 DEF WTypes
<1>3. WTypes'
  BY <1>1 DEF WTypes, Nulled
<1>4. Whole' /\ Family'
  BY <1>1, <1>2 DEF Whole, Family
<1>5. Kept'
  <2> SUFFICES ASSUME NEW p \in Places, place'[p] # Nulled
               PROVE  KeptAt(p)'
    BY <1>1 DEF Kept
  <2>1. PICK q \in Places : place'[p] = place[q]
    BY <1>2
  <2> QED
    BY <1>1, <2>1 DEF Kept, KeptAt, Exists
<1>6. SoleOwner'
  <2> SUFFICES ASSUME NEW p \in Places, NEW q \in Places, p # q,
                      place'[p] # Nulled
               PROVE  place'[p].id # place'[q].id
    BY DEF SoleOwner
  <2> DEFINE From(r) == IF r = dst THEN src ELSE r
  <2>1. p # src /\ place'[p] = place[From(p)] /\ place[From(p)].id \in Ids
    BY <1>2 DEF Whole
  <2>2. CASE q = src
    BY <1>2, <2>1, <2>2 DEF Nulled
  <2>3. CASE q # src
    <3>1. place'[q] = place[From(q)] /\ From(p) # From(q)
      BY <1>2, <2>1, <2>3
    <3> QED
      BY <2>1, <3>1 DEF SoleOwner
  <2> QED
    BY <2>2, <2>3
<1>7. Owned'
  <2> SUFFICES ASSUME misuse = {}, NEW i \in Ids, object[i] # Null
               PROVE  i \in abandoned' \/ \E q \in Places : place'[q].id = i
    BY <1>1 DEF Owned
  <2>1. CASE i \in abandoned \/ i = place[dst].id
    BY <1>1, <2>1
  <2>2. ASSUME NEW p \in Places \ {dst}, place[p].id = i
        PROVE  \E q \in Places : place'[q].id = i
    BY <1>2, <2>2
  <2> QED
    BY <2>1, <2>2 DEF Owned
<1> QED
  BY <1>3, <1>4, <1>5, <1>6, <1>7

(* So does a destructor.                                                   *)
LEMMA DestroyKeeps ==
  ASSUME WInv, NEW kind \in Kinds, NEW p \in Places, Destroy(kind, p)
  PROVE  WInv'
<1> USE DEF WInv
<1> DEFINE id == place[p].id
<1>1. id \in Ids /\ place[p] # Nulled /\ place[p].kind = kind
  BY DEF Destroy, Whole, Nulled, Kinds
<1>2. /\ place' = [place EXCEPT ![p] = Nulled]
      /\ stolen' = stolen
      /\ \A q \in Places : place[q].parent # id
      /\ DriverCall(kind, id)
  BY DEF Destroy
<1> HIDE DEF id
<1>3. CASE ~DriverDestroys(kind, id)
  <2>1. PICK why \in {"gone", "children"} : Wrong(id, why)
    BY <1>2, <1>3 DEF DriverCall
  <2> QED
    BY <1>1, <1>2, <2>1, WrongStep
<1>4. CASE DriverDestroys(kind, id)
  <2>1. \A i \in Ids \cup {Device} :
          \/ i \in {id} \cup Children(id) /\ object'[i] = Null
          \/ i \notin {id} \cup Children(id) /\ object'[i] = object[i]
    BY <1>1, <1>4, DestroyedOnly
  <2>2. place'[p] = Nulled /\ \A q \in Places \ {p} : place'[q] = place[q]
    BY <1>2 DEF WTypes
  <2>3. WTypes'
    BY <1>1, <1>2, <1>4, DestroyedOnly DEF WTypes, Nulled
  <2>4. Whole'
    BY <2>1, <2>2 DEF Whole
  <2>5. Family'
    BY <1>1, <1>4, FamilyKept
  <2>6. Kept'
    <3>1. \A i \in stolen' : object'[i] = Null
      BY <1>2, <2>1 DEF Kept, WTypes
    <3>2. ASSUME NEW q \in Places, place'[q] # Nulled
          PROVE  KeptAt(q)'
      <4>1. q # p /\ place'[q] = place[q] /\ place[q].id \in Ids
        BY <2>2, <3>2 DEF Whole
      <4>2. place[q].id # id
        BY <1>1, <4>1 DEF SoleOwner, id
      <4>3. place[q].id \in stolen \/ place[q].id \notin Children(id)
        BY <1>2, <2>2, <3>2, <4>1 DEF Kept, KeptAt, Exists, Children
      <4> QED
        BY <1>2, <2>1, <3>2, <4>1, <4>2, <4>3 DEF Kept, KeptAt, Exists
    <3> QED
      BY <3>1, <3>2 DEF Kept
  <2>7. SoleOwner'
    <3> SUFFICES ASSUME NEW q \in Places, NEW r \in Places, q # r,
                        place'[q] # Nulled
                 PROVE  place'[q].id # place'[r].id
      BY DEF SoleOwner
    <3>1. place'[q] = place[q] /\ place[q].id \in Ids
      BY <2>2 DEF Whole
    <3> QED
      BY <2>2, <3>1 DEF SoleOwner, Nulled
  <2>8. Owned'
    <3> SUFFICES ASSUME misuse = {}, NEW i \in Ids, object'[i] # Null
                 PROVE  i \in abandoned' \/ \E q \in Places : place'[q].id = i
      BY <1>1, <1>4, DestroyedOnly DEF Owned
    <3>1. i \notin {id} \cup Children(id) /\ object[i] # Null
      BY <2>1
    <3> QED
      BY <1>1, <1>4, <2>2, <3>1, DestroyedOnly DEF Owned, id
  <2> QED
    BY <2>3, <2>4, <2>5, <2>6, <2>7, <2>8
<1> QED
  BY <1>3, <1>4

(* So does the end of the device.                                          *)
LEMMA DestroyDeviceKeeps ==
  ASSUME WInv, DestroyDevice
  PROVE  WInv'
<1> USE DEF WInv
<1>1. /\ misuse = {} /\ object[Device] # Null
      /\ \A p \in Places : place[p] = Nulled
      /\ DriverCall("device", Device)
      /\ UNCHANGED <<place, stolen>>
  BY DEF DestroyDevice
<1>2. CASE Children(Device) # {}
  BY <1>1, <1>2, WrongStep DEF DriverCall, Exists, Whole
<1>3. CASE Children(Device) = {}
  <2>1. \A i \in Ids : object[i] = Null
    <3> SUFFICES ASSUME NEW i \in Ids, object[i] # Null PROVE FALSE
      OBVIOUS
    <3>1. object[i].parent \in Ids /\ object[object[i].parent] # Null
      BY <1>3 DEF Children, Whole, Family
    <3>2. object[object[i].parent].kind \in {"pool", "allocator"}
      BY <3>1 DEF Family
    <3>3. object[object[i].parent].parent = Device
      BY <3>1, <3>2 DEF Family
    <3> QED
      BY <1>3, <3>1, <3>3 DEF Children
  <2>2. /\ DriverDestroys("device", Device)
    BY <1>1, <1>3 DEF DriverCall, Exists, Whole
  <2>3. /\ object' = [i \in DOMAIN object |->
                       IF i = Device THEN Null ELSE object[i]]
        /\ abandoned' = abandoned \ {Device}
        /\ misuse' = misuse
    BY <1>3, <2>2 DEF DriverDestroys
  <2>4. object'[Device] = Null /\ \A i \in Ids : object'[i] = Null
    BY <2>1, <2>3 DEF WTypes
  <2>5. WTypes'
    BY <1>1, <2>3 DEF WTypes
  <2> QED
    BY <1>1, <2>4, <2>5 DEF WTypes, Whole, Family, Kept, SoleOwner, Owned
<1> QED
  BY <1>2, <1>3

(* So does whatever the client does with wrappers.                         *)
LEMMA WrapperStepKeeps ==
  ASSUME WInv, WrapperStep
  PROVE  WInv'
<1>1. CASE CreateStep
  BY <1>1, CreateCases, CreateKeeps DEF WInv
<1>2. CASE RefuseStep
  BY <1>2, RefuseCases, RefuseKeeps
<1>3. CASE MoveStep
  BY <1>3, MoveCases, MoveKeeps
<1>4. CASE DestroyStep
  BY <1>4, DestroyCases, DestroyKeeps
<1>5. CASE DestroyDevice
  BY <1>5, DestroyDeviceKeeps
<1> QED
  BY <1>1, <1>2, <1>3, <1>4, <1>5 DEF WrapperStep

----------------------------------------------------------------------------
(* WInv survives the threads' steps, which change contents only.           *)

(* A new value or new data leaves the accounting as it is.                 *)
LEMMA ContentStep ==
  ASSUME WInv, NEW id \in Ids, object[id] # Null,
         NEW content \in ContentOf(object[id].kind),
         object' = [object EXCEPT ![id].content = content],
         UNCHANGED <<place, abandoned, stolen, misuse>>
  PROVE  /\ WInv'
         /\ object'[id] # Null
         /\ object'[id].kind = object[id].kind
         /\ object'[id].content = content
         /\ \A i \in Ids \ {id} : object'[i] = object[i]
<1> USE DEF WInv
<1> DEFINE new == [object[id] EXCEPT !.content = content]
<1>1. object[id] \in Objects
  BY DEF WTypes
<1>2. content \in {Null} \cup [value : 0..LastTurn] \cup Contained
  BY ContentTyped DEF Whole
<1>3. /\ new \in Objects
      /\ new.kind = object[id].kind
      /\ new.parent = object[id].parent
      /\ new.content = content
  BY <1>1, <1>2 DEF Objects
<1>4. new # Null
  BY <1>3
<1>5. object' = [object EXCEPT ![id] = new]
  OBVIOUS
<1> HIDE DEF new
<1>6. object'[id] = new /\ \A i \in (Ids \cup {Device}) \ {id} : object'[i] = object[i]
  BY <1>5 DEF WTypes
<1>7. \A i \in Ids \cup {Device} :
        /\ object'[i] = Null <=> object[i] = Null
        /\ object[i] # Null => /\ object'[i].kind = object[i].kind
                               /\ object'[i].parent = object[i].parent
  BY <1>3, <1>4, <1>6
<1>8. WTypes'
  BY <1>3, <1>5 DEF WTypes
<1>9. Whole'
  BY <1>3, <1>6, <1>7 DEF Whole
<1>10. Family'
  BY <1>7 DEF Whole, Family
<1>11. Kept'
  <2> SUFFICES ASSUME NEW p \in Places, place[p] # Nulled
               PROVE  KeptAt(p)'
    BY <1>7 DEF Kept, WTypes
  <2>1. place[p].id \in Ids
    BY DEF Whole
  <2> QED
    BY <1>7, <2>1 DEF Kept, KeptAt, Exists
<1>12. SoleOwner' /\ Owned'
  BY <1>7 DEF SoleOwner, Owned
<1> QED
  BY <1>3, <1>4, <1>6, <1>8, <1>9, <1>10, <1>11, <1>12

(* What a thread's call on the semaphore, or a part of its write, does.    *)
LEMMA SignalStep ==
  ASSUME WInv, NEW id \in Ids, NEW value \in 0..LastTurn,
         Exists("semaphore", id), object[id].content # Null, Value(id) < value,
         Signal(id, value), UNCHANGED <<place, abandoned, stolen>>
  PROVE  /\ WInv'
         /\ Exists("semaphore", id)'
         /\ (object[id].content # Null)'
         /\ Value(id)' = value
         /\ UNCHANGED misuse
         /\ \A i \in Ids \ {id} : object'[i] = object[i]
<1> DEFINE content == [object[id].content EXCEPT !.value = value]
<1>1. object[id] # Null /\ object[id].kind = "semaphore"
  BY DEF Exists
<1>2. object[id].content \in [value : 0..LastTurn]
  BY <1>1 DEF WInv, Whole, ContentOf
<1>3. content \in [value : 0..LastTurn] /\ content.value = value
  BY <1>2
<1>4. content # Null /\ content \in ContentOf("semaphore")
  BY <1>3 DEF ContentOf
<1>5. /\ object' = [object EXCEPT ![id].content = content]
      /\ UNCHANGED misuse
  BY DEF Signal
<1> HIDE DEF content
<1> QED
  BY <1>1, <1>3, <1>4, <1>5, ContentStep DEF Exists, Value

(* Writing half of a buffer changes that half only.                        *)
LEMMA WriteStep ==
  ASSUME WInv, NEW id \in Ids, NEW part \in {1, 2}, NEW datum \in 0..LastTurn,
         Exists("buffer", id), WritePart(id, part, datum),
         UNCHANGED <<place, abandoned, stolen, misuse>>
  PROVE  /\ WInv'
         /\ Exists("buffer", id)'
         /\ object'[id].content.data[part] = datum
         /\ \A other \in {1, 2} \ {part} :
              object'[id].content.data[other] = object[id].content.data[other]
         /\ \A i \in Ids \ {id} : object'[i] = object[i]
<1> DEFINE data == [object[id].content.data EXCEPT ![part] = datum]
           content == [object[id].content EXCEPT !.data = data]
<1>1. object[id] # Null /\ object[id].kind = "buffer"
  BY DEF Exists
<1>2. object[id].content \in Contained /\ Sized(object[id].content)
  BY <1>1 DEF WInv, Whole, ContentOf
<1>3. /\ data \in [{1, 2} -> 0..LastTurn]
      /\ data[part] = datum
      /\ \A other \in {1, 2} \ {part} : data[other] = object[id].content.data[other]
  BY <1>2 DEF Contained
<1>4. object' = [object EXCEPT ![id].content = content]
  BY DEF WritePart
<1> HIDE DEF data
<1>5. /\ content \in Contained
      /\ content.data = data
      /\ content.bytes = object[id].content.bytes
      /\ content.count = object[id].content.count
  BY <1>2, <1>3 DEF Contained
<1> HIDE DEF content
<1>6. content \in ContentOf("buffer")
  BY <1>2, <1>5 DEF ContentOf, Sized
<1>7. /\ WInv'
      /\ object'[id] # Null
      /\ object'[id].kind = "buffer"
      /\ object'[id].content = content
      /\ \A i \in Ids \ {id} : object'[i] = object[i]
  BY <1>1, <1>4, <1>6, ContentStep
<1> QED
  BY <1>3, <1>5, <1>7 DEF Exists

----------------------------------------------------------------------------
(* The main thread leaves the threads' objects as they are, unless a       *)
(* refused create() destroys one; and it keeps the two wrappers.           *)

(* The driver's calls destroy objects and change none.                     *)
LEMMA DestroyedOrSame ==
  ASSUME WInv, NEW kind, NEW id \in Ids,
         DriverCall(kind, id) \/ DriverDestroys(kind, id),
         NEW i \in Ids
  PROVE  object'[i] \in {object[i], Null}
<1>1. CASE DriverDestroys(kind, id)
  BY <1>1, DestroyedOnly
<1>2. CASE ~DriverDestroys(kind, id)
  BY <1>2 DEF DriverCall, Wrong
<1> QED
  BY <1>1, <1>2

(* An object whose name a wrapper bears is destroyed or left as it is.     *)
LEMMA HeldUntouched ==
  ASSUME WInv, WrapperStep, NEW i \in Ids,
         \E p \in Places : place[p].id = i
  PROVE  object'[i] \in {object[i], Null}
<1> USE DEF WInv
<1> DEFINE Goal == object'[i] \in {object[i], Null}
<1>1. ASSUME NEW kind \in Kinds, NEW parent \in Ids \cup {Device},
             NEW p \in Places, NEW id \in Ids, NEW content \in ContentOf(kind),
             Create(kind, parent, p, id, content)
      PROVE  Goal
  BY <1>1 DEF Create, Wrong, WTypes
<1>2. ASSUME NEW kind \in Kinds, NEW parent, NEW id \in Ids,
             Refuse(kind, parent, id)
      PROVE  Goal
  <2>1. DriverDestroys(kind, id) \/ Wrong(id, "stale")
    BY <1>2 DEF Refuse
  <2> QED
    BY <2>1, DestroyedOrSame DEF Wrong
<1>3. ASSUME NEW kind \in Kinds, NEW dst \in Places, NEW src \in Places,
             Move(kind, dst, src)
      PROVE  Goal
  BY <1>3 DEF Move
<1>4. ASSUME NEW kind \in Kinds, NEW p \in Places, Destroy(kind, p)
      PROVE  Goal
  <2>1. place[p].id \in Ids
    BY <1>4 DEF Destroy, Whole, Nulled, Kinds
  <2> QED
    BY <1>4, <2>1, DestroyedOrSame DEF Destroy
<1>5. ASSUME DestroyDevice PROVE Goal
  BY <1>5, SMTT(30) DEF DestroyDevice, Whole, Nulled
<1> QED
  <2>1. CASE CreateStep
    BY <1>1, <2>1, CreateCases
  <2>2. CASE MoveStep
    BY <1>3, <2>2, MoveCases
  <2>3. CASE DestroyStep
    BY <1>4, <2>3, DestroyCases
  <2>4. CASE RefuseStep
    BY <1>2, <2>4, RefuseCases
  <2> QED
    BY <1>5, <2>1, <2>2, <2>3, <2>4 DEF WrapperStep

(* The main thread replaces nothing that the threads share.                *)
LEMMA MainKeepsShared ==
  ASSUME WInv, TTypes, Lent, Main, shared # Null
  PROVE  /\ shared' = shared
         /\ shared.buffer \in Ids /\ shared.semaphore \in Ids
         /\ object'[shared.buffer] \in {object[shared.buffer], Null}
         /\ object'[shared.semaphore] \in {object[shared.semaphore], Null}
         /\ Lent'
<1>1. shared' = shared /\ shared.buffer \in Ids /\ shared.semaphore \in Ids
  BY DEF Main, handoverVars, TTypes, Pairs
<1>2. PICK b \in Places : place[b].kind = "buffer" /\ place[b].id = shared.buffer
  BY DEF Lent
<1>3. PICK s \in Places :
        place[s].kind = "semaphore" /\ place[s].id = shared.semaphore
  BY DEF Lent
<1>4. place'[b] = place[b] /\ place'[s] = place[s]
  BY <1>2, <1>3 DEF Main, Borrowed
<1>5. /\ object'[shared.buffer] \in {object[shared.buffer], Null}
      /\ object'[shared.semaphore] \in {object[shared.semaphore], Null}
  BY <1>1, <1>2, <1>3, HeldUntouched DEF Main
<1>6. Lent'
  BY <1>1, <1>2, <1>3, <1>4, <1>5 DEF Lent, Exists
<1> QED
  BY <1>1, <1>5, <1>6

(* Whatever the main thread does, the turns stay in order.                 *)
LEMMA MainKeepsTurns ==
  ASSUME WInv, TInv, Main
  PROVE  TInv'
<1> USE DEF TInv
<1>1. UNCHANGED <<shared, pc, seen>>
  BY DEF Main, handoverVars
<1>2. TTypes' /\ HandedOver'
  BY <1>1 DEF TTypes, HandedOver
<1>3. CASE shared = Null
  BY <1>1, <1>2, <1>3 DEF Lent, InTurn, DataInTurn, Active
<1>4. CASE shared # Null
  <2>1. /\ object'[shared.buffer] \in {object[shared.buffer], Null}
        /\ object'[shared.semaphore] \in {object[shared.semaphore], Null}
        /\ Lent'
    BY <1>4, MainKeepsShared
  <2>2. InTurn'
    BY <1>1, <1>4, <2>1 DEF InTurn, Active, Exists, Value
  <2>3. DataInTurn'
    BY <1>1, <1>4, <2>1 DEF DataInTurn, Filled, Active, Exists, Value
  <2> QED
    BY <1>2, <2>1, <2>2, <2>3
<1> QED
  BY <1>3, <1>4

----------------------------------------------------------------------------
(* TInv survives the threads' steps, and those that start and join them.   *)

(* WInv depends on the wrappers' variables alone.                          *)
LEMMA WInvFrame ==
  ASSUME WInv, UNCHANGED wrapperVars
  PROVE  WInv'
  BY DEF WInv, wrapperVars, WTypes, Whole, Family, Kept, KeptAt, Exists,
     SoleOwner, Owned

(* TInv depends on what the threads see alone.                             *)
LEMMA TInvFrame ==
  ASSUME TInv, UNCHANGED <<place, object, shared, pc, seen>>
  PROVE  TInv'
<1> USE DEF TInv
<1>1. TTypes'
  BY DEF TTypes
<1>2. Lent'
  BY DEF Lent, Exists
<1>3. InTurn'
  BY DEF InTurn, Active, Exists, Value
<1>4. DataInTurn'
  BY DEF DataInTurn, Active, Exists, Value, Filled
<1>5. HandedOver'
  BY DEF HandedOver
<1> QED
  BY <1>1, <1>2, <1>3, <1>4, <1>5

(* The threads start with the first one's turn.                            *)
LEMMA StartKeeps ==
  ASSUME WInv, TInv, NEW b \in Places, NEW s \in Places, Start(b, s)
  PROVE  TInv'
<1> USE DEF WInv, TInv
<1>1. /\ place[b].kind = "buffer"
      /\ place[s].kind = "semaphore"
      /\ Exists("semaphore", place[s].id)
      /\ object[place[s].id].content # Null
      /\ object[place[s].id].content.value = 0
      /\ shared' = [buffer |-> place[b].id, semaphore |-> place[s].id]
      /\ pc' = [t \in Turns |-> "wait"]
      /\ seen' = [t \in Turns |-> {}]
      /\ UNCHANGED <<place, object>>
  BY DEF Start, Timeline, Value, wrapperVars
<1>2. place[b].id \in Ids /\ place[s].id \in Ids
  BY <1>1 DEF Whole, Nulled
<1>3. shared' \in Pairs /\ shared' # Null
  BY <1>1, <1>2 DEF Pairs
<1>4. TTypes'
  BY <1>1, <1>3 DEF TTypes
<1>5. Lent'
  BY <1>1 DEF Lent, Exists
<1>6. \A t \in Turns : pc'[t] = "wait" /\ 0 < t
  BY <1>1 DEF Turns
<1>7. InTurn'
  BY <1>1, <1>6 DEF InTurn, Active, Value, Exists
<1>8. DataInTurn'
  <2>1. Value(shared.semaphore)' = 0
    BY <1>1 DEF Value
  <2>2. ~(Value(shared.semaphore)' > 0)
    BY <2>1
  <2> QED
    BY <1>6, <2>2 DEF DataInTurn
<1>9. HandedOver'
  BY <1>6 DEF HandedOver
<1> QED
  BY <1>4, <1>5, <1>7, <1>8, <1>9

(* The end of the threads keeps the order of turns.                        *)
LEMMA JoinKeeps ==
  ASSUME TInv, Join
  PROVE  TInv'
<1>1. /\ shared' = Null
      /\ pc' = [t \in Turns |-> "unborn"]
      /\ seen' = [t \in Turns |-> {}]
  BY DEF Join
<1> QED
  BY <1>1 DEF TInv, TTypes, Lent, InTurn, DataInTurn, HandedOver, Active

(* A thread that makes a call has something to make it on.                 *)
LEMMA Running ==
  ASSUME TTypes, NEW t \in Turns, NEW where, NEW kind, NEW id,
         At(t, where, kind, id), where # "unborn"
  PROVE  /\ shared # Null
         /\ shared.buffer \in Ids
         /\ shared.semaphore \in Ids
         /\ pc[t] = where
         /\ Exists(kind, id)
  BY DEF At, TTypes, Pairs

(* A wait that gives up leaves its thread out.                             *)
LEMMA GiveUpKeeps ==
  ASSUME TInv, NEW t \in Turns, GiveUp(t)
  PROVE  TInv'
<1> USE DEF TInv
<1>1. /\ pc[t] = "wait"
      /\ pc' = [pc EXCEPT ![t] = "done"]
      /\ UNCHANGED <<place, object, shared, seen>>
  BY DEF GiveUp, At, GoTo, wrapperVars
<1>2. pc'[t] = "done" /\ \A u \in Turns \ {t} : pc'[u] = pc[u]
  BY <1>1 DEF TTypes
<1>3. TTypes'
  BY <1>1 DEF TTypes
<1>4. Lent' /\ HandedOver'
  BY <1>1, <1>2 DEF Lent, HandedOver, Exists
<1>5. \A u \in Turns : Active(u)' <=> Active(u)
  BY <1>1, <1>2 DEF Active
<1>6. InTurn'
  BY <1>1, <1>2, <1>5 DEF InTurn, Exists, Value
<1>7. DataInTurn'
  BY <1>1, <1>2, <1>5 DEF DataInTurn, Filled, Exists, Value
<1> QED
  BY <1>3, <1>4, <1>6, <1>7

(* A wait that succeeds is that of the thread whose turn it is.            *)
LEMMA WaitTurnKeeps ==
  ASSUME WInv, TInv, NEW t \in Turns, WaitTurn(t)
  PROVE  TInv'
<1> USE DEF TInv
<1> DEFINE sem == shared.semaphore
           buf == shared.buffer
<1>1. /\ shared # Null /\ Exists("semaphore", sem) /\ sem \in Ids
      /\ pc[t] = "wait"
  BY Running DEF WaitTurn
<1>2. /\ Value(sem) >= t - 1
      /\ pc' = [pc EXCEPT ![t] = "read"]
      /\ UNCHANGED <<place, object, shared, seen>>
  BY DEF WaitTurn, WaitSucceeds, GoTo, wrapperVars
<1>3. pc'[t] = "read" /\ \A u \in Turns \ {t} : pc'[u] = pc[u]
  BY <1>2 DEF TTypes
<1>4. object[sem].content \in [value : 0..LastTurn]
  BY <1>1 DEF WInv, Whole, ContentOf, Exists, Lent
<1>5. Value(sem) \in Nat /\ t \in Nat /\ \A u \in Turns : u \in Nat
  BY <1>4 DEF Value, Turns
<1>6. Value(sem) = t - 1
  BY <1>1, <1>2, <1>5 DEF InTurn
<1>7. \A u \in Turns : ~Active(u)
  <2> SUFFICES ASSUME NEW u \in Turns, Active(u) PROVE FALSE
    OBVIOUS
  <2>1. Value(sem) = u - 1
    BY <1>1 DEF InTurn
  <2>2. u = t
    BY <1>5, <1>6, <2>1
  <2> QED
    BY <1>1, <2>2 DEF Active
<1>8. \A u \in Turns : Active(u)' <=> u = t
  BY <1>3, <1>7 DEF Active
<1>9. TTypes'
  BY <1>1, <1>2 DEF TTypes
<1>10. Lent' /\ HandedOver'
  BY <1>2, <1>3 DEF Lent, HandedOver, Exists
<1>11. InTurn'
  BY <1>1, <1>2, <1>3, <1>6, <1>8 DEF InTurn, Exists, Value
<1>12. DataInTurn'
  <2> SUFFICES ASSUME Exists("buffer", buf)
               PROVE  DataInTurn'
    BY <1>2 DEF DataInTurn, Exists
  <2>1. t > 1 => Value(sem) > 0
    BY <1>5, <1>6
  <2>2. t > 1 => Filled(t - 1)
    BY <1>1, <1>6, <1>7, <2>1 DEF DataInTurn, Filled
  <2>3. \A u \in Turns \ {t} : pc'[u] \notin {"read", "write", "write on", "signal"}
    BY <1>3, <1>7 DEF Active
  <2> QED
    BY <1>2, <1>3, <1>8, <2>2, <2>3 DEF DataInTurn, Filled
<1> QED
  BY <1>9, <1>10, <1>11, <1>12

(* The thread whose turn it is reads what its predecessor wrote.           *)
LEMMA ReadKeeps ==
  ASSUME WInv, TInv, NEW t \in Turns, Read(t)
  PROVE  TInv'
<1> USE DEF TInv
<1> DEFINE buf == shared.buffer
<1>1. /\ shared # Null /\ Exists("buffer", buf) /\ buf \in Ids
      /\ pc[t] = "read"
  BY Running DEF Read
<1>2. /\ seen' = [seen EXCEPT ![t] = Contents(buf)]
      /\ pc' = [pc EXCEPT ![t] = "write"]
      /\ UNCHANGED <<place, object, shared>>
  BY DEF Read, GoTo, wrapperVars
<1>3. /\ pc'[t] = "write" /\ seen'[t] = Contents(buf)
      /\ \A u \in Turns \ {t} : pc'[u] = pc[u] /\ seen'[u] = seen[u]
  BY <1>2 DEF TTypes
<1>4. object[buf].content.data \in [{1, 2} -> 0..LastTurn]
  BY <1>1 DEF WInv, Whole, ContentOf, Exists, Contained
<1>5. Contents(buf) = {object[buf].content.data[1], object[buf].content.data[2]}
  BY <1>4 DEF Contents
<1>6. TTypes'
  <2>1. Contents(buf) \subseteq 0..LastTurn
    BY <1>4, <1>5
  <2> QED
    BY <1>1, <1>2, <2>1 DEF TTypes
<1>7. Lent'
  BY <1>2 DEF Lent, Exists
<1>8. \A u \in Turns : Active(u)' <=> Active(u)
  BY <1>1, <1>3 DEF Active
<1>9. InTurn'
  BY <1>1, <1>2, <1>3, <1>8 DEF InTurn, Exists, Value
<1>10. DataInTurn'
  <2>1. \A datum : Filled(datum)' <=> Filled(datum)
    BY <1>2 DEF Filled
  <2>2. /\ Exists("semaphore", shared.semaphore)'
             <=> Exists("semaphore", shared.semaphore)
        /\ Value(shared.semaphore)' = Value(shared.semaphore)
    BY <1>2 DEF Exists, Value
  <2>3. \A u \in Turns :
          /\ pc'[u] \in {"read", "write"} <=> pc[u] \in {"read", "write"}
          /\ pc'[u] = "write on" <=> pc[u] = "write on"
          /\ pc'[u] = "signal" <=> pc[u] = "signal"
    BY <1>1, <1>3
  <2> QED
    BY <1>1, <1>2, <1>8, <2>1, <2>2, <2>3 DEF DataInTurn
<1>11. HandedOver'
  <2>1. t > 1 => Filled(t - 1)
    BY <1>1 DEF DataInTurn
  <2>2. t > 1 => seen'[t] = {t - 1}
    BY <1>3, <1>5, <2>1 DEF Filled
  <2> QED
    BY <1>3, <2>2 DEF HandedOver
<1> QED
  BY <1>6, <1>7, <1>9, <1>10, <1>11

(* Half a write is seen by nobody else.                                    *)
LEMMA WriteKeeps ==
  ASSUME WInv, TInv, NEW t \in Turns, Write(t)
  PROVE  WInv' /\ TInv' /\ UNCHANGED misuse
<1> USE DEF TInv
<1>1. PICK part \in {1, 2} :
        /\ At(t, IF part = 1 THEN "write" ELSE "write on",
              "buffer", shared.buffer)
        /\ WritePart(shared.buffer, part, t)
        /\ GoTo(t, IF part = 1 THEN "write on" ELSE "signal")
  <2>1. CASE /\ At(t, "write", "buffer", shared.buffer)
             /\ WritePart(shared.buffer, 1, t)
             /\ GoTo(t, "write on")
    BY <2>1
  <2>2. CASE /\ At(t, "write on", "buffer", shared.buffer)
             /\ WritePart(shared.buffer, 2, t)
             /\ GoTo(t, "signal")
    <3>1. /\ (IF 2 = 1 THEN "write" ELSE "write on") = "write on"
          /\ (IF 2 = 1 THEN "write on" ELSE "signal") = "signal"
      OBVIOUS
    <3> QED
      BY <2>2, <3>1, Zenon
  <2> QED
    BY <2>1, <2>2 DEF Write
<1>2. /\ shared # Null /\ Exists("buffer", shared.buffer)
      /\ shared.buffer \in Ids /\ shared.semaphore \in Ids
      /\ pc[t] = IF part = 1 THEN "write" ELSE "write on"
      /\ pc' = [pc EXCEPT ![t] = IF part = 1 THEN "write on" ELSE "signal"]
  BY <1>1, Running DEF GoTo
<1>a. PICK buf \in Ids, sem \in Ids :
        buf = shared.buffer /\ sem = shared.semaphore
  BY <1>2
<1>3. UNCHANGED <<place, abandoned, stolen, misuse, shared, seen>>
  BY DEF Write
<1>4. t \in 0..LastTurn
  BY DEF Turns
<1>5. /\ WInv'
      /\ Exists("buffer", buf)'
      /\ object'[buf].content.data[part] = t
      /\ \A other \in {1, 2} \ {part} :
           object'[buf].content.data[other] = object[buf].content.data[other]
      /\ \A i \in Ids \ {buf} : object'[i] = object[i]
  <2>1. Exists("buffer", buf) /\ WritePart(buf, part, t)
    BY <1>1, <1>2, <1>a
  <2> QED
    BY <1>3, <1>4, <2>1, WriteStep
<1>6. /\ pc'[t] = IF part = 1 THEN "write on" ELSE "signal"
      /\ \A u \in Turns \ {t} : pc'[u] = pc[u]
  BY <1>2 DEF TTypes
<1>7. \A u \in Turns : Active(u)' <=> Active(u)
  BY <1>2, <1>6 DEF Active
<1>8. \A u \in Turns : Active(u) <=> u = t
  BY <1>2 DEF InTurn, Active
<1>9. \/ object'[sem] = object[sem]
      \/ ~Exists("semaphore", sem)'
  BY <1>5 DEF Exists
<1>10. TTypes'
  BY <1>2, <1>3 DEF TTypes
<1>11. Lent'
  BY <1>a, <1>3, <1>9 DEF Lent, Exists
<1>12. HandedOver'
  BY <1>2, <1>3, <1>6 DEF HandedOver
<1>13. InTurn'
  BY <1>a, <1>2, <1>3, <1>6, <1>7, <1>9 DEF InTurn, Exists, Value
<1>14. DataInTurn'
  <2>1. \A u \in Turns \ {t} : pc'[u] \notin {"read", "write", "write on", "signal"}
    BY <1>6, <1>8 DEF Active
  <2>2. part = 1 => object'[buf].content.data[1] = t
    BY <1>5
  <2>3. part = 2 => Filled(t)'
    <3> SUFFICES ASSUME part = 2 PROVE Filled(t)'
      OBVIOUS
    <3>1. object[buf].content.data[1] = t
      <4>1. pc[t] = "write on"
        <5>1. part # 1
          OBVIOUS
        <5> QED
          BY <1>2, <5>1, Zenon
      <4>2. object[shared.buffer].content.data[1] = t
        BY <1>2, <4>1 DEF DataInTurn
      <4> QED
        BY <1>a, <4>2
    <3>2. object'[buf].content.data[1] = t /\ object'[buf].content.data[2] = t
      BY <1>5, <3>1
    <3> QED
      BY <1>a, <1>3, <3>2 DEF Filled
  <2>4. ~ \A u \in Turns : ~Active(u)'
    BY <1>7, <1>8
  <2>5. ASSUME NEW u \in Turns
        PROVE  /\ pc'[u] \notin {"read", "write"}
               /\ pc'[u] = "write on" =>
                    object'[shared'.buffer].content.data[1] = u
               /\ pc'[u] = "signal" => Filled(u)'
    BY <1>a, <1>3, <1>6, <2>1, <2>2, <2>3
  <2> QED
    BY <2>4, <2>5 DEF DataInTurn
<1> QED
  BY <1>3, <1>5, <1>10, <1>11, <1>12, <1>13, <1>14

(* The signal passes the turn on, with the data whole.                     *)
LEMMA SignalTurnKeeps ==
  ASSUME WInv, TInv, NEW t \in Turns, SignalTurn(t)
  PROVE  WInv' /\ TInv' /\ UNCHANGED misuse
<1> USE DEF TInv
<1>a. /\ shared # Null /\ Exists("semaphore", shared.semaphore)
      /\ shared.buffer \in Ids /\ shared.semaphore \in Ids
      /\ pc[t] = "signal"
  BY Running DEF SignalTurn
<1>b. PICK buf \in Ids, sem \in Ids :
        buf = shared.buffer /\ sem = shared.semaphore
  BY <1>a
<1>1. shared # Null /\ Exists("semaphore", sem) /\ pc[t] = "signal"
  BY <1>a, <1>b
<1>2. /\ pc' = [pc EXCEPT ![t] = "done"]
      /\ Signal(sem, t)
      /\ UNCHANGED <<place, abandoned, stolen, shared, seen>>
  BY <1>b DEF SignalTurn, GoTo
<1>3. t \in 0..LastTurn /\ Value(sem) < t /\ object[sem].content # Null
  BY <1>1, <1>b DEF Turns, InTurn, Lent
<1>4. /\ WInv'
      /\ Exists("semaphore", sem)'
      /\ (object[sem].content # Null)'
      /\ Value(sem)' = t
      /\ UNCHANGED misuse
      /\ \A i \in Ids \ {sem} : object'[i] = object[i]
  BY <1>1, <1>2, <1>3, SignalStep
<1>5. pc'[t] = "done" /\ \A u \in Turns \ {t} : pc'[u] = pc[u]
  BY <1>2 DEF TTypes
<1>6. \A u \in Turns : Active(u) <=> u = t
  BY <1>1 DEF InTurn, Active
<1>7. \A u \in Turns : ~Active(u)'
  BY <1>5, <1>6 DEF Active
<1>8. \A u \in Turns : pc'[u] # "done" => t < u
  <2> SUFFICES ASSUME NEW u \in Turns, pc'[u] # "done" PROVE t < u
    OBVIOUS
  <2>1. u # t /\ pc[u] # "done"
    BY <1>5
  <2>2. Value(sem) = t - 1 /\ Value(sem) < u
    BY <1>1, <1>b, <1>6, <2>1 DEF InTurn
  <2> QED
    BY <2>1, <2>2 DEF Turns
<1>9. TTypes'
  BY <1>1, <1>2 DEF TTypes
<1>10. Lent'
  BY <1>b, <1>2, <1>4 DEF Lent
<1>11. HandedOver'
  BY <1>2, <1>5 DEF HandedOver
<1>12. InTurn'
  BY <1>b, <1>2, <1>4, <1>7, <1>8 DEF InTurn, Value
<1>13. DataInTurn'
  <2> SUFFICES ASSUME Exists("buffer", buf)'
               PROVE  DataInTurn'
    BY <1>b, <1>2 DEF DataInTurn, Exists
  <2>1. buf # sem
    BY <1>4 DEF Exists
  <2>2. object'[buf] = object[buf] /\ Exists("buffer", buf)
    BY <1>4, <2>1 DEF Exists
  <2>3. Filled(t)
    BY <1>1, <1>b, <2>2 DEF DataInTurn
  <2>4. Filled(t)'
    BY <1>b, <1>2, <2>2, <2>3 DEF Filled
  <2>5. \A u \in Turns : pc'[u] \notin {"read", "write", "write on", "signal"}
    BY <1>7 DEF Active
  <2>6. Value(shared.semaphore)' = t
    BY <1>b, <1>2, <1>4 DEF Value
  <2>7. Filled(Value(shared.semaphore))'
    BY <2>4, <2>6 DEF Filled
  <2> QED
    BY <2>5, <2>7 DEF DataInTurn
<1> QED
  BY <1>4, <1>9, <1>10, <1>11, <1>12, <1>13

----------------------------------------------------------------------------
(* Why a rule of the driver can be broken.                                 *)

(* The misuses that MisuseExplained allows.                                *)
LEMMA WrongExplained ==
  ASSUME NEW id, NEW why, Wrong(id, why), UNCHANGED stolen,
         \/ why = "stale"
         \/ why = "gone" /\ id \in stolen
         \/ why = "children" /\ Children(id) \subseteq abandoned
  PROVE  MisuseExplained'
<1>1. /\ misuse' = {[id |-> id, why |-> why]}
      /\ UNCHANGED <<object, abandoned, stolen>>
  BY DEF Wrong
<1>2. Children(id)' = Children(id)
  BY <1>1 DEF Children
<1> SUFFICES ASSUME NEW m \in misuse'
             PROVE  \/ m.why = "stale"
                    \/ m.why = "gone" /\ m.id \in stolen'
                    \/ m.why = "children" /\ Children(m.id)' \subseteq abandoned'
  BY DEF MisuseExplained
<1>3. m.id = id /\ m.why = why
  BY <1>1
<1> QED
  BY <1>1, <1>2, <1>3

(* A wrapper whose object is gone lost it to an unwritten handle.          *)
LEMMA GoneIsStolen ==
  ASSUME WInv, NEW p \in Places, place[p] # Nulled,
         \/ ~Exists(place[p].kind, place[p].id)
         \/ object[place[p].id] = Null
  PROVE  place[p].id \in stolen
  BY DEF WInv, Kept, KeptAt, Exists

(* The client's calls make no others.                                      *)
LEMMA WrapperStepExplained ==
  ASSUME WInv, WrapperStep
  PROVE  MisuseExplained'
<1> USE DEF WInv
<1>1. ASSUME misuse' = {} PROVE MisuseExplained'
  BY <1>1 DEF MisuseExplained
<1>2. ASSUME NEW kind \in Kinds, NEW parent \in Ids \cup {Device},
             NEW p \in Places, NEW id \in Ids, NEW content \in ContentOf(kind),
             Begotten(kind, parent), Create(kind, parent, p, id, content)
      PROVE  MisuseExplained'
  <2>1. CASE object[parent] # Null
    BY <1>1, <1>2, <2>1 DEF Create
  <2>2. CASE object[parent] = Null
    <3>1. PICK q \in Places :
            place[q].kind \in {"pool", "allocator"} /\ place[q].id = parent
      BY <1>2, <2>2 DEF Begotten
    <3>2. place[q] # Nulled
      BY <3>1 DEF Nulled
    <3>3. parent \in stolen
      BY <2>2, <3>1, <3>2, GoneIsStolen
    <3> QED
      BY <1>2, <2>2, <3>3, WrongExplained DEF Create
  <2> QED
    BY <2>1, <2>2
<1>3. ASSUME NEW kind \in Kinds, NEW parent, NEW id \in Ids,
             Refuse(kind, parent, id)
      PROVE  MisuseExplained'
  <2>1. CASE Exists(kind, id) /\ object[id].parent = parent
    BY <1>1, <1>3, <2>1 DEF Refuse, DriverDestroys
  <2>2. CASE ~(Exists(kind, id) /\ object[id].parent = parent)
    BY <1>3, <2>2, WrongExplained DEF Refuse
  <2> QED
    BY <2>1, <2>2
<1>4. ASSUME NEW kind \in Kinds, NEW dst \in Places, NEW src \in Places,
             Move(kind, dst, src)
      PROVE  MisuseExplained'
  BY <1>1, <1>4 DEF Move
<1>5. ASSUME NEW kind \in Kinds, NEW p \in Places, Destroy(kind, p)
      PROVE  MisuseExplained'
  <2> DEFINE id == place[p].id
  <2>1. /\ misuse = {} /\ place[p].kind = kind /\ UNCHANGED stolen
        /\ \A q \in Places : place[q].parent # id
        /\ DriverCall(kind, id)
    BY <1>5 DEF Destroy
  <2>2. place[p] # Nulled
    BY <2>1 DEF Nulled, Kinds
  <2>3. CASE ~Exists(kind, id)
    BY <2>1, <2>2, <2>3, GoneIsStolen, WrongExplained DEF DriverCall
  <2>4. CASE Exists(kind, id) /\ kind # "pool" /\ Children(id) # {}
    <3>1. Children(id) \subseteq abandoned
      <4> SUFFICES ASSUME NEW c \in Ids, object[c] # Null, object[c].parent = id
                   PROVE  c \in abandoned
        BY DEF Children
      <4>1. ASSUME NEW q \in Places, place[q].id = c PROVE FALSE
        <5>1. place[q] # Nulled /\ c \notin stolen
          BY <4>1 DEF Kept, Nulled
        <5> QED
          BY <2>1, <4>1, <5>1 DEF Kept, KeptAt
      <4> QED
        BY <2>1, <4>1 DEF Owned
    <3>2. Wrong(id, "children")
      BY <2>1, <2>4 DEF DriverCall
    <3> QED
      BY <2>1, <3>1, <3>2, WrongExplained
  <2>5. CASE Exists(kind, id) /\ (kind = "pool" \/ Children(id) = {})
    BY <1>1, <2>1, <2>5 DEF DriverCall, DriverDestroys
  <2> QED
    BY <2>3, <2>4, <2>5
<1>6. ASSUME DestroyDevice PROVE MisuseExplained'
  <2>1. /\ misuse = {} /\ UNCHANGED stolen
        /\ \A p \in Places : place[p] = Nulled
        /\ DriverCall("device", Device)
        /\ Exists("device", Device)
    BY <1>6 DEF DestroyDevice, Exists, Whole
  <2>2. CASE Children(Device) # {}
    <3>1. Children(Device) \subseteq abandoned
      BY <2>1 DEF Children, Owned, Nulled
    <3>2. Wrong(Device, "children")
      BY <2>1, <2>2 DEF DriverCall
    <3> QED
      BY <2>1, <3>1, <3>2, WrongExplained
  <2>3. CASE Children(Device) = {}
    BY <1>1, <2>1, <2>3 DEF DriverCall, DriverDestroys
  <2> QED
    BY <2>2, <2>3
<1> QED
  <2>1. CASE CreateStep
    BY <1>2, <2>1, CreateCases
  <2>2. CASE MoveStep
    BY <1>4, <2>2, MoveCases
  <2>3. CASE DestroyStep
    BY <1>5, <2>3, DestroyCases
  <2>4. CASE RefuseStep
    BY <1>3, <2>4, RefuseCases
  <2> QED
    BY <1>6, <2>1, <2>2, <2>3, <2>4 DEF WrapperStep

(* A thread that finds its objects gone keeps the invariant.               *)
LEMMA MissingKeeps ==
  ASSUME IInv, NEW t \in Turns, Missing(t)
  PROVE  IInv'
<1> USE DEF IInv, TInv
<1>1. /\ UNCHANGED <<place, stolen, shared, pc, seen>>
      /\ shared # Null /\ shared.buffer \in Ids /\ shared.semaphore \in Ids
  BY DEF Missing, handoverVars, TTypes, Pairs
<1>2. PICK id \in Ids :
        /\ Wrong(id, "gone")
        /\ \E p \in Places : place[p] # Nulled /\ place[p].id = id
                              /\ ~Exists(place[p].kind, id)
  <2>1. CASE /\ ~Exists("semaphore", shared.semaphore)
             /\ Wrong(shared.semaphore, "gone")
    <3>1. PICK p \in Places :
            place[p].kind = "semaphore" /\ place[p].id = shared.semaphore
      BY <1>1 DEF Lent
    <3> QED
      BY <1>1, <2>1, <3>1 DEF Nulled
  <2>2. CASE /\ ~Exists("buffer", shared.buffer)
             /\ Wrong(shared.buffer, "gone")
    <3>1. PICK p \in Places :
            place[p].kind = "buffer" /\ place[p].id = shared.buffer
      BY <1>1 DEF Lent
    <3> QED
      BY <1>1, <2>2, <3>1 DEF Nulled
  <2> QED
    BY <2>1, <2>2 DEF Missing
<1>3. id \in stolen
  BY <1>2, GoneIsStolen
<1>4. WInv'
  BY <1>1, <1>2, WrongStep
<1>5. MisuseExplained'
  BY <1>1, <1>2, <1>3, WrongExplained
<1>6. TInv'
  BY <1>1, <1>2, TInvFrame DEF Wrong
<1> QED
  BY <1>4, <1>5, <1>6

----------------------------------------------------------------------------
(* The invariant, and the theorems.                                        *)

(* The types of the wrappers and those of the threads.                     *)
LEMMA TypeOK_Split == TypeOK <=> WTypes /\ TTypes
  BY DEF TypeOK, WTypes, TTypes

(* Initially there is nothing.                                             *)
LEMMA IInvInit == Init => IInv
<1> SUFFICES ASSUME Init PROVE IInv
  OBVIOUS
<1> USE DEF Init, WrapperInit
<1>1. WTypes
  <2>1. [kind |-> "device", parent |-> Null, content |-> Null] \in Objects
    BY DEF Objects
  <2> QED
    BY <2>1 DEF WTypes, Nulled
<1>2. \A i \in Ids : object[i] = Null
  OBVIOUS
<1>3. Whole
  BY <1>2 DEF Whole
<1>4. Family /\ Kept /\ SoleOwner /\ Owned
  BY <1>2 DEF Family, Kept, SoleOwner, Owned
<1>5. TInv
  BY DEF TInv, TTypes, Lent, InTurn, DataInTurn, HandedOver, Active
<1>6. MisuseExplained
  BY DEF MisuseExplained
<1> QED
  BY <1>1, <1>3, <1>4, <1>5, <1>6 DEF IInv, WInv

(* Where nothing is misused nothing has to be explained.                   *)
LEMMA MisuseFrame ==
  ASSUME MisuseExplained, misuse = {}, UNCHANGED misuse
  PROVE  MisuseExplained'
  BY DEF MisuseExplained

(* Each step keeps the inductive invariant.                                *)
LEMMA IInvStep == IInv /\ [Next]_vars => IInv'
<1> SUFFICES ASSUME IInv, [Next]_vars PROVE IInv'
  OBVIOUS
<1> USE DEF IInv
<1>1. CASE Main
  BY <1>1, WrapperStepKeeps, MainKeepsTurns, WrapperStepExplained DEF Main
<1>2. ASSUME NEW b \in Places, NEW s \in Places, Start(b, s) PROVE IInv'
  BY <1>2, WInvFrame, StartKeeps, MisuseFrame DEF Start, wrapperVars
<1>3. CASE Join
  BY <1>3, WInvFrame, JoinKeeps, MisuseFrame DEF Join, wrapperVars
<1>4. ASSUME NEW t \in Turns, WaitTurn(t) PROVE IInv'
  BY <1>4, WInvFrame, WaitTurnKeeps, MisuseFrame DEF WaitTurn, At, wrapperVars
<1>5. ASSUME NEW t \in Turns, GiveUp(t) PROVE IInv'
  BY <1>5, WInvFrame, GiveUpKeeps, MisuseFrame DEF GiveUp, At, wrapperVars
<1>6. ASSUME NEW t \in Turns, Read(t) PROVE IInv'
  BY <1>6, WInvFrame, ReadKeeps, MisuseFrame DEF Read, At, wrapperVars
<1>7. ASSUME NEW t \in Turns, Write(t) PROVE IInv'
  BY <1>7, WriteKeeps, MisuseFrame DEF Write, At
<1>8. ASSUME NEW t \in Turns, SignalTurn(t) PROVE IInv'
  BY <1>8, SignalTurnKeeps, MisuseFrame DEF SignalTurn, At
<1>9. ASSUME NEW t \in Turns, Missing(t) PROVE IInv'
  BY <1>9, MissingKeeps
<1>10. CASE UNCHANGED vars
  <2>1. UNCHANGED wrapperVars /\ UNCHANGED <<place, object, shared, pc, seen>>
    BY <1>10 DEF vars, wrapperVars
  <2>2. MisuseExplained'
    BY <1>10 DEF vars, MisuseExplained, Children
  <2> QED
    BY <2>1, <2>2, WInvFrame, TInvFrame
<1> QED
  BY <1>1, <1>2, <1>3, <1>4, <1>5, <1>6, <1>7, <1>8, <1>9, <1>10
     DEF Next, ThreadStep, Over

(* The inductive invariant.                                                *)
THEOREM IInvCorrect == Spec => []IInv
  BY IInvInit, IInvStep, PTL DEF Spec

(* Every reachable state is well typed, whatever mix of wrappers and       *)
(* threads leads to it.                                                    *)
THEOREM TypeCorrect == Spec => []TypeOK
<1>1. IInv => TypeOK
  BY TypeOK_Split DEF IInv, WInv, TInv
<1> QED
  BY <1>1, IInvCorrect, PTL

(* Moves leave one wrapper at most that would destroy an object.           *)
THEOREM SoleOwnerCorrect == Spec => []SoleOwner
<1>1. IInv => SoleOwner
  BY DEF IInv, WInv
<1> QED
  BY <1>1, IInvCorrect, PTL

(* No object of the driver is lost, but for those a move assignment        *)
(* overwrites.                                                             *)
THEOREM EveryObjectOwnedCorrect == Spec => []EveryObjectOwned
<1>1. IInv => EveryObjectOwned
  <2> SUFFICES ASSUME Owned PROVE EveryObjectOwned
    BY DEF IInv, WInv
  <2> SUFFICES ASSUME misuse = {}, NEW i \in Ids, object[i] # Null,
                      i \notin abandoned
               PROVE  i \in Held
    BY DEF EveryObjectOwned
  <2>1. \E p \in Places : place[p].id = i
    BY DEF Owned
  <2> QED
    BY <2>1 DEF Held
<1> QED
  BY <1>1, IInvCorrect, PTL

(* The handles a wrapper keeps, its own and its parent's, are good until a *)
(* refused create() destroys the object.                                   *)
THEOREM HandlesExistCorrect == Spec => []HandlesExist
<1>1. IInv => HandlesExist
  <2> SUFFICES ASSUME IInv, NEW p \in Places, place[p] # Nulled,
                      place[p].id \notin stolen
               PROVE  /\ Exists(place[p].kind, place[p].id)
                      /\ object[place[p].parent] # Null
    BY DEF HandlesExist
  <2>1. /\ Exists(place[p].kind, place[p].id)
        /\ object[place[p].id].parent = place[p].parent
    BY DEF IInv, WInv, Kept, KeptAt
  <2>2. place[p].id \in Ids /\ object[place[p].id] # Null
    BY <2>1 DEF IInv, WInv, Whole, Exists
  <2> QED
    BY <2>1, <2>2 DEF IInv, WInv, Family
<1> QED
  BY <1>1, IInvCorrect, PTL

(* A rule of the driver is broken only after a refused create(), or for an *)
(* object that still has children nobody can destroy any more.             *)
THEOREM MisuseExplainedCorrect == Spec => []MisuseExplained
<1>1. IInv => MisuseExplained
  BY DEF IInv
<1> QED
  BY <1>1, IInvCorrect, PTL

(* A thread reads what its predecessor wrote, whole, and nothing else.     *)
THEOREM HandedOverCorrect == Spec => []HandedOver
<1>1. IInv => HandedOver
  BY DEF IInv, TInv
<1> QED
  BY <1>1, IInvCorrect, PTL

(* What memcpy copies for a write() or a read() of a buffer whose size did *)
(* not wrap.                                                               *)
LEMMA CopyFits ==
  ASSUME NEW count \in Nat, NEW offset \in Nat, NEW n \in Nat,
         offset < count, count * ElementSize < SizeRange
  PROVE  /\ (ElementSize * count) % SizeRange = count * ElementSize
         /\ offset * ElementSize
              + Smaller(((count - offset) * ElementSize) % SizeRange,
                        n * ElementSize)
              <= count * ElementSize
<1> DEFINE rest == (count - offset) * ElementSize
<1>1. ElementSize \in Nat /\ SizeRange \in Nat \ {0} /\ count - offset \in Nat
  OBVIOUS
<1>2. rest \in Nat /\ count * ElementSize = offset * ElementSize + rest
  BY <1>1
<1>3. offset * ElementSize \in Nat /\ n * ElementSize \in Nat
  BY <1>1
<1>4. ElementSize * count = count * ElementSize
  BY <1>1
<1> HIDE DEF rest
<1>5. rest < SizeRange
  BY <1>1, <1>2, <1>3
<1>6. \A m \in Nat : m < SizeRange => m % SizeRange = m
  BY <1>1
<1>7. rest % SizeRange = rest
  BY <1>2, <1>5, <1>6
<1>8. (ElementSize * count) % SizeRange = count * ElementSize
  BY <1>2, <1>3, <1>4, <1>6
<1>9. Smaller(rest, n * ElementSize) <= rest
  BY <1>2, <1>3 DEF Smaller
<1>10. offset * ElementSize + Smaller(rest, n * ElementSize)
         <= count * ElementSize
  <2>1. Smaller(rest, n * ElementSize) \in Nat
    BY <1>2, <1>3 DEF Smaller
  <2> QED
    BY <1>2, <1>3, <1>9, <2>1
<1> QED
  BY <1>7, <1>8, <1>10 DEF rest

(* No write() or read() leaves the memory of a buffer whose size fits      *)
(* size_t.                                                                 *)
THEOREM InBoundsCorrect == Spec => []InBounds
<1>1. IInv => InBounds
  <2> SUFFICES ASSUME IInv, NEW id \in Ids, Exists("buffer", id),
                      NEW b, b = object[id].content,
                      b.count * ElementSize < SizeRange,
                      NEW offset \in 0..MaxSpan, NEW n \in 1..MaxSpan,
                      Accepts(b, offset)
               PROVE  offset * ElementSize + Copied(b, offset, n) <= b.bytes
    BY DEF InBounds
  <2>1. b \in Contained /\ Sized(b)
    BY DEF IInv, WInv, Whole, ContentOf, Exists
  <2>2. b.count \in Nat /\ offset < b.count
    BY <2>1 DEF Contained, Accepts
  <2>3. offset \in Nat /\ n \in Nat
    OBVIOUS
  <2>4. /\ (ElementSize * b.count) % SizeRange = b.count * ElementSize
        /\ offset * ElementSize
             + Smaller(((b.count - offset) * ElementSize) % SizeRange,
                       n * ElementSize)
             <= b.count * ElementSize
    BY <2>2, <2>3, CopyFits
  <2>5. b.bytes = b.count * ElementSize
    BY <2>1, <2>4 DEF Sized, SizeOf
  <2> QED
    BY <2>4, <2>5 DEF Copied
<1> QED
  BY <1>1, IInvCorrect, PTL
=============================================================================
