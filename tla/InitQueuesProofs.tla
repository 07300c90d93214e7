-------------------------- MODULE InitQueuesProofs --------------------------
(***************************************************************************)
(* What the queue set-up makes of any device and any requests.             *)
(*                                                                         *)
(* The inductive invariant, QInv, says what total_count is before each     *)
(* turn of the inner loop (Counted): the number of acquisitions the        *)
(* requests so far may make of the family, up to its queueCount; that      *)
(* descs tells just this of each family that was looked at (DescsTell);    *)
(* and that each family of the pool is one that was asked of the device    *)
(* (FamiliesAsked).                                                        *)
(***************************************************************************)
EXTENDS InitQueues, FiniteSetTheorems, FunctionTheorems, SequenceTheorems,
        WellFoundedInduction, TLAPS

USE InitQueuesAssumption

----------------------------------------------------------------------------
(* The acquisitions of one request, and those of the first k requests that *)
(* family f may be wanted for.                                             *)
AcquisitionsOf(r) == {<<r, n>> : n \in 1..requests[r].count}

MayUse(f, k) ==
  {a \in Acquisitions : a[1] <= k /\ Wanted(device[f], requests[a[1]])}

(* The queues of family f that the first k requests take.                  *)
Taken(f, k) == Lesser(device[f].queueCount, Cardinality(MayUse(f, k)))

Counted ==
  pc = "count" /\ next <= Len(device) =>
    /\ asked <= Len(requests) + 1
    /\ total_count = Taken(next, asked - 1)

LookedAt(f) == f \in DOMAIN device /\ (pc = "count" => f < next)

AllTaken(f) == Taken(f, Len(requests))

DescsTell ==
  /\ \A i \in DOMAIN descs : descs[i].count > 0
  /\ \A i \in DOMAIN descs : \A f \in DOMAIN device :
       descs[i].family = f => LookedAt(f) /\ descs[i].count = AllTaken(f)
  /\ \A i, j \in DOMAIN descs : i < j => descs[i].family < descs[j].family
  /\ \A f \in DOMAIN device :
       LookedAt(f) /\ AllTaken(f) > 0 =>
         \E i \in DOMAIN descs : descs[i].family = f

FamiliesAsked ==
  /\ pc = "count" => families = <<>>
  /\ \A k \in DOMAIN families :
       /\ families[k].queues # {}
       /\ \E i \in DOMAIN descs :
            /\ pc = "families" => i < next
            /\ families[k].family_index = descs[i].family
            /\ families[k].queues \subseteq 0..(descs[i].count - 1)

(* The loops stay within the device, the requests and descs.               *)
Positions ==
  /\ Len(device) <= MaxFamilies /\ Len(requests) <= MaxRequests
  /\ next <= Len(device) + 1
  /\ pc = "count" => Len(descs) < next
  /\ Len(descs) <= Len(device)
  /\ pc = "families" => next <= Len(descs) + 1

QInv ==
  /\ TypeOK
  /\ Positions
  /\ Counted
  /\ DescsTell
  /\ FamiliesAsked

----------------------------------------------------------------------------
(* A set of naturals with a member has a least one.                        *)
LEMMA MinProperties ==
  ASSUME NEW S, S \subseteq Nat, S # {}
  PROVE  Min(S) \in S /\ \A y \in S : Min(S) <= y
<1>1. PICK x \in S : \A y \in S : ~ (<<y, x>> \in OpToRel(<, Nat))
  BY NatLessThanWellFounded, WFMin
<1>2. \A y \in S : x <= y
  <2> SUFFICES ASSUME NEW y \in S, y < x PROVE FALSE
    OBVIOUS
  <2>1. <<y, x>> \in OpToRel(<, Nat)
    BY DEF OpToRel
  <2> QED
    BY <1>1, <2>1
<1> QED
  BY <1>1, <1>2 DEF Min

----------------------------------------------------------------------------
(* Counting acquisitions.                                                  *)

(* A request makes count acquisitions.                                     *)
LEMMA AcquisitionsOfOne ==
  ASSUME NEW r, requests[r].count \in Nat
  PROVE  /\ IsFiniteSet(AcquisitionsOf(r))
         /\ Cardinality(AcquisitionsOf(r)) = requests[r].count
<1> DEFINE c == requests[r].count
           F == [n \in 1..c |-> <<r, n>>]
<1>1. F \in Bijection(1..c, AcquisitionsOf(r))
  <2>1. F \in [1..c -> AcquisitionsOf(r)]
    BY DEF AcquisitionsOf
  <2>2. \A a, b \in 1..c : F[a] = F[b] => a = b
    OBVIOUS
  <2>3. \A t \in AcquisitionsOf(r) : \E n \in 1..c : F[n] = t
    BY DEF AcquisitionsOf
  <2> QED
    BY <2>1, <2>2, <2>3, Fun_IsBij
<1>2. ExistsBijection(1..c, AcquisitionsOf(r))
  BY <1>1 DEF ExistsBijection
<1>3. c \in Nat
  OBVIOUS
<1> HIDE DEF c
<1>4. IsFiniteSet(1..c) /\ Cardinality(1..c) = c
  <2>1. 1 \in Int /\ c \in Int
    BY <1>3
  <2>2. /\ IsFiniteSet(1..c)
        /\ Cardinality(1..c) = IF 1 > c THEN 0 ELSE c - 1 + 1
    BY <2>1, FS_Interval, Zenon
  <2> QED
    BY <1>3, <2>2
<1> USE DEF c
<1> QED
  BY <1>2, <1>4, FS_Bijection

(* The acquisitions are those of each request.                             *)
LEMMA AcquisitionsAre ==
  /\ Acquisitions = UNION {AcquisitionsOf(r) : r \in DOMAIN requests}
  /\ \A r : \A a \in AcquisitionsOf(r) : a[1] = r
BY DEF Acquisitions, AcquisitionsOf

(* There are finitely many.                                                *)
LEMMA AcquisitionsFinite ==
  ASSUME requests \in Seq(RequestKinds)
  PROVE  IsFiniteSet(Acquisitions)
<1> DEFINE D == DOMAIN requests
           T == {AcquisitionsOf(r) : r \in D}
           F == [r \in D |-> AcquisitionsOf(r)]
<1>1. IsFiniteSet(D)
  BY FS_Interval
<1>2. F \in Surjection(D, T)
  BY DEF Surjection
<1>3. IsFiniteSet(T)
  BY <1>1, <1>2, FS_Surjection DEF ExistsSurjection
<1>4. \A r \in D : requests[r].count \in Nat
  OBVIOUS
<1>5. \A t \in T : IsFiniteSet(t)
  BY <1>4, AcquisitionsOfOne
<1> HIDE DEF T
<1>6. IsFiniteSet(UNION T)
  BY <1>3, <1>5, FS_UNION
<1> QED
  BY <1>6, AcquisitionsAre DEF T

(* So a family may be wanted for finitely many.                            *)
LEMMA MayUseFinite ==
  ASSUME requests \in Seq(RequestKinds), NEW f, NEW k
  PROVE  IsFiniteSet(MayUse(f, k)) /\ Cardinality(MayUse(f, k)) \in Nat
BY AcquisitionsFinite, FS_Subset, FS_CardinalityType DEF MayUse

(* The first request adds nothing to none.                                 *)
LEMMA NoRequestYet ==
  ASSUME requests \in Seq(RequestKinds), NEW f \in DOMAIN device,
         device \in Seq(FamilyKinds)
  PROVE  Taken(f, 0) = 0
<1>1. MayUse(f, 0) = {}
  <2> SUFFICES ASSUME NEW a \in Acquisitions, a[1] <= 0 PROVE FALSE
    BY DEF MayUse
  <2>1. PICK r \in DOMAIN requests : a \in AcquisitionsOf(r)
    BY AcquisitionsAre
  <2> QED
    BY <2>1, AcquisitionsAre
<1>2. device[f].queueCount \in Nat
  OBVIOUS
<1>3. Cardinality(MayUse(f, 0)) = 0
  BY <1>1, FS_EmptySet
<1> QED
  BY <1>2, <1>3 DEF Taken, Lesser

(* Each request adds its own acquisitions, if the family is wanted for it. *)
LEMMA OneMoreRequest ==
  ASSUME requests \in Seq(RequestKinds), device \in Seq(FamilyKinds),
         NEW f \in DOMAIN device, NEW k \in DOMAIN requests
  PROVE  Cardinality(MayUse(f, k)) =
           Cardinality(MayUse(f, k - 1)) +
             (IF Wanted(device[f], requests[k]) THEN requests[k].count ELSE 0)
<1>1. k \in Nat /\ DOMAIN requests \subseteq Nat /\ requests[k].count \in Nat
  OBVIOUS
<1>2. ASSUME NEW a
      PROVE  a \in MayUse(f, k) <=>
               \/ a \in MayUse(f, k - 1)
               \/ a \in AcquisitionsOf(k) /\ Wanted(device[f], requests[k])
  <2>1. a \in MayUse(f, k) <=>
          \E r \in DOMAIN requests : /\ a \in AcquisitionsOf(r) /\ r <= k
                                    /\ Wanted(device[f], requests[r])
    BY AcquisitionsAre DEF MayUse
  <2>2. a \in MayUse(f, k - 1) <=>
          \E r \in DOMAIN requests : /\ a \in AcquisitionsOf(r) /\ r <= k - 1
                                    /\ Wanted(device[f], requests[r])
    BY AcquisitionsAre DEF MayUse
  <2>3. \A r \in DOMAIN requests : r <= k <=> r <= k - 1 \/ r = k
    BY <1>1
  <2> QED
    BY <2>1, <2>2, <2>3
<1>3. CASE Wanted(device[f], requests[k])
  <2>1. MayUse(f, k) = MayUse(f, k - 1) \cup AcquisitionsOf(k)
    BY <1>2, <1>3
  <2>2. MayUse(f, k - 1) \cap AcquisitionsOf(k) = {}
    BY <1>1, AcquisitionsAre DEF MayUse
  <2>3. /\ IsFiniteSet(MayUse(f, k - 1))
        /\ Cardinality(MayUse(f, k - 1)) \in Nat
        /\ IsFiniteSet(AcquisitionsOf(k))
        /\ Cardinality(AcquisitionsOf(k)) = requests[k].count
    BY <1>1, MayUseFinite, AcquisitionsOfOne
  <2>4. Cardinality({}) = 0
    BY FS_EmptySet
  <2>5. Cardinality(MayUse(f, k - 1) \cup AcquisitionsOf(k)) =
          Cardinality(MayUse(f, k - 1)) + Cardinality(AcquisitionsOf(k))
            - Cardinality(MayUse(f, k - 1) \cap AcquisitionsOf(k))
    BY <2>3, FS_Union
  <2>6. Cardinality(MayUse(f, k)) =
          Cardinality(MayUse(f, k - 1)) + requests[k].count - 0
    BY <2>1, <2>2, <2>3, <2>4, <2>5
  <2> QED
    BY <1>1, <1>3, <2>3, <2>6
<1>4. CASE ~Wanted(device[f], requests[k])
  <2>1. MayUse(f, k) = MayUse(f, k - 1)
    BY <1>2, <1>4
  <2> QED
    BY <1>4, <2>1, MayUseFinite
<1> QED
  BY <1>3, <1>4

(* What is left of q when b were taken, and c more are asked for.          *)
LEMMA LesserAdds ==
  \A q, b, c \in Nat :
    Lesser(q, b) + Lesser(c, q - Lesser(q, b)) = Lesser(q, b + c)
BY DEF Lesser

(* What Took() makes of it.                                                *)
LEMMA TookRight ==
  ASSUME requests \in Seq(RequestKinds), device \in Seq(FamilyKinds),
         NEW f \in DOMAIN device, NEW k \in DOMAIN requests,
         total_count = Taken(f, k - 1)
  PROVE  Took(device[f], requests[k]) = Taken(f, k)
<1> DEFINE before == Cardinality(MayUse(f, k - 1))
           after == Cardinality(MayUse(f, k))
           available == device[f].queueCount
           count == requests[k].count
<1>1. before \in Nat /\ after \in Nat /\ available \in Nat /\ count \in Nat
  BY MayUseFinite
<1>2. after = before + (IF Wanted(device[f], requests[k]) THEN count ELSE 0)
  BY OneMoreRequest
<1>3. /\ total_count = Lesser(available, before)
      /\ Taken(f, k) = Lesser(available, after)
  BY DEF Taken
<1>4. Took(device[f], requests[k]) =
        IF Wanted(device[f], requests[k])
        THEN total_count + Lesser(count, available - total_count)
        ELSE total_count
  BY DEF Took
<1>5. CASE Wanted(device[f], requests[k])
  <2>1. Took(device[f], requests[k]) =
          Lesser(available, before) +
            Lesser(count, available - Lesser(available, before))
    BY <1>3, <1>4, <1>5
  <2>2. after = before + count
    BY <1>2, <1>5
  <2> HIDE DEF before, after, available, count
  <2>3. Lesser(available, before) +
          Lesser(count, available - Lesser(available, before)) =
            Lesser(available, before + count)
    BY <1>1, LesserAdds
  <2> QED
    BY <1>3, <2>1, <2>2, <2>3
<1>6. CASE ~Wanted(device[f], requests[k])
  <2>1. after = before
    BY <1>1, <1>2, <1>6
  <2> QED
    BY <1>3, <1>4, <1>6, <2>1
<1> QED
  BY <1>5, <1>6

(* No more than the family has.                                            *)
LEMMA TakenBounds ==
  ASSUME requests \in Seq(RequestKinds), device \in Seq(FamilyKinds),
         NEW f \in DOMAIN device, NEW k
  PROVE  /\ Taken(f, k) \in Nat
         /\ Taken(f, k) <= device[f].queueCount
         /\ Taken(f, k) <= Cardinality(MayUse(f, k))
<1>1. Cardinality(MayUse(f, k)) \in Nat /\ device[f].queueCount \in Nat
  BY MayUseFinite
<1> QED
  BY <1>1 DEF Taken, Lesser

(* The device and the requests stay as they are.                           *)
LEMMA SameTaken ==
  ASSUME device' = device, requests' = requests
  PROVE  /\ \A f, k : Taken(f, k)' = Taken(f, k)
         /\ \A f : AllTaken(f)' = AllTaken(f)
BY DEF Taken, MayUse, Acquisitions, AllTaken

----------------------------------------------------------------------------
(* The steps.                                                              *)

(* A turn of the inner loop keeps the invariant.                           *)
LEMMA CountRequestStep ==
  ASSUME QInv, CountRequest PROVE QInv'
<1>1. /\ pc = "count" /\ next \in DOMAIN device /\ asked \in DOMAIN requests
      /\ asked' = asked + 1 /\ total_count' = Took(device[next], requests[asked])
      /\ UNCHANGED <<device, requests, pc, next, descs, families>>
      /\ device \in Seq(FamilyKinds) /\ requests \in Seq(RequestKinds)
  BY DEF CountRequest, QInv, TypeOK
<1>2. total_count = Taken(next, asked - 1)
  BY <1>1 DEF QInv, Counted
<1>3. total_count' = Taken(next, asked)
  BY <1>1, <1>2, TookRight
<1>4. TypeOK'
  <2>1. total_count' \in Nat /\ total_count' <= device[next].queueCount
    BY <1>1, <1>3, TakenBounds
  <2>2. asked' \in 1..(MaxRequests + 1)
    BY <1>1 DEF QInv, Positions, TypeOK
  <2> QED
    BY <1>1, <2>1, <2>2 DEF QInv, TypeOK
<1>5. Positions'
  BY <1>1 DEF QInv, Positions
<1>6. Counted'
  <2>1. asked' - 1 = asked /\ asked' <= Len(requests) + 1
    BY <1>1
  <2>2. Taken(next, asked - 1)' = Taken(next, asked)
    BY <1>1, <2>1, SameTaken
  <2> QED
    BY <1>1, <1>3, <2>1, <2>2 DEF Counted
<1>7. DescsTell'
  BY <1>1, SameTaken DEF QInv, DescsTell, LookedAt
<1>8. FamiliesAsked'
  BY <1>1 DEF QInv, FamiliesAsked
<1> QED
  BY <1>4, <1>5, <1>6, <1>7, <1>8 DEF QInv

(* Appending, index by index.                                              *)
LEMMA AppendFacts ==
  ASSUME NEW S, NEW s \in Seq(S), NEW e \in S
  PROVE  /\ Append(s, e) \in Seq(S)
         /\ Len(s) \in Nat /\ Len(Append(s, e)) = Len(s) + 1
         /\ DOMAIN s = 1..Len(s)
         /\ DOMAIN Append(s, e) = DOMAIN s \cup {Len(s) + 1}
         /\ \A i \in DOMAIN s : Append(s, e)[i] = s[i]
         /\ Append(s, e)[Len(s) + 1] = e
<1> DEFINE t == Append(s, e)
<1>1. /\ Len(s) \in Nat /\ DOMAIN s = 1..Len(s)
      /\ t \in Seq(S) /\ Len(t) = Len(s) + 1
      /\ \A i \in 1..Len(s) : t[i] = s[i]
      /\ t[Len(s) + 1] = e
  BY AppendProperties
<1> HIDE DEF t
<1>2. DOMAIN t = DOMAIN s \cup {Len(s) + 1}
  BY <1>1
<1> QED
  BY <1>1, <1>2 DEF t

(* A family that was asked of the device is one of the device.             *)
LEMMA DescTypes ==
  ASSUME descs \in Seq([family : DOMAIN device, count : Nat]),
         NEW i \in DOMAIN descs
  PROVE  descs[i].family \in DOMAIN device /\ descs[i].count \in Nat
<1> DEFINE D == [family : DOMAIN device, count : Nat]
<1>1. descs \in Seq(D)
  OBVIOUS
<1> HIDE DEF D
<1>2. descs[i] \in D
  BY <1>1
<1>3. PICK d : d = descs[i]
  OBVIOUS
<1>4. d.family \in DOMAIN device /\ d.count \in Nat
  BY <1>2, <1>3 DEF D
<1> QED
  BY <1>3, <1>4

(* The end of the inner loop keeps the invariant.                          *)
LEMMA CountFamilyStep ==
  ASSUME QInv, CountFamily PROVE QInv'
<1>1. /\ pc = "count" /\ next \in DOMAIN device /\ next \in Nat
      /\ asked > Len(requests)
      /\ descs' = IF total_count > 0
                  THEN Append(descs, [family |-> next, count |-> total_count])
                  ELSE descs
      /\ next' = next + 1 /\ asked' = 1 /\ total_count' = 0
      /\ UNCHANGED <<device, requests, pc, families>>
      /\ device \in Seq(FamilyKinds) /\ requests \in Seq(RequestKinds)
      /\ descs \in Seq([family : DOMAIN device, count : Nat])
      /\ DOMAIN device = 1..Len(device) /\ Len(device) \in Nat
      /\ total_count \in Nat /\ Len(requests) \in Nat /\ asked \in Nat
  BY DEF CountFamily, QInv, TypeOK
<1>2. total_count = AllTaken(next)
  <2>1. asked <= Len(requests) + 1
    BY <1>1 DEF QInv, Counted
  <2>2. asked - 1 = Len(requests)
    BY <1>1, <2>1
  <2> QED
    BY <1>1, <2>2 DEF QInv, Counted, AllTaken
<1>3. /\ descs' \in Seq([family : DOMAIN device, count : Nat])
      /\ Len(descs) \in Nat /\ Len(descs') \in Nat /\ Len(descs') <= Len(descs) + 1
      /\ DOMAIN descs = 1..Len(descs)
      /\ \A i \in DOMAIN descs : i \in DOMAIN descs' /\ descs'[i] = descs[i]
      /\ total_count > 0 => /\ Len(descs) + 1 \in DOMAIN descs'
                            /\ descs'[Len(descs) + 1].family = next
                            /\ descs'[Len(descs) + 1].count = total_count
      /\ \A i \in DOMAIN descs' : \/ i \in DOMAIN descs
                                  \/ total_count > 0 /\ i = Len(descs) + 1
  <2>1. CASE total_count > 0
    <3>1. PICK e : e = [family |-> next, count |-> total_count]
      OBVIOUS
    <3>2. e \in [family : DOMAIN device, count : Nat]
      BY <1>1, <3>1
    <3>3. descs' = Append(descs, e)
      BY <1>1, <2>1, <3>1
    <3> DEFINE D == [family : DOMAIN device, count : Nat]
    <3> HIDE DEF D
    <3>4. /\ descs' \in Seq(D)
          /\ Len(descs) \in Nat /\ Len(descs') = Len(descs) + 1
          /\ DOMAIN descs = 1..Len(descs)
          /\ DOMAIN descs' = DOMAIN descs \cup {Len(descs) + 1}
          /\ \A i \in DOMAIN descs : descs'[i] = descs[i]
          /\ descs'[Len(descs) + 1] = e
      <4>1. descs \in Seq(D) /\ e \in D
        BY <1>1, <3>2 DEF D
      <4> QED
        BY <3>3, <4>1, AppendFacts
    <3>5. e.family = next /\ e.count = total_count
      BY <3>1
    <3>6. Len(descs') \in Nat /\ Len(descs') <= Len(descs) + 1
      BY <3>4
    <3> QED
      BY <2>1, <3>4, <3>5, <3>6 DEF D
  <2>2. CASE ~(total_count > 0)
    <3>1. descs' = descs
      BY <1>1, <2>2
    <3>2. Len(descs) \in Nat /\ DOMAIN descs = 1..Len(descs)
      BY <1>1
    <3> QED
      BY <1>1, <2>2, <3>1, <3>2
  <2> QED
    BY <2>1, <2>2
<1>4. TypeOK'
  <2>1. next' \in 1..(MaxFamilies + 1) /\ asked' \in 1..(MaxRequests + 1)
    BY <1>1 DEF QInv, Positions
  <2>2. next' <= Len(device) => 0 <= device[next'].queueCount
    BY <1>1
  <2> QED
    BY <1>1, <1>3, <2>1, <2>2 DEF QInv, TypeOK
<1>5. Positions'
  BY <1>1, <1>3 DEF QInv, Positions
<1>6. Counted'
  <2>1. SUFFICES ASSUME next + 1 <= Len(device)
                 PROVE  total_count' = Taken(next, asked - 1)'
    BY <1>1 DEF Counted
  <2>2. next + 1 \in DOMAIN device
    BY <1>1, <2>1
  <2>3. Taken(next + 1, 0) = 0
    BY <1>1, <2>2, NoRequestYet
  <2>4. asked' - 1 = 0
    BY <1>1
  <2>5. Taken(next, asked - 1)' = Taken(next + 1, 0)
    BY <1>1, <2>4, SameTaken
  <2> QED
    BY <1>1, <2>3, <2>5
<1>7. DescsTell'
  <2>1. \A f : LookedAt(f)' <=> LookedAt(f) \/ f = next
    BY <1>1 DEF LookedAt
  <2>2. \A f : AllTaken(f)' = AllTaken(f)
    BY <1>1, SameTaken
  <2>3. ASSUME NEW i \in DOMAIN descs
        PROVE  descs[i].family < next
    <3>1. descs[i].family \in DOMAIN device
      BY <1>1, DescTypes
    <3> QED
      BY <1>1, <3>1 DEF QInv, DescsTell, LookedAt
  <2>4. \A i \in DOMAIN descs' : descs'[i].count > 0
    BY <1>3 DEF QInv, DescsTell
  <2>5. ASSUME NEW i \in DOMAIN descs', NEW f \in DOMAIN device,
               descs'[i].family = f
        PROVE  LookedAt(f)' /\ descs'[i].count = AllTaken(f)'
    BY <1>2, <1>3, <2>1, <2>2, <2>5 DEF QInv, DescsTell
  <2>6. ASSUME NEW i \in DOMAIN descs', NEW j \in DOMAIN descs', i < j
        PROVE  descs'[i].family < descs'[j].family
    <3>1. i \in DOMAIN descs
      BY <1>3, <2>6
    <3>2. CASE j \in DOMAIN descs
      BY <1>3, <2>6, <3>1, <3>2 DEF QInv, DescsTell
    <3>3. CASE total_count > 0 /\ j = Len(descs) + 1
      BY <1>3, <2>3, <3>1, <3>3
    <3> QED
      BY <1>3, <3>2, <3>3
  <2>7. ASSUME NEW f \in DOMAIN device, LookedAt(f)', AllTaken(f) > 0
        PROVE  \E i \in DOMAIN descs' : descs'[i].family = f
    <3>1. CASE f = next
      BY <1>2, <1>3, <2>7, <3>1
    <3>2. CASE LookedAt(f)
      BY <1>3, <2>7, <3>2 DEF QInv, DescsTell
    <3> QED
      BY <2>1, <2>7, <3>1, <3>2
  <2> QED
    BY <1>1, <2>2, <2>4, <2>5, <2>6, <2>7 DEF DescsTell
<1>8. FamiliesAsked'
  BY <1>1 DEF QInv, FamiliesAsked
<1> QED
  BY <1>4, <1>5, <1>6, <1>7, <1>8 DEF QInv

(* A step from one loop to the next, or to the end, that leaves the lists. *)
LEMMA NextLoopStep ==
  ASSUME QInv, pc' # "count", pc' \in {"families", "pool", "error"},
         pc = "count" => next > Len(device),
         pc = "count" /\ pc' = "families" => next' = 1,
         pc # "count" => pc' # "families",
         next' \in {1, next},
         families' = families \/ families' = <<>>,
         UNCHANGED <<device, requests, asked, total_count, descs>>
  PROVE  QInv'
<1>1. TypeOK /\ device \in Seq(FamilyKinds) /\ Len(device) \in Nat
  BY DEF QInv, TypeOK
<1>2. TypeOK'
  <2>1. next' \in 1..(MaxFamilies + 1)
    BY DEF QInv, TypeOK
  <2>2. CASE families' = families
    BY <2>1, <2>2 DEF QInv, TypeOK
  <2>3. CASE families' = <<>>
    BY <2>1, <2>3 DEF QInv, TypeOK
  <2> QED
    BY <2>2, <2>3
<1>3. Len(descs) \in Nat /\ next \in Nat
  BY DEF QInv, TypeOK
<1>4. Positions'
  BY <1>1, <1>3 DEF QInv, Positions
<1>5. Counted'
  BY DEF Counted
<1>6. DescsTell'
  <2>1. \A f \in DOMAIN device : LookedAt(f) /\ LookedAt(f)'
    <3>1. DOMAIN device = 1..Len(device)
      BY <1>1
    <3> QED
      BY <1>1, <1>3, <3>1 DEF LookedAt
  <2> QED
    BY <2>1, SameTaken DEF QInv, DescsTell
<1>7. FamiliesAsked'
  BY DEF QInv, FamiliesAsked
<1> QED
  BY <1>2, <1>4, <1>5, <1>6, <1>7 DEF QInv

(* Making a family of the pool keeps the invariant.                        *)
LEMMA AddFamilyStep ==
  ASSUME QInv, AddFamily PROVE QInv'
<1>1. /\ pc = "families" /\ next \in DOMAIN descs /\ next \in Nat
      /\ next' = next + 1
      /\ UNCHANGED <<device, requests, pc, asked, total_count, descs>>
  BY DEF AddFamily, QInv, TypeOK
<1>2. PICK given \in SUBSET (0..(descs[next].count - 1)) :
        LET family == device[descs[next].family]
        IN  families' = IF given = {} THEN families
                        ELSE Append(families, [family_index |-> descs[next].family,
                                               flags |-> family.flags,
                                               present |-> family.present,
                                               queues |-> given])
  BY DEF AddFamily
<1>3. PICK e : e = [family_index |-> descs[next].family,
                    flags |-> device[descs[next].family].flags,
                    present |-> device[descs[next].family].present,
                    queues |-> given]
  OBVIOUS
<1> DEFINE D == [family_index : DOMAIN device,
                 flags : {family.flags : family \in FamilyKinds},
                 present : {family.present : family \in FamilyKinds},
                 queues : SUBSET Nat]
<1>4. /\ descs[next].family \in DOMAIN device /\ descs[next].count \in Nat
      /\ device[descs[next].family] \in FamilyKinds
      /\ given \subseteq Nat
  <2>1. descs[next].family \in DOMAIN device /\ descs[next].count \in Nat
    BY <1>1, DescTypes DEF QInv, TypeOK
  <2>2. device \in Seq(FamilyKinds)
    BY DEF QInv, TypeOK
  <2> QED
    BY <2>1, <2>2
<1>5. /\ e \in D
      /\ e.family_index = descs[next].family
      /\ e.flags = device[descs[next].family].flags
      /\ e.present = device[descs[next].family].present
      /\ e.queues = given
  BY <1>3, <1>4
<1>6. families \in Seq(D)
  BY DEF QInv, TypeOK
<1>7. families' = IF given = {} THEN families ELSE Append(families, e)
  BY <1>2, <1>3
<1> HIDE DEF D
<1>8. /\ families' \in Seq(D)
      /\ \A k \in DOMAIN families' : \/ k \in DOMAIN families /\ families'[k] = families[k]
                                     \/ families'[k] = e /\ given # {}
  <2>1. CASE given = {}
    BY <1>6, <1>7, <2>1
  <2>2. CASE given # {}
    <3>1. families' = Append(families, e)
      BY <1>7, <2>2
    <3>2. /\ families' \in Seq(D)
          /\ DOMAIN families' = DOMAIN families \cup {Len(families) + 1}
          /\ \A i \in DOMAIN families : families'[i] = families[i]
          /\ families'[Len(families) + 1] = e
      BY <1>5, <1>6, <3>1, AppendFacts
    <3> QED
      BY <2>2, <3>2
  <2> QED
    BY <2>1, <2>2
<1>9. Len(descs) \in Nat /\ next <= Len(descs) /\ DOMAIN descs = 1..Len(descs)
  BY <1>1 DEF QInv, TypeOK
<1>10. TypeOK'
  <2>1. next' \in 1..(MaxFamilies + 1)
    <3>1. Len(device) \in Nat
      BY DEF QInv, TypeOK
    <3> QED
      BY <1>1, <1>9, <3>1 DEF QInv, Positions
  <2>2. families' \in Seq([family_index : DOMAIN device',
                          flags : {family.flags : family \in FamilyKinds},
                          present : {family.present : family \in FamilyKinds},
                          queues : SUBSET Nat])
    BY <1>1, <1>8 DEF D
  <2>3. ASSUME NEW k \in DOMAIN families'
        PROVE  /\ families'[k].flags = device'[families'[k].family_index].flags
               /\ families'[k].present = device'[families'[k].family_index].present
    <3>1. CASE k \in DOMAIN families /\ families'[k] = families[k]
      BY <1>1, <3>1 DEF QInv, TypeOK
    <3>2. CASE families'[k] = e
      BY <1>1, <1>5, <3>2
    <3> QED
      BY <1>8, <3>1, <3>2
  <2> QED
    BY <1>1, <2>1, <2>2, <2>3 DEF QInv, TypeOK
<1>11. Positions'
  BY <1>1, <1>9 DEF QInv, Positions, TypeOK
<1>12. Counted'
  BY <1>1 DEF Counted
<1>13. DescsTell'
  <2>1. \A f : LookedAt(f)' <=> LookedAt(f)
    BY <1>1 DEF LookedAt
  <2> QED
    BY <1>1, <2>1, SameTaken DEF QInv, DescsTell
<1>14. FamiliesAsked'
  <2>1. ASSUME NEW k \in DOMAIN families'
        PROVE  /\ families'[k].queues # {}
               /\ \E i \in DOMAIN descs :
                    /\ i < next + 1
                    /\ families'[k].family_index = descs[i].family
                    /\ families'[k].queues \subseteq 0..(descs[i].count - 1)
    <3>1. CASE k \in DOMAIN families /\ families'[k] = families[k]
      <4>1. families[k].queues # {}
        BY <3>1 DEF QInv, FamiliesAsked
      <4>2. PICK i \in DOMAIN descs :
              /\ i < next
              /\ families[k].family_index = descs[i].family
              /\ families[k].queues \subseteq 0..(descs[i].count - 1)
        BY <1>1, <3>1 DEF QInv, FamiliesAsked
      <4>3. i < next + 1
        BY <1>1, <1>9, <4>2
      <4> QED
        BY <3>1, <4>1, <4>2, <4>3
    <3>2. CASE families'[k] = e /\ given # {}
      <4>1. next < next + 1
        BY <1>1
      <4> QED
        BY <1>1, <1>5, <3>2, <4>1
    <3> QED
      BY <1>8, <2>1, <3>1, <3>2
  <2> QED
    BY <1>1, <2>1 DEF FamiliesAsked
<1> QED
  BY <1>10, <1>11, <1>12, <1>13, <1>14 DEF QInv

(* Before the loops nothing is counted.                                    *)
LEMMA InitQInv ==
  ASSUME Init PROVE QInv
<1>1. PICK n \in 1..MaxFamilies : device \in [1..n -> FamilyKinds]
  BY DEF Init
<1>2. PICK m \in 0..MaxRequests : requests \in [1..m -> RequestKinds]
  BY DEF Init
<1>3. /\ device \in Seq(FamilyKinds) /\ Len(device) = n /\ DOMAIN device = 1..n
      /\ requests \in Seq(RequestKinds) /\ Len(requests) = m
      /\ n \in Nat /\ n >= 1 /\ n <= MaxFamilies /\ m \in Nat /\ m <= MaxRequests
  BY <1>1, <1>2
<1>4. /\ pc = "count" /\ next = 1 /\ asked = 1 /\ total_count = 0
      /\ descs = <<>> /\ families = <<>>
  BY DEF Init
<1>5. TypeOK
  <2>1. 0 <= device[1].queueCount
    BY <1>3
  <2>2. 1 \in 1..(MaxFamilies + 1) /\ 1 \in 1..(MaxRequests + 1)
    OBVIOUS
  <2> QED
    BY <1>3, <1>4, <2>1, <2>2 DEF TypeOK
<1>6. Positions
  BY <1>3, <1>4 DEF Positions
<1>7. Counted
  <2>1. 1 \in DOMAIN device /\ asked - 1 = 0
    BY <1>3, <1>4
  <2>2. Taken(1, 0) = 0
    BY <1>3, <2>1, NoRequestYet
  <2> QED
    BY <1>3, <1>4, <2>1, <2>2 DEF Counted
<1>8. DescsTell
  <2>1. \A f \in DOMAIN device : ~LookedAt(f)
    BY <1>3, <1>4 DEF LookedAt
  <2> QED
    BY <1>4, <2>1 DEF DescsTell
<1>9. FamiliesAsked
  BY <1>4 DEF FamiliesAsked
<1> QED
  BY <1>5, <1>6, <1>7, <1>8, <1>9 DEF QInv

(* Each step keeps the inductive invariant.                                *)
LEMMA NextQInv ==
  ASSUME QInv, [Next]_vars PROVE QInv'
<1>0. next \in Nat
  BY DEF QInv, TypeOK
<1>1. CASE CountRequest
  BY <1>1, CountRequestStep
<1>2. CASE CountFamily
  BY <1>2, CountFamilyStep
<1>3. CASE BuildDevice
  BY <1>3, NextLoopStep DEF BuildDevice
<1>4. CASE NoDevice
  BY <1>4, NextLoopStep DEF NoDevice
<1>5. CASE AddFamily
  BY <1>5, AddFamilyStep
<1>6. CASE SupportUnknown
  BY <1>6, NextLoopStep DEF SupportUnknown
<1>7. CASE MakePool
  BY <1>7, NextLoopStep DEF MakePool
<1>8. CASE UNCHANGED vars
  <2>1. UNCHANGED <<device, requests, pc, next, asked, total_count, descs,
                    families>>
    BY <1>8 DEF vars
  <2>2. TypeOK' /\ Positions' /\ FamiliesAsked'
    BY <2>1 DEF QInv, TypeOK, Positions, FamiliesAsked
  <2>3. Counted' /\ DescsTell'
    BY <2>1, SameTaken DEF QInv, Counted, DescsTell, LookedAt
  <2> QED
    BY <2>2, <2>3 DEF QInv
<1> QED
  BY <1>1, <1>2, <1>3, <1>4, <1>5, <1>6, <1>7, <1>8 DEF Next

(* The inductive invariant holds of any device and any requests.           *)
THEOREM QInvCorrect == Spec => []QInv
<1>1. Init => QInv
  BY InitQInv
<1>2. QInv /\ [Next]_vars => QInv'
  BY NextQInv
<1> QED
  BY <1>1, <1>2, PTL DEF Spec

(* The variables keep their types, and queueCount - total_count is never   *)
(* negative.                                                               *)
THEOREM TypeCorrect == Spec => []TypeOK
<1>1. QInv => TypeOK
  BY DEF QInv
<1> QED
  BY <1>1, QInvCorrect, PTL

----------------------------------------------------------------------------
(* What holds of a state in which QInv does.                               *)

(* What is asked of the device.                                            *)
LEMMA DescFacts ==
  ASSUME QInv, NEW i \in DOMAIN descs
  PROVE  /\ descs[i].family \in DOMAIN device
         /\ descs[i].count = AllTaken(descs[i].family)
         /\ descs[i].count \in Nat /\ descs[i].count > 0
         /\ device[descs[i].family].queueCount \in Nat
         /\ descs[i].count <= device[descs[i].family].queueCount
<1>1. /\ descs \in Seq([family : DOMAIN device, count : Nat])
      /\ requests \in Seq(RequestKinds) /\ device \in Seq(FamilyKinds)
  BY DEF QInv, TypeOK
<1>2. descs[i].family \in DOMAIN device /\ descs[i].count \in Nat
  BY <1>1, DescTypes
<1>3. descs[i].count = AllTaken(descs[i].family) /\ descs[i].count > 0
  BY <1>2 DEF QInv, DescsTell
<1>4. AllTaken(descs[i].family) <= device[descs[i].family].queueCount
  BY <1>1, <1>2, TakenBounds DEF AllTaken
<1>5. device[descs[i].family].queueCount \in Nat
  BY <1>1, <1>2
<1> QED
  BY <1>2, <1>3, <1>4, <1>5

(* The device is asked for no queue it does not have, and for no family    *)
(* twice.                                                                  *)
THEOREM DeviceQueuesValidCorrect == Spec => []DeviceQueuesValid
<1>1. ASSUME QInv PROVE DeviceQueuesValid
  <2>1. ASSUME NEW i \in DOMAIN descs
        PROVE  descs[i].count \in 1..device[descs[i].family].queueCount
    BY <1>1, DescFacts
  <2>2. \A i, j \in DOMAIN descs : i < j => descs[i].family < descs[j].family
    BY <1>1 DEF QInv, DescsTell
  <2> QED
    BY <2>1, <2>2 DEF DeviceQueuesValid
<1> QED
  BY <1>1, QInvCorrect, PTL

(* The queues of family f that the pool has.                               *)
PoolOf(f) ==
  UNION {families[i].queues :
           i \in {j \in DOMAIN families : families[j].family_index = f}}

(* The number of a family's queues in the pool.                            *)
LEMMA InPoolIs ==
  \A f \in DOMAIN device : InPool[f] = Cardinality(PoolOf(f))
BY DEF InPool, PoolOf

(* A family of the pool is one of the device, with a queue of it or more,  *)
(* none of which was not asked for.                                        *)
LEMMA FamilyFacts ==
  ASSUME QInv, NEW k \in DOMAIN families
  PROVE  /\ families[k].family_index \in DOMAIN device
         /\ families[k].queues # {}
         /\ families[k].queues \subseteq
              0..(AllTaken(families[k].family_index) - 1)
         /\ families[k].flags = device[families[k].family_index].flags
<1>1. families[k].queues # {}
  BY DEF QInv, FamiliesAsked
<1>2. PICK i \in DOMAIN descs :
        /\ families[k].family_index = descs[i].family
        /\ families[k].queues \subseteq 0..(descs[i].count - 1)
  BY DEF QInv, FamiliesAsked
<1>3. /\ descs[i].family \in DOMAIN device
      /\ descs[i].count = AllTaken(descs[i].family)
  BY DescFacts
<1>4. families[k].flags = device[families[k].family_index].flags
  BY DEF QInv, TypeOK
<1> QED
  BY <1>1, <1>2, <1>3, <1>4

(* The pool has no more of a family than was asked for.                    *)
LEMMA PoolFacts ==
  ASSUME QInv, NEW f \in DOMAIN device
  PROVE  /\ AllTaken(f) \in Nat
         /\ PoolOf(f) \subseteq 0..(AllTaken(f) - 1)
         /\ IsFiniteSet(PoolOf(f))
         /\ InPool[f] \in Nat
         /\ InPool[f] <= AllTaken(f)
<1>1. AllTaken(f) \in Nat
  BY TakenBounds DEF AllTaken, QInv, TypeOK
<1>2. PoolOf(f) \subseteq 0..(AllTaken(f) - 1)
  BY FamilyFacts DEF PoolOf
<1>3. /\ IsFiniteSet(0..(AllTaken(f) - 1))
      /\ Cardinality(0..(AllTaken(f) - 1)) = AllTaken(f)
  <2>1. PICK t \in Nat : t = AllTaken(f)
    BY <1>1
  <2>2. /\ IsFiniteSet(0..(t - 1))
        /\ Cardinality(0..(t - 1)) = IF 0 > t - 1 THEN 0 ELSE (t - 1) - 0 + 1
    <3>1. 0 \in Int /\ t - 1 \in Int
      OBVIOUS
    <3> QED
      BY <3>1, FS_Interval, Zenon
  <2>3. Cardinality(0..(t - 1)) = t
    BY <2>2
  <2> QED
    BY <2>1, <2>2, <2>3
<1>4. /\ IsFiniteSet(PoolOf(f))
      /\ Cardinality(PoolOf(f)) \in Nat
      /\ Cardinality(PoolOf(f)) <= AllTaken(f)
  BY <1>2, <1>3, FS_Subset, FS_CardinalityType
<1> QED
  BY <1>1, <1>2, <1>4, InPoolIs

(* dedicated_family() answers rightly, whatever came out of the set-up.    *)
THEOREM DedicatedFamilyRightCorrect == Spec => []DedicatedFamilyRight
<1>1. ASSUME QInv, NEW cap \in Capabilities
      PROVE  LET f == dedicated_family(cap)
                 Has(i) == families[i].queues # {} /\ cap \in families[i].flags
             IN  IF f = Null
                 THEN \A i \in DOMAIN families : ~Has(i)
                 ELSE /\ InPool[f] > 0
                      /\ \E i \in DOMAIN families :
                           all_family_indices[i] = f /\ Has(i)
                      /\ (\E i \in DOMAIN families : families[i].flags = {cap})
                           => device[f].flags = {cap}
  <2> DEFINE f == dedicated_family(cap)
             exact == {i \in DOMAIN families : families[i].flags = {cap}}
             having == {i \in DOMAIN families : cap \in families[i].flags}
             positions == IF exact # {} THEN exact ELSE having
  <2>1. f = FirstOf(positions)
    BY DEF dedicated_family
  <2>2. DOMAIN families \subseteq Nat
    BY <1>1 DEF QInv, TypeOK
  <2>3. CASE positions = {}
    <3>1. f = Null
      BY <2>1, <2>3 DEF FirstOf
    <3>2. \A i \in DOMAIN families : cap \notin families[i].flags
      BY <2>3
    <3> QED
      BY <3>1, <3>2
  <2>4. CASE positions # {}
    <3>1. PICK i : i = Min(positions)
      OBVIOUS
    <3>2. f = families[i].family_index
      BY <2>1, <2>4, <3>1 DEF FirstOf
    <3>3. positions \subseteq Nat
      BY <2>2
    <3>4. i \in positions
      <4> HIDE DEF positions
      <4> QED
        BY <2>4, <3>1, <3>3, MinProperties
    <3>5. /\ i \in DOMAIN families /\ cap \in families[i].flags
          /\ exact # {} => families[i].flags = {cap}
      BY <3>4
    <3> HIDE DEF f, positions
    <3>6. /\ f \in DOMAIN device /\ families[i].queues # {}
          /\ families[i].flags = device[f].flags
      BY <1>1, <3>2, <3>5, FamilyFacts
    <3>7. f # Null
      <4>1. DOMAIN device \subseteq Nat
        BY <1>1 DEF QInv, TypeOK
      <4> QED
        BY <3>6, <4>1
    <3>8. InPool[f] > 0
      <4>1. PoolOf(f) # {}
        BY <3>2, <3>5, <3>6 DEF PoolOf
      <4>2. IsFiniteSet(PoolOf(f)) /\ InPool[f] \in Nat
        BY <1>1, <3>6, PoolFacts
      <4>3. InPool[f] # 0
        BY <3>6, <4>1, <4>2, InPoolIs, FS_EmptySet
      <4> QED
        BY <4>2, <4>3
    <3>9. all_family_indices[i] = f
      BY <3>2, <3>5 DEF all_family_indices
    <3>10. (\E j \in DOMAIN families : families[j].flags = {cap})
              => device[f].flags = {cap}
      BY <3>5, <3>6
    <3> QED
      BY <3>5, <3>6, <3>7, <3>8, <3>9, <3>10 DEF f
  <2> QED
    BY <2>3, <2>4
<1>2. QInv => DedicatedFamilyRight
  BY <1>1 DEF DedicatedFamilyRight
<1> QED
  BY <1>2, QInvCorrect, PTL

----------------------------------------------------------------------------
(* Every request names a capability. One that names none (a default        *)
(* constructed QueueFlags) could be served by any family and has none      *)
(* counted for it.                                                         *)
RequestsNameCapability == \A request \in RequestKinds : request.flags # {}

(* A plan takes of a family only what may be wanted of it.                 *)
LEMMA PlanWithin ==
  ASSUME RequestsNameCapability, QInv, NEW f \in DOMAIN device,
         NEW plan \in [Acquisitions -> DOMAIN device],
         \A a \in Acquisitions : plan[a] \in Serving(requests[a[1]])
  PROVE  {a \in Acquisitions : plan[a] = f} \subseteq MayUse(f, Len(requests))
<1>1. /\ requests \in Seq(RequestKinds)
      /\ \A r \in DOMAIN requests : r <= Len(requests)
      /\ \A r \in DOMAIN requests : requests[r] \in RequestKinds
  BY DEF QInv, TypeOK
<1> SUFFICES ASSUME NEW a \in Acquisitions, plan[a] = f
             PROVE  a[1] <= Len(requests) /\ Wanted(device[f], requests[a[1]])
  BY DEF MayUse
<1>2. a[1] \in DOMAIN requests
  BY AcquisitionsAre
<1>3. requests[a[1]].flags \subseteq device[f].flags
  BY DEF Serving
<1>4. requests[a[1]].flags # {}
  BY <1>1, <1>2 DEF RequestsNameCapability
<1> QED
  BY <1>1, <1>2, <1>3, <1>4 DEF Wanted

(* So what the set-up takes of the family serves it as well as the whole.  *)
LEMMA PlanFits ==
  ASSUME RequestsNameCapability, QInv, NEW f \in DOMAIN device,
         NEW plan \in [Acquisitions -> DOMAIN device],
         \A a \in Acquisitions : plan[a] \in Serving(requests[a[1]])
  PROVE  Cardinality({a \in Acquisitions : plan[a] = f}) <= device[f].queueCount
           <=> Cardinality({a \in Acquisitions : plan[a] = f}) <= AllTaken(f)
<1>1. PICK S : S = {a \in Acquisitions : plan[a] = f}
  OBVIOUS
<1>2. PICK M : M = MayUse(f, Len(requests))
  OBVIOUS
<1>3. S \subseteq M
  BY <1>1, <1>2, PlanWithin
<1>4. IsFiniteSet(M) /\ Cardinality(M) \in Nat
  BY <1>2, MayUseFinite DEF QInv, TypeOK
<1>5. /\ Cardinality(S) \in Nat /\ Cardinality(S) <= Cardinality(M)
  BY <1>3, <1>4, FS_Subset, FS_CardinalityType
<1>6. device[f].queueCount \in Nat
  BY DEF QInv, TypeOK
<1>7. AllTaken(f) = Lesser(device[f].queueCount, Cardinality(M))
  BY <1>2 DEF AllTaken, Taken
<1> QED
  BY <1>1, <1>4, <1>5, <1>6, <1>7 DEF Lesser

(* When the device gave every queue it was asked for, the pool has of each *)
(* family what was taken of it.                                            *)
LEMMA PoolHasTaken ==
  ASSUME QInv, pc = "pool",
         \A i \in DOMAIN descs : InPool[descs[i].family] = descs[i].count,
         NEW f \in DOMAIN device
  PROVE  InPool[f] = AllTaken(f)
<1>1. /\ AllTaken(f) \in Nat /\ InPool[f] \in Nat /\ InPool[f] <= AllTaken(f)
  BY PoolFacts
<1>2. CASE AllTaken(f) > 0
  <2>1. PICK i \in DOMAIN descs : descs[i].family = f
    BY <1>2 DEF QInv, DescsTell, LookedAt
  <2> QED
    BY <2>1, DescFacts
<1>3. CASE AllTaken(f) = 0
  BY <1>1, <1>3
<1> QED
  BY <1>1, <1>2, <1>3

(* The choice by a single common bit, first come first served, loses       *)
(* nothing: however the device could serve all the requests at once, so    *)
(* can the pool, whatever the families, the requests and their order, if   *)
(* each request names a capability.                                        *)
THEOREM NothingLostCorrect ==
  ASSUME RequestsNameCapability
  PROVE  Spec => []NothingLost
<1>1. ASSUME QInv PROVE NothingLost
  <2> SUFFICES ASSUME pc = "pool",
                      \A i \in DOMAIN descs :
                        InPool[descs[i].family] = descs[i].count
               PROVE  Plans([f \in DOMAIN device |-> device[f].queueCount])
                        = Plans(InPool)
    BY DEF NothingLost
  <2>1. PICK whole : whole = [f \in DOMAIN device |-> device[f].queueCount]
    OBVIOUS
  <2>2. \A f \in DOMAIN device : /\ whole[f] = device[f].queueCount
                                 /\ InPool[f] = AllTaken(f)
    BY <1>1, <2>1, PoolHasTaken
  <2>3. ASSUME NEW plan \in [Acquisitions -> DOMAIN device],
               \A a \in Acquisitions : plan[a] \in Serving(requests[a[1]])
        PROVE  \A f \in DOMAIN device :
                 Cardinality({a \in Acquisitions : plan[a] = f}) <= whole[f]
                   <=> Cardinality({a \in Acquisitions : plan[a] = f}) <= InPool[f]
    BY <1>1, <2>2, <2>3, PlanFits
  <2>4. Plans(whole) = Plans(InPool)
    BY <2>3 DEF Plans
  <2> QED
    BY <2>1, <2>4
<1>2. QInv => NothingLost
  BY <1>1
<1> QED
  BY <1>2, QInvCorrect, PTL
=============================================================================
