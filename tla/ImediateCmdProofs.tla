-------------------------- MODULE ImediateCmdProofs --------------------------
(***************************************************************************)
(* What ImediateCmd objects do, for any number of them nested to any       *)
(* depth, and for either kind of command pool.                             *)
(*                                                                         *)
(* The inductive invariant, IInv, ties the call submit() is about to make  *)
(* to the states of the fence and the command buffer (InSubmit), those to  *)
(* what the GPU has (FenceAndCmdAgree), and work the GPU still has after   *)
(* submit() returned to how it returned (GaveUp).                          *)
(***************************************************************************)
EXTENDS ImediateCmd, SequenceTheorems, TLAPS

USE PoolCanResetAssumption

----------------------------------------------------------------------------
(* Past the reset of its fence, and until the buffer is handed to the GPU, *)
(* an object has an unsignaled fence and no work with the GPU; its buffer  *)
(* is in the state the next call wants.                                    *)
InSubmit ==
  \A c \in Cmds :
    /\ pc[c] \in {"cmd.reset", "begin", "functor", "end", "submit"} =>
         fence[c] = "unsignaled" /\ ~Pending(c)
    /\ pc[c] = "begin" => cmd[c] = "initial"
    /\ pc[c] \in {"functor", "end"} => cmd[c] = "recording"
    /\ pc[c] = "submit" => cmd[c] = "executable"

(* The GPU has work of an object outside submit() only if the last         *)
(* submit() of it stopped waiting; of an object that is not there, none.   *)
GaveUp ==
  \A c \in Cmds :
    /\ pc[c] \in {"idle", "fence.reset"} /\ Pending(c) =>
         last[c] \in {"timeout", "error"}
    /\ pc[c] = "unborn" => ~Pending(c)

(* A misuse is of an object whose earlier submit() stopped waiting, by a   *)
(* call from outside a recording; or the pool lacks ResetCommandBufferBit. *)
Explained(m) ==
  \/ /\ m.call \in {"destroy", "pool.reset", "fence.reset"}
     /\ Pending(m.of)
     /\ last[m.of] \in {"timeout", "error"}
  \/ m.call = "cmd.reset" /\ ~PoolCanReset

IInv ==
  /\ TypeOK
  /\ FenceAndCmdAgree
  /\ InSubmit
  /\ GaveUp
  /\ DoneMeansDone
  /\ \A m \in misuse : Explained(m)
----------------------------------------------------------------------------
(* Sequences without repetitions: the submits in progress, and the work    *)
(* the GPU has.                                                            *)
In(s, c) == \E i \in DOMAIN s : s[i] = c

Distinct(s) == \A i, j \in DOMAIN s : s[i] = s[j] => i = j

(* Pushing an element.                                                     *)
LEMMA PushProperties ==
  ASSUME NEW S, NEW s \in Seq(S), NEW e \in S
  PROVE  /\ <<e>> \o s \in Seq(S)
         /\ <<e>> \o s # <<>>
         /\ Head(<<e>> \o s) = e
         /\ DOMAIN (<<e>> \o s) = 1..(Len(s) + 1)
         /\ (<<e>> \o s)[1] = e
         /\ \A i \in DOMAIN s : i \in 1..Len(s) /\ (<<e>> \o s)[i + 1] = s[i]
         /\ \A i \in 2..(Len(s) + 1) :
              i - 1 \in DOMAIN s /\ (<<e>> \o s)[i] = s[i - 1]
<1> DEFINE t == <<e>> \o s
<1>1. /\ Len(s) \in Nat
      /\ DOMAIN s = 1..Len(s)
      /\ <<e>> \in Seq(S) /\ Len(<<e>>) = 1
  OBVIOUS
<1>2. /\ t \in Seq(S)
      /\ Len(t) = Len(s) + 1
      /\ \A i \in 1..Len(s) + 1 : t[i] = IF i <= 1 THEN e ELSE s[i - 1]
  BY <1>1, ConcatProperties
<1>3. DOMAIN t = 1..(Len(s) + 1)
  BY <1>1, <1>2
<1>4. t[1] = e
  BY <1>1, <1>2
<1>5. \A i \in DOMAIN s : t[i + 1] = s[i]
  BY <1>1, <1>2
<1>6. \A i \in 2..(Len(s) + 1) : i - 1 \in DOMAIN s /\ t[i] = s[i - 1]
  BY <1>1, <1>2
<1>7. t # <<>>
  BY <1>1, <1>2
<1>8. Head(t) = e
  BY <1>2, <1>4, <1>7
<1> HIDE DEF t
<1> QED
  BY <1>1, <1>2, <1>3, <1>4, <1>5, <1>6, <1>7, <1>8 DEF t

(* Pushing a new element keeps a sequence free of repetitions.             *)
LEMMA PushDistinct ==
  ASSUME NEW S, NEW s \in Seq(S), NEW e \in S, Distinct(s), ~In(s, e)
  PROVE  /\ Distinct(<<e>> \o s)
         /\ \A c : In(<<e>> \o s, c) <=> c = e \/ In(s, c)
<1> DEFINE t == <<e>> \o s
<1>1. /\ Len(s) \in Nat
      /\ DOMAIN s = 1..Len(s)
      /\ DOMAIN t = 1..(Len(s) + 1)
      /\ t[1] = e
      /\ \A i \in DOMAIN s : t[i + 1] = s[i]
      /\ \A i \in 2..(Len(s) + 1) : i - 1 \in DOMAIN s /\ t[i] = s[i - 1]
  BY PushProperties
<1> HIDE DEF t
<1>2. Distinct(t)
  <2> SUFFICES ASSUME NEW i \in DOMAIN t, NEW j \in DOMAIN t, t[i] = t[j]
               PROVE  i = j
    BY DEF Distinct
  <2>1. CASE i = 1 /\ j = 1
    BY <2>1
  <2>2. CASE i = 1 /\ j # 1
    <3>1. j \in 2..(Len(s) + 1)
      BY <1>1, <2>2
    <3> QED
      BY <1>1, <2>2, <3>1 DEF In
  <2>3. CASE i # 1 /\ j = 1
    <3>1. i \in 2..(Len(s) + 1)
      BY <1>1, <2>3
    <3> QED
      BY <1>1, <2>3, <3>1 DEF In
  <2>4. CASE i # 1 /\ j # 1
    <3>1. i \in 2..(Len(s) + 1) /\ j \in 2..(Len(s) + 1)
      BY <1>1, <2>4
    <3>2. s[i - 1] = s[j - 1] /\ i - 1 \in DOMAIN s /\ j - 1 \in DOMAIN s
      BY <1>1, <3>1
    <3>3. i - 1 = j - 1
      BY <3>2 DEF Distinct
    <3> QED
      BY <3>1, <3>3
  <2> QED
    BY <2>1, <2>2, <2>3, <2>4
<1>3. ASSUME NEW c PROVE In(t, c) <=> c = e \/ In(s, c)
  <2>1. ASSUME In(t, c) PROVE c = e \/ In(s, c)
    <3>1. PICK i \in DOMAIN t : t[i] = c
      BY <2>1 DEF In
    <3>2. i = 1 \/ i \in 2..(Len(s) + 1)
      BY <1>1
    <3> QED
      BY <1>1, <3>1, <3>2 DEF In
  <2>2. ASSUME c = e \/ In(s, c) PROVE In(t, c)
    <3>1. 1 \in DOMAIN t /\ \A i \in DOMAIN s : i + 1 \in DOMAIN t
      BY <1>1
    <3> QED
      BY <1>1, <2>2, <3>1 DEF In
  <2> QED
    BY <2>1, <2>2
<1> QED
  BY <1>2, <1>3 DEF t

(* Dropping the first element.                                             *)
LEMMA TailProperties ==
  ASSUME NEW S, NEW s \in Seq(S), s # <<>>
  PROVE  /\ Tail(s) \in Seq(S)
         /\ Head(s) \in S
         /\ Head(s) = s[1]
         /\ 1 \in DOMAIN s
         /\ \A i \in DOMAIN Tail(s) :
              /\ i + 1 \in DOMAIN s
              /\ i + 1 > 1
              /\ Tail(s)[i] = s[i + 1]
         /\ \A i \in DOMAIN s : i # 1 => /\ i - 1 \in DOMAIN Tail(s)
                                         /\ Tail(s)[i - 1] = s[i]
<1>1. /\ Head(s) \in S /\ Tail(s) \in Seq(S)
      /\ Len(Tail(s)) = Len(s) - 1
      /\ \A i \in 1..Len(Tail(s)) : Tail(s)[i] = s[i + 1]
  BY HeadTailProperties
<1>2. /\ Len(s) \in Nat /\ Len(s) > 0
      /\ DOMAIN s = 1..Len(s)
      /\ DOMAIN Tail(s) = 1..Len(Tail(s))
      /\ Head(s) = s[1]
  BY <1>1
<1> DEFINE t == Tail(s)
<1>3. /\ t \in Seq(S) /\ Len(t) = Len(s) - 1
      /\ DOMAIN t = 1..Len(t)
      /\ \A i \in 1..Len(t) : t[i] = s[i + 1]
  BY <1>1, <1>2
<1> HIDE DEF t
<1>4. \A i \in DOMAIN t : i + 1 \in DOMAIN s /\ i + 1 > 1 /\ t[i] = s[i + 1]
  BY <1>2, <1>3
<1>5. \A i \in DOMAIN s : i # 1 => i - 1 \in DOMAIN t /\ t[i - 1] = s[i]
  BY <1>2, <1>3
<1>6. 1 \in DOMAIN s
  BY <1>2
<1> QED
  BY <1>1, <1>2, <1>4, <1>5, <1>6 DEF t

(* Dropping the first of distinct elements leaves exactly the others.      *)
LEMMA TailDistinct ==
  ASSUME NEW S, NEW s \in Seq(S), s # <<>>, Distinct(s)
  PROVE  /\ Distinct(Tail(s))
         /\ In(s, Head(s))
         /\ \A c : In(Tail(s), c) <=> In(s, c) /\ c # Head(s)
<1> DEFINE t == Tail(s)
<1>1. /\ Head(s) = s[1] /\ 1 \in DOMAIN s
      /\ \A i \in DOMAIN t : i + 1 \in DOMAIN s /\ i + 1 > 1 /\ t[i] = s[i + 1]
      /\ \A i \in DOMAIN s : i # 1 => i - 1 \in DOMAIN t /\ t[i - 1] = s[i]
  BY TailProperties
<1>2. DOMAIN t \subseteq Int
  BY TailProperties
<1> HIDE DEF t
<1>3. Distinct(t)
  <2> SUFFICES ASSUME NEW i \in DOMAIN t, NEW j \in DOMAIN t, t[i] = t[j]
               PROVE  i = j
    BY DEF Distinct
  <2>1. i + 1 = j + 1
    BY <1>1 DEF Distinct
  <2> QED
    BY <1>2, <2>1
<1>4. ASSUME NEW c PROVE In(t, c) <=> In(s, c) /\ c # Head(s)
  <2>1. ASSUME In(t, c) PROVE In(s, c) /\ c # Head(s)
    <3>1. PICK i \in DOMAIN t : t[i] = c
      BY <2>1 DEF In
    <3>2. i + 1 \in DOMAIN s /\ i + 1 # 1 /\ s[i + 1] = c
      BY <1>1, <1>2, <3>1
    <3> QED
      BY <1>1, <3>2 DEF In, Distinct
  <2>2. ASSUME In(s, c), c # Head(s) PROVE In(t, c)
    BY <1>1, <2>2 DEF In
  <2> QED
    BY <2>1, <2>2
<1>5. In(s, Head(s))
  BY <1>1 DEF In
<1> QED
  BY <1>3, <1>4, <1>5 DEF t

(* Appending a new element keeps a sequence free of repetitions.           *)
LEMMA AppendDistinct ==
  ASSUME NEW S, NEW s \in Seq(S), NEW e \in S, Distinct(s), ~In(s, e)
  PROVE  /\ Append(s, e) \in Seq(S)
         /\ Distinct(Append(s, e))
         /\ \A c : In(Append(s, e), c) <=> c = e \/ In(s, c)
<1> DEFINE t == Append(s, e)
<1>1. /\ Len(s) \in Nat
      /\ DOMAIN s = 1..Len(s)
      /\ t \in Seq(S)
      /\ DOMAIN t = 1..(Len(s) + 1)
      /\ t[Len(s) + 1] = e
      /\ \A i \in DOMAIN s : i \in DOMAIN t /\ t[i] = s[i]
  OBVIOUS
<1> HIDE DEF t
<1>2. \A i \in DOMAIN t : i \in DOMAIN s \/ i = Len(s) + 1
  BY <1>1
<1>3. Distinct(t)
  BY <1>1, <1>2 DEF Distinct, In
<1>4. Len(s) + 1 \in DOMAIN t
  BY <1>1
<1>5. \A c : In(t, c) <=> c = e \/ In(s, c)
  BY <1>1, <1>2, <1>4 DEF In
<1> QED
  BY <1>1, <1>3, <1>5 DEF t

----------------------------------------------------------------------------
(* The submits in progress: the last four conjuncts of TypeOK.             *)
Frames ==
  /\ \A c \in Cmds : pc[c] \in Calls <=> In(stack, c)
  /\ \A i \in DOMAIN stack : i > 1 => pc[stack[i]] = "functor"
  /\ Distinct(stack)

(* TypeOK, with the submits in progress as Frames.                         *)
LEMMA TypeOKParts ==
  TypeOK <=> /\ pc \in [Cmds -> Calls \cup {"idle", "unborn"}]
             /\ stack \in Seq(Cmds)
             /\ fence \in [Cmds -> {"unsignaled", "signaled"}]
             /\ cmd \in [Cmds -> CmdStates]
             /\ pending \in Seq(Cmds)
             /\ last \in [Cmds -> Outcomes]
             /\ misuse \subseteq
                  [call : Calls \cup {"destroy", "pool.reset"}, of : Cmds]
             /\ Frames
             /\ Distinct(pending)
  BY DEF TypeOK, Frames, Distinct, In

(* What a step has to keep for the types.                                  *)
LEMMA NextTypeOK ==
  ASSUME pc' \in [Cmds -> Calls \cup {"idle", "unborn"}],
         stack' \in Seq(Cmds),
         fence' \in [Cmds -> {"unsignaled", "signaled"}],
         cmd' \in [Cmds -> CmdStates],
         pending' \in Seq(Cmds),
         last' \in [Cmds -> Outcomes],
         misuse' \subseteq [call : Calls \cup {"destroy", "pool.reset"}, of : Cmds],
         Frames',
         Distinct(pending')
  PROVE  TypeOK'
  BY DEF TypeOK, Frames, Distinct, In

LEMMA PendingIn == \A c : Pending(c) <=> In(pending, c)
  BY DEF Pending, In

(* The innermost submit() goes on to its next call.                        *)
LEMMA GoOnFrames ==
  ASSUME TypeOK, NEW c \in Cmds, Innermost(c), NEW to \in Calls, GoOn(c, to)
  PROVE  Frames'
<1>1. /\ stack' = stack
      /\ pc'[c] = to
      /\ \A d \in Cmds \ {c} : pc'[d] = pc[d]
      /\ Frames /\ stack \in Seq(Cmds)
  BY TypeOKParts DEF GoOn
<1>2. stack # <<>> /\ stack[1] = c /\ 1 \in DOMAIN stack
  BY <1>1, TailProperties DEF Innermost
<1>3. \A i \in DOMAIN stack : i > 1 => stack[i] \in Cmds \ {c}
  BY <1>1, <1>2 DEF Frames, Distinct
<1>4. In(stack, c)
  BY <1>2 DEF In
<1> QED
  BY <1>1, <1>3, <1>4 DEF Frames

(* The innermost submit() returns.                                         *)
LEMMA ReturnFrames ==
  ASSUME TypeOK, NEW c \in Cmds, Innermost(c), NEW outcome, Return(c, outcome)
  PROVE  stack' \in Seq(Cmds) /\ Frames'
<1>1. /\ stack' = Tail(stack)
      /\ pc'[c] = "idle"
      /\ \A d \in Cmds \ {c} : pc'[d] = pc[d]
      /\ Frames /\ stack \in Seq(Cmds)
      /\ stack # <<>> /\ Head(stack) = c
  BY TypeOKParts DEF Return, Innermost
<1>2. /\ stack' \in Seq(Cmds)
      /\ Distinct(stack')
      /\ \A d : In(stack', d) <=> In(stack, d) /\ d # c
  BY <1>1, TailProperties, TailDistinct DEF Frames
<1>3. \A i \in DOMAIN stack' : i + 1 \in DOMAIN stack /\ i + 1 > 1
                                 /\ stack'[i] = stack[i + 1]
  BY <1>1, TailProperties
<1>4. \A i \in DOMAIN stack' : In(stack', stack'[i]) /\ stack'[i] \in Cmds
  BY <1>2 DEF In
<1>5. \A i \in DOMAIN stack' : pc'[stack'[i]] = "functor"
  BY <1>1, <1>2, <1>3, <1>4 DEF Frames
<1>6. "idle" \notin Calls
  BY DEF Calls
<1> QED
  BY <1>1, <1>2, <1>5, <1>6 DEF Frames

(* A call of submit(), from outside or from the innermost functor.         *)
LEMMA CallFrames ==
  ASSUME TypeOK, NEW c \in Cmds, CallSubmit(c)
  PROVE  stack' \in Seq(Cmds) /\ Frames'
<1>1. /\ stack' = <<c>> \o stack
      /\ pc[c] = "idle"
      /\ pc'[c] = "fence.reset"
      /\ \A d \in Cmds \ {c} : pc'[d] = pc[d]
      /\ Frames /\ stack \in Seq(Cmds)
  BY TypeOKParts DEF CallSubmit
<1>2. "idle" \notin Calls /\ "fence.reset" \in Calls
  BY DEF Calls
<1>3. ~In(stack, c)
  BY <1>1, <1>2 DEF Frames
<1>4. /\ stack' \in Seq(Cmds)
      /\ Distinct(stack')
      /\ \A d : In(stack', d) <=> d = c \/ In(stack, d)
  BY <1>1, <1>3, PushProperties, PushDistinct DEF Frames
<1>5. \A i \in DOMAIN stack : pc[stack[i]] = "functor"
  <2>1. CASE stack = <<>>
    BY <2>1
  <2>2. CASE stack # <<>>
    <3>1. PICK d \in Cmds : At(d, "functor")
      BY <2>2 DEF CallSubmit
    <3>2. stack[1] = d /\ pc[d] = "functor"
      BY <1>1, <2>2, <3>1, TailProperties DEF At, Innermost
    <3>3. \A i \in DOMAIN stack : i = 1 \/ i > 1
      BY <1>1
    <3> QED
      BY <1>1, <3>2, <3>3 DEF Frames
  <2> QED
    BY <2>1, <2>2
<1>6. \A i \in DOMAIN stack' : i > 1 => i - 1 \in DOMAIN stack
                                          /\ stack'[i] = stack[i - 1]
  BY <1>1, PushProperties
<1>7. \A i \in DOMAIN stack : stack[i] \in Cmds \ {c}
  BY <1>1, <1>3 DEF In
<1>8. \A i \in DOMAIN stack' : i > 1 => pc'[stack'[i]] = "functor"
  BY <1>1, <1>5, <1>6, <1>7
<1> QED
  BY <1>1, <1>2, <1>4, <1>8 DEF Frames

(* Steps outside submit() leave the submits in progress alone.             *)
LEMMA QuietFrames ==
  ASSUME Frames, stack \in Seq(Cmds), stack' = stack,
         \A c \in Cmds : \/ pc'[c] = pc[c]
                         \/ pc[c] \notin Calls /\ pc'[c] \notin Calls
  PROVE  Frames'
<1>1. "functor" \in Calls
  BY DEF Calls
<1>2. \A i \in DOMAIN stack : stack[i] \in Cmds
  OBVIOUS
<1> QED
  BY <1>1, <1>2 DEF Frames

(* What the GPU has.                                                       *)
LEMMA SubmitPending ==
  ASSUME TypeOK, NEW c \in Cmds, ~Pending(c), pending' = Append(pending, c)
  PROVE  /\ pending' \in Seq(Cmds)
         /\ Distinct(pending')
         /\ \A d : Pending(d)' <=> d = c \/ Pending(d)
<1>1. pending \in Seq(Cmds) /\ Distinct(pending) /\ ~In(pending, c)
  BY TypeOKParts, PendingIn
<1>2. /\ pending' \in Seq(Cmds)
      /\ Distinct(pending')
      /\ \A d : In(pending', d) <=> d = c \/ In(pending, d)
  BY <1>1, AppendDistinct
<1>3. \A d : Pending(d)' <=> In(pending', d)
  BY DEF Pending, In
<1> QED
  BY <1>2, <1>3, PendingIn

(* The GPU finishes the work it got first.                                 *)
LEMMA FinishPending ==
  ASSUME TypeOK, pending # <<>>, pending' = Tail(pending)
  PROVE  /\ Head(pending) \in Cmds
         /\ Pending(Head(pending))
         /\ pending' \in Seq(Cmds)
         /\ Distinct(pending')
         /\ \A d : Pending(d)' <=> Pending(d) /\ d # Head(pending)
  BY TypeOKParts, TailProperties, TailDistinct, PendingIn DEF Pending, In

(* The GPU has what it had.                                                *)
LEMMA SamePending ==
  ASSUME pending' = pending PROVE \A d : Pending(d)' <=> Pending(d)
  BY DEF Pending

----------------------------------------------------------------------------
(* IInv, one object at a time.                                             *)
Told(c) ==
  /\ cmd[c] = "pending" <=> Pending(c)
  /\ fence[c] = "signaled" => ~Pending(c)
  /\ pc[c] = "wait" => (Pending(c) <=> fence[c] = "unsignaled")
  /\ pc[c] \in {"cmd.reset", "begin", "functor", "end", "submit"} =>
       fence[c] = "unsignaled" /\ ~Pending(c)
  /\ pc[c] = "begin" => cmd[c] = "initial"
  /\ pc[c] \in {"functor", "end"} => cmd[c] = "recording"
  /\ pc[c] = "submit" => cmd[c] = "executable"
  /\ pc[c] \in {"idle", "fence.reset"} /\ Pending(c) =>
       last[c] \in {"timeout", "error"}
  /\ pc[c] = "unborn" => ~Pending(c)
  /\ pc[c] = "idle" /\ last[c] = "done" => ~Pending(c) /\ cmd[c] # "pending"

(* What IInv tells, object by object.                                      *)
LEMMA IInvParts ==
  IInv <=> /\ TypeOK
           /\ \A c \in Cmds : Told(c)
           /\ \A m \in misuse : Explained(m)
  BY DEF IInv, Told, FenceAndCmdAgree, InSubmit, GaveUp, DoneMeansDone

(* It stays true of an object that a step leaves alone.                    *)
LEMMA Untouched ==
  ASSUME NEW c \in Cmds, Told(c),
         pc'[c] = pc[c], fence'[c] = fence[c], cmd'[c] = cmd[c],
         last'[c] = last[c], Pending(c)' <=> Pending(c)
  PROVE  Told(c)'
  BY DEF Told

(* A step that records no misuse keeps IInv if it keeps the types and what *)
(* is told of each object.                                                 *)
LEMMA QuietStep ==
  ASSUME IInv, misuse = {}, misuse' = {}, TypeOK',
         \A c \in Cmds : Told(c)'
  PROVE  IInv'
<1>1. \A m \in misuse' : Explained(m)'
  OBVIOUS
<1> QED
  BY <1>1 DEF IInv, Told, FenceAndCmdAgree, InSubmit, GaveUp, DoneMeansDone

(* A step that records a misuse changes nothing else.                      *)
LEMMA MisuseStep ==
  ASSUME IInv, NEW m, Explained(m),
         m \in [call : Calls \cup {"destroy", "pool.reset"}, of : Cmds],
         misuse' = {m},
         UNCHANGED <<pc, stack, fence, cmd, pending, last>>
  PROVE  IInv'
<1>1. TypeOK'
  BY DEF IInv, TypeOK
<1>2. Explained(m)'
  BY DEF Explained, Pending
<1> QED
  BY <1>1, <1>2 DEF IInv, FenceAndCmdAgree, InSubmit, GaveUp, DoneMeansDone,
     Pending

(* A step of the innermost submit(), c, that goes on to the call "to" and  *)
(* leaves what the GPU has.                                                *)
LEMMA GoOnStep ==
  ASSUME IInv, NEW c \in Cmds, NEW to \in Calls,
         misuse = {}, misuse' = {}, Innermost(c), GoOn(c, to),
         pending' = pending,
         fence' \in [Cmds -> {"unsignaled", "signaled"}],
         cmd' \in [Cmds -> CmdStates],
         \A d \in Cmds \ {c} : fence'[d] = fence[d] /\ cmd'[d] = cmd[d],
         Told(c)'
  PROVE  IInv'
<1>1. Frames'
  BY GoOnFrames DEF IInv
<1>2. TypeOK'
  BY <1>1, TypeOKParts, NextTypeOK DEF IInv, GoOn
<1>3. ASSUME NEW d \in Cmds \ {c} PROVE Told(d)'
  <2>1. pc'[d] = pc[d] /\ last'[d] = last[d] /\ (Pending(d)' <=> Pending(d))
    BY DEF GoOn, IInv, TypeOK, Pending
  <2> QED
    BY <2>1, Untouched, IInvParts
<1> QED
  BY <1>2, <1>3, QuietStep

(* A step in which submit() of c, the innermost, returns.                  *)
LEMMA ReturnStep ==
  ASSUME IInv, NEW c \in Cmds, NEW outcome \in Outcomes,
         misuse = {}, misuse' = {}, Innermost(c), Return(c, outcome),
         pending' = pending, fence' = fence,
         cmd' \in [Cmds -> CmdStates],
         \A d \in Cmds \ {c} : cmd'[d] = cmd[d],
         Told(c)'
  PROVE  IInv'
<1>1. stack' \in Seq(Cmds) /\ Frames'
  BY ReturnFrames DEF IInv
<1>2. TypeOK'
  <2>1. pc' \in [Cmds -> Calls \cup {"idle", "unborn"}]
        /\ last' \in [Cmds -> Outcomes]
    BY TypeOKParts DEF IInv, Return
  <2> QED
    BY <1>1, <2>1, TypeOKParts, NextTypeOK DEF IInv
<1>3. ASSUME NEW d \in Cmds \ {c} PROVE Told(d)'
  <2>1. pc'[d] = pc[d] /\ last'[d] = last[d] /\ (Pending(d)' <=> Pending(d))
    BY DEF Return, IInv, TypeOK, Pending
  <2> QED
    BY <2>1, Untouched, IInvParts
<1> QED
  BY <1>2, <1>3, QuietStep

(* A step outside submit() that leaves the submits in progress and what    *)
(* the GPU has, and creates, destroys or returns at most the object c.     *)
LEMMA OutsideStep ==
  ASSUME IInv, NEW c \in Cmds, misuse = {}, misuse' = {},
         UNCHANGED <<stack, pending>>,
         pc' \in [Cmds -> Calls \cup {"idle", "unborn"}],
         fence' \in [Cmds -> {"unsignaled", "signaled"}],
         cmd' \in [Cmds -> CmdStates],
         last' \in [Cmds -> Outcomes],
         pc[c] \notin Calls, pc'[c] \notin Calls,
         \A d \in Cmds \ {c} : /\ pc'[d] = pc[d] /\ fence'[d] = fence[d]
                               /\ cmd'[d] = cmd[d] /\ last'[d] = last[d],
         Told(c)'
  PROVE  IInv'
<1>1. Frames /\ stack \in Seq(Cmds)
  BY TypeOKParts DEF IInv
<1>2. \A d \in Cmds : \/ pc'[d] = pc[d]
                      \/ pc[d] \notin Calls /\ pc'[d] \notin Calls
  OBVIOUS
<1>3. Frames'
  BY <1>1, <1>2, QuietFrames
<1>4. TypeOK'
  BY <1>3, TypeOKParts, NextTypeOK DEF IInv
<1>5. ASSUME NEW d \in Cmds \ {c} PROVE Told(d)'
  BY SamePending, Untouched, IInvParts
<1> QED
  BY <1>4, <1>5, QuietStep

----------------------------------------------------------------------------
(* The steps of the client.                                                *)
LEMMA CreateStep ==
  ASSUME IInv, NEW c \in Cmds, CreateImediateCmd(c) PROVE IInv'
<1> USE DEF CreateImediateCmd
<1>1. Told(c) /\ TypeOK
  BY IInvParts
<1>2. /\ pc'[c] = "idle" /\ fence'[c] = "unsignaled" /\ cmd'[c] = "initial"
      /\ last'[c] = "none" /\ ~Pending(c)
      /\ Pending(c)' <=> Pending(c)
  BY <1>1, SamePending DEF TypeOK, Told
<1>3. Told(c)'
  BY <1>2 DEF Told
<1>4. "idle" \notin Calls /\ "unborn" \notin Calls
  BY DEF Calls
<1>5. "initial" \in CmdStates /\ "none" \in Outcomes
  BY DEF CmdStates, Outcomes
<1> QED
  BY <1>1, <1>2, <1>3, <1>4, <1>5, OutsideStep DEF TypeOK

LEMMA DestroyStep ==
  ASSUME IInv, NEW c \in Cmds, DestroyImediateCmd(c) PROVE IInv'
<1> USE DEF DestroyImediateCmd
<1>1. Told(c) /\ TypeOK
  BY IInvParts
<1>2. pc'[c] = "unborn" /\ ~Pending(c) /\ (Pending(c)' <=> Pending(c))
  BY <1>1, SamePending DEF TypeOK
<1>3. Told(c)'
  BY <1>1, <1>2 DEF Told
<1>4. "idle" \notin Calls /\ "unborn" \notin Calls
  BY DEF Calls
<1> QED
  BY <1>1, <1>2, <1>3, <1>4, OutsideStep DEF TypeOK

LEMMA DestroyPendingStep ==
  ASSUME IInv, NEW c \in Cmds, DestroyPendingCmd(c) PROVE IInv'
<1> DEFINE m == [call |-> "destroy", of |-> c]
<1>1. Told(c) /\ Pending(c) /\ pc[c] = "idle"
  BY IInvParts DEF DestroyPendingCmd
<1>2. Explained(m)
  BY <1>1 DEF Told, Explained
<1> QED
  BY <1>2, MisuseStep DEF DestroyPendingCmd

(* Outside submit() every object is idle or not there.                     *)
LEMMA OutsideSubmit ==
  ASSUME TypeOK, stack = <<>>, NEW c \in Cmds
  PROVE  pc[c] \in {"idle", "unborn"}
BY DEF TypeOK

LEMMA ResetPoolStep ==
  ASSUME IInv, ResetPool PROVE IInv'
<1> USE DEF ResetPool
<1>1. TypeOK
  BY DEF IInv
<1>2. TypeOK'
  BY <1>1 DEF TypeOK, CmdStates
<1>3. ASSUME NEW c \in Cmds PROVE Told(c)'
  <2>1. pc'[c] \in {"idle", "unborn"}
    BY <1>1, OutsideSubmit
  <2>2. ~Pending(c)' /\ cmd'[c] = "initial"
    BY DEF Pending
  <2> QED
    BY <2>1, <2>2 DEF Told
<1> QED
  BY <1>2, <1>3, QuietStep

LEMMA ResetPendingPoolStep ==
  ASSUME IInv, ResetPendingPool PROVE IInv'
<1>0. PICK c : c = Head(pending)
  OBVIOUS
<1> DEFINE m == [call |-> "pool.reset", of |-> c]
<1>1. TypeOK /\ stack = <<>> /\ pending # <<>>
  BY DEF IInv, ResetPendingPool
<1>2. c \in Cmds /\ Pending(c)
  <2>1. pending \in Seq(Cmds) /\ Distinct(pending)
    BY <1>1, TypeOKParts
  <2> QED
    BY <1>0, <1>1, <2>1, TailProperties, TailDistinct, PendingIn
<1>3. Told(c) /\ pc[c] \in {"idle", "unborn"}
  BY <1>1, <1>2, OutsideSubmit, IInvParts
<1>4. Explained(m)
  BY <1>2, <1>3 DEF Told, Explained
<1> QED
  BY <1>0, <1>2, <1>4, MisuseStep DEF ResetPendingPool

LEMMA CallSubmitStep ==
  ASSUME IInv, NEW c \in Cmds, CallSubmit(c) PROVE IInv'
<1>1. TypeOK
  BY DEF IInv
<1>2. stack' \in Seq(Cmds) /\ Frames'
  BY <1>1, CallFrames
<1>3. TypeOK'
  <2>1. pc' \in [Cmds -> Calls \cup {"idle", "unborn"}]
    BY <1>1 DEF TypeOK, CallSubmit, Calls
  <2> QED
    BY <1>1, <1>2, <2>1, TypeOKParts, NextTypeOK DEF CallSubmit
<1>4. ASSUME NEW d \in Cmds \ {c} PROVE Told(d)'
  <2>1. pc'[d] = pc[d]
    BY <1>1 DEF CallSubmit, TypeOK
  <2> QED
    BY <2>1, SamePending, Untouched, IInvParts DEF CallSubmit
<1>5. Told(c)'
  <2>1. pc[c] = "idle" /\ pc'[c] = "fence.reset"
    BY <1>1 DEF CallSubmit, TypeOK
  <2> QED
    BY <2>1, SamePending, IInvParts DEF CallSubmit, Told
<1> QED
  BY <1>3, <1>4, <1>5, QuietStep DEF CallSubmit

----------------------------------------------------------------------------
(* The steps of submit().                                                  *)
LEMMA CallForbiddenStep ==
  ASSUME IInv, NEW c \in Cmds, CallForbidden(c) PROVE IInv'
<1>1. PICK call \in Calls : /\ At(c, call)
                            /\ Forbidden(c, call)
                            /\ misuse' = {[call |-> call, of |-> c]}
                            /\ UNCHANGED <<pc, stack, fence, cmd, pending, last>>
  BY DEF CallForbidden
<1> DEFINE m == [call |-> call, of |-> c]
<1>2. Told(c) /\ pc[c] = call
  BY <1>1, IInvParts DEF At
<1>3. Explained(m)
  BY <1>1, <1>2 DEF Told, Forbidden, Explained
<1> QED
  BY <1>1, <1>3, MisuseStep

LEMMA CallFailsStep ==
  ASSUME IInv, NEW c \in Cmds, CallFails(c) PROVE IInv'
<1>1. PICK call \in Calls \ {"functor", "wait"} : Legal(c, call)
  BY DEF CallFails
<1>2. /\ TypeOK /\ Told(c)
      /\ misuse = {} /\ Innermost(c) /\ pc[c] = call /\ ~Forbidden(c, call)
      /\ Return(c, "error")
  BY <1>1, IInvParts DEF CallFails, Legal, At
<1>3. /\ cmd' \in [Cmds -> CmdStates]
      /\ \A d \in Cmds \ {c} : cmd'[d] = cmd[d]
      /\ cmd'[c] = IF call = "end" THEN "invalid" ELSE cmd[c]
  BY <1>2 DEF CallFails, TypeOK, CmdStates
<1>4. /\ pc'[c] = "idle" /\ last'[c] = "error" /\ fence' = fence
      /\ Pending(c)' <=> Pending(c)
  BY <1>2, SamePending DEF CallFails, Return, TypeOK
<1>5. Told(c)'
  BY <1>1, <1>2, <1>3, <1>4 DEF Told, Calls
<1>6. "error" \in Outcomes
  BY DEF Outcomes
<1> QED
  BY <1>2, <1>3, <1>5, <1>6, ReturnStep DEF CallFails

(* What holds when submit() of c makes a legal call and goes on.           *)
LEMMA AtLegal ==
  ASSUME IInv, NEW c \in Cmds, NEW call, Legal(c, call)
  PROVE  /\ TypeOK /\ Told(c)
         /\ misuse = {} /\ Innermost(c)
         /\ pc[c] = call /\ ~Forbidden(c, call)
BY IInvParts DEF Legal, At

LEMMA ResetFenceStep ==
  ASSUME IInv, NEW c \in Cmds, ResetFence(c) PROVE IInv'
<1>1. /\ TypeOK /\ Told(c) /\ misuse = {} /\ Innermost(c)
      /\ pc[c] = "fence.reset" /\ ~Pending(c)
  BY AtLegal DEF ResetFence, Forbidden
<1>2. "cmd.reset" \in Calls
  BY DEF Calls
<1>3. Told(c)'
  <2>1. /\ pc'[c] = "cmd.reset" /\ fence'[c] = "unsignaled"
        /\ cmd' = cmd /\ last' = last /\ (Pending(c)' <=> Pending(c))
    BY <1>1, SamePending DEF ResetFence, GoOn, TypeOK
  <2> QED
    BY <1>1, <2>1 DEF Told
<1> QED
  BY <1>1, <1>2, <1>3, GoOnStep DEF ResetFence, TypeOK

LEMMA ResetCmdStep ==
  ASSUME IInv, NEW c \in Cmds, ResetCmd(c) PROVE IInv'
<1>1. /\ TypeOK /\ Told(c) /\ misuse = {} /\ Innermost(c)
      /\ pc[c] = "cmd.reset"
  BY AtLegal DEF ResetCmd
<1>2. "begin" \in Calls /\ "initial" \in CmdStates
  BY DEF Calls, CmdStates
<1>3. Told(c)'
  <2>1. /\ pc'[c] = "begin" /\ cmd'[c] = "initial"
        /\ fence' = fence /\ last' = last /\ (Pending(c)' <=> Pending(c))
    BY <1>1, SamePending DEF ResetCmd, GoOn, TypeOK
  <2> QED
    BY <1>1, <2>1 DEF Told
<1> QED
  BY <1>1, <1>2, <1>3, GoOnStep DEF ResetCmd, TypeOK

LEMMA BeginStep ==
  ASSUME IInv, NEW c \in Cmds, Begin(c) PROVE IInv'
<1>1. /\ TypeOK /\ Told(c) /\ misuse = {} /\ Innermost(c)
      /\ pc[c] = "begin"
  BY AtLegal DEF Begin
<1>2. "functor" \in Calls /\ "recording" \in CmdStates
  BY DEF Calls, CmdStates
<1>3. Told(c)'
  <2>1. /\ pc'[c] = "functor" /\ cmd'[c] = "recording"
        /\ fence' = fence /\ last' = last /\ (Pending(c)' <=> Pending(c))
    BY <1>1, SamePending DEF Begin, GoOn, TypeOK
  <2> QED
    BY <1>1, <2>1 DEF Told
<1> QED
  BY <1>1, <1>2, <1>3, GoOnStep DEF Begin, TypeOK

LEMMA FunctorReturnsStep ==
  ASSUME IInv, NEW c \in Cmds, FunctorReturns(c) PROVE IInv'
<1>1. /\ TypeOK /\ Told(c) /\ misuse = {} /\ Innermost(c)
      /\ pc[c] = "functor"
  BY AtLegal DEF FunctorReturns
<1>2. "end" \in Calls
  BY DEF Calls
<1>3. Told(c)'
  <2>1. /\ pc'[c] = "end" /\ cmd' = cmd
        /\ fence' = fence /\ last' = last /\ (Pending(c)' <=> Pending(c))
    BY <1>1, SamePending DEF FunctorReturns, GoOn, TypeOK
  <2> QED
    BY <1>1, <2>1 DEF Told
<1> QED
  BY <1>1, <1>2, <1>3, GoOnStep DEF FunctorReturns, TypeOK

LEMMA FunctorThrowsStep ==
  ASSUME IInv, NEW c \in Cmds, FunctorThrows(c) PROVE IInv'
<1>1. /\ TypeOK /\ Told(c) /\ misuse = {} /\ Innermost(c)
      /\ pc[c] = "functor"
  BY AtLegal DEF FunctorThrows
<1>2. "thrown" \in Outcomes
  BY DEF Outcomes
<1>3. Told(c)'
  <2>1. /\ pc'[c] = "idle" /\ last'[c] = "thrown" /\ cmd' = cmd
        /\ fence' = fence /\ (Pending(c)' <=> Pending(c))
    BY <1>1, SamePending DEF FunctorThrows, Return, TypeOK
  <2> QED
    BY <1>1, <2>1 DEF Told
<1> QED
  BY <1>1, <1>2, <1>3, ReturnStep DEF FunctorThrows, TypeOK

LEMMA EndStep ==
  ASSUME IInv, NEW c \in Cmds, End(c) PROVE IInv'
<1>1. /\ TypeOK /\ Told(c) /\ misuse = {} /\ Innermost(c)
      /\ pc[c] = "end"
  BY AtLegal DEF End
<1>2. "submit" \in Calls /\ "executable" \in CmdStates
  BY DEF Calls, CmdStates
<1>3. Told(c)'
  <2>1. /\ pc'[c] = "submit" /\ cmd'[c] = "executable"
        /\ fence' = fence /\ last' = last /\ (Pending(c)' <=> Pending(c))
    BY <1>1, SamePending DEF End, GoOn, TypeOK
  <2> QED
    BY <1>1, <2>1 DEF Told
<1> QED
  BY <1>1, <1>2, <1>3, GoOnStep DEF End, TypeOK

LEMMA SubmitToQueueStep ==
  ASSUME IInv, NEW c \in Cmds, SubmitToQueue(c) PROVE IInv'
<1>1. /\ TypeOK /\ Told(c) /\ misuse = {} /\ Innermost(c)
      /\ pc[c] = "submit" /\ ~Pending(c)
  BY AtLegal DEF SubmitToQueue, Forbidden
<1>2. /\ pending' \in Seq(Cmds)
      /\ Distinct(pending')
      /\ \A d : Pending(d)' <=> d = c \/ Pending(d)
  BY <1>1, SubmitPending DEF SubmitToQueue
<1>3. "wait" \in Calls /\ "pending" \in CmdStates
  BY DEF Calls, CmdStates
<1>4. Frames'
  BY <1>1, <1>3, GoOnFrames DEF SubmitToQueue
<1>5. TypeOK'
  BY <1>1, <1>2, <1>3, <1>4, TypeOKParts, NextTypeOK DEF SubmitToQueue, GoOn
<1>6. ASSUME NEW d \in Cmds \ {c} PROVE Told(d)'
  <2>1. /\ pc'[d] = pc[d] /\ last'[d] = last[d] /\ fence'[d] = fence[d]
        /\ cmd'[d] = cmd[d] /\ (Pending(d)' <=> Pending(d))
    BY <1>1, <1>2 DEF SubmitToQueue, GoOn, TypeOK
  <2> QED
    BY <2>1, Untouched, IInvParts
<1>7. Told(c)'
  <2>1. /\ pc'[c] = "wait" /\ cmd'[c] = "pending" /\ Pending(c)'
        /\ fence' = fence /\ fence[c] = "unsignaled"
    BY <1>1, <1>2 DEF SubmitToQueue, GoOn, TypeOK, Told
  <2> QED
    BY <2>1 DEF Told
<1> QED
  BY <1>1, <1>5, <1>6, <1>7, QuietStep DEF SubmitToQueue

LEMMA WaitStep ==
  ASSUME IInv, NEW c \in Cmds, Wait(c) PROVE IInv'
<1>1. /\ TypeOK /\ Told(c) /\ misuse = {} /\ Innermost(c)
      /\ pc[c] = "wait"
  BY AtLegal DEF Wait
<1>2. PICK outcome \in {"done", "timeout", "error"} :
        /\ Return(c, outcome)
        /\ outcome = "done" => fence[c] = "signaled"
  BY DEF Wait
<1>3. outcome \in Outcomes
  BY DEF Outcomes
<1>4. Told(c)'
  <2>1. /\ pc'[c] = "idle" /\ last'[c] = outcome /\ cmd' = cmd
        /\ fence' = fence /\ (Pending(c)' <=> Pending(c))
    BY <1>1, <1>2, SamePending DEF Wait, Return, TypeOK
  <2> QED
    BY <1>1, <1>2, <2>1 DEF Told
<1> QED
  BY <1>1, <1>2, <1>3, <1>4, ReturnStep DEF Wait, TypeOK

----------------------------------------------------------------------------
(* The step of the GPU.                                                    *)
LEMMA GpuFinishesStep ==
  ASSUME IInv, GpuFinishes PROVE IInv'
<1>0. PICK c : c = Head(pending)
  OBVIOUS
<1>1. /\ TypeOK /\ misuse = {} /\ pending # <<>>
      /\ fence' = [fence EXCEPT ![c] = "signaled"]
      /\ cmd' = [cmd EXCEPT ![c] = "invalid"]
      /\ pending' = Tail(pending)
      /\ UNCHANGED <<pc, stack, last, misuse>>
  BY <1>0 DEF GpuFinishes, IInv
<1>2. /\ c \in Cmds /\ Pending(c)
      /\ pending' \in Seq(Cmds)
      /\ Distinct(pending')
      /\ \A d : Pending(d)' <=> Pending(d) /\ d # c
  BY <1>0, <1>1, FinishPending
<1>3. TypeOK'
  BY <1>1, <1>2 DEF TypeOK, Distinct, CmdStates
<1>4. ASSUME NEW d \in Cmds \ {c} PROVE Told(d)'
  <2>1. fence'[d] = fence[d] /\ cmd'[d] = cmd[d]
    BY <1>1 DEF TypeOK
  <2> QED
    BY <1>1, <1>2, <2>1, Untouched, IInvParts
<1>5. Told(c)'
  <2>1. /\ fence'[c] = "signaled" /\ cmd'[c] = "invalid"
        /\ ~Pending(c)'
    BY <1>1, <1>2 DEF TypeOK
  <2>2. pc'[c] \notin {"cmd.reset", "begin", "functor", "end", "submit"}
    BY <1>1, <1>2, IInvParts DEF Told
  <2> QED
    BY <2>1, <2>2 DEF Told
<1> QED
  BY <1>1, <1>3, <1>4, <1>5, QuietStep

----------------------------------------------------------------------------
(* Initially there are no objects.                                         *)
LEMMA InitIInv == Init => IInv
<1> SUFFICES ASSUME Init PROVE IInv
  OBVIOUS
<1> USE DEF Init
<1>1. TypeOK
  BY DEF TypeOK, Calls, CmdStates, Outcomes
<1>2. \A c \in Cmds : Told(c)
  BY DEF Told, Pending
<1> QED
  BY <1>1, <1>2, IInvParts

(* Each step keeps the inductive invariant.                                *)
LEMMA NextIInv == IInv /\ [Next]_vars => IInv'
<1> SUFFICES ASSUME IInv, [Next]_vars PROVE IInv'
  OBVIOUS
<1>1. CASE \E c \in Cmds : CreateImediateCmd(c)
  BY <1>1, CreateStep
<1>2. CASE \E c \in Cmds : DestroyImediateCmd(c)
  BY <1>2, DestroyStep
<1>3. CASE \E c \in Cmds : DestroyPendingCmd(c)
  BY <1>3, DestroyPendingStep
<1>4. CASE ResetPool
  BY <1>4, ResetPoolStep
<1>5. CASE ResetPendingPool
  BY <1>5, ResetPendingPoolStep
<1>6. CASE \E c \in Cmds : CallSubmit(c)
  BY <1>6, CallSubmitStep
<1>7. CASE \E c \in Cmds : SubmitStep(c)
  <2>1. PICK c \in Cmds : SubmitStep(c)
    BY <1>7
  <2> QED
    BY <2>1, CallForbiddenStep, CallFailsStep, ResetFenceStep, ResetCmdStep,
       BeginStep, FunctorReturnsStep, FunctorThrowsStep, EndStep,
       SubmitToQueueStep, WaitStep DEF SubmitStep
<1>8. CASE GpuFinishes
  BY <1>8, GpuFinishesStep
<1>9. CASE UNCHANGED vars
  BY <1>9 DEF vars, IInv, TypeOK, FenceAndCmdAgree, InSubmit, GaveUp,
     DoneMeansDone, Explained, Pending
<1>10. CASE Undefined
  BY <1>9, <1>10 DEF Undefined
<1> QED
  BY <1>1, <1>2, <1>3, <1>4, <1>5, <1>6, <1>7, <1>8, <1>9, <1>10 DEF Next

(* The inductive invariant holds in every reachable state.                 *)
THEOREM IInvCorrect == Spec => []IInv
<1>1. Init => IInv
  BY InitIInv
<1>2. IInv /\ [Next]_vars => IInv'
  BY NextIInv
<1> QED
  BY <1>1, <1>2, PTL DEF Spec

(* The submits in progress are nested as the calls are, all but the        *)
(* innermost inside their functor, and the GPU has at most one submission  *)
(* of each object, whatever fails, throws, times out or nests.             *)
THEOREM TypeCorrect == Spec => []TypeOK
<1>1. IInv => TypeOK
  BY DEF IInv
<1> QED
  BY <1>1, IInvCorrect, PTL

(* The buffer is pending exactly while the GPU has it, and a signaled      *)
(* fence never belongs to work the GPU still has.                          *)
THEOREM FenceAndCmdAgreeCorrect == Spec => []FenceAndCmdAgree
<1>1. IInv => FenceAndCmdAgree
  BY DEF IInv
<1> QED
  BY <1>1, IInvCorrect, PTL

(* When submit() returned because the fence was signaled, the GPU is done  *)
(* with that very submission.                                              *)
THEOREM DoneMeansDoneCorrect == Spec => []DoneMeansDone
<1>1. IInv => DoneMeansDone
  BY DEF IInv
<1> QED
  BY <1>1, IInvCorrect, PTL

(* With a pool created with ResetCommandBufferBit, submit() makes a        *)
(* forbidden call only for an object the GPU still works for because an    *)
(* earlier submit() of it stopped waiting.                                 *)
THEOREM MisuseOnlyAfterGivingUpCorrect ==
  ASSUME PoolCanReset PROVE Spec => []MisuseOnlyAfterGivingUp
<1>1. IInv => MisuseOnlyAfterGivingUp
  BY DEF IInv, Explained, MisuseOnlyAfterGivingUp
<1> QED
  BY <1>1, IInvCorrect, PTL

(* With such a pool vkResetCommandBuffer is never called in vain.          *)
THEOREM ResetOnlyIfAllowedCorrect ==
  ASSUME PoolCanReset PROVE Spec => []ResetOnlyIfAllowed
<1>1. IInv => ResetOnlyIfAllowed
  BY DEF IInv, Explained, ResetOnlyIfAllowed
<1> QED
  BY <1>1, IInvCorrect, PTL
=============================================================================
