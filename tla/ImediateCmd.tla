---------------------------- MODULE ImediateCmd ----------------------------
(***************************************************************************)
(* backends/vulkan/command_buffer.hpp, fence.hpp and command_pool.hpp: the *)
(* ImediateCmd objects of one command pool, used by one thread, and the    *)
(* GPU that executes what they submit.                                     *)
(*                                                                         *)
(* ImediateCmd::submit() drives a fence and a command buffer through the   *)
(* life cycle Vulkan prescribes, one vk call after the other; each call    *)
(* may fail, and the functor, which the client supplies, may submit        *)
(* another ImediateCmd or throw. A vk call in a state that Vulkan forbids  *)
(* is recorded in misuse; what would happen after it is undefined, so the  *)
(* behaviour ends there. Loss of the device is left out.                   *)
(***************************************************************************)
EXTENDS Naturals, Sequences, FiniteSets

CONSTANTS
  Cmds,            (* the ImediateCmd objects of the client                *)
  PoolCanReset     (* was the CmdPool created with ResetCommandBufferBit?  *)

ASSUME PoolCanResetAssumption == PoolCanReset \in BOOLEAN

VARIABLES
  pc,       (* the call submit() is about to make, "idle", or "unborn"     *)
  stack,    (* the submit() calls in progress, the innermost first         *)
  fence,    (* VkFence of each object                                      *)
  cmd,      (* VkCommandBuffer of each object                              *)
  pending,  (* the submissions the GPU has not finished, in order          *)
  last,     (* how the last submit() of each object ended                  *)
  misuse    (* the first vk call that was made in a forbidden state        *)

vars == <<pc, stack, fence, cmd, pending, last, misuse>>

Calls == {"fence.reset", "cmd.reset", "begin", "functor", "end", "submit",
          "wait"}

CmdStates == {"initial", "recording", "executable", "pending", "invalid"}

(* "done" and "timeout" are both reported as Ok.                           *)
Outcomes == {"none", "done", "timeout", "error", "thrown"}

Pending(c) == \E i \in DOMAIN pending : pending[i] = c

Innermost(c) == stack # <<>> /\ Head(stack) = c

At(c, call) == pc[c] = call /\ Innermost(c) /\ misuse = {}

----------------------------------------------------------------------------
Init ==
  /\ pc = [c \in Cmds |-> "unborn"]
  /\ stack = <<>>
  /\ fence = [c \in Cmds |-> "unsignaled"]
  /\ cmd = [c \in Cmds |-> "initial"]
  /\ pending = <<>>
  /\ last = [c \in Cmds |-> "none"]
  /\ misuse = {}

(* Backend::create_imediate_cmd(), with create_fence() and create_cmd():   *)
(* a fence that is not signaled and a fresh primary command buffer. A      *)
(* refused call is left out: when create_cmd() is the one, the fence is    *)
(* destroyed and nothing has changed; when create_fence() is, ~Fence() of  *)
(* the temporary runs on a VkFence nobody wrote (Refuse in Wrappers).      *)
CreateImediateCmd(c) ==
  /\ misuse = {}
  /\ pc[c] = "unborn"
  /\ pc' = [pc EXCEPT ![c] = "idle"]
  /\ fence' = [fence EXCEPT ![c] = "unsignaled"]
  /\ cmd' = [cmd EXCEPT ![c] = "initial"]
  /\ last' = [last EXCEPT ![c] = "none"]
  /\ UNCHANGED <<stack, pending, misuse>>

(* ~Fence() and ~CommandBuffer(), neither of which asks whether the GPU    *)
(* still uses the object.                                                  *)
DestroyImediateCmd(c) ==
  /\ misuse = {}
  /\ pc[c] = "idle"
  /\ ~Pending(c)
  /\ pc' = [pc EXCEPT ![c] = "unborn"]
  /\ UNCHANGED <<stack, fence, cmd, pending, last, misuse>>

DestroyPendingCmd(c) ==
  /\ misuse = {}
  /\ pc[c] = "idle"
  /\ Pending(c)
  /\ misuse' = {[call |-> "destroy", of |-> c]}
  /\ UNCHANGED <<pc, stack, fence, cmd, pending, last>>

(* CmdPool::reset(), outside any functor: every command buffer of the pool *)
(* is put in the initial state. When the driver refuses, nothing has       *)
(* changed.                                                                *)
ResetPool ==
  /\ misuse = {}
  /\ stack = <<>>
  /\ pending = <<>>
  /\ cmd' = [c \in Cmds |-> "initial"]
  /\ UNCHANGED <<pc, stack, fence, pending, last, misuse>>

ResetPendingPool ==
  /\ misuse = {}
  /\ stack = <<>>
  /\ pending # <<>>
  /\ misuse' = {[call |-> "pool.reset", of |-> Head(pending)]}
  /\ UNCHANGED <<pc, stack, fence, cmd, pending, last>>

----------------------------------------------------------------------------
(* submit() is entered by the client, from outside or from the functor of  *)
(* another object's submit(). A client does not submit an object from its  *)
(* own functor.                                                            *)
CallSubmit(c) ==
  /\ misuse = {}
  /\ pc[c] = "idle"
  /\ stack = <<>> \/ \E d \in Cmds : At(d, "functor")
  /\ pc' = [pc EXCEPT ![c] = "fence.reset"]
  /\ stack' = <<c>> \o stack
  /\ UNCHANGED <<fence, cmd, pending, last, misuse>>

(* submit() of c ends.                                                     *)
Return(c, outcome) ==
  /\ pc' = [pc EXCEPT ![c] = "idle"]
  /\ stack' = Tail(stack)
  /\ last' = [last EXCEPT ![c] = outcome]

GoOn(c, call) ==
  /\ pc' = [pc EXCEPT ![c] = call]
  /\ UNCHANGED <<stack, last>>

(* The states in which Vulkan forbids a call of submit(): a fence is reset *)
(* or reused while the GPU may still signal it, a buffer is reset, or      *)
(* begun, in use, or its pool does not let it be reset on its own, a       *)
(* buffer is ended or submitted that is not being, or has not been,        *)
(* recorded.                                                               *)
Forbidden(c, call) ==
  \/ call = "fence.reset" /\ Pending(c)
  \/ call = "cmd.reset" /\ (~PoolCanReset \/ cmd[c] = "pending")
  \/ call = "begin" /\ cmd[c] \in {"recording", "pending"}
  \/ call = "end" /\ cmd[c] # "recording"
  \/ call = "submit" /\ (\/ cmd[c] # "executable"
                         \/ fence[c] = "signaled"
                         \/ Pending(c))

Legal(c, call) == At(c, call) /\ ~Forbidden(c, call)

CallForbidden(c) ==
  \E call \in Calls :
    /\ At(c, call)
    /\ Forbidden(c, call)
    /\ misuse' = {[call |-> call, of |-> c]}
    /\ UNCHANGED <<pc, stack, fence, cmd, pending, last>>

(* A vk call of submit(), other than the wait, fails: the error is         *)
(* returned. A command buffer whose recording cannot be ended is invalid.  *)
CallFails(c) ==
  /\ \E call \in Calls \ {"functor", "wait"} : Legal(c, call)
  /\ Return(c, "error")
  /\ cmd' = IF pc[c] = "end" THEN [cmd EXCEPT ![c] = "invalid"] ELSE cmd
  /\ UNCHANGED <<fence, pending, misuse>>

(* fence.reset()                                                           *)
ResetFence_Skipped(c) ==
  /\ Legal(c, "fence.reset")
  /\ GoOn(c, "cmd.reset")
  /\ UNCHANGED <<fence, cmd, pending, misuse>>

ResetFence(c) ==
  /\ Legal(c, "fence.reset")
  /\ fence' = [fence EXCEPT ![c] = "unsignaled"]
  /\ GoOn(c, "cmd.reset")
  /\ UNCHANGED <<cmd, pending, misuse>>

(* cmd.reset()                                                             *)
ResetCmd(c) ==
  /\ Legal(c, "cmd.reset")
  /\ cmd' = [cmd EXCEPT ![c] = "initial"]
  /\ GoOn(c, "begin")
  /\ UNCHANGED <<fence, pending, misuse>>

(* cmd.begin(OneTimeSubmitBit)                                             *)
Begin(c) ==
  /\ Legal(c, "begin")
  /\ cmd' = [cmd EXCEPT ![c] = "recording"]
  /\ GoOn(c, "functor")
  /\ UNCHANGED <<fence, pending, misuse>>

(* functor(cmd) returns                                                    *)
FunctorReturns(c) ==
  /\ Legal(c, "functor")
  /\ GoOn(c, "end")
  /\ UNCHANGED <<fence, cmd, pending, misuse>>

(* or throws, through submit() and, as far as the client lets it, through  *)
(* the functors of the submits around it.                                  *)
FunctorThrows_NotUnwound(c) ==
  /\ Legal(c, "functor")
  /\ pc' = [pc EXCEPT ![c] = "idle"]
  /\ UNCHANGED <<stack, fence, cmd, pending, last, misuse>>

FunctorThrows(c) ==
  /\ Legal(c, "functor")
  /\ Return(c, "thrown")
  /\ UNCHANGED <<fence, cmd, pending, misuse>>

(* cmd.end()                                                               *)
End(c) ==
  /\ Legal(c, "end")
  /\ cmd' = [cmd EXCEPT ![c] = "executable"]
  /\ GoOn(c, "submit")
  /\ UNCHANGED <<fence, pending, misuse>>

(* cmd.submit(fence)                                                       *)
SubmitToQueue(c) ==
  /\ Legal(c, "submit")
  /\ cmd' = [cmd EXCEPT ![c] = "pending"]
  /\ pending' = Append(pending, c)
  /\ GoOn(c, "wait")
  /\ UNCHANGED <<fence, misuse>>

(* fence.wait(fence_timeout): Ok(true) once the fence is signaled,         *)
(* Ok(false) when the time is over, which submit() does not tell from      *)
(* Ok(true), or an error.                                                  *)
Wait_TimeoutIsDone(c) ==
  /\ Legal(c, "wait")
  /\ \/ Return(c, "done")
     \/ Return(c, "error")
  /\ UNCHANGED <<fence, cmd, pending, misuse>>

Wait(c) ==
  /\ Legal(c, "wait")
  /\ \/ fence[c] = "signaled" /\ Return(c, "done")
     \/ fence[c] = "unsignaled" /\ Return(c, "timeout")
     \/ Return(c, "error")
  /\ UNCHANGED <<fence, cmd, pending, misuse>>

(* The GPU finishes the oldest submission: its fence is signaled and its   *)
(* command buffer, recorded for one submission, is used up.                *)
GpuFinishes ==
  /\ misuse = {}
  /\ pending # <<>>
  /\ LET c == Head(pending)
     IN  /\ fence' = [fence EXCEPT ![c] = "signaled"]
         /\ cmd' = [cmd EXCEPT ![c] = "invalid"]
  /\ pending' = Tail(pending)
  /\ UNCHANGED <<pc, stack, last, misuse>>

(* After a misuse nothing is known.                                        *)
Undefined == misuse # {} /\ UNCHANGED vars

SubmitStep(c) ==
  \/ CallForbidden(c)
  \/ CallFails(c)
  \/ ResetFence(c)
  \/ ResetCmd(c)
  \/ Begin(c)
  \/ FunctorReturns(c)
  \/ FunctorThrows(c)
  \/ End(c)
  \/ SubmitToQueue(c)
  \/ Wait(c)

Next ==
  \/ \E c \in Cmds : CreateImediateCmd(c)
  \/ \E c \in Cmds : DestroyImediateCmd(c)
  \/ \E c \in Cmds : DestroyPendingCmd(c)
  \/ ResetPool
  \/ ResetPendingPool
  \/ \E c \in Cmds : CallSubmit(c)
  \/ \E c \in Cmds : SubmitStep(c)
  \/ GpuFinishes
  \/ Undefined

Spec == Init /\ [][Next]_vars

----------------------------------------------------------------------------
(* The variables have their types; the submits in progress are those whose *)
(* call has not returned, all but the innermost inside their functor; the  *)
(* GPU has at most one submission of each object.                          *)
TypeOK ==
  /\ pc \in [Cmds -> Calls \cup {"idle", "unborn"}]
  /\ stack \in Seq(Cmds)
  /\ fence \in [Cmds -> {"unsignaled", "signaled"}]
  /\ cmd \in [Cmds -> CmdStates]
  /\ pending \in Seq(Cmds)
  /\ last \in [Cmds -> Outcomes]
  /\ misuse \subseteq [call : Calls \cup {"destroy", "pool.reset"}, of : Cmds]
  /\ \A c \in Cmds :
       pc[c] \in Calls <=> \E i \in DOMAIN stack : stack[i] = c
  /\ \A i \in DOMAIN stack : i > 1 => pc[stack[i]] = "functor"
  /\ \A i, j \in DOMAIN stack : stack[i] = stack[j] => i = j
  /\ \A i, j \in DOMAIN pending : pending[i] = pending[j] => i = j

(* Whatever fails, throws or nests before it, submit() asks Vulkan for     *)
(* something forbidden only for an object the GPU still works for because  *)
(* an earlier submit() of it stopped waiting.                              *)
MisuseOnlyAfterGivingUp ==
  \A m \in misuse : Pending(m.of) /\ last[m.of] \in {"timeout", "error"}

(* When submit() returned because the fence was signaled, the GPU is done  *)
(* with that very submission, and it stays so until the next.              *)
DoneMeansDone ==
  \A c \in Cmds :
    pc[c] = "idle" /\ last[c] = "done" => ~Pending(c) /\ cmd[c] # "pending"

(* The fence and the command buffer of an object tell the same story: the  *)
(* buffer is pending exactly while the GPU has it, and a signaled fence    *)
(* never belongs to work the GPU still has.                                *)
FenceAndCmdAgree ==
  \A c \in Cmds :
    /\ cmd[c] = "pending" <=> Pending(c)
    /\ fence[c] = "signaled" => ~Pending(c)
    /\ pc[c] = "wait" => (Pending(c) <=> fence[c] = "unsignaled")

(* vkResetCommandBuffer is not called for a buffer of a pool that was      *)
(* created without ResetCommandBufferBit.                                  *)
ResetOnlyIfAllowed ==
  \A m \in misuse : m.call # "cmd.reset"
=============================================================================
