---------------------------- MODULE MCQueuePool ----------------------------
(***************************************************************************)
(* Small pools for TLC: three threads, and as many handles as queues, so   *)
(* that a thread which is granted a queue always has a handle to put it    *)
(* in.                                                                     *)
(***************************************************************************)
EXTENDS QueuePool

CONSTANTS t1, t2, t3, h1, h2, h3, graphics, compute, transfer

ThreeThreads == {t1, t2, t3}

TwoHandles == {h1, h2}
ThreeHandles == {h1, h2, h3}

AllFlags == {graphics, compute, transfer}

Queue(fs, p) == [flags |-> fs, present |-> p]
Ask(fs, p) == [required |-> fs, presentable |-> p]

(* A device's graphics queue, the only one that presents, an asynchronous  *)
(* compute queue and a copy queue.                                         *)
DeviceCaps == <<Queue({graphics, compute}, TRUE),
                Queue({compute, transfer}, FALSE),
                Queue({transfer}, FALSE)>>

TwoQueueCaps == <<Queue({graphics, compute}, TRUE), Queue({transfer}, FALSE)>>

TransferCaps == <<Queue({compute, transfer}, FALSE), Queue({transfer}, FALSE)>>

(* The two requests BackendBuilder makes when nothing else is said.        *)
DefaultRequests == { Ask({graphics}, TRUE), Ask({transfer}, FALSE) }

(* The third shares a bit with each queue and is met by none.              *)
MixedRequests == DefaultRequests \cup { Ask({graphics, transfer}, FALSE) }

(* Every caller wants the same: any queue that transfers.                  *)
OneRequest == { Ask({transfer}, FALSE) }
=============================================================================
