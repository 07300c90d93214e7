---------------------------- MODULE MCInitQueues ----------------------------
(* Devices and requests for TLC. Sparse binding is a flag families have    *)
(* and QueueFlagBit lacks.                                                 *)
EXTENDS InitQueues

Bits == {"graphics", "compute", "transfer"}

Families ==
  [flags : {Bits, {"transfer"}, {"transfer", "sparse"}, {"compute", "transfer"}},
   queueCount : 1..2, present : BOOLEAN]

(* The two default requests, in any number, and one for two bits.          *)
Requests ==
  [flags : {{"graphics"}}, present : {TRUE}, count : 1..2]
    \cup [flags : {{"transfer"}}, present : {FALSE}, count : 1..2]
    \cup [flags : {{"compute", "transfer"}}, present : {FALSE}, count : 0..1]
=============================================================================
