------------------------- MODULE MCSwapchainBuilder -------------------------
(***************************************************************************)
(* Three images at most, of which the surface wants two; two Swapchain     *)
(* objects, so that moves have somewhere to go, and two builds.            *)
(***************************************************************************)
EXTENDS SwapchainBuilder

CONSTANTS b1, b2, p1, p2

TwoBuilds == {b1, b2}
TwoPlaces == {p1, p2}
=============================================================================
