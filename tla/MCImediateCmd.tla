--------------------------- MODULE MCImediateCmd ---------------------------
(* Three objects: a submit in a submit in a submit.                        *)
EXTENDS ImediateCmd

CONSTANTS c1, c2, c3

TwoCmds == {c1, c2}
ThreeCmds == {c1, c2, c3}
=============================================================================
