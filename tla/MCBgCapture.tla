---------------------------- MODULE MCBgCapture ----------------------------
(* Small instances of BgCapture for TLC.                                   *)
EXTENDS BgCapture

CONSTANTS k1, k2, k3

MCTwoSlots == 1..2
MCThreeCaptures == {k1, k2, k3}
MCTwoCaptures == {k1, k2}
=============================================================================
