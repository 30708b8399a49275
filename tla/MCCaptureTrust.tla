--------------------------- MODULE MCCaptureTrust ---------------------------
(* A small instance of CaptureTrust for TLC: a pool of two buffers, which only  *)
(* their names tell apart.                                                      *)
EXTENDS CaptureTrust, TLC

CONSTANTS b1, b2

MCTwoBuffers == {b1, b2}
MCSymmetry == Permutations(MCTwoBuffers)
=============================================================================
