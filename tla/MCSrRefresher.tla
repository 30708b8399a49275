--------------------------- MODULE MCSrRefresher ---------------------------
(* The small instance of SrRefresher that TLC checks.                      *)
EXTENDS SrRefresher

CONSTANTS a1, w1, w2

MCAskers  == {a1}
MCWorkers == {w1, w2}
=============================================================================
