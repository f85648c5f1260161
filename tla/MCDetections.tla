---------------------------- MODULE MCDetections ----------------------------
(* Detections for TLC: a grid of four steps, the shipped pair at 1 and 3.   *)
EXTENDS Detections, TLC

CONSTANTS q1, q2

MCDefault == [lo |-> 1, hi |-> 3]
Interchangeable == Permutations(Request)
=============================================================================
