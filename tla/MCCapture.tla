----------------------------- MODULE MCCapture ------------------------------
(* Instances of Capture for TLC. *)
EXTENDS Capture, TLC

CONSTANTS n1, n2, p1, p2

\* Nodes are interchangeable: Init singles none out.
NodeSymmetry == Permutations(Nodes)
=============================================================================
