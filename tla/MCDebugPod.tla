----------------------------- MODULE MCDebugPod -----------------------------
(* Instances of DebugPod for TLC. *)
EXTENDS DebugPodClaim, TLC

CONSTANTS s1, s2, n1, n2, n3, p1, p2

\* One node: every session wants the same pod.
OneName == [n \in Nodes |-> p1]
OneNode == [c \in Sessions |-> n1]

\* Two names; the first and the third node share one, as hashes may collide.
TwoNames == [n \in Nodes |-> IF n = n2 THEN p2 ELSE p1]
TwoNodes == [c \in Sessions |-> IF c = s1 THEN n1 ELSE n2]

\* Sessions for the same node are interchangeable.
SessionSymmetry == Permutations(Sessions)
=============================================================================
