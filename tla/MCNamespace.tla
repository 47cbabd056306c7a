---------------------------- MODULE MCNamespace -----------------------------
(* Instances of Namespace for TLC. *)
EXTENDS Namespace, TLC

\* Callers are interchangeable.
CallerSymmetry == Permutations(Callers)
=============================================================================
