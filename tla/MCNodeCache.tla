----------------------------- MODULE MCNodeCache ----------------------------
\* NodeCache on a small instance: two calls for one node, one for another.
EXTENDS NodeCache, TLC

CONSTANTS c1, c2, c3, n1, n2

MCNodeOf == (c1 :> n1) @@ (c2 :> n1) @@ (c3 :> n2)
=============================================================================
