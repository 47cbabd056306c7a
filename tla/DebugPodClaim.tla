--------------------------- MODULE DebugPodClaim ----------------------------
(***************************************************************************)
(* DebugPod implements PodClaim: a session claims the incarnation its      *)
(* handle was built on while the goroutine of startWatcher runs, and has a *)
(* notice coming when its watch still has a terminating event to deliver.  *)
(***************************************************************************)
EXTENDS DebugPod

StateOf(n) ==
  IF pods[n] = NoPod THEN "over"
  ELSE CASE pods[n].phase = "Pending"   -> "starting"
         [] pods[n].phase = "Running"   -> "running"
         [] pods[n].phase \in Terminal  -> "over"

\* The claim of a session, and whether its notice is coming.
ClaimOf(c) == IF watcher[c] = "on" THEN got[c].uid ELSE 0
DueOf(c)   == watcher[c] = "on" /\ TerminationDue(c)

Claims == INSTANCE PodClaim WITH
  Holders <- Sessions,
  NameFor <- NameOf,
  age     <- lastUid,
  state   <- [n \in Names |-> StateOf(n)],
  claim   <- [c \in Sessions |-> ClaimOf(c)],
  due     <- [c \in Sessions |-> DueOf(c)]

\* Every handle is a claim that is honoured: the abstract steps are the only
\* ones sessions, cleanups, the kubelet and faults can make together
\* (lifecycle.go:220).
ClaimSafe == Claims!Spec
=============================================================================
