--------------------------- MODULE CaptureProofs ----------------------------
(***************************************************************************)
(* Proofs about Capture, for any nodes and process numbers and every bound *)
(* of incarnations, restarts and faults.                                   *)
(***************************************************************************)
EXTENDS Capture, TLAPS

USE DEF OK, User, Cluster, Node, Internal, Sigint

-----------------------------------------------------------------------------
(* Types.  A stream uses the node and the process number that the main     *)
(* goroutine has found, so TypeOK needs to know that it has found them.    *)

Phases == {"open", "run", "join", "close"}

Placed ==
  /\ pc \in {"ensure", "target", "watch", "resolve"} \cup Phases => node \in Nodes
  /\ pc \in {"watch", "resolve"} \cup Phases => initial # NoPod
  /\ pc \in Phases => pid \in PIDs
  /\ \A s \in Streams : stream[s] # "off" =>
       node \in Nodes /\ pid \in PIDs /\ pc \in Phases \cup {"done"}

TypeInv == TypeOK /\ Placed

\* TypeOK by groups of variables: a step leaves most groups alone.
Results ==
  [code: Codes, why: {"", "not found", "not scheduled", "not Running", "ambiguous",
                      "no container", "api error", "ensure", "open file", "stream",
                      "context canceled"}]

WorldTyped ==
  /\ target \in Pod \cup {NoPod}
  /\ lastUid \in 0 .. MaxUid /\ born \in 0 .. MaxInst
  /\ procs \in [Nodes -> [PIDs -> Owner]]
  /\ debug \in {"none", "up", "down"}

MainTyped ==
  /\ pc \in {"locate", "ensure", "target", "watch", "resolve", "open", "run", "join",
             "close", "done"}
  /\ result \in Results
  /\ node \in Nodes \cup {NoNode} /\ initial \in Pod \cup {NoPod}
  /\ pid \in PIDs \cup {NoPID} /\ file \in {"untouched", "open", "closed"}

ControlTyped ==
  /\ faults \in 0 .. MaxFaults
  /\ interrupted \in BOOLEAN /\ cancelled \in BOOLEAN

WatchTyped ==
  /\ events \in Seq(Event)
  /\ targetCh \in {"off", "open", "closed"} /\ handleCh \in {"off", "open", "closed"}

GroupTyped ==
  /\ fan \in {"off", "on", "done"}
  /\ stream \in [Streams -> {"off", "start", "run", "returned", "ended"}]
  /\ net \in [Streams -> Nat] /\ out \in [Streams -> Outcomes]
  /\ gerr \in [out: Outcomes, code: Codes]

LEMMA TypeParts ==
  TypeOK <=> WorldTyped /\ MainTyped /\ ControlTyped /\ WatchTyped /\ GroupTyped
BY DEF TypeOK, WorldTyped, MainTyped, ControlTyped, WatchTyped, GroupTyped, Results

LEMMA TypePartsNext ==
  ASSUME WorldTyped', MainTyped', ControlTyped', WatchTyped', GroupTyped'
  PROVE  TypeOK'
BY DEF TypeOK, WorldTyped, MainTyped, ControlTyped, WatchTyped, GroupTyped, Results

LEMMA Frames ==
  ASSUME TypeOK
  PROVE  /\ UNCHANGED world => WorldTyped'
         /\ UNCHANGED <<faults, interrupted, cancelled>> => ControlTyped'
         /\ UNCHANGED <<watch, handleCh>> => WatchTyped'
         /\ UNCHANGED group => GroupTyped'
         /\ UNCHANGED <<pc, result, setup>> => MainTyped'
<1>1. WorldTyped /\ MainTyped /\ ControlTyped /\ WatchTyped /\ GroupTyped
  BY TypeParts
<1>2. UNCHANGED world => WorldTyped'
  BY <1>1 DEF WorldTyped, world
<1>3. UNCHANGED <<faults, interrupted, cancelled>> => ControlTyped'
  BY <1>1 DEF ControlTyped
<1>4. UNCHANGED <<watch, handleCh>> => WatchTyped'
  BY <1>1 DEF WatchTyped, watch
<1>5. UNCHANGED group => GroupTyped'
  BY <1>1 DEF GroupTyped, group
<1>6. UNCHANGED <<pc, result, setup>> => MainTyped'
  BY <1>1 DEF MainTyped, setup
<1>. QED
  BY <1>2, <1>3, <1>4, <1>5, <1>6

\* An early return.
LEMMA FailType ==
  ASSUME MainTyped, NEW code \in Codes,
         NEW why \in {"not found", "not scheduled", "not Running", "ambiguous",
                      "no container", "api error", "ensure", "open file", "stream",
                      "context canceled"},
         Fail(code, why), UNCHANGED <<node, initial, pid, file>>
  PROVE  MainTyped' /\ pc' = "done"
BY DEF MainTyped, Fail, Results

LEMMA FailTypeInv ==
  ASSUME TypeInv, pc \notin {"open", "done"}, ControlTyped', WatchTyped',
         MainTyped', pc' = "done", UNCHANGED <<world, setup, group>>
  PROVE  TypeInv'
<1>1. TypeOK'
  BY Frames, TypePartsNext DEF TypeInv
<1>2. Placed'
  BY DEF TypeInv, Placed, Phases, setup, group
<1>. QED
  BY <1>1, <1>2 DEF TypeInv

LEMMA MainTypeInv ==
  ASSUME TypeInv, Main
  PROVE  TypeInv'
<1>. USE DEF TypeInv
<1>0. WorldTyped /\ MainTyped /\ ControlTyped /\ WatchTyped /\ GroupTyped
  BY TypeParts
<1>1. CASE Locate
  <2>1. pc = "locate" /\ UNCHANGED <<world, watch, handleCh, group, faults, interrupted,
                                     cancelled, initial, pid, file>>
    BY <1>1 DEF Locate
  <2>2. \/ \E why \in {"not found", "not scheduled"} : Fail(User, why) /\ node' = node
        \/ /\ pc' = "ensure" /\ node' = target.node /\ result' = result
           /\ target # NoPod /\ target.node # NoNode
    BY <1>1 DEF Locate
  <2>3. CASE \E why \in {"not found", "not scheduled"} : Fail(User, why) /\ node' = node
    <3>1. MainTyped' /\ pc' = "done"
      BY <1>0, <2>1, <2>3, FailType DEF Codes
    <3>. QED
      BY <2>1, <2>3, <3>1, Frames, FailTypeInv DEF setup
  <2>4. CASE /\ pc' = "ensure" /\ node' = target.node /\ result' = result
             /\ target # NoPod /\ target.node # NoNode
    <3>1. node' \in Nodes
      BY <1>0, <2>4 DEF WorldTyped, Pod
    <3>2. MainTyped'
      BY <1>0, <2>1, <2>4, <3>1 DEF MainTyped
    <3>3. Placed'
      BY <2>1, <2>4, <3>1 DEF Placed, Phases, group
    <3>. QED
      BY <2>1, <3>2, <3>3, Frames, TypePartsNext
  <2>. QED
    BY <2>2, <2>3, <2>4
<1>2. CASE Ensure
  <2>1. /\ pc = "ensure" /\ pc' = "target" /\ debug' = "up" /\ handleCh' = "open"
        /\ UNCHANGED <<target, lastUid, born, procs, faults, result, setup, watch,
                       interrupted, cancelled, group>>
    BY <1>2 DEF Ensure
  <2>2. WorldTyped' /\ WatchTyped' /\ MainTyped'
    BY <1>0, <2>1 DEF WorldTyped, WatchTyped, MainTyped, setup, watch
  <2>3. Placed'
    BY <2>1 DEF Placed, Phases, setup, group
  <2>. QED
    BY <2>1, <2>2, <2>3, Frames, TypePartsNext
<1>3. CASE GetTarget
  <2>1. pc = "target" /\ UNCHANGED <<world, watch, handleCh, group, faults, interrupted,
                                     cancelled, node, pid, file>>
    BY <1>3 DEF GetTarget
  <2>2. \/ \E why \in {"not found", "not Running"} : Fail(User, why) /\ initial' = initial
        \/ pc' = "watch" /\ initial' = target /\ result' = result /\ target # NoPod
    BY <1>3 DEF GetTarget
  <2>3. CASE \E why \in {"not found", "not Running"} : Fail(User, why) /\ initial' = initial
    <3>1. MainTyped' /\ pc' = "done"
      BY <1>0, <2>1, <2>3, FailType DEF Codes
    <3>. QED
      BY <2>1, <2>3, <3>1, Frames, FailTypeInv DEF setup
  <2>4. CASE pc' = "watch" /\ initial' = target /\ result' = result /\ target # NoPod
    <3>1. MainTyped'
      BY <1>0, <2>1, <2>4 DEF MainTyped, WorldTyped
    <3>2. Placed'
      BY <2>1, <2>4 DEF Placed, Phases, group
    <3>. QED
      BY <2>1, <3>1, <3>2, Frames, TypePartsNext
  <2>. QED
    BY <2>2, <2>3, <2>4
<1>4. CASE WatchTarget
  <2>1. /\ pc = "watch" /\ targetCh' = "open"
        /\ UNCHANGED <<world, faults, setup, events, handleCh, interrupted, cancelled,
                       group>>
    BY <1>4 DEF WatchTarget
  <2>2. WatchTyped'
    BY <1>0, <2>1 DEF WatchTyped
  <2>3. CASE \E code \in {User, Node}, why \in {"ambiguous", "no container"} : Fail(code, why)
    <3>0. PICK code \in {User, Node}, why \in {"ambiguous", "no container"} : Fail(code, why)
      BY <2>3
    <3>a. MainTyped /\ code \in Codes /\ UNCHANGED <<node, initial, pid, file>>
      BY <1>0, <2>1 DEF Codes, setup
    <3>1. MainTyped' /\ pc' = "done"
      BY <3>0, <3>a, FailType
    <3>. QED
      BY <2>1, <2>2, <3>1, Frames, FailTypeInv
  <2>4. CASE pc' = "resolve" /\ result' = result
    <3>1. MainTyped'
      BY <1>0, <2>1, <2>4 DEF MainTyped, setup
    <3>2. \A t \in Streams : stream[t] = "off"
      BY <1>0, <2>1 DEF Placed, Phases
    <3>3. Placed'
      BY <2>1, <2>4, <3>2 DEF Placed, Phases, setup, group
    <3>. QED
      BY <2>1, <2>2, <3>1, <3>3, Frames, TypePartsNext
  <2>. QED
    BY <1>4, <2>3, <2>4 DEF WatchTarget
<1>5. CASE Resolve
  <2>1. pc = "resolve" /\ UNCHANGED <<world, watch, handleCh, group, faults, interrupted,
                                      cancelled, node, initial, file>>
    BY <1>5 DEF Resolve
  <2>2. CASE debug = "up" /\ Workload # {}
    <3>1. pid' \in PIDs /\ pc' = "open" /\ result' = result
      BY <1>5, <2>2 DEF Resolve, Workload
    <3>2. MainTyped'
      BY <1>0, <2>1, <3>1 DEF MainTyped
    <3>3. Placed'
      BY <2>1, <3>1 DEF Placed, Phases, group
    <3>. QED
      BY <2>1, <3>2, <3>3, Frames, TypePartsNext
  <2>3. CASE ~(debug = "up" /\ Workload # {})
    <3>1. (\E code \in {Node, Cluster} : Fail(code, "no container")) /\ pid' = pid
      BY <1>5, <2>3 DEF Resolve
    <3>2. MainTyped' /\ pc' = "done"
      <4>1. PICK code \in {Node, Cluster} : Fail(code, "no container")
        BY <3>1
      <4>2. code \in Codes
        BY DEF Codes
      <4>. QED
        BY <1>0, <2>1, <3>1, <4>1, <4>2, FailType
    <3>. QED
      BY <2>1, <3>1, <3>2, Frames, FailTypeInv DEF setup
  <2>. QED
    BY <2>2, <2>3
<1>6. CASE OpenFile
  <2>1. /\ pc = "open" /\ file' = "open" /\ fan' = "on" /\ pc' = "run"
        /\ \E wanted \in {{"raw"}, Streams} :
             stream' = [t \in Streams |-> IF t \in wanted THEN "start" ELSE "off"]
        /\ UNCHANGED <<world, faults, result, node, initial, pid, watch, handleCh,
                       interrupted, cancelled, net, out, gerr>>
    BY <1>6 DEF OpenFile
  <2>2. MainTyped' /\ GroupTyped'
    BY <1>0, <2>1 DEF MainTyped, GroupTyped
  <2>3. Placed'
    BY <2>1 DEF Placed, Phases
  <2>. QED
    BY <2>1, <2>2, <2>3, Frames, TypePartsNext
<1>7. CASE CallInterrupted
  <2>1. /\ pc \notin {"open", "done"}
        /\ UNCHANGED <<world, faults, setup, watch, handleCh, interrupted, cancelled, group>>
        /\ Fail(Sigint, "context canceled") \/ Fail(Cluster, "ensure")
    BY <1>7 DEF CallInterrupted
  <2>2. MainTyped' /\ pc' = "done"
    <3>1. Sigint \in Codes /\ Cluster \in Codes
      BY DEF Codes
    <3>. QED
      BY <1>0, <2>1, <3>1, FailType DEF setup
  <2>. QED
    BY <2>1, <2>2, Frames, FailTypeInv
<1>8. CASE Wait
  <2>1. /\ pc = "run" /\ pc' = "join" /\ cancelled' = TRUE
        /\ result' \in Results
        /\ UNCHANGED <<world, faults, setup, watch, handleCh, interrupted, group>>
    <3>1. gerr.code \in Codes /\ OK \in Codes
      BY <1>0 DEF GroupTyped, Codes
    <3>2. result' = [code |-> OK, why |-> ""] \/ result' = [code |-> gerr.code, why |-> "stream"]
      BY <1>8 DEF Wait
    <3>3. \A code \in Codes : /\ [code |-> code, why |-> ""] \in Results
                             /\ [code |-> code, why |-> "stream"] \in Results
      BY DEF Results
    <3>4. result' \in Results
      BY <3>1, <3>2, <3>3
    <3>. QED
      BY <1>8, <3>4 DEF Wait
  <2>2. MainTyped' /\ ControlTyped'
    BY <1>0, <2>1 DEF MainTyped, ControlTyped, setup
  <2>3. Placed'
    BY <2>1 DEF Placed, Phases, setup, group
  <2>. QED
    BY <2>1, <2>2, <2>3, Frames, TypePartsNext
<1>9. CASE Join \/ CloseFile
  <2>1. /\ pc \in Phases /\ pc' \in {"close", "done"} /\ file' \in {file, "closed"}
        /\ UNCHANGED <<world, faults, result, node, initial, pid, watch, handleCh,
                       interrupted, cancelled, group>>
    BY <1>9 DEF Join, CloseFile, Phases, setup
  <2>2. MainTyped'
    BY <1>0, <2>1 DEF MainTyped
  <2>3. Placed'
    BY <2>1 DEF Placed, Phases, group
  <2>. QED
    BY <2>1, <2>2, <2>3, Frames, TypePartsNext
<1>. QED
  BY <1>1, <1>2, <1>3, <1>4, <1>5, <1>6, <1>7, <1>8, <1>9 DEF Main

\* A step that leaves the main goroutine where it is.
LEMMA BesideTypeInv ==
  ASSUME TypeInv, UNCHANGED <<pc, result, setup>>, \A s \in Streams :
           stream'[s] # "off" => stream[s] # "off",
         WorldTyped', ControlTyped', WatchTyped', GroupTyped'
  PROVE  TypeInv'
<1>1. TypeOK'
  BY Frames, TypePartsNext DEF TypeInv
<1>2. Placed'
  BY DEF TypeInv, Placed, setup
<1>. QED
  BY <1>1, <1>2 DEF TypeInv

LEMMA FaultType ==
  ASSUME ControlTyped, Fault
  PROVE  faults' \in 0 .. MaxFaults
BY BoundsAssumption DEF ControlTyped, Fault

LEMMA FaultTypeInv ==
  ASSUME TypeInv, CallFails \/ Interrupt \/ WatchEnds
  PROVE  TypeInv'
<1>. USE DEF TypeInv
<1>0. WorldTyped /\ MainTyped /\ ControlTyped /\ WatchTyped /\ GroupTyped
  BY TypeParts
<1>1. CASE CallFails
  <2>1. /\ Fault /\ UNCHANGED <<world, setup, watch, handleCh, interrupted, cancelled, group>>
        /\ pc \in {"locate", "target", "watch", "ensure", "resolve", "open"}
        /\ \E code \in {User, Cluster, Node, Internal},
              why \in {"api error", "ensure", "stream", "open file"} : Fail(code, why)
    BY <1>1 DEF CallFails
  <2>2. {User, Cluster, Node, Internal} \subseteq Codes
    BY DEF Codes
  <2>3. MainTyped' /\ pc' = "done"
    BY <1>0, <2>1, <2>2, FailType DEF setup
  <2>4. ControlTyped'
    BY <1>0, <2>1, FaultType DEF ControlTyped
  <2>5. TypeOK'
    BY <2>1, <2>3, <2>4, Frames, TypePartsNext
  <2>6. Placed'
    BY <2>1, <2>3 DEF Placed, Phases, setup, group
  <2>. QED
    BY <2>5, <2>6
<1>2. CASE Interrupt
  <2>1. Fault /\ interrupted' = TRUE
        /\ UNCHANGED <<world, pc, result, setup, watch, handleCh, cancelled, group>>
    BY <1>2 DEF Interrupt
  <2>2. ControlTyped'
    BY <1>0, <2>1, FaultType DEF ControlTyped
  <2>. QED
    BY <2>1, <2>2, Frames, BesideTypeInv DEF group
<1>3. CASE WatchEnds
  <2>1. /\ Fault /\ UNCHANGED <<world, pc, result, setup, interrupted, cancelled, group>>
        /\ \/ targetCh' = "closed" /\ events' = << >> /\ handleCh' = handleCh
           \/ handleCh' = "closed" /\ events' = events /\ targetCh' = targetCh
    BY <1>3 DEF WatchEnds, watch
  <2>2. ControlTyped'
    BY <1>0, <2>1, FaultType DEF ControlTyped
  <2>3. WatchTyped'
    <3>1. << >> \in Seq(Event)
      OBVIOUS
    <3>. QED
      BY <1>0, <2>1, <3>1 DEF WatchTyped
  <2>. QED
    BY <2>1, <2>2, <2>3, Frames, BesideTypeInv DEF group
<1>. QED
  BY <1>1, <1>2, <1>3

LEMMA WatcherTypeInv ==
  ASSUME TypeInv, TargetWatcher \/ HandleWatcher \/ FanOut
  PROVE  TypeInv'
<1>. USE DEF TypeInv
<1>0. WorldTyped /\ MainTyped /\ ControlTyped /\ WatchTyped /\ GroupTyped
  BY TypeParts
<1>1. CASE TargetWatcher
  <2>1. UNCHANGED <<world, faults, pc, result, setup, handleCh, interrupted, cancelled, group>>
    BY <1>1 DEF TargetWatcher
  <2>2. \/ targetCh' = "closed" /\ events' = << >>
        \/ targetCh' = targetCh /\ events # << >> /\ events' = Tail(events)
    BY <1>1 DEF TargetWatcher
  <2>3. << >> \in Seq(Event) /\ (events # << >> => Tail(events) \in Seq(Event))
    BY <1>0 DEF WatchTyped
  <2>4. WatchTyped'
    BY <1>0, <2>1, <2>2, <2>3 DEF WatchTyped
  <2>. QED
    BY <2>1, <2>4, Frames, BesideTypeInv DEF group
<1>2. CASE HandleWatcher
  <2>1. /\ handleCh' = "closed"
        /\ UNCHANGED <<world, faults, pc, result, setup, watch, interrupted, cancelled, group>>
    BY <1>2 DEF HandleWatcher
  <2>2. WatchTyped'
    BY <1>0, <2>1 DEF WatchTyped, watch
  <2>. QED
    BY <2>1, <2>2, Frames, BesideTypeInv DEF group
<1>3. CASE FanOut
  <2>1. /\ fan' = "done" /\ cancelled' \in {cancelled, TRUE}
        /\ UNCHANGED <<world, faults, pc, result, setup, watch, handleCh, interrupted,
                       stream, net, out, gerr>>
    BY <1>3 DEF FanOut
  <2>2. ControlTyped' /\ GroupTyped'
    BY <1>0, <2>1 DEF ControlTyped, GroupTyped
  <2>. QED
    BY <2>1, <2>2, Frames, BesideTypeInv
<1>. QED
  BY <1>1, <1>2, <1>3

\* A stream that leaves ExecStream's connection.
LEMMA ReturnsType ==
  ASSUME GroupTyped, NEW s \in Streams, stream[s] # "off", NEW o \in Outcomes, Returns(s, o),
         UNCHANGED <<fan, gerr>>
  PROVE  GroupTyped' /\ \A t \in Streams : stream'[t] # "off" => stream[t] # "off"
BY DEF GroupTyped, Returns

LEMMA StreamTypeInv ==
  ASSUME TypeInv, NEW s \in Streams, Running(s) \/ RemoteEnds(s) \/ StreamBreaks(s)
  PROVE  TypeInv'
<1>. USE DEF TypeInv
<1>0. WorldTyped /\ MainTyped /\ ControlTyped /\ WatchTyped /\ GroupTyped
  BY TypeParts
<1>. DEFINE Kept == \A t \in Streams : stream'[t] # "off" => stream[t] # "off"
<1>1. CASE StreamStarts(s)
  <2>1. /\ stream[s] = "start"
        /\ UNCHANGED <<world, faults, pc, result, setup, watch, handleCh, interrupted,
                       cancelled, fan, gerr>>
    BY <1>1 DEF StreamStarts
  <2>2. procs[node][pid].uid \in Nat
    <3>1. node \in Nodes /\ pid \in PIDs
      BY <2>1 DEF Placed
    <3>2. procs[node][pid] \in Owner
      BY <1>0, <3>1 DEF WorldTyped
    <3>. QED
      BY <3>2 DEF Owner
  <2>3. GroupTyped' /\ Kept
    <3>1. CASE Returns(s, "status")
      BY <1>0, <2>1, <3>1, ReturnsType DEF Outcomes
    <3>2. CASE /\ stream' = [stream EXCEPT ![s] = "run"] /\ out' = out
               /\ net' = [net EXCEPT ![s] = procs[node][pid].uid]
      BY <1>0, <2>1, <2>2, <3>2 DEF GroupTyped
    <3>. QED
      BY <1>1, <3>1, <3>2 DEF StreamStarts
  <2>. QED
    BY <2>1, <2>3, Frames, BesideTypeInv
<1>2. CASE RemoteEnds(s) \/ StreamCancelled(s)
  <2>1. /\ stream[s] \in {"start", "run"} /\ \E o \in Outcomes : Returns(s, o)
        /\ UNCHANGED <<world, faults, pc, result, setup, watch, handleCh, interrupted,
                       cancelled, fan, gerr>>
    BY <1>2 DEF RemoteEnds, StreamCancelled, Outcomes
  <2>2. GroupTyped' /\ Kept
    BY <1>0, <2>1, ReturnsType
  <2>. QED
    BY <2>1, <2>2, Frames, BesideTypeInv
<1>3. CASE StreamBreaks(s)
  <2>1. /\ stream[s] \in {"start", "run"} /\ Returns(s, "broken")
        /\ faults' = faults \/ Fault
        /\ UNCHANGED <<world, pc, result, setup, watch, handleCh, interrupted, cancelled,
                       fan, gerr>>
    BY <1>3 DEF StreamBreaks
  <2>2. GroupTyped' /\ Kept
    BY <1>0, <2>1, ReturnsType DEF Outcomes
  <2>3. ControlTyped'
    BY <1>0, <2>1, FaultType DEF ControlTyped
  <2>. QED
    BY <2>1, <2>2, <2>3, Frames, BesideTypeInv
<1>4. CASE StreamReports(s)
  <2>1. /\ stream[s] = "returned" /\ stream' = [stream EXCEPT ![s] = "ended"]
        /\ gerr' = gerr \/ gerr' = Wrapped(out[s])
        /\ UNCHANGED <<world, faults, pc, result, setup, watch, handleCh, interrupted,
                       cancelled, fan, net, out>>
    BY <1>4 DEF StreamReports
  <2>2. Wrapped(out[s]) \in [out: Outcomes, code: Codes]
    BY <1>0 DEF GroupTyped, Wrapped, Codes
  <2>3. GroupTyped' /\ Kept
    BY <1>0, <2>1, <2>2 DEF GroupTyped
  <2>. QED
    BY <2>1, <2>3, Frames, BesideTypeInv
<1>. QED
  BY <1>1, <1>2, <1>3, <1>4 DEF Running

LEMMA WritesType ==
  ASSUME WorldTyped, WatchTyped, NEW type \in {"ADDED", "MODIFIED", "DELETED"}, NEW p \in Pod,
         Writes(type, p)
  PROVE  target' \in Pod \cup {NoPod} /\ events' \in Seq(Event)
<1>1. [type |-> type, pod |-> p] \in Event
  BY DEF Event
<1>. QED
  BY <1>1 DEF Writes, WorldTyped, WatchTyped

LEMMA WorldTypeInv ==
  ASSUME TypeInv, WorldStep
  PROVE  TypeInv'
<1>. USE DEF TypeInv
<1>0. WorldTyped /\ MainTyped /\ ControlTyped /\ WatchTyped /\ GroupTyped
  BY TypeParts
<1>1. UNCHANGED <<faults, pc, result, setup, targetCh, handleCh, interrupted, cancelled,
                  group>>
  BY DEF WorldStep
<1>2. SUFFICES WorldTyped' /\ events' \in Seq(Event)
  <2>1. events' \in Seq(Event) => WatchTyped'
    BY <1>0, <1>1 DEF WatchTyped
  <2>. QED
    BY <1>1, <2>1, Frames, BesideTypeInv DEF group
<1>3. target # NoPod => target \in Pod
  BY <1>0 DEF WorldTyped
<1>4. CASE CreateTarget
  <2>1. PICK n \in Nodes \cup {NoNode} :
          Writes("ADDED", [uid |-> lastUid + 1, node |-> n, phase |-> "Pending", inst |-> 0])
    BY <1>4 DEF CreateTarget
  <2>2. lastUid \in 0 .. MaxUid /\ lastUid < MaxUid /\ lastUid' = lastUid + 1 /\ born' = 0
        /\ UNCHANGED <<procs, debug>>
    BY <1>0, <1>4 DEF CreateTarget, WorldTyped
  <2>3. lastUid + 1 \in Nat /\ lastUid' \in 0 .. MaxUid /\ born' \in 0 .. MaxInst
    BY <2>2, BoundsAssumption
  <2>4. [uid |-> lastUid + 1, node |-> n, phase |-> "Pending", inst |-> 0] \in Pod
    BY <2>3 DEF Pod
  <2>. QED
    BY <1>0, <2>1, <2>2, <2>3, <2>4, WritesType DEF WorldTyped
<1>5. CASE Schedule \/ ReportStatus \/ TargetEnds \/ TouchTarget \/ DeleteTarget
  <2>1. UNCHANGED <<lastUid, born, procs, debug>> /\ target # NoPod
    BY <1>5 DEF Schedule, ReportStatus, TargetEnds, TouchTarget, DeleteTarget
  <2>2. born \in Nat
    BY <1>0, BoundsAssumption DEF WorldTyped
  <2>3. \E type \in {"ADDED", "MODIFIED", "DELETED"}, p \in Pod : Writes(type, p)
    <3>1. CASE Schedule
      <4>1. PICK n \in Nodes : Writes("MODIFIED", [target EXCEPT !.node = n])
        BY <3>1 DEF Schedule
      <4>2. [target EXCEPT !.node = n] \in Pod
        BY <1>3, <2>1 DEF Pod
      <4>. QED
        BY <4>1, <4>2
    <3>2. CASE ReportStatus
      <4>1. Writes("MODIFIED", [target EXCEPT !.phase = "Running", !.inst = born])
        BY <3>2 DEF ReportStatus
      <4>2. [target EXCEPT !.phase = "Running", !.inst = born] \in Pod
        BY <1>3, <2>1, <2>2 DEF Pod
      <4>. QED
        BY <4>1, <4>2
    <3>3. CASE TargetEnds
      <4>1. Writes("MODIFIED", [target EXCEPT !.phase = "Ended"])
        BY <3>3 DEF TargetEnds
      <4>2. [target EXCEPT !.phase = "Ended"] \in Pod
        BY <1>3, <2>1 DEF Pod
      <4>. QED
        BY <4>1, <4>2
    <3>4. CASE TouchTarget \/ DeleteTarget
      BY <1>3, <2>1, <3>4 DEF TouchTarget, DeleteTarget
    <3>. QED
      BY <1>5, <3>1, <3>2, <3>3, <3>4
  <2>. QED
    BY <1>0, <2>1, <2>3, WritesType DEF WorldTyped
<1>6. CASE StartContainer
  <2>1. PICK p \in PIDs :
          procs' = [procs EXCEPT ![target.node][p] = [uid |-> target.uid, inst |-> born + 1]]
    BY <1>6 DEF StartContainer
  <2>2. /\ target # NoPod /\ target.node # NoNode /\ born < MaxInst /\ born' = born + 1
        /\ UNCHANGED <<target, events, lastUid, debug>>
    BY <1>6 DEF StartContainer
  <2>3. target.node \in Nodes /\ target.uid \in Nat
    BY <1>3, <2>2 DEF Pod
  <2>4. born' \in 0 .. MaxInst /\ born + 1 \in Nat
    BY <1>0, <2>2, BoundsAssumption DEF WorldTyped
  <2>5. procs' \in [Nodes -> [PIDs -> Owner]]
    <3>1. [uid |-> target.uid, inst |-> born + 1] \in Owner
      BY <2>3, <2>4 DEF Owner
    <3>. QED
      BY <1>0, <2>1, <2>3, <3>1 DEF WorldTyped
  <2>. QED
    BY <1>0, <2>2, <2>4, <2>5 DEF WorldTyped, WatchTyped
<1>7. CASE ProcessChange
  <2>1. PICK n \in Nodes, p \in PIDs :
          procs' = [procs EXCEPT ![n][p] = IF @ = Free THEN Other ELSE Free]
    BY <1>7 DEF ProcessChange
  <2>2. Free \in Owner /\ Other \in Owner
    BY DEF Free, Other, Owner
  <2>3. procs' \in [Nodes -> [PIDs -> Owner]]
    BY <1>0, <2>1, <2>2 DEF WorldTyped
  <2>. QED
    BY <1>0, <1>7, <2>3 DEF ProcessChange, WorldTyped, WatchTyped
<1>8. CASE DebugPodEnds
  BY <1>0, <1>8 DEF DebugPodEnds, WorldTyped, WatchTyped
<1>. QED
  BY <1>4, <1>5, <1>6, <1>7, <1>8 DEF WorldStep

LEMMA TypeInvStep ==
  ASSUME TypeInv, [Next]_vars
  PROVE  TypeInv'
<1>1. CASE UNCHANGED vars
  BY <1>1, Frames, BesideTypeInv DEF vars, world, setup, watch, group, TypeInv
<1>2. CASE Next
  BY <1>1, <1>2, MainTypeInv, FaultTypeInv, WatcherTypeInv, StreamTypeInv, WorldTypeInv
     DEF Next, Done
<1>. QED
  BY <1>1, <1>2

LEMMA InitTypeInv == Init => TypeInv
<1>. SUFFICES ASSUME Init PROVE TypeInv
  OBVIOUS
<1>1. WorldTyped
  <2>0. debug \in {"none", "up", "down"}
    BY DEF Init
  <2>1. CASE /\ target = NoPod /\ lastUid = 0 /\ born = 0
             /\ procs = [n \in Nodes |-> [p \in PIDs |-> Free]]
    BY <2>0, <2>1, BoundsAssumption DEF WorldTyped, Free, Owner
  <2>2. ASSUME NEW n \in Nodes, NEW p \in PIDs,
               target = [uid |-> 1, node |-> n, phase |-> "Running", inst |-> 1],
               lastUid = 1, born = 1,
               procs = [m \in Nodes |-> [q \in PIDs |->
                          IF m = n /\ q = p THEN [uid |-> 1, inst |-> 1] ELSE Free]]
        PROVE  WorldTyped
    BY <2>0, <2>2, BoundsAssumption DEF WorldTyped, Free, Owner, Pod
  <2>. QED
    BY <2>1, <2>2 DEF Init
<1>2. MainTyped
  <2>1. OK \in Codes
    BY DEF Codes
  <2>2. [code |-> OK, why |-> ""] \in Results
    BY <2>1 DEF Results
  <2>3. /\ pc = "locate" /\ result = [code |-> OK, why |-> ""] /\ node = NoNode
        /\ initial = NoPod /\ pid = NoPID /\ file = "untouched"
    BY DEF Init
  <2>. QED
    BY <2>2, <2>3 DEF MainTyped
<1>3. ControlTyped
  <2>1. faults = 0 /\ interrupted = FALSE /\ cancelled = FALSE
    BY DEF Init
  <2>2. faults \in 0 .. MaxFaults
    BY <2>1, BoundsAssumption
  <2>3. interrupted \in BOOLEAN /\ cancelled \in BOOLEAN
    BY <2>1
  <2>. QED
    BY <2>2, <2>3 DEF ControlTyped
<1>4. WatchTyped
  <2>1. events = << >> /\ targetCh = "off" /\ handleCh = "off"
    BY DEF Init
  <2>2. << >> \in Seq(Event)
    OBVIOUS
  <2>. QED
    BY <2>1, <2>2 DEF WatchTyped
<1>5. GroupTyped
  <2>1. /\ fan = "off" /\ stream = [s \in Streams |-> "off"]
        /\ net = [s \in Streams |-> 0] /\ out = [s \in Streams |-> "none"]
        /\ gerr = [out |-> "none", code |-> OK]
    BY DEF Init, NoErr
  <2>2. "none" \in Outcomes /\ OK \in Codes
    BY DEF Outcomes, Codes
  <2>. QED
    BY <2>1, <2>2 DEF GroupTyped
<1>6. Placed
  BY DEF Init, Placed, Phases
<1>. QED
  BY <1>1, <1>2, <1>3, <1>4, <1>5, <1>6, TypeParts DEF TypeInv

\* The invariant the other proofs start from.
LEMMA TypeInvariant == Spec => []TypeInv
BY InitTypeInv, TypeInvStep, PTL DEF Spec

\* Type correctness of the model of capture.go, podwatch.go and observe.go: in
\* particular no stream starts before its node and process number are known.
THEOREM CaptureTypeCorrect == Spec => []TypeOK
BY TypeInvariant, PTL DEF TypeInv

-----------------------------------------------------------------------------
(* The file.  Once g.Wait has returned no stream runs and none can start,  *)
(* and once <-fanDone has returned the fan-out is over.                    *)

StreamsOver == \A s \in Streams : stream[s] \in {"off", "ended"}

FileInv ==
  /\ pc \in {"join", "close"} => StreamsOver
  /\ pc = "close" => fan = "done"
  /\ file = "closed" => pc = "done" /\ StreamsOver /\ fan = "done"

LEMMA FileStep ==
  ASSUME TypeInv, FileInv, [Next]_vars
  PROVE  FileInv'
<1>. USE DEF FileInv
<1>0. stream \in [Streams -> {"off", "start", "run", "returned", "ended"}]
  BY TypeParts DEF TypeInv, GroupTyped
<1>1. CASE Locate \/ Ensure \/ GetTarget \/ WatchTarget \/ Resolve \/ CallInterrupted
  <2>1. /\ pc \notin {"run", "join", "close", "done"} /\ pc' \notin {"join", "close"}
        /\ file' = file
    BY <1>1 DEF Locate, Ensure, GetTarget, WatchTarget, Resolve, CallInterrupted, Fail, setup
  <2>. QED
    BY <2>1
<1>2. CASE OpenFile
  BY <1>2 DEF OpenFile
<1>3. CASE Wait
  <2>1. pc = "run" /\ pc' = "join" /\ StreamsOver /\ file' = file /\ stream' = stream
    BY <1>3 DEF Wait, StreamsOver, setup, group
  <2>. QED
    BY <2>1 DEF StreamsOver
<1>4. CASE Join
  <2>1. /\ pc = "join" /\ pc' = "close" /\ fan = "done" /\ fan' = fan
        /\ file' = file /\ stream' = stream
    BY <1>4 DEF Join, setup, group
  <2>. QED
    BY <2>1 DEF StreamsOver
<1>5. CASE CloseFile
  <2>1. pc = "close" /\ pc' = "done" /\ fan' = fan /\ stream' = stream
    BY <1>5 DEF CloseFile, group
  <2>. QED
    BY <2>1 DEF StreamsOver
<1>6. CASE CallFails
  <2>1. /\ pc \in {"locate", "target", "watch", "ensure", "resolve", "open"}
        /\ pc' = "done" /\ file' = file
    BY <1>6 DEF CallFails, Fail, setup
  <2>. QED
    BY <2>1
<1>7. CASE FanOut
  <2>1. fan' = "done" /\ UNCHANGED <<pc, file, stream>>
    BY <1>7 DEF FanOut, setup
  <2>. QED
    BY <2>1 DEF StreamsOver
<1>8. ASSUME NEW s \in Streams, Running(s) \/ RemoteEnds(s) \/ StreamBreaks(s)
      PROVE  FileInv'
  <2>1. /\ stream[s] \in {"start", "run", "returned"} /\ UNCHANGED <<pc, file, fan>>
    BY <1>8 DEF Running, StreamStarts, StreamCancelled, StreamReports, RemoteEnds,
                StreamBreaks, setup
  <2>2. ~StreamsOver
    BY <2>1 DEF StreamsOver
  <2>. QED
    BY <2>1, <2>2
<1>9. CASE UNCHANGED <<pc, file, stream, fan>>
  BY <1>9 DEF StreamsOver
<1>10. CASE Interrupt \/ WatchEnds \/ TargetWatcher \/ HandleWatcher \/ WorldStep
            \/ UNCHANGED vars
  BY <1>9, <1>10 DEF Interrupt, WatchEnds, TargetWatcher, HandleWatcher, WorldStep, vars,
                     setup, group
<1>. QED
  BY <1>1, <1>2, <1>3, <1>4, <1>5, <1>6, <1>7, <1>8, <1>10 DEF Next, Main, Done

LEMMA FileInvariant == Spec => []FileInv
<1>1. Init => FileInv
  BY DEF Init, FileInv
<1>2. TypeInv /\ FileInv /\ [Next]_vars => FileInv'
  BY FileStep
<1>. QED
  BY <1>1, <1>2, TypeInvariant, PTL DEF Spec

\* capture.go:89-114: whatever ends first, the pcap file is closed only when
\* both streams and the fan-out have ended.
THEOREM FileIsSettled == Spec => []FileSettled
<1>1. FileInv => FileSettled
  BY DEF FileInv, FileSettled, StreamsOver
<1>. QED
  BY <1>1, FileInvariant, PTL

-----------------------------------------------------------------------------
(* The node.  The processes of an incarnation all run on one node, which   *)
(* is what makes a process found on the debug pod's node a proof that the  *)
(* target is there.                                                        *)

RunsOn(n, uid) == \A m \in Nodes, p \in PIDs : procs[m][p].uid = uid => m = n

Known(pod) == pod.uid >= 1 /\ pod.uid <= lastUid /\ RunsOn(pod.node, pod.uid)

NodeInv ==
  /\ \A m \in Nodes, p \in PIDs : procs[m][p].uid <= lastUid
  /\ target # NoPod => Known(target) /\ (target.phase = "Running" => target.node # NoNode)
  /\ initial # NoPod => Known(initial) /\ initial.node # NoNode
  /\ target # NoPod /\ initial # NoPod /\ target.uid = initial.uid =>
       target.node = initial.node
  /\ pid # NoPID => pc \in Phases \cup {"done"} /\ initial.node = node

\* Steps of the command.
LEMMA CommandNode ==
  ASSUME TypeInv, NodeInv, UNCHANGED <<target, lastUid, procs>>,
         Main \/ CallFails \/ Interrupt \/ WatchEnds \/ TargetWatcher \/ HandleWatcher
           \/ FanOut \/ (\E s \in Streams : Running(s) \/ RemoteEnds(s) \/ StreamBreaks(s))
           \/ UNCHANGED vars
  PROVE  NodeInv'
<1>. USE DEF NodeInv, Known, RunsOn
<1>1. CASE UNCHANGED setup /\ (pc' = pc \/ pc' \in Phases \cup {"done"})
  BY <1>1 DEF setup
<1>2. CASE Locate
  <2>1. pc = "locate" /\ UNCHANGED <<initial, pid>>
    BY <1>2 DEF Locate
  <2>2. pid = NoPID
    BY <2>1 DEF Phases
  <2>. QED
    BY <2>1, <2>2
<1>3. CASE GetTarget
  <2>1. /\ pc = "target" /\ UNCHANGED <<node, pid>>
        /\ initial' = initial \/ (initial' = target /\ target # NoPod /\ target.phase = "Running")
    BY <1>3 DEF GetTarget
  <2>2. pid = NoPID
    BY <2>1 DEF Phases
  <2>. QED
    BY <2>1, <2>2
<1>4. CASE Resolve
  <2>1. CASE debug = "up" /\ Workload # {}
    <3>1. pid' \in Workload /\ pc' = "open" /\ UNCHANGED <<node, initial>> /\ pc = "resolve"
      BY <1>4, <2>1 DEF Resolve
    <3>2. initial # NoPod /\ node \in Nodes
      BY <3>1 DEF TypeInv, Placed
    <3>3. pid' \in PIDs /\ procs[node][pid'].uid = initial.uid
      BY <3>1 DEF Workload
    <3>4. initial.node = node
      BY <3>2, <3>3
    <3>. QED
      BY <3>1, <3>4 DEF Phases
  <2>2. CASE ~(debug = "up" /\ Workload # {})
    <3>1. pc' = "done" /\ UNCHANGED setup
      BY <1>4, <2>2 DEF Resolve, Fail, setup
    <3>. QED
      BY <1>1, <3>1
  <2>. QED
    BY <2>1, <2>2
<1>5. CASE Ensure \/ WatchTarget
  <2>1. pc \in {"ensure", "watch"} /\ UNCHANGED setup
    BY <1>5 DEF Ensure, WatchTarget
  <2>2. pid = NoPID
    BY <2>1 DEF Phases
  <2>. QED
    BY <2>1, <2>2 DEF setup
<1>6. CASE OpenFile \/ CloseFile
  <2>1. UNCHANGED <<node, initial, pid>> /\ pc' \in {"run", "done"}
    BY <1>6 DEF OpenFile, CloseFile
  <2>. QED
    BY <2>1 DEF Phases
<1>7. CASE CallInterrupted \/ Wait \/ Join \/ CallFails
  <2>1. UNCHANGED setup /\ pc' \in {"done", "join", "close"}
    BY <1>7 DEF CallInterrupted, Wait, Join, CallFails, Fail
  <2>. QED
    BY <1>1, <2>1 DEF Phases
<1>8. CASE Interrupt \/ WatchEnds \/ TargetWatcher \/ HandleWatcher \/ FanOut
            \/ UNCHANGED vars
  BY <1>1, <1>8 DEF Interrupt, WatchEnds, TargetWatcher, HandleWatcher, FanOut, vars
<1>9. ASSUME NEW s \in Streams, Running(s) \/ RemoteEnds(s) \/ StreamBreaks(s)
      PROVE  NodeInv'
  BY <1>1, <1>9 DEF Running, StreamStarts, StreamCancelled, StreamReports, RemoteEnds,
                    StreamBreaks
<1>. QED
  BY <1>2, <1>3, <1>4, <1>5, <1>6, <1>7, <1>8, <1>9 DEF Main

\* The target's object changes: it goes, a new incarnation comes, or the one
\* there is keeps its node unless it had none.
LEMMA WriteNode ==
  ASSUME TypeInv, NodeInv, WorldStep, UNCHANGED procs
  PROVE  NodeInv'
<1>0. WorldTyped /\ MainTyped /\ UNCHANGED <<pc, node, initial, pid>>
  BY TypeParts DEF TypeInv, WorldStep, setup
<1>1. lastUid \in Nat /\ (target # NoPod => target \in Pod) /\ NoNode \notin Nodes
  BY <1>0, NullsAssumption DEF WorldTyped
<1>2. (initial # NoPod => initial.uid \in Nat)
      /\ \A m \in Nodes, p \in PIDs : procs[m][p].uid \in Nat
  BY <1>0 DEF WorldTyped, MainTyped, Pod, Owner
<1>. USE DEF NodeInv, Known, RunsOn
<1>3. CASE target' = NoPod /\ lastUid' = lastUid
  BY <1>0, <1>3
<1>4. CASE /\ target' # NoPod /\ target'.uid = lastUid + 1 /\ lastUid' = lastUid + 1
           /\ target'.phase # "Running"
  BY <1>0, <1>1, <1>2, <1>4
<1>5. CASE /\ target # NoPod /\ target' # NoPod /\ target'.uid = target.uid
           /\ target'.node = target.node \/ (target.node = NoNode /\ target'.node \in Nodes)
           /\ target'.phase = "Running" => target'.node # NoNode
           /\ lastUid' = lastUid
  BY <1>0, <1>1, <1>2, <1>5
<1>6. CASE CreateTarget
  <2>1. PICK n \in Nodes \cup {NoNode} :
          Writes("ADDED", [uid |-> lastUid + 1, node |-> n, phase |-> "Pending", inst |-> 0])
    BY <1>6 DEF CreateTarget
  <2>2. target' = [uid |-> lastUid + 1, node |-> n, phase |-> "Pending", inst |-> 0]
    BY <2>1 DEF Writes
  <2>3. target' \in Pod
    BY <1>1, <2>2 DEF Pod
  <2>4. target' # NoPod
    BY <2>3, NullsAssumption
  <2>. QED
    BY <1>4, <1>6, <2>2, <2>4 DEF CreateTarget
<1>7. CASE Schedule
  <2>1. PICK n \in Nodes : Writes("MODIFIED", [target EXCEPT !.node = n])
    BY <1>7 DEF Schedule
  <2>2. target # NoPod /\ target.node = NoNode /\ lastUid' = lastUid
    BY <1>7 DEF Schedule
  <2>3. target' = [target EXCEPT !.node = n]
    BY <2>1 DEF Writes
  <2>4. target' \in Pod /\ target'.uid = target.uid /\ target'.node = n
    BY <1>1, <2>2, <2>3 DEF Pod
  <2>. QED
    BY <1>1, <1>5, <2>2, <2>4, NullsAssumption
<1>8. CASE ReportStatus
  <2>1. Writes("MODIFIED", [target EXCEPT !.phase = "Running", !.inst = born])
    BY <1>8 DEF ReportStatus
  <2>2. target # NoPod /\ target.node # NoNode /\ lastUid' = lastUid
    BY <1>8 DEF ReportStatus
  <2>3. target' = [target EXCEPT !.phase = "Running", !.inst = born]
    BY <2>1 DEF Writes
  <2>4. born \in Nat
    BY <1>0, BoundsAssumption DEF WorldTyped
  <2>5. target' \in Pod /\ target'.uid = target.uid /\ target'.node = target.node
    BY <1>1, <2>2, <2>3, <2>4 DEF Pod
  <2>. QED
    BY <1>5, <2>2, <2>5, NullsAssumption
<1>9. CASE TargetEnds
  <2>1. Writes("MODIFIED", [target EXCEPT !.phase = "Ended"])
    BY <1>9 DEF TargetEnds
  <2>2. target # NoPod /\ lastUid' = lastUid
    BY <1>9 DEF TargetEnds
  <2>3. target' = [target EXCEPT !.phase = "Ended"]
    BY <2>1 DEF Writes
  <2>4. /\ target' \in Pod /\ target'.uid = target.uid /\ target'.node = target.node
        /\ target'.phase = "Ended"
    BY <1>1, <2>2, <2>3 DEF Pod
  <2>. QED
    BY <1>5, <2>2, <2>4, NullsAssumption
<1>10. CASE DeleteTarget
  BY <1>3, <1>10 DEF DeleteTarget, Writes
<1>11. CASE UNCHANGED <<target, lastUid>>
  BY <1>0, <1>11
<1>12. CASE TouchTarget
  BY <1>11, <1>12 DEF TouchTarget, Writes
<1>. QED
  BY <1>6, <1>7, <1>8, <1>9, <1>10, <1>11, <1>12 DEF WorldStep, StartContainer,
                                                     ProcessChange, DebugPodEnds

\* A process starts or ends: a new one is of the target and on its node, or
\* of nobody this module knows.
LEMMA ProcessNode ==
  ASSUME TypeInv, NodeInv, WorldStep, StartContainer \/ ProcessChange
  PROVE  NodeInv'
<1>0. WorldTyped /\ MainTyped /\ UNCHANGED <<target, lastUid, pc, node, initial, pid>>
  BY TypeParts DEF TypeInv, WorldStep, StartContainer, ProcessChange, setup
<1>1. lastUid \in Nat /\ (target # NoPod => target \in Pod)
  BY <1>0 DEF WorldTyped
<1>. USE DEF NodeInv, Known, RunsOn
<1>2. ASSUME NEW n \in Nodes, NEW p \in PIDs, NEW o \in Owner,
             procs' = [procs EXCEPT ![n][p] = o],
             o.uid = 0 \/ (target # NoPod /\ o.uid = target.uid /\ n = target.node)
      PROVE  NodeInv'
  <2>1. \A m \in Nodes, q \in PIDs :
          \/ procs'[m][q] = procs[m][q]
          \/ m = n /\ procs'[m][q] = o
    BY <1>0, <1>2 DEF WorldTyped
  <2>2. CASE o.uid = 0
    BY <1>0, <1>1, <2>1, <2>2
  <2>3. CASE target # NoPod /\ o.uid = target.uid /\ n = target.node
    BY <1>0, <1>1, <2>1, <2>3
  <2>. QED
    BY <1>2, <2>2, <2>3
<1>3. CASE StartContainer
  <2>1. PICK p \in PIDs :
          procs' = [procs EXCEPT ![target.node][p] = [uid |-> target.uid, inst |-> born + 1]]
    BY <1>3 DEF StartContainer
  <2>2. target # NoPod /\ target.node # NoNode
    BY <1>3 DEF StartContainer
  <2>3. target.node \in Nodes /\ target.uid \in Nat /\ born \in Nat
    BY <1>0, <1>1, <2>2, BoundsAssumption DEF Pod, WorldTyped
  <2>4. [uid |-> target.uid, inst |-> born + 1] \in Owner
    BY <2>3 DEF Owner
  <2>. QED
    BY <1>2, <2>1, <2>2, <2>3, <2>4
<1>4. CASE ProcessChange
  <2>1. PICK n \in Nodes, p \in PIDs :
          procs' = [procs EXCEPT ![n][p] = IF @ = Free THEN Other ELSE Free]
    BY <1>4 DEF ProcessChange
  <2>2. Free \in Owner /\ Other \in Owner /\ Free.uid = 0 /\ Other.uid = 0
    BY DEF Free, Other, Owner
  <2>3. PICK o \in {Free, Other} : procs' = [procs EXCEPT ![n][p] = o]
    BY <2>1
  <2>. QED
    BY <1>2, <2>2, <2>3
<1>. QED
  BY <1>3, <1>4

LEMMA NodeStep ==
  ASSUME TypeInv, NodeInv, [Next]_vars
  PROVE  NodeInv'
<1>1. CASE WorldStep
  <2>1. StartContainer \/ ProcessChange \/ UNCHANGED procs
    BY <1>1 DEF WorldStep, CreateTarget, Schedule, ReportStatus, TargetEnds, TouchTarget,
                DeleteTarget, DebugPodEnds
  <2>. QED
    BY <1>1, <2>1, ProcessNode, WriteNode
<1>2. CASE Main \/ CallFails \/ Interrupt \/ WatchEnds \/ TargetWatcher \/ HandleWatcher
             \/ FanOut \/ UNCHANGED vars
  <2>1. UNCHANGED <<target, lastUid, procs>>
    BY <1>2 DEF Main, Locate, Ensure, GetTarget, WatchTarget, Resolve, OpenFile,
                CallInterrupted, Wait, Join, CloseFile, CallFails, Interrupt, WatchEnds,
                TargetWatcher, HandleWatcher, FanOut, vars, world
  <2>. QED
    BY <1>2, <2>1, CommandNode
<1>3. ASSUME NEW s \in Streams, Running(s) \/ RemoteEnds(s) \/ StreamBreaks(s)
      PROVE  NodeInv'
  <2>1. UNCHANGED <<target, lastUid, procs>>
    BY <1>3 DEF Running, StreamStarts, StreamCancelled, StreamReports, RemoteEnds,
                StreamBreaks, world
  <2>. QED
    BY <1>3, <2>1, CommandNode
<1>. QED
  BY <1>1, <1>2, <1>3 DEF Next, Done

LEMMA NodeInit == Init => NodeInv
<1>. SUFFICES ASSUME Init PROVE NodeInv
  OBVIOUS
<1>1. initial = NoPod /\ pid = NoPID
  BY DEF Init
<1>2. CASE /\ target = NoPod /\ lastUid = 0
           /\ procs = [n \in Nodes |-> [p \in PIDs |-> Free]]
  BY <1>1, <1>2 DEF NodeInv, Free
<1>3. ASSUME NEW n \in Nodes, NEW p \in PIDs, lastUid = 1,
             target = [uid |-> 1, node |-> n, phase |-> "Running", inst |-> 1],
             procs = [m \in Nodes |-> [q \in PIDs |->
                        IF m = n /\ q = p THEN [uid |-> 1, inst |-> 1] ELSE Free]]
      PROVE  NodeInv
  <2>1. \A m \in Nodes, q \in PIDs :
          procs[m][q].uid \in {0, 1} /\ (procs[m][q].uid = 1 => m = n)
    BY <1>3 DEF Free
  <2>2. n # NoNode
    BY NullsAssumption
  <2>. QED
    BY <1>1, <1>3, <2>1, <2>2 DEF NodeInv, Known, RunsOn
<1>. QED
  BY <1>2, <1>3 DEF Init

LEMMA NodeInvariant == Spec => []NodeInv
<1>1. TypeInv /\ NodeInv /\ [Next]_vars => NodeInv'
  BY NodeStep
<1>. QED
  BY <1>1, NodeInit, TypeInvariant, PTL DEF Spec

\* observe.go:50, capture.go:167-179: a target that moves between its two
\* lookups is never captured with the debug pod of the node it has left.
THEOREM CaptureStaysOnNode == Spec => []TargetOnNode
<1>1. NodeInv => TargetOnNode
  BY DEF NodeInv, TargetOnNode
<1>. QED
  BY <1>1, NodeInvariant, PTL

-----------------------------------------------------------------------------
(* Success.  Of the errors of the streams the errgroup keeps the first; a  *)
(* cancellation that comes first has a cause outside the group.            *)

Late == {"run", "join", "close", "done"}

\* A stop condition has been met.
Told == interrupted \/ "closed" \in {targetCh, handleCh}

Earned ==
  out["raw"] \in {"ok", "timeout"} \/ out["summary"] = "timeout" \/ Told

\* Before the streams nothing is cancelled and nothing has failed.
Unstarted ==
  pc \notin Late => /\ ~cancelled /\ gerr = NoErr /\ fan = "off"
                    /\ \A s \in Streams : stream[s] = "off" /\ out[s] = "none"

\* captureCtx is cancelled by the fan-out before Wait does it.
CutForCause == cancelled /\ pc = "run" => Told

\* How a stream stands to the errgroup.
Reported(s) ==
  /\ stream[s] \in {"start", "run", "returned"} => pc = "run"
  /\ stream[s] = "returned" => out[s] # "none"
  /\ stream[s] = "ended" /\ gerr = NoErr => out[s] = "ok"
  /\ out[s] = "canceled" => Told \/ gerr # NoErr

\* The error kept is that of a stream, and no cancellation without a cause.
Caught ==
  gerr # NoErr => /\ gerr.code # OK /\ gerr.out # "none"
                  /\ gerr.out = "canceled" \/ gerr.code = Sigint => Told
                  /\ \E s \in Streams : stream[s] = "ended" /\ out[s] = gerr.out

RawRuns == pc \in {"run", "join", "close"} => stream["raw"] # "off"

Settled ==
  pc \in {"join", "close"} \/ file = "closed" =>
    (result.code = OK => Earned) /\ (result.code = Sigint => Told)

OutcomeInv ==
  /\ Unstarted /\ CutForCause /\ (\A s \in Streams : Reported(s)) /\ Caught
  /\ RawRuns /\ Settled

\* A step that leaves the group as it is, before or after the streams run.
LEMMA QuietOutcome ==
  ASSUME OutcomeInv, FileInv, UNCHANGED <<fan, stream, out, gerr, cancelled, file>>,
         pc \in Late /\ Told => Told',
         \/ pc' = pc /\ result' = result
         \/ pc \notin Late /\ pc' \notin Late
         \/ pc \notin Late /\ pc' = "done"
         \/ pc \in {"join", "close"} /\ pc' \in {"join", "close"} /\ result' = result
  PROVE  OutcomeInv'
<1>. USE DEF OutcomeInv, Late
<1>1. Unstarted' /\ CutForCause' /\ RawRuns'
  BY DEF Unstarted, CutForCause, RawRuns
<1>2. (\A s \in Streams : Reported(s))'
  BY DEF Unstarted, Reported
<1>3. Caught'
  BY DEF Unstarted, Caught
<1>4. Settled'
  BY DEF Settled, Earned, FileInv
<1>. QED
  BY <1>1, <1>2, <1>3, <1>4

LEMMA MainOutcome ==
  ASSUME TypeInv, FileInv, OutcomeInv, Main \/ CallFails
  PROVE  OutcomeInv'
<1>. USE DEF Late
<1>0. gerr \in [out: Outcomes, code: Codes]
  BY TypeParts DEF TypeInv, GroupTyped
<1>1. CASE Locate \/ Ensure \/ GetTarget \/ WatchTarget \/ Resolve \/ CallInterrupted \/ CallFails
  <2>1. /\ pc \notin Late /\ (pc' \notin Late \/ pc' = "done")
        /\ UNCHANGED <<fan, stream, out, gerr, cancelled, file>>
    BY <1>1 DEF Locate, Ensure, GetTarget, WatchTarget, Resolve, CallInterrupted, CallFails,
                Fail, setup, group
  <2>. QED
    BY <2>1, QuietOutcome
<1>2. CASE OpenFile
  <2>1. /\ pc = "open" /\ pc' = "run" /\ file' = "open"
        /\ UNCHANGED <<out, gerr, cancelled>>
        /\ \E wanted \in {{"raw"}, Streams} :
             stream' = [t \in Streams |-> IF t \in wanted THEN "start" ELSE "off"]
    BY <1>2 DEF OpenFile
  <2>2. ~cancelled /\ gerr = NoErr /\ \A s \in Streams : out[s] = "none"
    BY <2>1 DEF OutcomeInv, Unstarted
  <2>3. /\ \A s \in Streams : stream'[s] \in {"start", "off"}
        /\ stream'["raw"] = "start"
    BY <2>1 DEF Streams
  <2>. QED
    BY <2>1, <2>2, <2>3 DEF OutcomeInv, Unstarted, CutForCause, Reported, Caught, RawRuns,
                            Settled
<1>3. CASE Wait
  <2>1. /\ pc = "run" /\ pc' = "join" /\ StreamsOver
        /\ UNCHANGED <<stream, out, gerr, file, interrupted, targetCh, handleCh>>
        /\ result' = IF Expected(gerr) THEN [code |-> OK, why |-> ""]
                     ELSE [code |-> gerr.code, why |-> "stream"]
    BY <1>3 DEF Wait, StreamsOver, setup, watch, group
  <2>2. Told' = Told /\ Earned' = Earned
    BY <2>1 DEF Told, Earned
  <2>3. ASSUME result'.code = OK PROVE Earned
    <3>1. gerr = NoErr \/ gerr.out \in {"timeout", "canceled"}
      <4>1. CASE Expected(gerr)
        BY <4>1 DEF Expected, OutcomeInv, Caught
      <4>2. CASE ~Expected(gerr)
        BY <2>1, <2>3, <4>2 DEF OutcomeInv, Caught
      <4>. QED
        BY <4>1, <4>2
    <3>2. CASE gerr = NoErr
      <4>1. stream["raw"] = "ended"
        BY <2>1 DEF StreamsOver, OutcomeInv, RawRuns, Streams
      <4>. QED
        BY <3>2, <4>1 DEF OutcomeInv, Reported, Earned, Streams
    <3>3. CASE gerr # NoErr /\ gerr.out = "timeout"
      BY <3>3 DEF OutcomeInv, Caught, Earned, Streams
    <3>4. CASE gerr # NoErr /\ gerr.out = "canceled"
      BY <3>4 DEF OutcomeInv, Caught, Earned
    <3>. QED
      BY <3>1, <3>2, <3>3, <3>4
  <2>4. Unstarted' /\ CutForCause' /\ RawRuns'
    BY <2>1 DEF OutcomeInv, Unstarted, CutForCause, RawRuns
  <2>5. (\A s \in Streams : Reported(s))' /\ Caught'
    BY <2>1, <2>2 DEF OutcomeInv, Reported, Caught, StreamsOver
  <2>6. ASSUME result'.code = Sigint PROVE Told
    <3>1. ~Expected(gerr)
      <4>1. Expected(gerr) => result'.code = OK
        BY <2>1
      <4>. QED
        BY <2>6, <4>1
    <3>2. gerr.code = Sigint
      <4>1. result'.code = gerr.code
        BY <2>1, <3>1
      <4>. QED
        BY <2>6, <4>1
    <3>3. gerr # NoErr
      BY <3>2 DEF NoErr
    <3>. QED
      BY <3>2, <3>3 DEF OutcomeInv, Caught
  <2>7. Settled'
    BY <2>2, <2>3, <2>6 DEF Settled
  <2>. QED
    BY <2>4, <2>5, <2>7 DEF OutcomeInv
<1>4. CASE Join
  <2>1. /\ pc = "join" /\ pc' = "close"
        /\ UNCHANGED <<fan, stream, out, gerr, cancelled, file, result, Told>>
    BY <1>4 DEF Join, setup, watch, group, Told
  <2>. QED
    BY <2>1, QuietOutcome
<1>5. CASE CloseFile
  <2>1. /\ pc = "close" /\ pc' = "done"
        /\ UNCHANGED <<stream, out, gerr, cancelled, result, interrupted, targetCh, handleCh>>
    BY <1>5 DEF CloseFile, watch, group
  <2>2. StreamsOver
    BY <2>1 DEF FileInv
  <2>3. Told' = Told /\ Earned' = Earned
    BY <2>1 DEF Told, Earned
  <2>4. Unstarted' /\ CutForCause' /\ RawRuns' /\ Settled'
    BY <2>1, <2>3 DEF OutcomeInv, Unstarted, CutForCause, RawRuns, Settled
  <2>5. (\A s \in Streams : Reported(s))' /\ Caught'
    BY <2>1, <2>2, <2>3 DEF OutcomeInv, Reported, Caught, StreamsOver
  <2>. QED
    BY <2>4, <2>5 DEF OutcomeInv
<1>. QED
  BY <1>1, <1>2, <1>3, <1>4, <1>5 DEF Main

LEMMA BesideOutcome ==
  ASSUME FileInv, OutcomeInv,
         Interrupt \/ WatchEnds \/ TargetWatcher \/ HandleWatcher \/ WorldStep
           \/ UNCHANGED vars
  PROVE  OutcomeInv'
<1>1. UNCHANGED <<pc, result, fan, stream, out, gerr, cancelled, file>>
  BY DEF Interrupt, WatchEnds, TargetWatcher, HandleWatcher, WorldStep, vars, setup, group
<1>2. Told => Told'
  BY DEF Interrupt, WatchEnds, TargetWatcher, HandleWatcher, WorldStep, vars, watch, Told
<1>. QED
  BY <1>1, <1>2, QuietOutcome

LEMMA FanOutOutcome ==
  ASSUME OutcomeInv, FanOut
  PROVE  OutcomeInv'
<1>1. /\ UNCHANGED <<pc, result, stream, out, gerr, file, interrupted, targetCh, handleCh>>
      /\ fan = "on" /\ (cancelled' = cancelled \/ (cancelled' = TRUE /\ Told))
  BY DEF FanOut, setup, watch, Told
<1>2. Told' = Told /\ Earned' = Earned
  BY <1>1 DEF Told, Earned
<1>3. Unstarted' /\ CutForCause' /\ RawRuns' /\ Settled'
  BY <1>1, <1>2 DEF OutcomeInv, Unstarted, CutForCause, RawRuns, Settled
<1>4. (\A s \in Streams : Reported(s))' /\ Caught'
  BY <1>1, <1>2 DEF OutcomeInv, Reported, Caught
<1>. QED
  BY <1>3, <1>4 DEF OutcomeInv

\* A stream returns, for one of the reasons an exec stream has.
LEMMA ReturnsOutcome ==
  ASSUME TypeInv, FileInv, OutcomeInv, NEW s \in Streams, stream[s] \in {"start", "run"},
         NEW o \in Outcomes \ {"none"}, Returns(s, o),
         o = "canceled" => Told \/ gerr # NoErr,
         UNCHANGED <<pc, result, file, targetCh, handleCh, interrupted, cancelled, fan, gerr>>
  PROVE  OutcomeInv'
<1>0. /\ stream \in [Streams -> {"off", "start", "run", "returned", "ended"}]
      /\ out \in [Streams -> Outcomes]
  BY TypeParts DEF TypeInv, GroupTyped
<1>1. /\ stream'[s] = "returned" /\ out'[s] = o
      /\ \A t \in Streams \ {s} : stream'[t] = stream[t] /\ out'[t] = out[t]
  BY <1>0 DEF Returns
<1>2. pc = "run" /\ Told' = Told
  BY DEF OutcomeInv, Reported, Told
<1>3. Unstarted' /\ CutForCause'
  BY <1>2 DEF OutcomeInv, Unstarted, CutForCause, Late
<1>4. RawRuns' /\ Settled'
  <2>1. stream'["raw"] # "off"
    BY <1>1, <1>2 DEF OutcomeInv, RawRuns, Streams
  <2>2. ~(pc' \in {"join", "close"} \/ file' = "closed")
    BY <1>2 DEF FileInv
  <2>. QED
    BY <2>1, <2>2 DEF RawRuns, Settled
<1>5. (\A t \in Streams : Reported(t))'
  BY <1>1, <1>2 DEF OutcomeInv, Reported
<1>6. Caught'
  BY <1>1, <1>2 DEF OutcomeInv, Caught
<1>. QED
  BY <1>3, <1>4, <1>5, <1>6 DEF OutcomeInv

LEMMA StreamOutcome ==
  ASSUME TypeInv, FileInv, OutcomeInv, NEW s \in Streams,
         Running(s) \/ RemoteEnds(s) \/ StreamBreaks(s)
  PROVE  OutcomeInv'
<1>0. /\ stream \in [Streams -> {"off", "start", "run", "returned", "ended"}]
      /\ out \in [Streams -> Outcomes]
  BY TypeParts DEF TypeInv, GroupTyped
<1>1. /\ UNCHANGED <<pc, result, file, targetCh, handleCh, interrupted, cancelled, fan>>
      /\ stream[s] \in {"start", "run", "returned"}
  BY DEF Running, StreamStarts, StreamCancelled, StreamReports, RemoteEnds, StreamBreaks,
         setup, watch
<1>2. pc = "run" /\ file # "closed" /\ Told' = Told
  BY <1>1 DEF OutcomeInv, Reported, FileInv, Told
<1>3. CASE RemoteEnds(s) \/ StreamBreaks(s)
  <2>1. gerr' = gerr /\ \E o \in {"ok", "timeout", "status", "broken"} : Returns(s, o)
    BY <1>3 DEF RemoteEnds, StreamBreaks
  <2>2. stream[s] \in {"start", "run"}
    BY <1>3 DEF RemoteEnds, StreamBreaks
  <2>. QED
    BY <1>1, <2>1, <2>2, ReturnsOutcome DEF Outcomes
<1>4. CASE StreamCancelled(s)
  <2>1. Told \/ gerr # NoErr
    BY <1>2, <1>4 DEF StreamCancelled, GroupDone, CaptureDone, OutcomeInv, CutForCause, Told
  <2>2. stream[s] \in {"start", "run"} /\ gerr' = gerr /\ Returns(s, "canceled")
    BY <1>4 DEF StreamCancelled
  <2>. QED
    BY <1>1, <2>1, <2>2, ReturnsOutcome DEF Outcomes
<1>5. CASE StreamStarts(s)
  <2>1. gerr' = gerr /\ stream[s] = "start"
    BY <1>5 DEF StreamStarts
  <2>2. CASE Returns(s, "status")
    BY <1>1, <2>1, <2>2, ReturnsOutcome DEF Outcomes
  <2>3. CASE stream' = [stream EXCEPT ![s] = "run"] /\ out' = out
    <3>1. /\ stream'[s] = "run" /\ out' = out
          /\ \A t \in Streams \ {s} : stream'[t] = stream[t]
      BY <1>0, <2>3
    <3>2. Unstarted' /\ CutForCause' /\ RawRuns'
      BY <1>1, <1>2, <2>1, <3>1 DEF OutcomeInv, Unstarted, CutForCause, RawRuns, Late, Streams
    <3>3. Settled'
      BY <1>1, <1>2 DEF Settled
    <3>4. (\A t \in Streams : Reported(t))' /\ Caught'
      BY <1>1, <1>2, <2>1, <3>1 DEF OutcomeInv, Reported, Caught
    <3>. QED
      BY <3>2, <3>3, <3>4 DEF OutcomeInv
  <2>. QED
    BY <1>5, <2>2, <2>3 DEF StreamStarts
<1>6. CASE StreamReports(s)
  <2>1. /\ stream[s] = "returned" /\ out' = out
        /\ stream'[s] = "ended" /\ \A t \in Streams \ {s} : stream'[t] = stream[t]
        /\ gerr' = IF out[s] = "ok" \/ gerr # NoErr THEN gerr ELSE Wrapped(out[s])
    BY <1>0, <1>6 DEF StreamReports
  <2>2. out[s] # "none" /\ (out[s] = "canceled" => Told \/ gerr # NoErr)
    BY <2>1 DEF OutcomeInv, Reported
  <2>3. Unstarted' /\ CutForCause' /\ RawRuns'
    BY <1>1, <1>2, <2>1 DEF OutcomeInv, Unstarted, CutForCause, RawRuns, Late, Streams
  <2>4. Settled'
    BY <1>1, <1>2 DEF Settled
  <2>5. CASE out[s] = "ok" \/ gerr # NoErr
    <3>1. (\A t \in Streams : Reported(t))'
      BY <1>1, <1>2, <2>1, <2>5 DEF OutcomeInv, Reported
    <3>2. Caught'
      BY <1>2, <2>1, <2>5 DEF OutcomeInv, Caught
    <3>. QED
      BY <2>3, <2>4, <3>1, <3>2 DEF OutcomeInv
  <2>6. CASE out[s] # "ok" /\ gerr = NoErr
    <3>1. gerr' = Wrapped(out[s])
      BY <2>1, <2>6
    <3>2. gerr'.out = out[s] /\ gerr'.code # OK
      BY <3>1 DEF Wrapped, OK, Cluster, Node, Sigint
    <3>3. gerr' # NoErr
      BY <2>2, <3>2 DEF NoErr
    <3>4. (\A t \in Streams : Reported(t))'
      BY <1>1, <1>2, <2>1, <3>3 DEF OutcomeInv, Reported
    <3>5. gerr'.code = Sigint => Told
      BY <1>2, <2>2, <2>6, <3>1 DEF Wrapped, GroupDone, CaptureDone, OutcomeInv, CutForCause,
                                    Told
    <3>6. Caught'
      BY <1>2, <2>1, <2>2, <2>6, <3>2, <3>3, <3>5 DEF Caught
    <3>. QED
      BY <2>3, <2>4, <3>4, <3>6 DEF OutcomeInv
  <2>. QED
    BY <2>5, <2>6
<1>. QED
  BY <1>3, <1>4, <1>5, <1>6 DEF Running

LEMMA OutcomeInvariant == Spec => []OutcomeInv
<1>1. Init => OutcomeInv
  BY DEF Init, OutcomeInv, Unstarted, CutForCause, Reported, Caught, RawRuns, Settled, Late
<1>2. TypeInv /\ FileInv /\ OutcomeInv /\ [Next]_vars => OutcomeInv'
  BY MainOutcome, BesideOutcome, FanOutOutcome, StreamOutcome DEF Next, Done
<1>. QED
  BY <1>1, <1>2, TypeInvariant, FileInvariant, PTL DEF Spec

\* capture.go:133-147: a cancellation and a timeout count as success, so a
\* broken stream must never pass for one.  Exit code 0 means that tcpdump ended
\* well, that its duration was over or that a stop condition was met.
THEOREM SuccessIsEarned == Spec => []NoSilentFailure
<1>1. OutcomeInv => NoSilentFailure
  BY DEF OutcomeInv, Settled, Earned, Told, NoSilentFailure
<1>. QED
  BY <1>1, OutcomeInvariant, PTL

\* Before there is a file only Ctrl-C makes the code 130.
EarlySigint ==
  pc \notin {"join", "close"} /\ file # "closed" /\ result.code = Sigint => interrupted

LEMMA EarlyStep ==
  ASSUME FileInv, EarlySigint, [Next]_vars
  PROVE  EarlySigint'
<1>. USE DEF EarlySigint
<1>1. CASE Locate \/ GetTarget \/ WatchTarget \/ Resolve \/ CallFails
  <2>1. UNCHANGED <<interrupted, file>> /\ pc \notin {"join", "close"}
    BY <1>1 DEF Locate, GetTarget, WatchTarget, Resolve, CallFails, Fail, setup
  <2>2. ASSUME NEW c \in {User, Cluster, Node, Internal}, NEW why, Fail(c, why)
        PROVE  result'.code # Sigint
    <3>1. result'.code = c
      BY <2>2 DEF Fail
    <3>. QED
      BY <3>1
  <2>3. result' = result \/ result'.code # Sigint
    <3>1. CASE Locate \/ GetTarget
      BY <2>2, <3>1 DEF Locate, GetTarget
    <3>2. CASE WatchTarget
      BY <2>2, <3>2 DEF WatchTarget
    <3>3. CASE Resolve
      BY <2>2, <3>3 DEF Resolve
    <3>4. CASE CallFails
      <4>1. \E c \in {User, Cluster, Node, Internal} :
              \E why \in {"api error", "ensure", "stream", "open file"} : Fail(c, why)
        BY <3>4 DEF CallFails
      <4>. QED
        BY <2>2, <4>1
    <3>. QED
      BY <1>1, <3>1, <3>2, <3>3, <3>4
  <2>. QED
    BY <2>1, <2>3
<1>2. CASE CallInterrupted
  BY <1>2 DEF CallInterrupted
<1>3. CASE Ensure \/ OpenFile
  <2>1. UNCHANGED <<interrupted, result>> /\ pc \in {"ensure", "open"}
    BY <1>3 DEF Ensure, OpenFile
  <2>. QED
    BY <2>1 DEF FileInv
<1>4. CASE Wait \/ Join
  <2>1. pc' \in {"join", "close"}
    BY <1>4 DEF Wait, Join
  <2>. QED
    BY <2>1
<1>5. CASE CloseFile
  BY <1>5 DEF CloseFile
<1>6. CASE Interrupt \/ WatchEnds \/ TargetWatcher \/ HandleWatcher \/ FanOut \/ WorldStep
             \/ UNCHANGED vars
  <2>1. UNCHANGED <<pc, result, file>> /\ (interrupted' = interrupted \/ interrupted' = TRUE)
    BY <1>6 DEF Interrupt, WatchEnds, TargetWatcher, HandleWatcher, FanOut, WorldStep, vars,
                setup
  <2>. QED
    BY <2>1
<1>7. ASSUME NEW s \in Streams, Running(s) \/ RemoteEnds(s) \/ StreamBreaks(s)
      PROVE  EarlySigint'
  <2>1. UNCHANGED <<pc, result, file, interrupted>>
    BY <1>7 DEF Running, StreamStarts, StreamCancelled, StreamReports, RemoteEnds,
                StreamBreaks, setup
  <2>. QED
    BY <2>1
<1>. QED
  BY <1>1, <1>2, <1>3, <1>4, <1>5, <1>6, <1>7 DEF Next, Main, Done

LEMMA EarlyInvariant == Spec => []EarlySigint
<1>1. Init => EarlySigint
  <2>. SUFFICES ASSUME Init PROVE EarlySigint
    OBVIOUS
  <2>1. result = [code |-> OK, why |-> ""]
    BY DEF Init
  <2>2. result.code = OK
    BY <2>1
  <2>. QED
    BY <2>2 DEF EarlySigint
<1>2. FileInv /\ EarlySigint /\ [Next]_vars => EarlySigint'
  BY EarlyStep
<1>. QED
  BY <1>1, <1>2, FileInvariant, PTL DEF Spec

\* exec.go:71, capture.go:142: exit code 130 without Ctrl-C comes only from a
\* capture that one of its watches has stopped.
THEOREM SigintIsCaused == Spec => []SigintCodeHasCause
<1>1. TypeInv /\ OutcomeInv /\ EarlySigint => SigintCodeHasCause
  <2>. SUFFICES ASSUME OutcomeInv, EarlySigint, pc = "done", result.code = Sigint
                PROVE  interrupted \/ (file = "closed" /\ "closed" \in {targetCh, handleCh})
    BY DEF SigintCodeHasCause
  <2>1. CASE file = "closed"
    BY <2>1 DEF OutcomeInv, Settled, Told
  <2>2. CASE file # "closed"
    BY <2>2 DEF EarlySigint
  <2>. QED
    BY <2>1, <2>2
<1>. QED
  BY <1>1, TypeInvariant, OutcomeInvariant, EarlyInvariant, PTL

-----------------------------------------------------------------------------
(* The target.  As long as the watch has nothing to say, the API's object  *)
(* is the one the container was taken from.                                *)

Unchanged ==
  /\ target # NoPod /\ target.uid = initial.uid /\ target.phase = "Running"
  /\ Restarts(target) <= Restarts(initial)

Noticed == initial # NoPod => targetCh = "closed" \/ EndDue \/ Unchanged

\* An incarnation's instances only grow in number.
Aged ==
  /\ target # NoPod => target.inst <= born
  /\ target # NoPod /\ initial # NoPod /\ target.uid = initial.uid =>
       initial.inst <= target.inst

Chosen == pc \in {"resolve"} \cup Phases => initial.inst # 0

Unwatched == pc \in {"locate", "ensure", "target", "watch"} => targetCh = "off"

TargetInv == Noticed /\ Aged /\ Chosen /\ Unwatched

\* What stays due, and what becomes due.
LEMMA DueAppended ==
  ASSUME events \in Seq(Event), NEW e \in Event, events' = Append(events, e),
         initial' = initial, EndDue \/ EndsCapture(e)
  PROVE  EndDue'
<1>1. /\ Len(events') = Len(events) + 1 /\ Len(events) \in Nat
      /\ events'[Len(events) + 1] = e
      /\ \A i \in 1 .. Len(events) : events'[i] = events[i]
  OBVIOUS
<1>2. \A i \in 1 .. Len(events') :
        EndsCapture(events'[i]) => EndDue'
  BY DEF EndDue, EndsCapture, Restarts
<1>3. CASE EndDue
  BY <1>1, <1>2, <1>3 DEF EndDue
<1>4. CASE EndsCapture(e)
  BY <1>1, <1>2, <1>4
<1>. QED
  BY <1>3, <1>4

LEMMA DueShifted ==
  ASSUME events \in Seq(Event), events # << >>, events' = Tail(events),
         initial' = initial, EndDue, ~EndsCapture(Head(events))
  PROVE  EndDue'
<1>1. PICK i \in 1 .. Len(events) : EndsCapture(events[i])
  BY DEF EndDue
<1>2. i # 1
  BY <1>1
<1>3. i - 1 \in 1 .. Len(events') /\ events'[i - 1] = events[i]
  BY <1>2
<1>. QED
  BY <1>1, <1>3 DEF EndDue, EndsCapture, Restarts

LEMMA DueKept ==
  ASSUME UNCHANGED <<events, initial>>
  PROVE  EndDue' = EndDue
BY DEF EndDue, EndsCapture, Restarts

\* A step that neither sees nor changes anything of the target.
LEMMA QuietTarget ==
  ASSUME TargetInv, UNCHANGED <<target, born, initial, events, targetCh>>,
         \/ pc' = pc \/ pc' = "done"
         \/ pc' \in Phases /\ initial.inst # 0
         \/ pc' \in {"ensure", "target"} /\ targetCh = "off"
  PROVE  TargetInv'
<1>1. Noticed'
  BY DueKept DEF TargetInv, Noticed, Unchanged, Restarts
<1>2. Aged' /\ Chosen' /\ Unwatched'
  BY DEF TargetInv, Aged, Chosen, Unwatched, Phases
<1>. QED
  BY <1>1, <1>2 DEF TargetInv

\* Steps of the command.
LEMMA CommandTarget ==
  ASSUME TypeInv, NodeInv, TargetInv, UNCHANGED <<target, born>>,
         Main \/ CallFails \/ Interrupt \/ WatchEnds \/ TargetWatcher \/ HandleWatcher
           \/ FanOut \/ (\E s \in Streams : Running(s) \/ RemoteEnds(s) \/ StreamBreaks(s))
           \/ UNCHANGED vars
  PROVE  TargetInv'
<1>0. WorldTyped /\ MainTyped /\ WatchTyped
  BY TypeParts DEF TypeInv
<1>1. CASE Locate \/ Ensure
  <2>1. UNCHANGED <<initial, events, targetCh>> /\ pc \in {"locate", "ensure"}
        /\ pc' \in {"ensure", "target", "done"}
    BY <1>1 DEF Locate, Ensure, Fail, setup, watch
  <2>2. targetCh = "off"
    BY <2>1 DEF Unwatched, TargetInv
  <2>. QED
    BY QuietTarget, <2>1, <2>2
<1>2. CASE GetTarget
  <2>1. pc = "target" /\ UNCHANGED <<events, targetCh>>
        /\ \/ initial' = initial /\ pc' = "done"
           \/ /\ initial' = target /\ target # NoPod /\ target.phase = "Running"
              /\ pc' = "watch"
    BY <1>2 DEF GetTarget, Fail, watch
  <2>2. CASE initial' = target /\ target # NoPod /\ target.phase = "Running" /\ pc' = "watch"
    <3>1. target.inst \in Nat
      BY <1>0, <2>2 DEF WorldTyped, Pod
    <3>2. Noticed'
      BY <2>2, <3>1 DEF TargetInv, Noticed, Unchanged, Restarts
    <3>3. Aged'
      BY <2>2, <3>1 DEF TargetInv, Aged
    <3>4. Chosen' /\ Unwatched'
      BY <2>1, <2>2 DEF TargetInv, Chosen, Unwatched, Phases
    <3>. QED
      BY <3>2, <3>3, <3>4 DEF TargetInv
  <2>. QED
    BY QuietTarget, <2>1, <2>2
<1>3. CASE WatchTarget
  <2>1. /\ targetCh' = "open" /\ UNCHANGED <<initial, events>> /\ pc = "watch"
        /\ pc' = "done" \/ (pc' = "resolve" /\ initial.inst # 0)
    BY <1>3 DEF WatchTarget, Fail, setup
  <2>2. Noticed'
    BY <2>1, DueKept DEF TargetInv, Unwatched, Noticed, Unchanged, Restarts
  <2>. QED
    BY <2>1, <2>2 DEF TargetInv, Aged, Chosen, Unwatched, Phases
<1>4. CASE Resolve
  <2>1. UNCHANGED <<initial, events, targetCh>> /\ pc = "resolve" /\ pc' \in {"open", "done"}
    BY <1>4 DEF Resolve, Fail, watch
  <2>2. initial.inst # 0
    BY <2>1 DEF Chosen, TargetInv
  <2>. QED
    BY QuietTarget, <2>1, <2>2 DEF Phases
<1>5. CASE OpenFile \/ Wait \/ Join \/ CloseFile
  <2>1. UNCHANGED <<initial, events, targetCh>> /\ pc \in Phases /\ pc' \in Phases \cup {"done"}
    BY <1>5 DEF OpenFile, Wait, Join, CloseFile, Phases, setup, watch
  <2>2. initial.inst # 0
    BY <2>1 DEF Chosen, TargetInv
  <2>. QED
    BY QuietTarget, <2>1, <2>2
<1>6. CASE CallInterrupted \/ CallFails
  <2>1. UNCHANGED <<initial, events, targetCh>> /\ pc' = "done"
    BY <1>6 DEF CallInterrupted, CallFails, Fail, setup, watch
  <2>. QED
    BY QuietTarget, <2>1
<1>7. CASE TargetWatcher \/ WatchEnds
  <2>1. /\ UNCHANGED <<initial, pc>>
        /\ \/ targetCh = "open" /\ targetCh' = "closed"
           \/ targetCh' = targetCh /\ events' = events
           \/ /\ targetCh' = targetCh /\ events # << >> /\ ~EndsCapture(Head(events))
              /\ events' = Tail(events)
    BY <1>7 DEF TargetWatcher, WatchEnds, setup, watch
  <2>2. Noticed'
    <3>1. EndDue /\ targetCh' = targetCh => EndDue' \/ targetCh' = "closed"
      BY <1>0, <2>1, DueKept, DueShifted DEF WatchTyped
    <3>2. Unchanged' = Unchanged
      BY <2>1 DEF Unchanged, Restarts
    <3>. QED
      BY <2>1, <3>1, <3>2 DEF TargetInv, Noticed
  <2>. QED
    BY <2>1, <2>2 DEF TargetInv, Aged, Chosen, Unwatched
<1>8. CASE Interrupt \/ HandleWatcher \/ FanOut \/ UNCHANGED vars
  BY QuietTarget, <1>8 DEF Interrupt, HandleWatcher, FanOut, vars, setup, watch
<1>9. ASSUME NEW s \in Streams, Running(s) \/ RemoteEnds(s) \/ StreamBreaks(s)
      PROVE  TargetInv'
  BY QuietTarget, <1>9 DEF Running, StreamStarts, StreamCancelled, StreamReports, RemoteEnds,
                           StreamBreaks, setup, watch
<1>. QED
  BY <1>1, <1>2, <1>3, <1>4, <1>5, <1>6, <1>7, <1>8, <1>9 DEF Main

\* A write to the object that the watch is anchored behind is either no change
\* that matters, or an event that ends the capture.
LEMMA WriteNoticed ==
  ASSUME TypeInv, TargetInv, NEW type \in {"ADDED", "MODIFIED", "DELETED"}, NEW p \in Pod,
         Writes(type, p), UNCHANGED <<initial, targetCh>>,
         initial # NoPod /\ Unchanged => EndsCapture([type |-> type, pod |-> p]) \/ Unchanged'
  PROVE  Noticed'
<1>1. events \in Seq(Event) /\ [type |-> type, pod |-> p] \in Event
  BY TypeParts DEF TypeInv, WatchTyped, Event
<1>2. CASE initial # NoPod /\ targetCh # "closed" /\ ~EndDue
  <2>1. events' = Append(events, [type |-> type, pod |-> p])
    BY <1>2 DEF Writes
  <2>2. Unchanged
    BY <1>2 DEF TargetInv, Noticed
  <2>. QED
    BY <1>1, <1>2, <2>1, <2>2, DueAppended DEF Noticed
<1>3. CASE ~(initial # NoPod /\ targetCh # "closed" /\ ~EndDue)
  <2>1. events' = events
    BY <1>3 DEF Writes
  <2>. QED
    BY <1>3, <2>1, DueKept DEF Noticed
<1>. QED
  BY <1>2, <1>3

LEMMA WorldTarget ==
  ASSUME TypeInv, NodeInv, TargetInv, WorldStep
  PROVE  TargetInv'
<1>. USE DEF TargetInv
<1>0. WorldTyped /\ MainTyped /\ UNCHANGED <<pc, initial, targetCh>>
  BY TypeParts DEF TypeInv, WorldStep, setup
<1>1. /\ lastUid \in Nat /\ born \in Nat /\ (target # NoPod => target \in Pod)
      /\ initial # NoPod => initial \in Pod /\ initial.uid <= lastUid
  BY <1>0, BoundsAssumption DEF WorldTyped, MainTyped, NodeInv, Known
<1>2. Chosen' /\ Unwatched'
  BY <1>0 DEF Chosen, Unwatched
<1>3. CASE CreateTarget
  <2>1. PICK n \in Nodes \cup {NoNode} :
          Writes("ADDED", [uid |-> lastUid + 1, node |-> n, phase |-> "Pending", inst |-> 0])
    BY <1>3 DEF CreateTarget
  <2>2. [uid |-> lastUid + 1, node |-> n, phase |-> "Pending", inst |-> 0] \in Pod
    BY <1>1 DEF Pod
  <2>3. target = NoPod /\ born' = 0
    BY <1>3 DEF CreateTarget
  <2>4. Noticed'
    BY <1>0, <2>1, <2>2, <2>3, WriteNoticed DEF Unchanged
  <2>5. Aged'
    <3>1. target' = [uid |-> lastUid + 1, node |-> n, phase |-> "Pending", inst |-> 0]
      BY <2>1 DEF Writes
    <3>. QED
      BY <1>0, <1>1, <2>3, <3>1 DEF Aged, Pod
  <2>. QED
    BY <1>2, <2>4, <2>5
<1>4. CASE Schedule
  <2>1. PICK n \in Nodes : Writes("MODIFIED", [target EXCEPT !.node = n])
    BY <1>4 DEF Schedule
  <2>2. target # NoPod /\ target \in Pod /\ target.node = NoNode /\ born' = born
    BY <1>1, <1>4 DEF Schedule
  <2>3. /\ [target EXCEPT !.node = n] \in Pod
        /\ target' = [target EXCEPT !.node = n]
        /\ target'.uid = target.uid /\ target'.inst = target.inst
    BY <2>1, <2>2 DEF Writes, Pod
  <2>4. ~Unchanged
    BY <2>2 DEF NodeInv, Unchanged
  <2>5. Noticed'
    BY <1>0, <2>1, <2>3, <2>4, WriteNoticed
  <2>6. Aged'
    BY <1>0, <2>2, <2>3 DEF Aged
  <2>. QED
    BY <1>2, <2>5, <2>6
<1>5. CASE ReportStatus
  <2>. DEFINE p == [target EXCEPT !.phase = "Running", !.inst = born]
  <2>1. Writes("MODIFIED", p)
    BY <1>5 DEF ReportStatus
  <2>2. target # NoPod /\ target \in Pod /\ born' = born
    BY <1>1, <1>5 DEF ReportStatus
  <2>3. /\ p \in Pod /\ target' = p
        /\ p.uid = target.uid /\ p.inst = born /\ p.phase = "Running"
    BY <1>1, <2>1, <2>2 DEF Writes, Pod
  <2>4. p # NoPod
    BY <2>3, NullsAssumption
  <2>5. ASSUME Unchanged, initial # NoPod
        PROVE  EndsCapture([type |-> "MODIFIED", pod |-> p]) \/ Unchanged'
    <3>1. Restarts(p) \in Nat /\ Restarts(initial) \in Nat
      BY <1>1, <2>3, <2>5 DEF Restarts, Pod
    <3>2. CASE Restarts(p) > Restarts(initial)
      BY <3>2 DEF EndsCapture
    <3>3. CASE Restarts(p) <= Restarts(initial)
      BY <1>0, <2>3, <2>4, <2>5, <3>3 DEF Unchanged, Restarts
    <3>. QED
      BY <3>1, <3>2, <3>3
  <2>6. Noticed'
    BY <1>0, <2>1, <2>3, <2>5, WriteNoticed
  <2>7. Aged'
    <3>1. target.inst \in Nat /\ (initial # NoPod => initial.inst \in Nat)
      BY <1>1, <2>2 DEF Pod
    <3>. QED
      BY <1>0, <1>1, <2>2, <2>3, <3>1 DEF Aged
  <2>. QED
    BY <1>2, <2>6, <2>7
<1>6. CASE TargetEnds
  <2>1. Writes("MODIFIED", [target EXCEPT !.phase = "Ended"])
    BY <1>6 DEF TargetEnds
  <2>2. target # NoPod /\ target \in Pod /\ born' = born
    BY <1>1, <1>6 DEF TargetEnds
  <2>3. /\ [target EXCEPT !.phase = "Ended"] \in Pod
        /\ target' = [target EXCEPT !.phase = "Ended"]
        /\ target'.uid = target.uid /\ target'.inst = target.inst
        /\ [target EXCEPT !.phase = "Ended"].phase = "Ended"
    BY <2>1, <2>2 DEF Writes, Pod
  <2>4. EndsCapture([type |-> "MODIFIED", pod |-> [target EXCEPT !.phase = "Ended"]])
    BY <2>3 DEF EndsCapture
  <2>5. Noticed'
    BY <1>0, <2>1, <2>3, <2>4, WriteNoticed
  <2>6. Aged'
    BY <1>0, <2>2, <2>3 DEF Aged
  <2>. QED
    BY <1>2, <2>5, <2>6
<1>7. CASE DeleteTarget
  <2>1. Writes("DELETED", target) /\ target # NoPod /\ target \in Pod /\ target' = NoPod
    BY <1>1, <1>7 DEF DeleteTarget, Writes
  <2>2. EndsCapture([type |-> "DELETED", pod |-> target])
    BY DEF EndsCapture
  <2>3. Noticed'
    BY <1>0, <2>1, <2>2, WriteNoticed
  <2>. QED
    BY <1>2, <2>1, <2>3 DEF Aged
<1>8. CASE StartContainer \/ ProcessChange \/ DebugPodEnds
  <2>1. UNCHANGED <<target, events>> /\ born' \in {born, born + 1}
    BY <1>8 DEF StartContainer, ProcessChange, DebugPodEnds
  <2>2. Noticed'
    BY <1>0, <2>1, DueKept DEF Noticed, Unchanged, Restarts
  <2>3. Aged'
    BY <1>0, <1>1, <2>1 DEF Aged, Pod
  <2>. QED
    BY <1>2, <2>2, <2>3
<1>9. CASE TouchTarget
  <2>1. Writes("MODIFIED", target) /\ target \in Pod /\ UNCHANGED <<target, born>>
    BY <1>1, <1>9 DEF TouchTarget, Writes
  <2>2. Unchanged => Unchanged'
    BY <1>0, <2>1 DEF Unchanged, Restarts
  <2>3. Noticed'
    BY <1>0, <2>1, <2>2, WriteNoticed
  <2>4. Aged'
    BY <1>0, <2>1 DEF Aged
  <2>. QED
    BY <1>2, <2>3, <2>4
<1>. QED
  BY <1>3, <1>4, <1>5, <1>6, <1>7, <1>8, <1>9 DEF WorldStep

LEMMA TargetStep ==
  ASSUME TypeInv, NodeInv, TargetInv, [Next]_vars
  PROVE  TargetInv'
<1>1. CASE Main \/ CallFails \/ Interrupt \/ WatchEnds \/ TargetWatcher \/ HandleWatcher
             \/ FanOut \/ UNCHANGED vars
  <2>1. UNCHANGED <<target, born>>
    BY <1>1 DEF Main, Locate, Ensure, GetTarget, WatchTarget, Resolve, OpenFile,
                CallInterrupted, Wait, Join, CloseFile, CallFails, Interrupt, WatchEnds,
                TargetWatcher, HandleWatcher, FanOut, vars, world
  <2>. QED
    BY <1>1, <2>1, CommandTarget
<1>2. ASSUME NEW s \in Streams, Running(s) \/ RemoteEnds(s) \/ StreamBreaks(s)
      PROVE  TargetInv'
  <2>1. UNCHANGED <<target, born>>
    BY <1>2 DEF Running, StreamStarts, StreamCancelled, StreamReports, RemoteEnds,
                StreamBreaks, world
  <2>. QED
    BY <1>2, <2>1, CommandTarget
<1>. QED
  BY <1>1, <1>2, WorldTarget DEF Next, Done

LEMMA TargetInit == Init => TargetInv
<1>. SUFFICES ASSUME Init PROVE TargetInv
  OBVIOUS
<1>1. initial = NoPod /\ pc = "locate" /\ targetCh = "off"
  BY DEF Init
<1>2. CASE target = NoPod
  BY <1>1, <1>2 DEF TargetInv, Noticed, Aged, Chosen, Unwatched, Phases
<1>3. ASSUME NEW n \in Nodes, born = 1,
             target = [uid |-> 1, node |-> n, phase |-> "Running", inst |-> 1]
      PROVE  TargetInv
  BY <1>1, <1>3 DEF TargetInv, Noticed, Aged, Chosen, Unwatched, Phases
<1>. QED
  BY <1>2, <1>3 DEF Init

LEMMA TargetInvariant == Spec => []TargetInv
<1>1. TypeInv /\ NodeInv /\ TargetInv /\ [Next]_vars => TargetInv'
  BY TargetStep
<1>. QED
  BY <1>1, TargetInit, TypeInvariant, NodeInvariant, PTL DEF Spec

\* podwatch.go:26-76: because the watch starts at the version of the object the
\* container was taken from, a capture that has joined the network of another
\* process has been told, or is about to be, from the moment the API's status of
\* the target differs from the one it started with.  While the status lags
\* behind the node it may record the wrong process, and nothing tells it.
THEOREM TargetIsCaptured == Spec => []CapturesTarget
<1>1. TypeInv /\ OutcomeInv /\ TargetInv => CapturesTarget
  <2>. SUFFICES ASSUME TypeInv, OutcomeInv, TargetInv, NEW s \in Streams, stream[s] = "run"
                PROVE  targetCh = "closed" \/ EndDue \/ StatusUnchanged
    BY DEF CapturesTarget
  <2>1. pc = "run" /\ initial # NoPod /\ initial.inst # 0
    BY DEF OutcomeInv, Reported, TypeInv, Placed, TargetInv, Chosen, Phases
  <2>2. initial \in Pod /\ (target # NoPod => target \in Pod)
    BY <2>1, TypeParts DEF TypeInv, MainTyped, WorldTyped
  <2>3. Unchanged => StatusUnchanged
    <3>. SUFFICES ASSUME Unchanged PROVE target.inst = initial.inst
      BY DEF Unchanged, StatusUnchanged
    <3>1. target.inst \in Nat /\ initial.inst \in Nat
      BY <2>2 DEF Unchanged, Pod
    <3>2. initial.inst <= target.inst
      BY <2>1 DEF Unchanged, TargetInv, Aged
    <3>. QED
      BY <2>1, <3>1, <3>2 DEF Unchanged, Restarts
  <2>. QED
    BY <2>1, <2>3 DEF TargetInv, Noticed
<1>. QED
  BY <1>1, TypeInvariant, OutcomeInvariant, TargetInvariant, PTL
-----------------------------------------------------------------------------
(* The handle.  What is known of the debug pod is known through the handle:*)
(* there is none before Ensure, and no debug pod without one after it.     *)

HandleInv ==
  /\ pc \in {"locate", "ensure"} => debug = "none" /\ handleCh = "off"
  /\ debug # "none" => handleCh # "off"

LEMMA HandleStep ==
  ASSUME HandleInv, [Next]_vars
  PROVE  HandleInv'
<1>. USE DEF HandleInv
<1>1. CASE Locate
  BY <1>1 DEF Locate, Fail, world
<1>2. CASE Ensure
  BY <1>2 DEF Ensure
<1>3. CASE GetTarget \/ WatchTarget \/ Resolve \/ CallInterrupted \/ CallFails
  <2>1. UNCHANGED <<debug, handleCh>> /\ pc' \notin {"locate", "ensure"}
    BY <1>3 DEF GetTarget, WatchTarget, Resolve, CallInterrupted, CallFails, Fail, world
  <2>. QED
    BY <2>1
<1>4. CASE OpenFile \/ Wait \/ Join \/ CloseFile
  <2>1. UNCHANGED <<debug, handleCh>> /\ pc' \notin {"locate", "ensure"}
    BY <1>4 DEF OpenFile, Wait, Join, CloseFile, world
  <2>. QED
    BY <2>1
<1>5. CASE HandleWatcher \/ WatchEnds
  <2>1. /\ UNCHANGED <<debug, pc>>
        /\ handleCh' = handleCh \/ (handleCh = "open" /\ handleCh' = "closed")
    BY <1>5 DEF HandleWatcher, WatchEnds, world
  <2>. QED
    BY <2>1
<1>6. CASE Interrupt \/ TargetWatcher \/ FanOut \/ UNCHANGED vars
  <2>1. UNCHANGED <<debug, handleCh, pc>>
    BY <1>6 DEF Interrupt, TargetWatcher, FanOut, vars, world
  <2>. QED
    BY <2>1
<1>7. ASSUME NEW s \in Streams, Running(s) \/ RemoteEnds(s) \/ StreamBreaks(s)
      PROVE  HandleInv'
  <2>1. UNCHANGED <<debug, handleCh, pc>>
    BY <1>7 DEF Running, StreamStarts, StreamCancelled, StreamReports, RemoteEnds,
                StreamBreaks, world
  <2>. QED
    BY <2>1
<1>8. CASE WorldStep
  <2>1. /\ UNCHANGED <<handleCh, pc>>
        /\ debug' = debug \/ (debug = "up" /\ debug' = "down")
    BY <1>8 DEF WorldStep, CreateTarget, Schedule, StartContainer, ReportStatus, TargetEnds,
                TouchTarget, DeleteTarget, ProcessChange, DebugPodEnds
  <2>. QED
    BY <2>1
<1>. QED
  BY <1>1, <1>2, <1>3, <1>4, <1>5, <1>6, <1>7, <1>8 DEF Next, Main, Done

LEMMA HandleInvariant == Spec => []HandleInv
<1>1. Init => HandleInv
  BY DEF Init, HandleInv
<1>2. HandleInv /\ [Next]_vars => HandleInv'
  BY HandleStep
<1>. QED
  BY <1>1, <1>2, PTL DEF Spec

-----------------------------------------------------------------------------
(* The stop.  The fan-out leaves only a capture that is cancelled, and the *)
(* main goroutine waits for it only when it has left or has been cancelled.*)

FanInv ==
  /\ pc = "run" => fan = "on" \/ CaptureDone
  /\ pc = "join" => fan = "done" \/ CaptureDone

LEMMA FanStep ==
  ASSUME TypeInv, FanInv, [Next]_vars
  PROVE  FanInv'
<1>. USE DEF FanInv, CaptureDone
<1>0. interrupted \in BOOLEAN /\ cancelled \in BOOLEAN
  BY TypeParts DEF TypeInv, ControlTyped
<1>1. CASE OpenFile
  BY <1>1 DEF OpenFile
<1>2. CASE Wait
  BY <1>2 DEF Wait
<1>3. CASE FanOut
  <2>1. pc' = pc /\ fan' = "done" /\ CaptureDone'
    BY <1>3 DEF FanOut
  <2>. QED
    BY <2>1
<1>4. CASE Locate \/ Ensure \/ GetTarget \/ WatchTarget \/ Resolve \/ CallInterrupted
             \/ CallFails \/ Join \/ CloseFile
  <2>1. pc' \notin {"run", "join"}
    BY <1>4 DEF Locate, Ensure, GetTarget, WatchTarget, Resolve, CallInterrupted, CallFails,
                Join, CloseFile, Fail
  <2>. QED
    BY <2>1
<1>5. CASE Interrupt
  <2>1. UNCHANGED <<pc, fan, cancelled>> /\ interrupted'
    BY <1>5 DEF Interrupt, group
  <2>. QED
    BY <2>1
<1>6. CASE WatchEnds \/ TargetWatcher \/ HandleWatcher \/ WorldStep \/ UNCHANGED vars
  <2>1. UNCHANGED <<pc, fan, cancelled, interrupted>>
    BY <1>6 DEF WatchEnds, TargetWatcher, HandleWatcher, WorldStep, vars, group
  <2>. QED
    BY <2>1
<1>7. ASSUME NEW s \in Streams, Running(s) \/ RemoteEnds(s) \/ StreamBreaks(s)
      PROVE  FanInv'
  <2>1. UNCHANGED <<pc, fan, cancelled, interrupted>>
    BY <1>7 DEF Running, StreamStarts, StreamCancelled, StreamReports, RemoteEnds,
                StreamBreaks
  <2>. QED
    BY <2>1
<1>. QED
  BY <1>1, <1>2, <1>3, <1>4, <1>5, <1>6, <1>7 DEF Next, Main, Done

LEMMA FanInvariant == Spec => []FanInv
<1>1. Init => FanInv
  BY DEF Init, FanInv
<1>2. TypeInv /\ FanInv /\ [Next]_vars => FanInv'
  BY FanStep
<1>. QED
  BY <1>1, <1>2, TypeInvariant, PTL DEF Spec

\* capture.go:95-117, podwatch.go:52-76: no stop condition of a running capture
\* falls between the watchers, the fan-out and the main goroutine.
THEOREM StopsAreKept == Spec => []NoStopLost
<1>1. TypeInv /\ TargetInv /\ HandleInv /\ FanInv => NoStopLost
  <2>. SUFFICES ASSUME TypeInv, TargetInv, HandleInv, FanInv PROVE NoStopLost
    OBVIOUS
  <2>1. ASSUME pc = "run", TargetGone PROVE targetCh = "closed" \/ EndDue
    <3>1. initial # NoPod /\ initial \in Pod /\ (target # NoPod => target \in Pod)
      BY <2>1, TypeParts DEF TypeInv, Placed, Phases, MainTyped, WorldTyped
    <3>2. Restarts(initial) \in Nat /\ (target # NoPod => Restarts(target) \in Nat)
      BY <3>1 DEF Restarts, Pod
    <3>3. ~Unchanged
      BY <2>1, <3>2 DEF TargetGone, Unchanged
    <3>. QED
      BY <3>1, <3>3 DEF TargetInv, Noticed
  <2>2. debug = "down" => handleCh # "off"
    BY DEF HandleInv
  <2>. QED
    BY <2>1, <2>2 DEF NoStopLost, FanInv
<1>. QED
  BY <1>1, TypeInvariant, TargetInvariant, HandleInvariant, FanInvariant, PTL

-----------------------------------------------------------------------------
(* The alarm.  An event that ends the capture is delivered late, perhaps,  *)
(* but it is never wrong: what it says of the target stays true.           *)

\* A pod that has run is not Pending again, and nothing is delivered before
\* the watch has its version.
TruthInv ==
  /\ pc \in {"locate", "ensure", "target"} => initial = NoPod
  /\ initial = NoPod => events = << >>
  /\ target # NoPod /\ initial # NoPod /\ target.uid = initial.uid => target.phase # "Pending"
  /\ initial # NoPod /\ EndDue => TargetGone

LEMMA EndShifted ==
  ASSUME events \in Seq(Event), events # << >>, events' = Tail(events), initial' = initial,
         EndDue'
  PROVE  EndDue
<1>1. PICK i \in 1 .. Len(events') : EndsCapture(events[i + 1])
  BY DEF EndDue, EndsCapture, Restarts
<1>2. i + 1 \in 1 .. Len(events)
  BY <1>1
<1>. QED
  BY <1>1, <1>2 DEF EndDue

\* Whatever is written, an end that was due still is true, and the new event is.
LEMMA WriteTruth ==
  ASSUME TypeInv, TruthInv, NEW type \in {"ADDED", "MODIFIED", "DELETED"}, NEW p \in Pod,
         Writes(type, p), UNCHANGED <<pc, initial>>,
         initial # NoPod /\ TargetGone => TargetGone',
         initial # NoPod /\ EndsCapture([type |-> type, pod |-> p]) => TargetGone',
         target' # NoPod /\ initial # NoPod /\ target'.uid = initial.uid =>
           target'.phase # "Pending"
  PROVE  TruthInv'
<1>1. events \in Seq(Event) /\ [type |-> type, pod |-> p] \in Event
  BY TypeParts DEF TypeInv, WatchTyped, Event
<1>2. initial' = NoPod => events' = << >>
  BY DEF TruthInv, Writes
<1>3. ASSUME initial # NoPod, EndDue' PROVE TargetGone'
  <2>1. CASE EndDue
    BY <1>3, <2>1 DEF TruthInv
  <2>2. CASE ~EndDue /\ events' = events
    BY <1>3, <2>2, DueKept
  <2>3. CASE ~EndDue /\ events' = Append(events, [type |-> type, pod |-> p])
    <3>1. PICK i \in 1 .. Len(events') : EndsCapture(events'[i])
      BY <1>3 DEF EndDue, EndsCapture, Restarts
    <3>2. CASE i = Len(events) + 1
      BY <1>1, <1>3, <2>3, <3>1, <3>2
    <3>3. CASE i # Len(events) + 1
      <4>1. i \in 1 .. Len(events) /\ events'[i] = events[i]
        BY <1>1, <2>3, <3>3
      <4>. QED
        BY <2>3, <3>1, <4>1 DEF EndDue
    <3>. QED
      BY <3>2, <3>3
  <2>. QED
    BY <2>1, <2>2, <2>3 DEF Writes
<1>. QED
  BY <1>2, <1>3 DEF TruthInv

LEMMA WorldTruth ==
  ASSUME TypeInv, NodeInv, TargetInv, TruthInv, WorldStep
  PROVE  TruthInv'
<1>0. WorldTyped /\ MainTyped /\ UNCHANGED <<pc, initial>>
  BY TypeParts DEF TypeInv, WorldStep, setup
<1>1. /\ lastUid \in Nat /\ born \in Nat /\ (target # NoPod => target \in Pod)
      /\ initial # NoPod => initial \in Pod /\ initial.uid <= lastUid
  BY <1>0, BoundsAssumption DEF WorldTyped, MainTyped, NodeInv, Known
<1>2. CASE CreateTarget
  <2>1. PICK n \in Nodes \cup {NoNode} :
          Writes("ADDED", [uid |-> lastUid + 1, node |-> n, phase |-> "Pending", inst |-> 0])
    BY <1>2 DEF CreateTarget
  <2>2. [uid |-> lastUid + 1, node |-> n, phase |-> "Pending", inst |-> 0] \in Pod
    BY <1>1 DEF Pod
  <2>3. target' = [uid |-> lastUid + 1, node |-> n, phase |-> "Pending", inst |-> 0]
    BY <2>1 DEF Writes
  <2>4. initial # NoPod => target'.uid # initial.uid
    BY <1>1, <2>3 DEF Pod
  <2>. QED
    BY <1>0, <2>1, <2>2, <2>4, WriteTruth DEF TargetGone
<1>3. ASSUME NEW p \in Pod, target # NoPod, target' = p, Writes("MODIFIED", p),
             p.uid = target.uid, p.phase # "Pending" \/ p.phase = target.phase,
             target.phase = "Ended" => p.phase = "Ended",
             target.uid = initial.uid => p.inst >= target.inst
      PROVE  TruthInv'
  <2>1. p # NoPod /\ p.inst \in Nat /\ target.inst \in Nat
        /\ (initial # NoPod => initial.inst \in Nat)
    BY <1>1, <1>3, NullsAssumption DEF Pod
  <2>2. initial # NoPod /\ TargetGone => TargetGone'
    BY <1>0, <1>3, <2>1 DEF TargetGone, Restarts
  <2>3. initial # NoPod /\ target.uid = initial.uid => p.phase # "Pending"
    BY <1>3 DEF TruthInv
  <2>4. initial # NoPod /\ EndsCapture([type |-> "MODIFIED", pod |-> p]) => TargetGone'
    BY <1>0, <1>3, <2>1, <2>3 DEF EndsCapture, TargetGone, Restarts
  <2>. QED
    BY <1>0, <1>3, <2>2, <2>3, <2>4, WriteTruth
<1>4. CASE Schedule
  <2>1. PICK n \in Nodes : Writes("MODIFIED", [target EXCEPT !.node = n])
    BY <1>4 DEF Schedule
  <2>2. target # NoPod /\ target \in Pod
    BY <1>1, <1>4 DEF Schedule
  <2>. DEFINE p == [target EXCEPT !.node = n]
  <2>3. /\ p \in Pod /\ p.uid = target.uid /\ p.phase = target.phase /\ p.inst = target.inst
        /\ target.inst \in Nat /\ target' = p
    BY <2>1, <2>2 DEF Pod, Writes
  <2>. HIDE DEF p
  <2>4. Writes("MODIFIED", p)
    BY <2>1 DEF p
  <2>. QED
    BY <1>3, <2>2, <2>3, <2>4
<1>5. CASE ReportStatus
  <2>. DEFINE p == [target EXCEPT !.phase = "Running", !.inst = born]
  <2>1. Writes("MODIFIED", p) /\ target # NoPod /\ target \in Pod /\ target.phase # "Ended"
    BY <1>1, <1>5 DEF ReportStatus
  <2>2. /\ p \in Pod /\ p.uid = target.uid /\ p.phase = "Running" /\ p.inst = born
        /\ target.inst \in Nat /\ target' = p
    BY <1>1, <2>1 DEF Pod, Writes
  <2>3. target.inst <= born
    BY <2>1 DEF TargetInv, Aged
  <2>. HIDE DEF p
  <2>4. p.inst >= target.inst
    BY <1>1, <2>2, <2>3
  <2>. QED
    BY <1>3, <2>1, <2>2, <2>4
<1>6. CASE TargetEnds
  <2>. DEFINE p == [target EXCEPT !.phase = "Ended"]
  <2>1. Writes("MODIFIED", p) /\ target # NoPod /\ target \in Pod
    BY <1>1, <1>6 DEF TargetEnds
  <2>2. /\ p \in Pod /\ p.uid = target.uid /\ p.phase = "Ended" /\ p.inst = target.inst
        /\ target.inst \in Nat /\ target' = p
    BY <2>1 DEF Pod, Writes
  <2>. HIDE DEF p
  <2>. QED
    BY <1>3, <2>1, <2>2
<1>7. CASE TouchTarget
  <2>1. Writes("MODIFIED", target) /\ target # NoPod /\ target \in Pod /\ target' = target
    BY <1>1, <1>7 DEF TouchTarget, Writes
  <2>2. target.inst \in Nat
    BY <2>1 DEF Pod
  <2>. QED
    BY <1>3, <2>1, <2>2
<1>8. CASE DeleteTarget
  <2>1. Writes("DELETED", target) /\ target # NoPod /\ target \in Pod /\ target' = NoPod
    BY <1>1, <1>8 DEF DeleteTarget, Writes
  <2>. QED
    BY <1>0, <2>1, WriteTruth DEF TargetGone
<1>9. CASE StartContainer \/ ProcessChange \/ DebugPodEnds
  <2>1. UNCHANGED <<target, events>>
    BY <1>9 DEF StartContainer, ProcessChange, DebugPodEnds
  <2>. QED
    BY <1>0, <2>1, DueKept DEF TruthInv, TargetGone, Restarts
<1>. QED
  BY <1>2, <1>4, <1>5, <1>6, <1>7, <1>8, <1>9 DEF WorldStep

LEMMA TruthStep ==
  ASSUME TypeInv, NodeInv, TargetInv, TruthInv, [Next]_vars
  PROVE  TruthInv'
<1>0. events \in Seq(Event)
  BY TypeParts DEF TypeInv, WatchTyped
<1>1. ASSUME UNCHANGED <<target, initial>>,
             events' = events \/ events' = << >>
               \/ (events # << >> /\ events' = Tail(events)),
             pc' = pc \/ pc' \notin {"locate", "ensure", "target"}
               \/ pc \in {"locate", "ensure"}
      PROVE  TruthInv'
  <2>1. EndDue' => EndDue
    <3>1. CASE events' = events
      BY <1>1, <3>1, DueKept
    <3>2. CASE events' = << >>
      BY <3>2 DEF EndDue
    <3>3. CASE events # << >> /\ events' = Tail(events)
      BY <1>0, <1>1, <3>3, EndShifted
    <3>. QED
      BY <1>1, <3>1, <3>2, <3>3
  <2>2. TargetGone' = TargetGone
    BY <1>1 DEF TargetGone, Restarts
  <2>3. events = << >> => events' = << >>
    BY <1>1
  <2>. QED
    BY <1>1, <2>1, <2>2, <2>3 DEF TruthInv
<1>2. CASE GetTarget
  <2>1. /\ pc = "target" /\ UNCHANGED <<target, events>>
        /\ \/ initial' = initial /\ pc' = "done"
           \/ /\ initial' = target /\ target # NoPod /\ target.phase = "Running"
              /\ pc' = "watch"
    BY <1>2 DEF GetTarget, Fail, world, watch
  <2>2. CASE initial' = target /\ target.phase = "Running" /\ pc' = "watch"
    <3>1. events = << >> /\ events' = << >>
      BY <2>1 DEF TruthInv
    <3>2. ~EndDue'
      BY <3>1 DEF EndDue
    <3>. QED
      BY <2>1, <2>2, <3>1, <3>2 DEF TruthInv
  <2>. QED
    BY <1>1, <2>1, <2>2
<1>3. CASE Locate \/ Ensure \/ WatchTarget \/ Resolve \/ OpenFile \/ CallInterrupted \/ Wait
             \/ Join \/ CloseFile \/ CallFails
  <2>1. /\ UNCHANGED <<target, initial, events>>
        /\ pc' \notin {"locate", "ensure", "target"} \/ pc \in {"locate", "ensure"}
    BY <1>3 DEF Locate, Ensure, WatchTarget, Resolve, OpenFile, CallInterrupted, Wait, Join,
                CloseFile, CallFails, Fail, world, setup, watch
  <2>. QED
    BY <1>1, <2>1
<1>4. CASE Interrupt \/ WatchEnds \/ TargetWatcher \/ HandleWatcher \/ FanOut \/ UNCHANGED vars
  <2>1. /\ UNCHANGED <<target, initial, pc>>
        /\ events' = events \/ events' = << >> \/ (events # << >> /\ events' = Tail(events))
    BY <1>4 DEF Interrupt, WatchEnds, TargetWatcher, HandleWatcher, FanOut, vars, world, setup,
                watch
  <2>. QED
    BY <1>1, <2>1
<1>5. ASSUME NEW s \in Streams, Running(s) \/ RemoteEnds(s) \/ StreamBreaks(s)
      PROVE  TruthInv'
  <2>1. UNCHANGED <<target, initial, events, pc>>
    BY <1>5 DEF Running, StreamStarts, StreamCancelled, StreamReports, RemoteEnds,
                StreamBreaks, world, setup, watch
  <2>. QED
    BY <1>1, <2>1
<1>. QED
  BY <1>2, <1>3, <1>4, <1>5, WorldTruth DEF Next, Main, Done

LEMMA TruthInvariant == Spec => []TruthInv
<1>1. Init => TruthInv
  BY DEF Init, TruthInv
<1>2. TypeInv /\ NodeInv /\ TargetInv /\ TruthInv /\ [Next]_vars => TruthInv'
  BY TruthStep
<1>. QED
  BY <1>1, <1>2, TypeInvariant, NodeInvariant, TargetInvariant, PTL DEF Spec

\* podwatch.go:52-76: whatever is written to the target and however late its
\* events are read, its watch closes only for an end that is real, on Ctrl-C or
\* because the server has ended it.
THEOREM AlarmsAreTrue == Spec => FalseAlarmOnlyByServer
<1>1. TypeInv /\ TruthInv /\ [Next]_vars =>
        (targetCh = "open" /\ targetCh' = "closed" => interrupted \/ TargetGone \/ WatchEnds)
  <2>. SUFFICES ASSUME TypeInv, TruthInv, [Next]_vars, targetCh = "open", targetCh' = "closed",
                       ~WatchEnds
                PROVE  interrupted \/ TargetGone
    OBVIOUS
  <2>1. ~(Main \/ CallFails)
    BY DEF Main, Locate, Ensure, GetTarget, WatchTarget, Resolve, OpenFile, CallInterrupted,
           Wait, Join, CloseFile, CallFails, watch
  <2>2. ~(Interrupt \/ HandleWatcher \/ FanOut \/ WorldStep \/ UNCHANGED vars)
    BY DEF Interrupt, HandleWatcher, FanOut, WorldStep, vars, watch
  <2>3. ASSUME NEW s \in Streams, Running(s) \/ RemoteEnds(s) \/ StreamBreaks(s) PROVE FALSE
    BY <2>3 DEF Running, StreamStarts, StreamCancelled, StreamReports, RemoteEnds,
                StreamBreaks, watch
  <2>4. TargetWatcher
    BY <2>1, <2>2, <2>3 DEF Next, Done
  <2>5. CASE events # << >> /\ EndsCapture(Head(events))
    <3>1. events \in Seq(Event)
      BY TypeParts DEF TypeInv, WatchTyped
    <3>2. EndDue
      BY <2>5, <3>1 DEF EndDue
    <3>. QED
      BY <2>5, <3>2 DEF TruthInv
  <2>. QED
    BY <2>4, <2>5 DEF TargetWatcher
<1>. QED
  BY <1>1, TypeInvariant, TruthInvariant, PTL DEF Spec, FalseAlarmOnlyByServer
=============================================================================
