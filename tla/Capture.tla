------------------------------- MODULE Capture ------------------------------
(***************************************************************************)
(* One run of auto observe tcpdump: the command finds the target pod,      *)
(* takes a debug pod on its node, watches the target, resolves the process *)
(* of its container and copies one or two tcpdump streams, which it must   *)
(* stop when the target or the debug pod ends, on Ctrl-C or when the       *)
(* duration is over.  Beside the main goroutine run the target watcher,    *)
(* the watcher of the handle, the fan-out and one goroutine per stream.    *)
(*                                                                         *)
(* Meanwhile the cluster goes on: containers restart, pods of the target's *)
(* name are deleted and created again elsewhere, process numbers are used  *)
(* again, and what the API says of a container lags behind the node.       *)
(***************************************************************************)
EXTENDS Integers, Sequences, ExitCode

CONSTANTS
  Nodes,      \* node names
  PIDs,       \* process numbers of a node
  NoNode,     \* the node of a pod that is not scheduled
  NoPod,      \* no pod has the target's name
  NoPID,      \* no process found yet
  MaxUid,     \* bound of the incarnations of the target's name
  MaxInst,    \* bound of the container instances of one incarnation
  MaxFaults   \* bound of failing calls, lost connections and ended watches

Streams == {"raw", "summary"}

Pod    == [uid: Nat, node: Nodes \cup {NoNode}, phase: {"Pending", "Running", "Ended"},
           inst: Nat]                    \* instance the status shows, 0 = no containerID
Owner  == [uid: Nat, inst: Nat]          \* the container a process belongs to
Free   == [uid |-> 0, inst |-> 0]
Other  == [uid |-> 0, inst |-> 1]        \* any process that is not of the target
Event  == [type: {"ADDED", "MODIFIED", "DELETED"}, pod: Pod]

ASSUME NullsAssumption  == NoPod \notin Pod /\ NoNode \notin Nodes /\ NoPID \notin PIDs
ASSUME BoundsAssumption == MaxUid \in Nat \ {0} /\ MaxInst \in Nat \ {0} /\ MaxFaults \in Nat

VARIABLES
  target,       \* the API's pod of the target's name, or NoPod
  lastUid,      \* incarnations of that name so far
  born,         \* instances of its container the kubelet has started
  procs,        \* what runs on each node under each process number
  debug,        \* the debug pod of the handle: "none", "up" or "down"
  faults,
  pc,           \* where the main goroutine is
  result,       \* exit code and reason
  node,         \* node of the debug pod
  initial,      \* the target as WatchTargetPod got it
  events,       \* what the target watch has still to deliver
  targetCh,     \* targetTerminated: "off", "open" or "closed"
  handleCh,     \* Handle.Terminated: "off", "open" or "closed"
  pid,          \* the workload's process number
  file,         \* the pcap file: "untouched", "open" or "closed"
  interrupted,  \* SIGINT has cancelled the root context
  cancelled,    \* captureCtx was cancelled
  fan,          \* the fan-out goroutine: "off", "on" or "done"
  stream,       \* goroutine of each stream: off, start, run, returned, ended
  net,          \* uid of the pod whose network namespace each stream is in
  out,          \* how each ExecStream has ended
  gerr          \* the first error of the errgroup

world == <<target, lastUid, born, procs, debug>>
setup == <<node, initial, pid, file>>
watch == <<events, targetCh>>
group == <<fan, stream, net, out, gerr>>
vars  == <<world, faults, pc, result, setup, watch, handleCh, interrupted,
           cancelled, group>>

Outcomes == {"none", "ok", "timeout", "status", "broken", "canceled"}
NoErr    == [out |-> "none", code |-> OK]

TypeOK ==
  /\ target \in Pod \cup {NoPod}
  /\ lastUid \in 0 .. MaxUid /\ born \in 0 .. MaxInst
  /\ procs \in [Nodes -> [PIDs -> Owner]]
  /\ debug \in {"none", "up", "down"}
  /\ faults \in 0 .. MaxFaults
  /\ pc \in {"locate", "ensure", "target", "watch", "resolve", "open", "run",
             "join", "close", "done"}
  /\ result \in [code: Codes, why: {"", "not found", "not scheduled", "not Running",
                                    "ambiguous", "no container", "api error", "ensure",
                                    "open file", "stream", "context canceled"}]
  /\ node \in Nodes \cup {NoNode}
  /\ initial \in Pod \cup {NoPod}
  /\ events \in Seq(Event)
  /\ targetCh \in {"off", "open", "closed"}
  /\ handleCh \in {"off", "open", "closed"}
  /\ pid \in PIDs \cup {NoPID}
  /\ file \in {"untouched", "open", "closed"}
  /\ interrupted \in BOOLEAN /\ cancelled \in BOOLEAN
  /\ fan \in {"off", "on", "done"}
  /\ stream \in [Streams -> {"off", "start", "run", "returned", "ended"}]
  /\ net \in [Streams -> Nat]
  /\ out \in [Streams -> Outcomes]
  /\ gerr \in [out: Outcomes, code: Codes]

Fault == faults < MaxFaults /\ faults' = faults + 1

-----------------------------------------------------------------------------
(* The main goroutine, up to the streams. *)

\* An early return: the handle is closed, and main exits.
Fail(code, why) ==
  /\ pc' = "done"
  /\ result' = [code |-> code, why |-> why]

\* newObserveTcpdumpCmd: the first Get of the target, for its node.
Locate ==
  /\ pc = "locate" /\ ~interrupted
  /\ CASE target = NoPod -> Fail(User, "not found") /\ UNCHANGED node
       [] target # NoPod /\ target.node = NoNode ->
            Fail(User, "not scheduled") /\ UNCHANGED node
       [] target # NoPod /\ target.node # NoNode ->
            pc' = "ensure" /\ node' = target.node /\ UNCHANGED result
  /\ UNCHANGED <<world, faults, initial, pid, file, watch, handleCh, interrupted,
                 cancelled, group>>

\* debugpod.Ensure, as DebugPod specifies it: a handle on a pod of the node.
Ensure ==
  /\ pc = "ensure" /\ ~interrupted
  /\ debug' = "up" /\ handleCh' = "open" /\ pc' = "target"
  /\ UNCHANGED <<target, lastUid, born, procs, faults, result, setup, watch,
                 interrupted, cancelled, group>>

\* WatchTargetPod: the second Get, the version the watch starts from.
GetTarget ==
  /\ pc = "target" /\ ~interrupted
  /\ CASE target = NoPod -> Fail(User, "not found") /\ UNCHANGED initial
       [] target # NoPod /\ target.phase # "Running" ->
            Fail(User, "not Running") /\ UNCHANGED initial
       [] target # NoPod /\ target.phase = "Running" ->
            pc' = "watch" /\ initial' = target /\ UNCHANGED result
  /\ UNCHANGED <<world, faults, node, pid, file, watch, handleCh, interrupted,
                 cancelled, group>>

WatchTargetLate ==                                                   \* mutant
  /\ pc = "watch" /\ ~interrupted
  /\ targetCh' = "open" /\ events' = <<>>
  /\ IF initial.inst = 0 THEN Fail(Node, "no container") ELSE pc' = "resolve" /\ UNCHANGED result
  /\ UNCHANGED <<world, faults, setup, handleCh, interrupted, cancelled, group>>

\* The watch is open; SelectContainer, which fails for a pod of several
\* containers without --container, and StripContainerIDPrefix on initial.
WatchTarget ==
  /\ pc = "watch" /\ ~interrupted
  /\ targetCh' = "open"
  /\ \/ Fail(User, "ambiguous")
     \/ initial.inst = 0 /\ Fail(Node, "no container")
     \/ initial.inst # 0 /\ pc' = "resolve" /\ UNCHANGED result
  /\ UNCHANGED <<world, faults, setup, events, handleCh, interrupted, cancelled,
                 group>>

\* The processes of the node that belong to the container of initial.
Workload == {p \in PIDs : procs[node][p] = [uid |-> initial.uid, inst |-> initial.inst]}

ResolveUnchecked ==                                                  \* mutant
  /\ pc = "resolve" /\ ~interrupted /\ debug = "up"
  /\ pid' = IF Workload = {} THEN 0 ELSE CHOOSE p \in Workload : TRUE
  /\ pc' = "open"
  /\ UNCHANGED <<world, faults, result, node, initial, file, watch, handleCh,
                 interrupted, cancelled, group>>

ResolveAny ==                                                        \* mutant
  /\ pc = "resolve" /\ ~interrupted /\ debug = "up"
  /\ \E p \in PIDs : procs[node][p] # Free /\ pid' = p
  /\ pc' = "open"
  /\ UNCHANGED <<world, faults, result, node, initial, file, watch, handleCh,
                 interrupted, cancelled, group>>

\* resolveWorkloadPID: ctr tasks list in the debug pod, then FindPID.
Resolve ==
  /\ pc = "resolve" /\ ~interrupted
  /\ IF debug = "up" /\ Workload # {}
       THEN (\E p \in Workload : pid' = p) /\ pc' = "open" /\ UNCHANGED result
       ELSE /\ Fail(IF debug = "up" THEN Node ELSE Cluster, "no container")
            /\ UNCHANGED pid
  /\ UNCHANGED <<world, faults, node, initial, file, watch, handleCh, interrupted,
                 cancelled, group>>

\* The file is truncated, captureCtx made and every goroutine started, the one
\* of the summary only with --summary.
OpenFile ==
  /\ pc = "open"
  /\ file' = "open" /\ fan' = "on" /\ pc' = "run"
  /\ \E wanted \in {{"raw"}, Streams} :
       stream' = [s \in Streams |-> IF s \in wanted THEN "start" ELSE "off"]
  /\ UNCHANGED <<world, faults, result, node, initial, pid, watch, handleCh,
                 interrupted, cancelled, net, out, gerr>>

\* A call of the main goroutine fails; both Gets, and the Watch, report any
\* error as the user's.
CallFails ==
  /\ Fault
  /\ \/ pc \in {"locate", "target", "watch"} /\ Fail(User, "api error")
     \/ pc = "ensure" /\ \E c \in {User, Cluster, Internal} : Fail(c, "ensure")
     \/ pc = "resolve" /\ \E c \in {Cluster, Node} : Fail(c, "stream")
     \/ pc = "open" /\ Fail(Internal, "open file")
  /\ UNCHANGED <<world, setup, watch, handleCh, interrupted, cancelled, group>>

\* After SIGINT whatever wraps context.Canceled is 130; not all of Ensure does.
CallInterrupted ==
  /\ interrupted /\ pc \in {"locate", "ensure", "target", "watch", "resolve"}
  /\ \/ Fail(Sigint, "context canceled")
     \/ pc = "ensure" /\ Fail(Cluster, "ensure")
  /\ UNCHANGED <<world, faults, setup, watch, handleCh, interrupted, cancelled,
                 group>>

-----------------------------------------------------------------------------
(* The goroutines of a capture. *)

CaptureDone == cancelled \/ interrupted
GroupDone   == CaptureDone \/ gerr # NoErr \/ pc \notin {"open", "run"}

Restarts(p) == IF p.inst = 0 THEN 0 ELSE p.inst - 1

EndsCapturePhase(e) == e.type = "DELETED" \/ e.pod.phase # "Running"  \* mutant

EndsCaptureEager(e) ==                                               \* mutant
  \/ e.type = "DELETED"
  \/ e.pod.phase \in {"Pending", "Ended"}
  \/ Restarts(e.pod) >= Restarts(initial)

\* The pod is gone, has left Running, or has restarted a container.
EndsCapture(e) ==
  \/ e.type = "DELETED"
  \/ e.pod.phase \in {"Pending", "Ended"}
  \/ Restarts(e.pod) > Restarts(initial)

\* The end of the target is on its way.
EndDue == \E i \in 1 .. Len(events) : EndsCapture(events[i])

\* The goroutine of WatchTargetPod; it lives on the root context.
TargetWatcher ==
  /\ targetCh = "open" /\ pc # "done"
  /\ \/ events # <<>> /\ EndsCapture(Head(events)) /\ targetCh' = "closed" /\ events' = <<>>
     \/ /\ events # <<>> /\ ~EndsCapture(Head(events))
        /\ events' = Tail(events) /\ UNCHANGED targetCh
     \/ interrupted /\ targetCh' = "closed" /\ events' = <<>>
  /\ UNCHANGED <<world, faults, pc, result, setup, handleCh, interrupted,
                 cancelled, group>>

\* The goroutine of startWatcher, as PodClaim promises it.
HandleWatcher ==
  /\ handleCh = "open" /\ pc # "done"
  /\ debug = "down" \/ interrupted
  /\ handleCh' = "closed"
  /\ UNCHANGED <<world, faults, pc, result, setup, watch, interrupted, cancelled,
                 group>>

\* The API server ends a watch, which its goroutine takes for termination.
WatchEnds ==
  /\ Fault /\ pc # "done"
  /\ \/ targetCh = "open" /\ targetCh' = "closed" /\ events' = <<>> /\ UNCHANGED handleCh
     \/ handleCh = "open" /\ handleCh' = "closed" /\ UNCHANGED watch
  /\ UNCHANGED <<world, pc, result, setup, interrupted, cancelled, group>>

FanOutDeaf ==                                                        \* mutant
  /\ fan = "on"
  /\ \/ CaptureDone /\ UNCHANGED cancelled
     \/ targetCh = "closed" /\ cancelled' = TRUE
  /\ fan' = "done"
  /\ UNCHANGED <<world, faults, pc, result, setup, watch, handleCh, interrupted,
                 stream, net, out, gerr>>

\* The fan-out: the select takes any case that is ready.
FanOut ==
  /\ fan = "on"
  /\ \/ CaptureDone /\ UNCHANGED cancelled
     \/ "closed" \in {targetCh, handleCh} /\ cancelled' = TRUE
  /\ fan' = "done"
  /\ UNCHANGED <<world, faults, pc, result, setup, watch, handleCh, interrupted,
                 stream, net, out, gerr>>

Returns(s, o) ==
  /\ stream' = [stream EXCEPT ![s] = "returned"]
  /\ out' = [out EXCEPT ![s] = o]
  /\ net' = [net EXCEPT ![s] = 0]

\* The connection is up: nsenter joins the namespace of whatever has the
\* process number now, or fails when nothing has.
StreamStarts(s) ==
  /\ stream[s] = "start" /\ debug = "up"
  /\ IF procs[node][pid] = Free
       THEN Returns(s, "status")
       ELSE /\ stream' = [stream EXCEPT ![s] = "run"]
            /\ net' = [net EXCEPT ![s] = procs[node][pid].uid]
            /\ UNCHANGED out
  /\ UNCHANGED <<world, faults, pc, result, setup, watch, handleCh, interrupted,
                 cancelled, fan, gerr>>

\* The remote command ends: with status 0, by its timeout, or otherwise.
RemoteEnds(s) ==
  /\ stream[s] = "run" /\ debug = "up"
  /\ \E o \in {"ok", "timeout", "status"} : Returns(s, o)
  /\ UNCHANGED <<world, faults, pc, result, setup, watch, handleCh, interrupted,
                 cancelled, fan, gerr>>

\* The connection breaks: the debug pod has ended, or it is a fault.
StreamBreaks(s) ==
  /\ stream[s] \in {"start", "run"}
  /\ IF debug = "down" THEN UNCHANGED faults ELSE Fault
  /\ Returns(s, "broken")
  /\ UNCHANGED <<world, pc, result, setup, watch, handleCh, interrupted, cancelled,
                 fan, gerr>>

\* StreamWithContext returns the context's error.  Its copier, inside client-go,
\* may write on for a moment; that is not modelled.
StreamCancelled(s) ==
  /\ stream[s] \in {"start", "run"} /\ GroupDone
  /\ Returns(s, "canceled")
  /\ UNCHANGED <<world, faults, pc, result, setup, watch, handleCh, interrupted,
                 cancelled, fan, gerr>>

WrappedBroken(o) ==                                                  \* mutant
  [out  |-> o,
   code |-> IF o \in {"canceled", "broken"} THEN Sigint
            ELSE IF o \in {"timeout", "status"} THEN Node ELSE Cluster]

\* ExecStream's classification: the context as it is by now comes first.
Wrapped(o) ==
  [out  |-> o,
   code |-> IF o = "canceled" \/ GroupDone THEN Sigint
            ELSE IF o \in {"timeout", "status"} THEN Node ELSE Cluster]

\* ExecStream returns to the errgroup, which keeps the first error only.
StreamReports(s) ==
  /\ stream[s] = "returned"
  /\ stream' = [stream EXCEPT ![s] = "ended"]
  /\ gerr' = IF out[s] = "ok" \/ gerr # NoErr THEN gerr ELSE Wrapped(out[s])
  /\ UNCHANGED <<world, faults, pc, result, setup, watch, handleCh, interrupted,
                 cancelled, fan, net, out>>

ExpectedLax(e) == e.out # "broken"                                   \* mutant

\* isExpectedTimeoutExit, or a cancellation: the capture counts as complete.
Expected(e) == e.out \in {"none", "timeout", "canceled"}

WaitRaw ==                                                           \* mutant
  /\ pc = "run" /\ stream["raw"] = "ended"
  /\ result' = IF Expected(gerr) THEN [code |-> OK, why |-> ""]
               ELSE [code |-> gerr.code, why |-> "stream"]
  /\ pc' = "join" /\ cancelled' = TRUE
  /\ UNCHANGED <<world, faults, setup, watch, handleCh, interrupted, group>>

WaitNoCancel ==                                                      \* mutant
  /\ pc = "run" /\ \A s \in Streams : stream[s] \in {"off", "ended"}
  /\ result' = IF Expected(gerr) THEN [code |-> OK, why |-> ""]
               ELSE [code |-> gerr.code, why |-> "stream"]
  /\ pc' = "join" /\ UNCHANGED cancelled
  /\ UNCHANGED <<world, faults, setup, watch, handleCh, interrupted, group>>

\* g.Wait returns, the outcome is classified, and the deferred cancel runs.
Wait ==
  /\ pc = "run" /\ \A s \in Streams : stream[s] \in {"off", "ended"}
  /\ result' = IF Expected(gerr) THEN [code |-> OK, why |-> ""]
               ELSE [code |-> gerr.code, why |-> "stream"]
  /\ pc' = "join" /\ cancelled' = TRUE
  /\ UNCHANGED <<world, faults, setup, watch, handleCh, interrupted, group>>

\* <-fanDone.
Join ==
  /\ pc = "join" /\ fan = "done"
  /\ pc' = "close"
  /\ UNCHANGED <<world, faults, result, setup, watch, handleCh, interrupted,
                 cancelled, group>>

\* Sync and Close, and the command returns.
CloseFile ==
  /\ pc = "close"
  /\ file' = "closed" /\ pc' = "done"
  /\ UNCHANGED <<world, faults, result, node, initial, pid, watch, handleCh,
                 interrupted, cancelled, group>>

Interrupt ==
  /\ Fault /\ ~interrupted /\ pc # "done"
  /\ interrupted' = TRUE
  /\ UNCHANGED <<world, pc, result, setup, watch, handleCh, cancelled, group>>

-----------------------------------------------------------------------------
(* The cluster. *)

\* The target's object becomes p; the watch, once anchored, will deliver it.
\* Nothing is left to deliver behind an event that ends the watch.
Writes(type, p) ==
  /\ target' = IF type = "DELETED" THEN NoPod ELSE p
  /\ events' = IF initial # NoPod /\ targetCh # "closed" /\ ~EndDue
                 THEN Append(events, [type |-> type, pod |-> p])
                 ELSE events

CreateTarget ==
  /\ target = NoPod /\ lastUid < MaxUid
  /\ \E n \in Nodes \cup {NoNode} :
       Writes("ADDED", [uid |-> lastUid + 1, node |-> n, phase |-> "Pending", inst |-> 0])
  /\ lastUid' = lastUid + 1 /\ born' = 0
  /\ UNCHANGED <<procs, debug>>

Schedule ==
  /\ target # NoPod /\ target.node = NoNode
  /\ \E n \in Nodes : Writes("MODIFIED", [target EXCEPT !.node = n])
  /\ UNCHANGED <<lastUid, born, procs, debug>>

\* The kubelet starts the next instance once the one before has ended.
StartContainer ==
  /\ target # NoPod /\ target.node # NoNode /\ target.phase # "Ended" /\ born < MaxInst
  /\ \E p \in PIDs :
       /\ procs[target.node][p] = Free
       /\ \A q \in PIDs : procs[target.node][q] # [uid |-> target.uid, inst |-> born]
       /\ procs' = [procs EXCEPT ![target.node][p] = [uid |-> target.uid, inst |-> born + 1]]
  /\ born' = born + 1
  /\ UNCHANGED <<target, events, lastUid, debug>>

\* The status catches up with the node: Running, and the latest instance.
ReportStatus ==
  /\ target # NoPod /\ target.node # NoNode /\ target.phase # "Ended"
  /\ LET p == [target EXCEPT !.phase = "Running", !.inst = born]
     IN p # target /\ Writes("MODIFIED", p)
  /\ UNCHANGED <<lastUid, born, procs, debug>>

TargetEnds ==
  /\ target # NoPod /\ target.phase # "Ended"
  /\ Writes("MODIFIED", [target EXCEPT !.phase = "Ended"])
  /\ UNCHANGED <<lastUid, born, procs, debug>>

\* A label or a condition of the target changes, nothing that ends a capture.
\* The bound: only when nothing else is waiting to be delivered.
TouchTarget ==
  /\ target # NoPod /\ events = <<>>
  /\ Writes("MODIFIED", target)
  /\ UNCHANGED <<lastUid, born, procs, debug>>

DeleteTarget ==
  /\ target # NoPod
  /\ Writes("DELETED", target)
  /\ UNCHANGED <<lastUid, born, procs, debug>>

\* A process ends, of a deleted pod or not; another takes a free number.
ProcessChange ==
  /\ \E n \in Nodes, p \in PIDs :
       procs' = [procs EXCEPT ![n][p] = IF @ = Free THEN Other ELSE Free]
  /\ UNCHANGED <<target, lastUid, born, debug, events>>

DebugPodEnds ==
  /\ debug = "up" /\ debug' = "down"
  /\ UNCHANGED <<target, lastUid, born, procs, events>>

WorldStep ==
  /\ pc # "done"
  /\ \/ CreateTarget \/ Schedule \/ StartContainer \/ ReportStatus \/ TargetEnds
     \/ TouchTarget \/ DeleteTarget \/ ProcessChange \/ DebugPodEnds
  /\ UNCHANGED <<faults, pc, result, setup, targetCh, handleCh, interrupted,
                 cancelled, group>>

-----------------------------------------------------------------------------
\* At the start there is no target, or a running one.
Init ==
  /\ \/ /\ target = NoPod /\ lastUid = 0 /\ born = 0
        /\ procs = [n \in Nodes |-> [p \in PIDs |-> Free]]
     \/ \E n \in Nodes, p \in PIDs :
          /\ target = [uid |-> 1, node |-> n, phase |-> "Running", inst |-> 1]
          /\ lastUid = 1 /\ born = 1
          /\ procs = [m \in Nodes |-> [q \in PIDs |->
               IF m = n /\ q = p THEN [uid |-> 1, inst |-> 1] ELSE Free]]
  /\ debug = "none" /\ faults = 0
  /\ pc = "locate" /\ result = [code |-> OK, why |-> ""]
  /\ node = NoNode /\ initial = NoPod /\ events = <<>>
  /\ targetCh = "off" /\ handleCh = "off"
  /\ pid = NoPID /\ file = "untouched"
  /\ interrupted = FALSE /\ cancelled = FALSE /\ fan = "off"
  /\ stream = [s \in Streams |-> "off"]
  /\ net = [s \in Streams |-> 0]
  /\ out = [s \in Streams |-> "none"]
  /\ gerr = NoErr

Main ==
  \/ Locate \/ Ensure \/ GetTarget \/ WatchTarget \/ Resolve \/ OpenFile
  \/ CallInterrupted \/ Wait \/ Join \/ CloseFile

Running(s) == StreamStarts(s) \/ StreamCancelled(s) \/ StreamReports(s)

Done == pc = "done" /\ UNCHANGED vars

Next ==
  \/ Main \/ CallFails \/ Interrupt \/ WatchEnds
  \/ TargetWatcher \/ HandleWatcher \/ FanOut
  \/ \E s \in Streams : Running(s) \/ RemoteEnds(s) \/ StreamBreaks(s)
  \/ WorldStep
  \/ Done

\* Go runs every goroutine that can run, and a call returns.  Nothing makes a
\* remote tcpdump end, or the cluster move.
Fairness ==
  /\ WF_vars(Main) /\ WF_vars(TargetWatcher) /\ WF_vars(HandleWatcher) /\ WF_vars(FanOut)
  /\ \A s \in Streams : WF_vars(Running(s))

Spec     == Init /\ [][Next]_vars
FairSpec == Spec /\ Fairness

-----------------------------------------------------------------------------
\* What the API says of the target is what it said when the watch began.
StatusUnchanged ==
  target # NoPod /\ target.uid = initial.uid /\ target.phase = "Running"
  /\ target.inst = initial.inst

\* A stream can join the network of something else than the target, because the
\* number resolved earlier has passed to another process (capture.go:74).  It
\* does so unnoticed only as long as the API server itself has not noticed: from
\* the moment the status of the target changes, the news is in the target watch
\* or has closed it, because podwatch.go:30-34 anchors the watch at the very
\* object the container was taken from.  Until then the code cannot know.
CapturesTarget ==
  \A s \in Streams :
    stream[s] = "run" /\ net[s] # initial.uid
      => targetCh = "closed" \/ EndDue \/ StatusUnchanged

\* The target is looked up twice, for its node (observe.go:50) and for its
\* container (podwatch.go:26).  A pod created again elsewhere in between is
\* never captured with the debug pod of the old node.
TargetOnNode == pid # NoPID => initial.node = node

\* The pcap file is synced and closed only after both ExecStreams have returned
\* to the errgroup and the fan-out is through, whatever ended first and in
\* whatever order (capture.go:89-121).  A copier of client-go that outlives its
\* cancelled stream is not covered.
FileSettled ==
  file = "closed" =>
    fan = "done" /\ \A s \in Streams : stream[s] \in {"off", "ended"}

\* Exit code 0 is earned: the raw stream came to its own good end, or one of
\* the stop conditions (docs/TOOL.md:194) or the duration has cut it.
NoSilentFailure ==
  file = "closed" /\ result.code = OK =>
    \/ out["raw"] \in {"ok", "timeout"} \/ out["summary"] = "timeout"
    \/ interrupted \/ "closed" \in {targetCh, handleCh}

\* docs/TOOL.md:62 keeps 130 for SIGINT, and the code does not (see the last
\* property).  What is left of it: without Ctrl-C a command exits 130 only when
\* a stop condition has cancelled the capture, never for a stream that broke
\* or a remote command that failed by itself (exec.go:71, capture.go:142).
SigintCodeHasCause ==
  pc = "done" /\ result.code = Sigint =>
    interrupted \/ (file = "closed" /\ "closed" \in {targetCh, handleCh})

TargetGone ==
  \/ target = NoPod \/ target.uid # initial.uid \/ target.phase = "Ended"
  \/ Restarts(target) > Restarts(initial)

\* No stop condition is lost between the goroutines: while the capture runs, an
\* end of the target is still to be read by its watcher or has closed the
\* channel, an end of the debug pod has a handle that listens, and a fan-out
\* that is through has cancelled the streams; and whoever waits for the fan-out
\* waits for one that is through or told to be (capture.go:95-117).
NoStopLost ==
  /\ pc = "run" =>
       /\ TargetGone => targetCh = "closed" \/ EndDue
       /\ debug = "down" => handleCh # "off"
       /\ fan = "on" \/ CaptureDone
  /\ pc = "join" => fan = "done" \/ CaptureDone

\* The watch of the target raises no false alarm of its own: whatever events are
\* queued, it closes only when the target it was opened for is gone, has left
\* Running or has restarted, or on Ctrl-C.  The one exception is the end of the
\* watch itself, which the code takes for the end of the target
\* (podwatch.go:52).
FalseAlarmOnlyByServer ==
  [][targetCh = "open" /\ targetCh' = "closed"
       => interrupted \/ TargetGone \/ WatchEnds]_vars

\* Every stop condition stops the capture, and the command returns, even when
\* no duration was given and the remote tcpdump never ends by itself.
StopsWhenToldTo ==
  pc = "run" /\ (interrupted \/ debug = "down" \/ TargetGone) ~> pc = "done"

\* When the streams have ended by themselves the command returns: nobody waits
\* for a fan-out that waits for a termination (capture.go:97-100).
ReturnsAfterStreams ==
  pc = "run" /\ (\A s \in Streams : stream[s] \in {"off", "ended"}) ~> pc = "done"

-----------------------------------------------------------------------------
\* docs/TOOL.md:62: exit code 130 is SIGINT.  ExecStream tags every error it
\* meets under a cancelled context with that code (exec.go:71), and Capture
\* lets it pass when the error itself is not context.Canceled (capture.go:142).
SigintCodeOnlyOnSigint ==
  pc = "done" /\ result.code = Sigint => interrupted
=============================================================================
