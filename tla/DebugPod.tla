------------------------------ MODULE DebugPod ------------------------------
(***************************************************************************)
(* The life of the privileged debug pods: concurrent invocations of the    *)
(* auto command line sweep expired pods, converge on one pod per node      *)
(* (debugpod.Ensure), watch it, open exec streams into it and go away,     *)
(* while cleanup commands, the kubelet and other users of the cluster      *)
(* change the same pods.  Nothing but the API server is shared.            *)
(*                                                                         *)
(* A resourceVersion is an anchor in the API server's history: events[c]   *)
(* is the part of that history, for the pod name of c, that comes after    *)
(* the version c holds, so a watch opened late still receives all of it.   *)
(***************************************************************************)
EXTENDS Integers, Sequences, ExitCode

CONSTANTS
  Sessions,     \* invocations of exec/logs/metrics: ensureDebugPod, then streams
  Cleaners,     \* invocations of auto cleanup
  Nodes,        \* node names
  Names,        \* pod names
  PodNameFor,   \* [Nodes -> Names], the truncated hash of manifest.go
  NodeOf,       \* [Sessions -> Nodes], the node argument of each session
  AnyNode,      \* the empty CleanupFilter.Node
  NoPod,        \* NotFound
  DefaultTTL,   \* lease length, in ticks
  MaxPolls,     \* polls of deleteAndWait before its deadline
  MaxTime,      \* bound of the clock
  MaxFaults     \* bound of API errors, interrupts, kills and foreign deletions

Clients  == Sessions \cup Cleaners
Attempts == 3

Terminal == {"Succeeded", "Failed"}
Pod      == [uid: Nat, node: Nodes, phase: {"Pending", "Running"} \cup Terminal,
             ttl: Nat]
Item     == [name: Names, pod: Pod]
Event    == [type: {"ADDED", "MODIFIED", "DELETED"}, pod: Pod]
Filter   == [node: Nodes \cup {AnyNode}, ttlOnly: BOOLEAN]

ASSUME ClientsAssumption == Sessions \cap Cleaners = {}
ASSUME NamesAssumption   == PodNameFor \in [Nodes -> Names]
ASSUME NodeOfAssumption  == NodeOf \in [Sessions -> Nodes]
ASSUME NullsAssumption   == NoPod \notin Pod /\ AnyNode \notin Nodes
ASSUME BoundsAssumption  == /\ DefaultTTL \in Nat \ {0} /\ MaxPolls \in Nat \ {0}
                            /\ MaxTime \in Nat /\ MaxFaults \in Nat

VARIABLES
  now,          \* time.Now(), the clocks of all machines being synchronised
  pods,         \* the API server: pod name -> pod, or NoPod
  lastUid,      \* incarnations the API server has given each name
  faults,       \* faults so far
  pc,           \* where each client is
  interrupted,  \* clients whose root context SIGINT has cancelled
  result,       \* exit code and message of a client that has stopped
  filter,       \* the CleanupFilter of each client
  todo,         \* listed pods the cleanup loop has not reached
  deleted,      \* listed pods a cleanup command reports as deleted
  attempt,      \* the loop counter of Ensure
  polls,        \* polls of deleteAndWait so far
  stamp,        \* time.Now() as read for the lease a create or patch will write
  got,          \* the pod object Ensure last took from the API
  events,       \* what a watch from the version of got has still to deliver
  watcher,      \* the goroutine of startWatcher; "closed" = Terminated is closed
  stream        \* incarnation the exec stream is attached to, 0 = none

api     == <<now, pods, lastUid>>
sweep   == <<filter, todo, deleted>>
ensure  == <<attempt, polls, stamp, got>>
session == <<events, watcher, stream>>
vars    == <<api, faults, pc, interrupted, result, sweep, ensure, session>>

Labels  == {"start", "sweep", "get", "create", "refresh", "delete", "poll",
            "wait", "watch", "ready", "stream", "done", "killed"}
Stopped == {"done", "killed"}
Messages == {"", "aborted", "api error", "refresh TTL",
             "timeout waiting gone", "did not reach Running", "terminal phase",
             "watch closed unexpectedly", "too many race retries",
             "exec stream", "remote exit status", "context canceled"}

TypeOK ==
  /\ now \in Nat
  /\ pods \in [Names -> Pod \cup {NoPod}]
  /\ lastUid \in [Names -> Nat]
  /\ faults \in Nat
  /\ pc \in [Clients -> Labels]
  /\ interrupted \subseteq Clients
  /\ result \in [Clients -> [code: Codes,
                             msg: Messages]]
  /\ filter \in [Clients -> Filter]
  /\ todo \in [Clients -> SUBSET Item]
  /\ deleted \in [Clients -> SUBSET Item]
  /\ attempt \in [Clients -> 1 .. Attempts]
  /\ polls \in [Clients -> 0 .. MaxPolls]
  /\ stamp \in [Clients -> Nat]
  /\ got \in [Clients -> Pod \cup {NoPod}]
  /\ events \in [Clients -> Seq(Event)]
  /\ watcher \in [Clients -> {"off", "on", "closed"}]
  /\ stream \in [Clients -> Nat]

-----------------------------------------------------------------------------
(* Decisions of the code on a pod object it holds. *)

NameOf(c)  == PodNameFor[NodeOf[c]]
Expired(p) == now >= p.ttl

ShouldGCEarly(p)    == p.phase \in Terminal \/ now + 1 >= p.ttl   \* mutant
ShouldGCTerminal(p) == p.phase \in Terminal                        \* mutant
ShouldGC(p)         == p.phase \in Terminal \/ Expired(p)

Selects(f, n) == f.node = AnyNode \/ n = PodNameFor[f.node]

\* The switch of Ensure on the result of Get.
Branch(p) ==
  CASE p = NoPod                              -> "create"
    [] p # NoPod /\ p.phase = "Pending"       -> "wait"
    [] p # NoPod /\ p.phase = "Running"       -> IF Expired(p) THEN "delete" ELSE "refresh"
    [] p # NoPod /\ p.phase \in Terminal      -> "delete"

\* The end of the lease that a create or a patch writes.
LeaseExtended(c) == (IF got[c] = NoPod THEN stamp[c] ELSE got[c].ttl) + DefaultTTL  \* mutant
Lease(c)         == stamp[c] + DefaultTTL

(* The API server. *)

\* Clients that hold a resourceVersion they watch from, or will.
AnchoredLate(c) == pc[c] = "wait" \/ watcher[c] = "on"             \* mutant
Anchored(c)     == pc[c] \in {"refresh", "wait", "watch"} \/ watcher[c] = "on"

NotifyAll(n, type, p) ==                                           \* mutant
  [c \in Clients |->
     IF c \in Sessions /\ Anchored(c)
       THEN Append(events[c], [type |-> type, pod |-> p])
       ELSE events[c]]

Notify(n, type, p) ==
  [c \in Clients |->
     IF c \in Sessions /\ Anchored(c) /\ NameOf(c) = n
       THEN Append(events[c], [type |-> type, pod |-> p])
       ELSE events[c]]

DeleteGraceful(n) == UNCHANGED <<api, events>>                      \* mutant

\* Delete by name with grace period 0, whatever incarnation has the name now.
DeleteByName(n) ==
  /\ pods' = [pods EXCEPT ![n] = NoPod]
  /\ events' = IF pods[n] = NoPod THEN events ELSE Notify(n, "DELETED", pods[n])
  /\ UNCHANGED <<now, lastUid>>

-----------------------------------------------------------------------------
(* Control of a client. *)

\* A client at label l whose context is live: the next API call can succeed.
At(c, l) == pc[c] = l /\ c \notin interrupted

Goto(c, l) == pc' = [pc EXCEPT ![c] = l]

\* The command returns: the deferred Handle.Close cancels the watcher.
Stop(c, code, msg) ==
  /\ Goto(c, "done")
  /\ result' = [result EXCEPT ![c] = [code |-> code, msg |-> msg]]
  /\ got' = [got EXCEPT ![c] = NoPod]
  /\ events' = [events EXCEPT ![c] = <<>>]
  /\ watcher' = [watcher EXCEPT ![c] = IF @ = "on" THEN "closed" ELSE @]
  /\ stream' = [stream EXCEPT ![c] = 0]

RetryUncounted(c) ==                                                 \* mutant
  Goto(c, "get") /\ UNCHANGED <<attempt, got, result, session>>

\* "continue" in the loop of Ensure, or its end after the last attempt.
Retry(c) ==
  IF attempt[c] < Attempts
    THEN /\ attempt' = [attempt EXCEPT ![c] = @ + 1]
         /\ Goto(c, "get")
         /\ UNCHANGED <<got, result, session>>
    ELSE /\ Stop(c, Internal, "too many race retries")
         /\ UNCHANGED attempt

-----------------------------------------------------------------------------
(* debugpod.Cleanup: the sweep at the start of every session, and the      *)
(* cleanup command.                                                        *)

\* The prompt of the cleanup command, answered with anything but yes.
CleanupDecline(c) ==
  /\ c \in Cleaners /\ pc[c] = "start" /\ ~filter[c].ttlOnly
  /\ Stop(c, User, "aborted")
  /\ UNCHANGED <<api, faults, interrupted, sweep, attempt, polls, stamp>>

CleanupList(c) ==
  /\ At(c, "start")
  /\ todo' = [todo EXCEPT ![c] =
       {[name |-> n, pod |-> pods[n]] :
          n \in {m \in Names : pods[m] # NoPod /\ Selects(filter[c], m)}}]
  /\ Goto(c, "sweep")
  /\ UNCHANGED <<api, faults, interrupted, result, filter, deleted, ensure, session>>

\* One iteration: skip a pod that is not to be collected, delete any other.
CleanupItem(c) ==
  /\ At(c, "sweep")
  /\ \E i \in todo[c] :
       /\ todo' = [todo EXCEPT ![c] = @ \ {i}]
       /\ IF filter[c].ttlOnly /\ ~ShouldGC(i.pod)
            THEN UNCHANGED <<api, events, deleted>>
            ELSE /\ DeleteByName(i.name)
                 /\ deleted' = IF c \in Cleaners
                                 THEN [deleted EXCEPT ![c] = @ \cup {i}]
                                 ELSE deleted
  /\ UNCHANGED <<faults, pc, interrupted, result, filter, ensure, watcher, stream>>

\* A session ignores what the sweep returns and goes on to Ensure.
CleanupReturn(c) ==
  /\ At(c, "sweep") /\ todo[c] = {}
  /\ IF c \in Sessions
       THEN Goto(c, "get") /\ UNCHANGED <<result, got, session>>
       ELSE Stop(c, OK, "")
  /\ UNCHANGED <<api, faults, interrupted, sweep, attempt, polls, stamp>>

-----------------------------------------------------------------------------
(* debugpod.Ensure. *)

\* Get, and the branch taken on the pod read; the lease end that a create or
\* a patch will carry is computed from the clock now.
EnsureGet(c) ==
  /\ At(c, "get")
  /\ LET p == pods[NameOf(c)] IN
       /\ got' = [got EXCEPT ![c] = p]
       /\ Goto(c, Branch(p))
  /\ stamp' = [stamp EXCEPT ![c] = now]
  /\ UNCHANGED <<api, faults, interrupted, result, sweep, attempt, polls, session>>

\* AlreadyExists is a lost race; otherwise the new pod is what waitRunning
\* watches from.
EnsureCreate(c) ==
  /\ At(c, "create")
  /\ LET n == NameOf(c)
         p == [uid |-> lastUid[n] + 1, node |-> NodeOf[c],
               phase |-> "Pending", ttl |-> Lease(c)]
     IN IF pods[n] # NoPod
          THEN Retry(c) /\ UNCHANGED api
          ELSE /\ pods' = [pods EXCEPT ![n] = p]
               /\ lastUid' = [lastUid EXCEPT ![n] = @ + 1]
               /\ got' = [got EXCEPT ![c] = p]
               /\ events' = Notify(n, "ADDED", p)
               /\ Goto(c, "wait")
               /\ UNCHANGED <<now, result, attempt, watcher, stream>>
  /\ UNCHANGED <<faults, interrupted, sweep, polls, stamp>>

\* refreshTTL patches by name; a pod that has gone since Get is an error.
EnsureRefresh(c) ==
  /\ At(c, "refresh")
  /\ LET n == NameOf(c)
         p == [pods[n] EXCEPT !.ttl = Lease(c)]
     IN IF pods[n] = NoPod
          THEN Stop(c, Cluster, "refresh TTL") /\ UNCHANGED api
          ELSE /\ pods' = [pods EXCEPT ![n] = p]
               /\ events' = Notify(n, "MODIFIED", p)
               /\ Goto(c, "watch")
               /\ UNCHANGED <<now, lastUid, result, got, watcher, stream>>
  /\ UNCHANGED <<faults, interrupted, sweep, attempt, polls, stamp>>

\* deleteAndWait: the deletion, then polls of the name until it is free.
EnsureDelete(c) ==
  /\ At(c, "delete")
  /\ DeleteByName(NameOf(c))
  /\ Goto(c, "poll")
  /\ polls' = [polls EXCEPT ![c] = 0]
  /\ got' = [got EXCEPT ![c] = NoPod]
  /\ UNCHANGED <<faults, interrupted, result, sweep, attempt, stamp, watcher, stream>>

PollAgainForever(c) == UNCHANGED <<pc, result, attempt, polls, got, session>>  \* mutant

PollAgainLate(c) ==                                                  \* mutant
  /\ polls' = [polls EXCEPT ![c] = @ + 1]
  /\ IF polls[c] <= MaxPolls
       THEN UNCHANGED <<pc, result, got, session>>
       ELSE Stop(c, Cluster, "timeout waiting gone")
  /\ UNCHANGED attempt

\* A poll that did not find the name free.
PollAgain(c) ==
  /\ polls' = [polls EXCEPT ![c] = @ + 1]
  /\ IF polls[c] + 1 < MaxPolls
       THEN UNCHANGED <<pc, result, got, session>>
       ELSE Stop(c, Cluster, "timeout waiting gone")
  /\ UNCHANGED attempt

EnsurePoll(c) ==
  /\ At(c, "poll")
  /\ IF pods[NameOf(c)] = NoPod
       THEN Retry(c) /\ UNCHANGED polls
       ELSE PollAgain(c)
  /\ UNCHANGED <<api, faults, interrupted, sweep, stamp>>

\* waitRunning looks only at the phase an event carries, not at its type.
WaitEvent(c) ==
  /\ At(c, "wait") /\ events[c] # <<>>
  /\ LET p == Head(events[c]).pod
     IN CASE p.phase = "Running" ->
               /\ got' = [got EXCEPT ![c] = p]
               /\ events' = [events EXCEPT ![c] = Tail(@)]
               /\ Goto(c, "watch")
               /\ UNCHANGED <<result, watcher, stream>>
          [] p.phase \in Terminal -> Stop(c, Cluster, "terminal phase")
          [] p.phase = "Pending" ->
               /\ events' = [events EXCEPT ![c] = Tail(@)]
               /\ UNCHANGED <<pc, result, got, watcher, stream>>
  /\ UNCHANGED <<api, faults, interrupted, sweep, attempt, polls, stamp>>

WaitForever(c) == At(c, "wait") /\ FALSE                            \* mutant

WaitTimeout(c) ==
  /\ At(c, "wait")
  /\ Stop(c, Cluster, "did not reach Running")
  /\ UNCHANGED <<api, faults, interrupted, sweep, attempt, polls, stamp>>

\* startWatcher opens its watch at the version of got; Ensure returns.
StartWatcher(c) ==
  /\ At(c, "watch")
  /\ watcher' = [watcher EXCEPT ![c] = "on"]
  /\ Goto(c, "ready")
  /\ UNCHANGED <<api, faults, interrupted, result, sweep, ensure, events, stream>>

EnsureStep(c) ==
  \/ EnsureGet(c) \/ EnsureCreate(c) \/ EnsureRefresh(c) \/ EnsureDelete(c)
  \/ EnsurePoll(c) \/ WaitEvent(c) \/ WaitTimeout(c) \/ StartWatcher(c)

-----------------------------------------------------------------------------
(* The handle in use: the watcher goroutine and the exec streams. *)

TerminatingPhase(e) == e.pod.phase \in Terminal                     \* mutant

\* The pod is gone, or has reached a phase it never leaves.
Terminating(e) == e.type = "DELETED" \/ e.pod.phase \in Terminal

CloseTerminated(c) ==
  /\ watcher' = [watcher EXCEPT ![c] = "closed"]
  /\ events' = [events EXCEPT ![c] = <<>>]

WatcherEvent(c) ==
  /\ watcher[c] = "on" /\ events[c] # <<>>
  /\ IF Terminating(Head(events[c]))
       THEN CloseTerminated(c)
       ELSE events' = [events EXCEPT ![c] = Tail(@)] /\ UNCHANGED watcher
  /\ UNCHANGED <<api, faults, pc, interrupted, result, sweep, ensure, stream>>

\* The goroutine's own context ends with the root context.
WatcherInterrupted(c) ==
  /\ watcher[c] = "on" /\ c \in interrupted
  /\ CloseTerminated(c)
  /\ UNCHANGED <<api, faults, pc, interrupted, result, sweep, ensure, stream>>

\* The server ends the watch; the goroutine takes that for termination.
WatchEnds(c) ==
  /\ watcher[c] = "on"
  /\ faults < MaxFaults /\ faults' = faults + 1
  /\ CloseTerminated(c)
  /\ UNCHANGED <<api, pc, interrupted, result, sweep, ensure, stream>>

RunningPod(n) == pods[n] # NoPod /\ pods[n].phase = "Running"

\* ExecStream addresses the pod by name.
OpenStream(c) ==
  /\ At(c, "ready")
  /\ IF RunningPod(NameOf(c))
       THEN /\ stream' = [stream EXCEPT ![c] = pods[NameOf(c)].uid]
            /\ Goto(c, "stream")
            /\ UNCHANGED <<result, got, events, watcher>>
       ELSE Stop(c, Cluster, "exec stream")
  /\ UNCHANGED <<api, faults, interrupted, sweep, attempt, polls, stamp>>

\* The remote command ends: the CLI runs another one, or is through.
StreamEnd(c) ==
  /\ At(c, "stream")
  /\ \/ /\ Goto(c, "ready")
        /\ stream' = [stream EXCEPT ![c] = 0]
        /\ UNCHANGED <<result, got, events, watcher>>
     \/ Stop(c, OK, "")
     \/ Stop(c, Node, "remote exit status")
  /\ UNCHANGED <<api, faults, interrupted, sweep, attempt, polls, stamp>>

\* The connection breaks when the container behind it has ended.
StreamLost(c) ==
  /\ At(c, "stream")
  /\ ~(RunningPod(NameOf(c)) /\ pods[NameOf(c)].uid = stream[c])
  /\ Stop(c, Cluster, "exec stream")
  /\ UNCHANGED <<api, faults, interrupted, sweep, attempt, polls, stamp>>

-----------------------------------------------------------------------------
(* Failures of the calls, SIGINT, SIGKILL, the kubelet, other users, time. *)

\* The pending API call of c returns an error other than NotFound.
ApiError(c) ==
  /\ c \notin interrupted /\ pc[c] \notin Stopped
  /\ faults < MaxFaults /\ faults' = faults + 1
  /\ CASE pc[c] \in {"start", "sweep"} /\ c \in Sessions ->
            /\ todo' = [todo EXCEPT ![c] = {}]
            /\ Goto(c, "get")
            /\ UNCHANGED <<result, got, session, attempt, polls>>
       [] pc[c] = "poll" -> PollAgain(c) /\ UNCHANGED todo
       [] pc[c] \in {"ready", "stream"} ->
            Stop(c, Cluster, "exec stream") /\ UNCHANGED <<todo, attempt, polls>>
       [] OTHER ->
            Stop(c, Cluster, "api error") /\ UNCHANGED <<todo, attempt, polls>>
  /\ UNCHANGED <<api, interrupted, filter, deleted, stamp>>

Interrupt(c) ==
  /\ c \notin interrupted /\ pc[c] \notin Stopped
  /\ faults < MaxFaults /\ faults' = faults + 1
  /\ interrupted' = interrupted \cup {c}
  /\ UNCHANGED <<api, pc, result, sweep, ensure, session>>

\* What the client is in fails with context.Canceled, and main exits 130; but
\* waitRunning reports a closed watch with an error that does not wrap it.
Interrupted(c) ==
  /\ c \in interrupted /\ pc[c] \notin Stopped
  /\ \/ Stop(c, Sigint, "context canceled")
     \/ pc[c] = "wait" /\ Stop(c, Cluster, "watch closed unexpectedly")
  /\ UNCHANGED <<api, faults, interrupted, sweep, attempt, polls, stamp>>

Kill(c) ==
  /\ pc[c] \notin Stopped
  /\ faults < MaxFaults /\ faults' = faults + 1
  /\ Goto(c, "killed")
  /\ got' = [got EXCEPT ![c] = NoPod]
  /\ events' = [events EXCEPT ![c] = <<>>]
  /\ watcher' = [watcher EXCEPT ![c] = "off"]
  /\ stream' = [stream EXCEPT ![c] = 0]
  /\ UNCHANGED <<api, interrupted, result, sweep, attempt, polls, stamp>>

\* RestartPolicy Never: a phase only moves forward.
Kubelet(n) ==
  /\ pods[n] # NoPod
  /\ \E phase \in {"Running"} \cup Terminal :
       /\ \/ pods[n].phase = "Pending" /\ phase # "Succeeded"
          \/ pods[n].phase = "Running" /\ phase # "Running"
       /\ LET p == [pods[n] EXCEPT !.phase = phase]
          IN pods' = [pods EXCEPT ![n] = p] /\ events' = Notify(n, "MODIFIED", p)
  /\ UNCHANGED <<now, lastUid, faults, pc, interrupted, result, sweep, ensure,
                 watcher, stream>>

\* Somebody else deletes the pod: kubectl, a drain, the namespace going away.
ForeignDelete(n) ==
  /\ pods[n] # NoPod
  /\ faults < MaxFaults /\ faults' = faults + 1
  /\ DeleteByName(n)
  /\ UNCHANGED <<pc, interrupted, result, sweep, ensure, watcher, stream>>

Tick ==
  /\ now < MaxTime
  /\ now' = now + 1
  /\ UNCHANGED <<pods, lastUid, faults, pc, interrupted, result, sweep, ensure, session>>

\* Every command has ended: nothing has to happen any more.
AllStopped ==
  /\ \A c \in Clients : pc[c] \in Stopped
  /\ UNCHANGED vars

-----------------------------------------------------------------------------
(* Pods left behind by earlier invocations, in any phase and with a lease  *)
(* of any age, are part of the initial state.                              *)

Leftover(n) ==
  {p \in [uid: {1}, node: Nodes, phase: {"Pending", "Running"} \cup Terminal,
          ttl: 0 .. DefaultTTL] : PodNameFor[p.node] = n}

Init ==
  /\ now = 0
  /\ pods \in [Names -> (UNION {Leftover(n) : n \in Names}) \cup {NoPod}]
  /\ \A n \in Names : pods[n] \in Leftover(n) \cup {NoPod}
  /\ lastUid = [n \in Names |-> IF pods[n] = NoPod THEN 0 ELSE 1]
  /\ faults = 0
  /\ pc = [c \in Clients |-> "start"]
  /\ interrupted = {}
  /\ result = [c \in Clients |-> [code |-> OK, msg |-> ""]]
  /\ filter \in [Clients -> Filter]
  /\ \A c \in Sessions : filter[c] = [node |-> AnyNode, ttlOnly |-> TRUE]
  /\ todo = [c \in Clients |-> {}]
  /\ deleted = [c \in Clients |-> {}]
  /\ attempt = [c \in Clients |-> 1]
  /\ polls = [c \in Clients |-> 0]
  /\ stamp = [c \in Clients |-> 0]
  /\ got = [c \in Clients |-> NoPod]
  /\ events = [c \in Clients |-> <<>>]
  /\ watcher = [c \in Clients |-> "off"]
  /\ stream = [c \in Clients |-> 0]

CleanupStep(c) == CleanupDecline(c) \/ CleanupList(c) \/ CleanupItem(c) \/ CleanupReturn(c)
WatcherStep(c) == WatcherEvent(c) \/ WatcherInterrupted(c)
StreamStep(c)  == OpenStream(c) \/ StreamEnd(c) \/ StreamLost(c)
FaultStep(c)   == ApiError(c) \/ Interrupt(c) \/ Kill(c) \/ WatchEnds(c)

Next ==
  \/ \E c \in Clients : CleanupStep(c) \/ Interrupted(c) \/ FaultStep(c)
  \/ \E c \in Sessions : EnsureStep(c) \/ WatcherStep(c) \/ StreamStep(c)
  \/ \E n \in Names : Kubelet(n) \/ ForeignDelete(n)
  \/ Tick
  \/ AllStopped

\* Go schedules every goroutine, every API call returns, the timeout of
\* waitRunning fires; nothing makes a remote command or the kubelet move.
Fairness ==
  /\ \A c \in Clients : WF_vars(CleanupStep(c) \/ Interrupted(c))
  /\ \A c \in Sessions : WF_vars(EnsureStep(c)) /\ WF_vars(WatcherStep(c))

Spec     == Init /\ [][Next]_vars
FairSpec == Spec /\ Fairness

-----------------------------------------------------------------------------
(* Safety. *)

\* The incarnation that c took from the API still has the name and runs.
Alive(c) == RunningPod(NameOf(c)) /\ pods[NameOf(c)].uid = got[c].uid

TerminationDue(c) == \E i \in 1 .. Len(events[c]) : Terminating(events[c][i])

\* Between reading a Running pod and the end of the watcher, the end of that
\* incarnation is never lost: as long as Terminated is open the pod runs or
\* the news of its end is on the way (the versions startWatcher is given by
\* lifecycle.go:76, 94 and 107 all precede anything that can end the pod).
NoLostTermination ==
  \A c \in Sessions :
    pc[c] \in {"refresh", "watch"} \/ watcher[c] = "on" => Alive(c) \/ TerminationDue(c)

\* exec addresses the pod by name, the handle was built on an incarnation: a
\* stream into another incarnation is always one that Terminated denounces.
StreamOnHandlePod ==
  \A c \in Sessions :
    stream[c] # 0 /\ stream[c] # got[c].uid => watcher[c] = "closed" \/ TerminationDue(c)

\* A session works on the node it was asked for, whatever it reads back from
\* the API through watches and races.  The code compares names only, and eight
\* hex digits of a hash make the name (manifest.go:38): a pod of another node is
\* taken when the two share their name, and in no other way.
HandleOnNode ==
  \A c \in Sessions : got[c] # NoPod => PodNameFor[got[c].node] = NameOf(c)

\* Nothing a client does, however late its patch arrives, holds a pod for
\* more than one lease beyond the present: a killed session leaves a pod that
\* every later sweep collects within DefaultTTL.
LeaseBounded ==
  \A n \in Names : pods[n] # NoPod => pods[n].ttl <= now + DefaultTTL

\* What cleanup reports as deleted is gone for good: the listed incarnation
\* never has its name again, although others create pods of that name.
DeletedAreGone ==
  \A c \in Clients : \A i \in deleted[c] :
    pods[i.name] = NoPod \/ pods[i.name].uid # i.pod.uid

Fresh(p) == p # NoPod /\ p.phase \notin Terminal /\ now < p.ttl

\* The pod a collecting client based its decision on: a listed pod of the
\* sweep, or the pod Ensure read.
Seen(c) == {i.pod : i \in todo[c]} \cup {got[c]}

\* A session, or cleanup --ttl-only, deletes a fresh pod only by way of a
\* race: somebody replaced or refreshed the pod after it was read.
FreshDeletedOnlyIfRaced ==
  [][\A c \in Clients, n \in Names :
       /\ (CleanupItem(c) /\ filter[c].ttlOnly) \/ (c \in Sessions /\ EnsureDelete(c))
       /\ Fresh(pods[n])
       /\ pods'[n] = NoPod
       => pods[n] \notin Seen(c)]_vars

Ensuring == {"get", "create", "refresh", "delete", "poll", "wait", "watch"}

\* What Ensure has still to do at most: attempts that are left, each with its
\* polls, and the rest of this one.
Work(c) ==
  IF pc[c] \notin Ensuring THEN 0
  ELSE (Attempts - attempt[c]) * (MaxPolls + 5)
       + CASE pc[c] = "get"     -> MaxPolls + 4
           [] pc[c] = "delete"  -> MaxPolls + 3
           [] pc[c] = "poll"    -> MaxPolls + 2 - polls[c]
           [] pc[c] = "create"  -> 3
           [] pc[c] = "wait"    -> 2
           [] pc[c] = "refresh" -> 2
           [] pc[c] = "watch"   -> 1

\* No race makes Ensure go round for ever: whatever the other clients do
\* between two of its calls, the work it has left only shrinks, and it shrinks
\* with every call but the receipt of an event in waitRunning, which its
\* timeout ends (lifecycle.go:55, 163).  At most 3 * (MaxPolls + 5) calls.
EnsureBounded ==
  [][\A c \in Sessions :
       /\ pc[c] \in Ensuring
       /\ pc'[c] # pc[c] \/ polls'[c] # polls[c] \/ attempt'[c] # attempt[c]
       => Work(c)' < Work(c)]_vars

\* Exit code 4 is never a session's own doing: three attempts are lost only to
\* others, who gave the name a second incarnation (lifecycle.go:125: "too many
\* race retries"; a session that ends this way has created none).
InternalOnlyRaced ==
  \A c \in Sessions :
    pc[c] = "done" /\ result[c].code = Internal => lastUid[NameOf(c)] >= 2

-----------------------------------------------------------------------------
(* Liveness. *)

\* Ensure never hangs: it returns a handle or an error, whatever the races,
\* lost watches and deletions under a waiting session (three attempts, the
\* polls of deleteAndWait and the timeout of waitRunning bound every loop).
EnsureReturns ==
  \A c \in Sessions :
    pc[c] \in Ensuring ~> pc[c] \in {"ready", "stream"} \cup Stopped

\* Terminated closes after the pod of the handle has ended.
TerminationDelivered ==
  \A c \in Sessions : watcher[c] = "on" /\ ~Alive(c) ~> watcher[c] # "on"

\* The opportunistic sweep works, after a crash too: a stale pod, be it one
\* that a killed session has left behind (exec.go:94) or that a sweep cut short by
\* an error has not come to (cleanup.go:49), is collected or refreshed as soon as
\* one more session starts, unless another fault happens meanwhile.
SweepCollects ==
  \A c \in Sessions, n \in Names, k \in 0 .. MaxFaults :
    pc[c] = "start" /\ c \notin interrupted /\ faults = k /\ pods[n] # NoPod /\ ~Fresh(pods[n])
      ~> pods[n] = NoPod \/ Fresh(pods[n]) \/ faults > k

-----------------------------------------------------------------------------
(* What the documents and comments of the repository say; each of these is *)
(* refuted by a run of its own.                                            *)

\* docs/DESIGN.md:94: "concurrent Ensure calls converge on the same pod".
\* lifecycle.go:155 deletes by name, so a session that read an expired pod
\* deletes the fresh one a faster session has put in its place.
EnsureSparesFreshPod ==
  [][\A c \in Sessions : EnsureDelete(c) => ~Fresh(pods[NameOf(c)])]_vars

\* docs/TOOL.md:62: exit code 130 is SIGINT; cmd/auto/main.go:24: "ctx error
\* preempts other codes".  waitRunning returns an error without the context's.
InterruptedExits130 ==
  \A c \in Sessions \cap interrupted : pc[c] = "done" => result[c].code = Sigint
=============================================================================
