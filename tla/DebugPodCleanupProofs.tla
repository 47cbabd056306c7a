----------------------- MODULE DebugPodCleanupProofs ------------------------
(***************************************************************************)
(* What leases and deletions guarantee.  The proofs share one description  *)
(* of what a step does to the pods, and one of what it does to the lists   *)
(* of the cleanups.                                                        *)
(***************************************************************************)
EXTENDS DebugPodHandleProofs

Removed(n) == pods' = [pods EXCEPT ![n] = NoPod] /\ lastUid' = lastUid

\* A pod's phase moves forward only.
Forward(p, q) ==
  \/ q.phase = p.phase
  \/ p.phase = "Pending"
  \/ p.phase = "Running" /\ q.phase \in Terminal

\* The same incarnation, with its own lease or one that a session writes.
Updated(n) ==
  \E q \in Pod :
    /\ pods[n] # NoPod /\ q.uid = pods[n].uid /\ Forward(pods[n], q)
    /\ q.ttl = pods[n].ttl \/ \E c \in Sessions : q.ttl = Lease(c)
    /\ pods' = [pods EXCEPT ![n] = q] /\ lastUid' = lastUid

Created(n) ==
  \E q \in Pod, c \in Sessions :
    /\ pods[n] = NoPod /\ q.uid = lastUid[n] + 1 /\ q.ttl = Lease(c)
    /\ q.phase = "Pending"
    /\ pods' = [pods EXCEPT ![n] = q]
    /\ lastUid' = [lastUid EXCEPT ![n] = @ + 1]

PodStep ==
  \/ UNCHANGED <<pods, lastUid>>
  \/ \E n \in Names : Removed(n) \/ Updated(n) \/ Created(n)

LEMMA DeleteRemoves ==
  ASSUME NEW n \in Names, DeleteByName(n)
  PROVE  PodStep
BY DEF DeleteByName, PodStep, Removed

LEMMA CleanupPodStep ==
  ASSUME TypeOK, NEW c \in Clients, CleanupStep(c)
  PROVE  PodStep
<1>1. CASE CleanupItem(c)
  <2>1. PICK i \in todo[c] : UNCHANGED <<api, events, deleted>> \/ DeleteByName(i.name)
    BY <1>1 DEF CleanupItem
  <2>2. i.name \in Names
    BY DEF TypeOK, Item
  <2>. QED
    BY <2>1, <2>2, DeleteRemoves DEF api, PodStep
<1>. QED
  BY <1>1 DEF CleanupStep, CleanupDecline, CleanupList, CleanupReturn, api, PodStep

LEMMA EnsurePodStep ==
  ASSUME TypeOK, NEW c \in Sessions, EnsureStep(c)
  PROVE  PodStep
<1>. DEFINE n == NameOf(c)
<1>0. n \in Names
  BY NameOfType
<1>1. CASE EnsureCreate(c)
  <2>1. CASE pods[n] # NoPod
    BY <1>1, <2>1 DEF EnsureCreate, api, PodStep
  <2>2. CASE pods[n] = NoPod
    <3>. DEFINE q == [uid |-> lastUid[n] + 1, node |-> NodeOf[c],
                      phase |-> "Pending", ttl |-> Lease(c)]
    <3>1. pods' = [pods EXCEPT ![n] = q] /\ lastUid' = [lastUid EXCEPT ![n] = @ + 1]
      BY <1>1, <2>2 DEF EnsureCreate
    <3>2. Lease(c) \in Nat
      BY LeaseType
    <3>3. q \in Pod
      BY <1>0, <3>2, NodeOfAssumption DEF TypeOK, Pod
    <3>4. q.uid = lastUid[n] + 1 /\ q.ttl = Lease(c) /\ q.phase = "Pending"
      OBVIOUS
    <3>. HIDE DEF q
    <3>5. Created(n)
      BY <2>2, <3>1, <3>3, <3>4 DEF Created
    <3>. QED
      BY <1>0, <3>5 DEF PodStep
  <2>. QED
    BY <2>1, <2>2
<1>2. CASE EnsureRefresh(c)
  <2>1. CASE pods[n] = NoPod
    BY <1>2, <2>1 DEF EnsureRefresh, api, PodStep
  <2>2. CASE pods[n] # NoPod
    <3>. DEFINE q == [pods[n] EXCEPT !.ttl = Lease(c)]
    <3>1. pods' = [pods EXCEPT ![n] = q] /\ lastUid' = lastUid
      BY <1>2, <2>2 DEF EnsureRefresh
    <3>2. Lease(c) \in Nat
      BY LeaseType
    <3>3. pods[n] \in Pod
      BY <1>0, <2>2 DEF TypeOK
    <3>4. q \in Pod /\ q.uid = pods[n].uid /\ q.ttl = Lease(c) /\ Forward(pods[n], q)
      BY <3>2, <3>3 DEF Pod, Forward
    <3>. HIDE DEF q
    <3>5. Updated(n)
      BY <2>2, <3>1, <3>4 DEF Updated
    <3>. QED
      BY <1>0, <3>5 DEF PodStep
  <2>. QED
    BY <2>1, <2>2
<1>3. CASE EnsureDelete(c)
  BY <1>0, <1>3, DeleteRemoves DEF EnsureDelete
<1>. QED
  BY <1>1, <1>2, <1>3 DEF EnsureStep, EnsureGet, EnsurePoll, WaitEvent, WaitTimeout,
                          StartWatcher, api, PodStep

LEMMA KubeletPodStep ==
  ASSUME TypeOK, NEW n \in Names, Kubelet(n)
  PROVE  PodStep
<1>1. PICK phase \in {"Running"} \cup Terminal :
        /\ pods[n].phase = "Pending" \/ (pods[n].phase = "Running" /\ phase # "Running")
        /\ pods' = [pods EXCEPT ![n] = [pods[n] EXCEPT !.phase = phase]]
  BY DEF Kubelet
<1>. DEFINE q == [pods[n] EXCEPT !.phase = phase]
<1>2. pods[n] # NoPod /\ pods[n] \in Pod
  BY DEF Kubelet, TypeOK
<1>3. q \in Pod /\ q.uid = pods[n].uid /\ q.ttl = pods[n].ttl /\ Forward(pods[n], q)
  BY <1>1, <1>2 DEF Pod, Forward
<1>4. pods' = [pods EXCEPT ![n] = q] /\ lastUid' = lastUid
  BY <1>1 DEF Kubelet
<1>. HIDE DEF q
<1>5. Updated(n)
  BY <1>2, <1>3, <1>4 DEF Updated
<1>. QED
  BY <1>5 DEF PodStep

\* Every step of the system is one of these to the pods.
LEMMA StepOfPods ==
  ASSUME TypeOK, [Next]_vars
  PROVE  PodStep
<1>1. ASSUME NEW c \in Clients, Interrupted(c) \/ FaultStep(c) PROVE PodStep
  BY <1>1 DEF FaultStep, Interrupted, ApiError, Interrupt, Kill, WatchEnds, api, PodStep
<1>2. ASSUME NEW c \in Sessions, WatcherStep(c) \/ StreamStep(c) PROVE PodStep
  BY <1>2 DEF WatcherStep, WatcherEvent, WatcherInterrupted, StreamStep, OpenStream,
              StreamEnd, StreamLost, api, PodStep
<1>3. ASSUME NEW n \in Names, ForeignDelete(n) PROVE PodStep
  BY <1>3, DeleteRemoves DEF ForeignDelete
<1>4. CASE Tick \/ UNCHANGED vars
  BY <1>4 DEF Tick, vars, api, PodStep
<1>. QED
  BY <1>1, <1>2, <1>3, <1>4, CleanupPodStep, EnsurePodStep, KubeletPodStep
     DEF Next, AllStopped

-----------------------------------------------------------------------------
(* Leases.  A lease is written some time after its end was computed, so    *)
(* LeaseBounded needs to know that no computation used a later clock.      *)

Stamped == \A c \in Clients : stamp[c] <= now

LeaseInv == TypeInv /\ Stamped /\ LeaseBounded

LEMMA ClockStep ==
  ASSUME TypeOK, [Next]_vars
  PROVE  /\ now' >= now
         /\ \A c \in Clients : stamp'[c] = stamp[c] \/ stamp'[c] = now
<1>. DEFINE Goal == /\ now' >= now
                   /\ \A c \in Clients : stamp'[c] = stamp[c] \/ stamp'[c] = now
<1>0. now \in Nat /\ stamp \in [Clients -> Nat]
  BY DEF TypeOK
<1>1. ASSUME NEW c \in Sessions, EnsureGet(c) PROVE Goal
  <2>1. now' = now /\ stamp' = [stamp EXCEPT ![c] = now]
    BY <1>1 DEF EnsureGet, api
  <2>. QED
    BY <1>0, <2>1
<1>2. CASE Tick
  <2>1. now' = now + 1 /\ stamp' = stamp
    BY <1>2 DEF Tick, ensure
  <2>. QED
    BY <1>0, <2>1
<1>3. CASE now' = now /\ stamp' = stamp
  BY <1>0, <1>3
<1>4. ASSUME NEW c \in Clients, CleanupStep(c) PROVE now' = now /\ stamp' = stamp
  BY <1>4 DEF CleanupStep, CleanupDecline, CleanupList, CleanupItem, CleanupReturn,
              DeleteByName, api, ensure
<1>5. ASSUME NEW c \in Clients, Interrupted(c) \/ FaultStep(c)
      PROVE  now' = now /\ stamp' = stamp
  BY <1>5 DEF FaultStep, Interrupted, ApiError, Interrupt, Kill, WatchEnds, api, ensure
<1>6. ASSUME NEW c \in Sessions, EnsureStep(c), ~EnsureGet(c)
      PROVE  now' = now /\ stamp' = stamp
  BY <1>6 DEF EnsureStep, EnsureCreate, EnsureRefresh, EnsureDelete, EnsurePoll,
              WaitEvent, WaitTimeout, StartWatcher, DeleteByName, api, ensure
<1>7. ASSUME NEW c \in Sessions, WatcherStep(c) \/ StreamStep(c)
      PROVE  now' = now /\ stamp' = stamp
  BY <1>7 DEF WatcherStep, WatcherEvent, WatcherInterrupted, StreamStep, OpenStream,
              StreamEnd, StreamLost, api, ensure
<1>8. ASSUME NEW n \in Names, Kubelet(n) \/ ForeignDelete(n)
      PROVE  now' = now /\ stamp' = stamp
  BY <1>8 DEF Kubelet, ForeignDelete, DeleteByName, ensure
<1>9. CASE UNCHANGED vars
  BY <1>3, <1>9 DEF vars, api, ensure
<1>. QED
  BY <1>0, <1>1, <1>2, <1>3, <1>4, <1>5, <1>6, <1>7, <1>8, <1>9 DEF Next, AllStopped

LEMMA LeaseStep ==
  ASSUME LeaseInv, [Next]_vars
  PROVE  LeaseInv'
<1>. USE DEF LeaseInv
<1>0. TypeOK /\ now \in Nat /\ DefaultTTL \in Nat
  BY BoundsAssumption DEF TypeInv, TypeOK
<1>1. TypeInv'
  BY TypeInvStep
<1>2. now' \in Nat /\ now' >= now /\ Stamped'
  <2>1. \A c \in Clients : stamp[c] \in Nat /\ stamp[c] <= now
    BY <1>0 DEF TypeOK, Stamped
  <2>2. now' \in Nat
    BY <1>1 DEF TypeInv, TypeOK
  <2>. QED
    BY <1>0, <2>1, <2>2, ClockStep DEF Stamped
<1>3. \A c \in Sessions : Lease(c) \in Nat /\ Lease(c) <= now' + DefaultTTL
  <2>1. \A c \in Sessions : stamp[c] \in Nat /\ stamp[c] <= now
    BY <1>0 DEF TypeOK, Stamped, Clients
  <2>. QED
    BY <1>0, <1>2, <2>1 DEF Lease
<1>4. \A n \in Names : pods[n] # NoPod =>
        pods[n].ttl \in Nat /\ pods[n].ttl <= now' + DefaultTTL
  BY <1>0, <1>2 DEF LeaseBounded, TypeOK, Pod
<1>5. ASSUME NEW m \in Names, pods'[m] # NoPod
      PROVE  pods'[m].ttl <= now' + DefaultTTL
  <2>1. CASE pods'[m] = pods[m]
    BY <1>4, <1>5, <2>1
  <2>2. CASE \E c \in Sessions : pods'[m].ttl = Lease(c)
    BY <1>3, <2>2
  <2>3. CASE pods[m] # NoPod /\ pods'[m].ttl = pods[m].ttl
    BY <1>4, <2>3
  <2>4. ASSUME NEW n \in Names, Removed(n) \/ Updated(n) \/ Created(n)
        PROVE  \/ pods'[m] = pods[m]
               \/ \E c \in Sessions : pods'[m].ttl = Lease(c)
               \/ pods[m] # NoPod /\ pods'[m].ttl = pods[m].ttl
    BY <1>0, <1>5, <2>4 DEF Removed, Updated, Created, TypeOK
  <2>. QED
    BY <1>0, <2>1, <2>2, <2>3, <2>4, StepOfPods DEF PodStep
<1>. QED
  BY <1>1, <1>2, <1>5 DEF LeaseBounded

LEMMA LeaseInit == Init => LeaseInv
<1>. SUFFICES ASSUME Init PROVE LeaseInv
  OBVIOUS
<1>0. now = 0 /\ \A c \in Clients : stamp[c] = 0
  BY DEF Init
<1>1. Stamped
  BY <1>0 DEF Stamped
<1>2. LeaseBounded
  <2>1. \A n \in Names : pods[n] # NoPod => pods[n].ttl \in 0 .. DefaultTTL
    BY DEF Init, Leftover
  <2>. QED
    BY <1>0, <2>1, BoundsAssumption DEF LeaseBounded
<1>. QED
  BY <1>1, <1>2, InitTypeInv DEF LeaseInv

\* manifest.go:52-63, lifecycle.go:140-151: whoever is killed, and however late
\* a patch arrives, no pod is held for longer than one lease from now.
THEOREM LeasesBounded == Spec => []LeaseBounded
<1>1. LeaseInv => LeaseBounded
  BY DEF LeaseInv
<1>. QED
  BY <1>1, LeaseInit, LeaseStep, PTL DEF Spec

-----------------------------------------------------------------------------
(* Deletions.  A listed incarnation is none that is still to come, and the *)
(* next one of its name has a higher number.                               *)

Numbered == \A n \in Names : pods[n] # NoPod => pods[n].uid <= lastUid[n]

Listed == \A c \in Clients : \A i \in todo[c] \cup deleted[c] :
            i.pod.uid <= lastUid[i.name]

DeletionInv == TypeInv /\ Numbered /\ Listed /\ DeletedAreGone

\* What a step does to the lists of a client.
ListStep(c) ==
  \/ todo'[c] \subseteq todo[c] /\ deleted'[c] = deleted[c]
  \/ /\ \A i \in todo'[c] : pods[i.name] = i.pod /\ i.pod # NoPod
     /\ deleted'[c] = deleted[c] /\ pods' = pods /\ lastUid' = lastUid
  \/ /\ todo'[c] \subseteq todo[c]
     /\ \E i \in todo[c] : pods'[i.name] = NoPod /\ deleted'[c] = deleted[c] \cup {i}

LEMMA StepOfLists ==
  ASSUME TypeOK, [Next]_vars, NEW d \in Clients
  PROVE  ListStep(d)
<1>0. todo \in [Clients -> SUBSET Item] /\ deleted \in [Clients -> SUBSET Item]
  BY DEF TypeOK
<1>1. ASSUME NEW c \in Clients, CleanupList(c) PROVE ListStep(d)
  <2>1. /\ todo' = [todo EXCEPT ![c] =
              {[name |-> n, pod |-> pods[n]] :
                 n \in {m \in Names : pods[m] # NoPod /\ Selects(filter[c], m)}}]
        /\ deleted' = deleted /\ pods' = pods /\ lastUid' = lastUid
    BY <1>1 DEF CleanupList, api
  <2>. QED
    BY <1>0, <2>1 DEF ListStep
<1>2. ASSUME NEW c \in Clients, CleanupItem(c) PROVE ListStep(d)
  <2>1. PICK i \in todo[c] :
          /\ todo' = [todo EXCEPT ![c] = @ \ {i}]
          /\ \/ deleted' = deleted
             \/ DeleteByName(i.name) /\ deleted' = [deleted EXCEPT ![c] = @ \cup {i}]
    BY <1>2 DEF CleanupItem
  <2>2. DeleteByName(i.name) => pods'[i.name] = NoPod
    BY <1>0 DEF DeleteByName, TypeOK, Item
  <2>. QED
    BY <1>0, <2>1, <2>2 DEF ListStep
<1>3. ASSUME NEW c \in Clients, CleanupDecline(c) \/ CleanupReturn(c)
      PROVE  todo' = todo /\ deleted' = deleted
  BY <1>3 DEF CleanupDecline, CleanupReturn, sweep
<1>4. ASSUME NEW c \in Clients, ApiError(c)
      PROVE  (todo' = todo \/ todo' = [todo EXCEPT ![c] = {}]) /\ deleted' = deleted
  BY <1>4 DEF ApiError
<1>5. ASSUME NEW c \in Clients, Interrupted(c) \/ Interrupt(c) \/ Kill(c) \/ WatchEnds(c)
      PROVE  todo' = todo /\ deleted' = deleted
  BY <1>5 DEF Interrupted, Interrupt, Kill, WatchEnds, sweep
<1>6. ASSUME NEW c \in Sessions, EnsureStep(c) PROVE todo' = todo /\ deleted' = deleted
  BY <1>6 DEF EnsureStep, EnsureGet, EnsureCreate, EnsureRefresh, EnsureDelete, EnsurePoll,
              WaitEvent, WaitTimeout, StartWatcher, sweep
<1>7. ASSUME NEW c \in Sessions, WatcherStep(c) \/ StreamStep(c)
      PROVE  todo' = todo /\ deleted' = deleted
  BY <1>7 DEF WatcherStep, WatcherEvent, WatcherInterrupted, StreamStep, OpenStream,
              StreamEnd, StreamLost, sweep
<1>8. ASSUME NEW n \in Names, Kubelet(n) \/ ForeignDelete(n)
      PROVE  todo' = todo /\ deleted' = deleted
  BY <1>8 DEF Kubelet, ForeignDelete, sweep
<1>9. CASE Tick \/ UNCHANGED vars
  BY <1>9 DEF Tick, vars, sweep, ListStep
<1>10. CASE todo' = todo /\ deleted' = deleted
  BY <1>10 DEF ListStep
<1>11. ASSUME NEW c \in Clients, ApiError(c) PROVE ListStep(d)
  BY <1>0, <1>4, <1>11 DEF ListStep
<1>. QED
  BY <1>1, <1>2, <1>3, <1>5, <1>6, <1>7, <1>8, <1>9, <1>10, <1>11
     DEF Next, AllStopped, CleanupStep, FaultStep

\* What a step does to the pod and the number of one name.
LEMMA StepOfName ==
  ASSUME TypeOK, Numbered, [Next]_vars, NEW m \in Names
  PROVE  /\ lastUid[m] \in Nat /\ lastUid'[m] \in Nat /\ lastUid'[m] >= lastUid[m]
         /\ \/ pods'[m] = NoPod
            \/ pods[m] # NoPod /\ pods'[m].uid = pods[m].uid
            \/ pods'[m].uid = lastUid[m] + 1 /\ lastUid'[m] = lastUid[m] + 1
<1>0. /\ pods \in [Names -> Pod \cup {NoPod}]
      /\ lastUid \in [Names -> Nat] /\ lastUid[m] \in Nat
  BY DEF TypeOK
<1>1. CASE UNCHANGED <<pods, lastUid>>
  BY <1>0, <1>1
<1>2. ASSUME NEW n \in Names, Removed(n) \/ Updated(n)
      PROVE  /\ lastUid' = lastUid
             /\ pods'[m] = NoPod \/ (pods[m] # NoPod /\ pods'[m].uid = pods[m].uid)
  BY <1>0, <1>2 DEF Removed, Updated
<1>3. ASSUME NEW n \in Names, Created(n)
      PROVE  \/ lastUid'[m] = lastUid[m] /\ pods'[m] = pods[m]
             \/ lastUid'[m] = lastUid[m] + 1 /\ pods'[m].uid = lastUid[m] + 1
  <2>1. PICK q \in Pod : /\ q.uid = lastUid[n] + 1
                         /\ pods' = [pods EXCEPT ![n] = q]
                         /\ lastUid' = [lastUid EXCEPT ![n] = @ + 1]
    BY <1>3 DEF Created
  <2>2. CASE m = n
    BY <1>0, <2>1, <2>2
  <2>3. CASE m # n
    BY <1>0, <2>1, <2>3
  <2>. QED
    BY <2>2, <2>3
<1>. QED
  BY <1>0, <1>1, <1>2, <1>3, StepOfPods DEF PodStep

LEMMA DeletionStep ==
  ASSUME DeletionInv, [Next]_vars
  PROVE  DeletionInv'
<1>. USE DEF DeletionInv
<1>0. TypeOK
  BY DEF TypeInv
<1>1. TypeInv'
  BY TypeInvStep
<1>2. ASSUME NEW m \in Names, pods'[m] # NoPod PROVE pods'[m].uid <= lastUid'[m]
  <2>1. pods[m] # NoPod => pods[m].uid \in Nat /\ pods[m].uid <= lastUid[m]
    BY <1>0 DEF TypeOK, Pod, Numbered
  <2>. QED
    BY <1>0, <1>2, <2>1, StepOfName
<1>3. ASSUME NEW d \in Clients, NEW i \in todo[d] \cup deleted[d]
      PROVE  i.name \in Names /\ i.pod.uid \in Nat /\ i.pod.uid <= lastUid[i.name]
  BY <1>0, <1>3 DEF TypeOK, Item, Pod, Listed
<1>4. ASSUME NEW d \in Clients, NEW i \in todo'[d] \cup deleted'[d]
      PROVE  i.pod.uid <= lastUid'[i.name]
  <2>1. CASE i \in todo[d] \cup deleted[d]
    BY <1>0, <1>3, <2>1, StepOfName
  <2>2. CASE i \in todo'[d] /\ pods[i.name] = i.pod /\ i.pod # NoPod /\ lastUid' = lastUid
    <3>1. i \in Item
      BY <1>1, <2>2 DEF TypeInv, TypeOK
    <3>. QED
      BY <2>2, <3>1 DEF Numbered, Item
  <2>. QED
    BY <1>0, <2>1, <2>2, StepOfLists DEF ListStep
<1>5. ASSUME NEW d \in Clients, NEW i \in deleted'[d]
      PROVE  pods'[i.name] = NoPod \/ pods'[i.name].uid # i.pod.uid
  <2>1. CASE i \in deleted[d]
    <3>1. pods[i.name] = NoPod \/ pods[i.name].uid # i.pod.uid
      BY <2>1 DEF DeletedAreGone
    <3>. QED
      BY <1>0, <1>3, <2>1, <3>1, StepOfName
  <2>2. CASE pods'[i.name] = NoPod
    BY <2>2
  <2>. QED
    BY <1>0, <2>1, <2>2, StepOfLists DEF ListStep
<1>. QED
  BY <1>1, <1>2, <1>4, <1>5 DEF Numbered, Listed, DeletedAreGone

LEMMA DeletionInit == Init => DeletionInv
<1>. SUFFICES ASSUME Init PROVE DeletionInv
  OBVIOUS
<1>1. Listed /\ DeletedAreGone
  BY DEF Init, Listed, DeletedAreGone
<1>2. Numbered
  <2>1. \A n \in Names : pods[n] # NoPod => pods[n].uid = 1 /\ lastUid[n] = 1
    BY DEF Init, Leftover
  <2>. QED
    BY <2>1 DEF Numbered
<1>. QED
  BY <1>1, <1>2, InitTypeInv DEF DeletionInv

\* cleanup.go:43-53: an incarnation that cleanup has listed and reports as
\* deleted never has its name again, whatever the sessions create meanwhile.
THEOREM DeletedStayGone == Spec => []DeletedAreGone
<1>1. DeletionInv => DeletedAreGone
  BY DEF DeletionInv
<1>. QED
  BY <1>1, DeletionInit, DeletionStep, PTL DEF Spec

-----------------------------------------------------------------------------
(* Fresh pods.  What a client bases a deletion on is stale when it reads   *)
(* it, and what is stale stays stale.                                      *)

Sweeping == {"start", "sweep"}

Tidy(c) ==
  /\ \A i \in todo[c] : OfName(i.pod, i.name)
  /\ \A i, j \in todo[c] : i.name = j.name => i = j
  /\ pc[c] \notin Sweeping \cup Stopped => todo[c] = {}
  /\ pc[c] \in Sweeping => got[c] = NoPod
  /\ pc[c] = "delete" => got[c] # NoPod /\ ~Fresh(got[c])

SweepInv == TypeInv /\ PodsNamed /\ \A c \in Clients : Tidy(c)

\* What a step does to the decisions of client d.
Stays(d) == pc'[d] = pc[d] /\ got'[d] = got[d] /\ todo'[d] \subseteq todo[d]

Lists(d) ==
  /\ pc[d] = "start" /\ got'[d] = got[d] /\ pc'[d] = "sweep"
  /\ todo'[d] \subseteq {[name |-> n, pod |-> pods[n]] :
                          n \in {m \in Names : pods[m] # NoPod}}

Leaves(d) ==
  \/ pc'[d] \in Stopped /\ todo'[d] \subseteq todo[d]
  \/ pc'[d] = "get" /\ todo'[d] = {}

Proceeds(d) ==
  /\ pc[d] \notin Sweeping \cup Stopped /\ todo'[d] = todo[d]
  /\ pc'[d] \notin Sweeping
  /\ pc'[d] = "delete" => got'[d] # NoPod /\ ~Fresh(got[d])'

Moves(d) == Stays(d) \/ Lists(d) \/ Leaves(d) \/ Proceeds(d)

LEMMA CleanupMoves ==
  ASSUME TypeOK, NEW c \in Clients, CleanupStep(c), NEW d \in Clients
  PROVE  Moves(d)
<1>0. /\ pc \in [Clients -> Labels] /\ got \in [Clients -> Pod \cup {NoPod}]
      /\ todo \in [Clients -> SUBSET Item]
  BY DEF TypeOK
<1>1. CASE CleanupDecline(c)
  <2>1. pc' = [pc EXCEPT ![c] = "done"] /\ got' = [got EXCEPT ![c] = NoPod] /\ todo' = todo
    BY <1>1 DEF CleanupDecline, Stop, Goto, sweep
  <2>. QED
    BY <1>0, <2>1 DEF Moves, Stays, Leaves, Stopped
<1>2. CASE CleanupList(c)
  <2>1. /\ pc[c] = "start" /\ pc' = [pc EXCEPT ![c] = "sweep"] /\ got' = got
        /\ todo' = [todo EXCEPT ![c] =
              {[name |-> n, pod |-> pods[n]] :
                 n \in {m \in Names : pods[m] # NoPod /\ Selects(filter[c], m)}}]
    BY <1>2 DEF CleanupList, At, Goto, ensure
  <2>. QED
    BY <1>0, <2>1 DEF Moves, Stays, Lists
<1>3. CASE CleanupItem(c)
  <2>1. pc' = pc /\ got' = got /\ \E i \in todo[c] : todo' = [todo EXCEPT ![c] = @ \ {i}]
    BY <1>3 DEF CleanupItem, ensure
  <2>. QED
    BY <1>0, <2>1 DEF Moves, Stays
<1>4. CASE CleanupReturn(c)
  <2>1. todo' = todo /\ todo[c] = {}
    BY <1>4 DEF CleanupReturn, sweep
  <2>2. CASE c \in Sessions
    <3>1. pc' = [pc EXCEPT ![c] = "get"] /\ got' = got
      BY <1>4, <2>2 DEF CleanupReturn, Goto
    <3>. QED
      BY <1>0, <2>1, <3>1 DEF Moves, Stays, Leaves
  <2>3. CASE c \notin Sessions
    <3>1. pc' = [pc EXCEPT ![c] = "done"] /\ got' = [got EXCEPT ![c] = NoPod]
      BY <1>4, <2>3 DEF CleanupReturn, Stop, Goto
    <3>. QED
      BY <1>0, <2>1, <3>1 DEF Moves, Stays, Leaves, Stopped
  <2>. QED
    BY <2>2, <2>3
<1>. QED
  BY <1>1, <1>2, <1>3, <1>4 DEF CleanupStep

LEMMA PollMoves ==
  ASSUME TypeOK, NEW c \in Clients, PollAgain(c), todo' = todo, NEW d \in Clients
  PROVE  Moves(d)
<1>0. /\ pc \in [Clients -> Labels] /\ got \in [Clients -> Pod \cup {NoPod}]
  BY DEF TypeOK
<1>1. \/ pc' = pc /\ got' = got
      \/ pc' = [pc EXCEPT ![c] = "done"] /\ got' = [got EXCEPT ![c] = NoPod]
  BY DEF PollAgain, Stop, Goto
<1>. QED
  BY <1>0, <1>1 DEF Moves, Stays, Leaves, Stopped

LEMMA FaultMoves ==
  ASSUME TypeOK, NEW c \in Clients, FaultStep(c) \/ Interrupted(c), NEW d \in Clients
  PROVE  Moves(d)
<1>0. /\ pc \in [Clients -> Labels] /\ got \in [Clients -> Pod \cup {NoPod}]
      /\ todo \in [Clients -> SUBSET Item]
  BY DEF TypeOK
<1>1. CASE ApiError(c)
  <2>1. CASE pc[c] \in {"start", "sweep"} /\ c \in Sessions
    <3>1. /\ todo' = [todo EXCEPT ![c] = {}] /\ pc' = [pc EXCEPT ![c] = "get"]
          /\ got' = got
      BY <1>1, <2>1 DEF ApiError, Goto
    <3>. QED
      BY <1>0, <3>1 DEF Moves, Stays, Leaves
  <2>2. CASE pc[c] = "poll"
    BY <1>1, <2>2, PollMoves DEF ApiError
  <2>3. CASE ~(pc[c] \in {"start", "sweep"} /\ c \in Sessions) /\ pc[c] # "poll"
    <3>1. todo' = todo /\ \E msg \in Messages : Stop(c, Cluster, msg)
      BY <1>1, <2>3 DEF ApiError, Messages
    <3>2. pc' = [pc EXCEPT ![c] = "done"] /\ got' = [got EXCEPT ![c] = NoPod]
      BY <3>1 DEF Stop, Goto
    <3>. QED
      BY <1>0, <3>1, <3>2 DEF Moves, Stays, Leaves, Stopped
  <2>. QED
    BY <2>1, <2>2, <2>3
<1>2. CASE Interrupt(c) \/ WatchEnds(c)
  <2>1. pc' = pc /\ got' = got /\ todo' = todo
    BY <1>2 DEF Interrupt, WatchEnds, sweep, ensure
  <2>. QED
    BY <2>1 DEF Moves, Stays
<1>3. CASE Kill(c) \/ Interrupted(c)
  <2>1. \E l \in Stopped : pc' = [pc EXCEPT ![c] = l]
    BY <1>3 DEF Kill, Interrupted, Stop, Goto, Stopped
  <2>2. got' = [got EXCEPT ![c] = NoPod] /\ todo' = todo
    BY <1>3 DEF Kill, Interrupted, Stop, sweep
  <2>. QED
    BY <1>0, <2>1, <2>2 DEF Moves, Stays, Leaves
<1>. QED
  BY <1>1, <1>2, <1>3 DEF FaultStep

LEMMA EnsureMoves ==
  ASSUME TypeOK, NEW c \in Sessions, EnsureStep(c), NEW d \in Clients
  PROVE  Moves(d)
<1>0. /\ pc \in [Clients -> Labels] /\ got \in [Clients -> Pod \cup {NoPod}]
      /\ now \in Nat /\ c \in Clients
  BY DEF TypeOK, Clients
<1>1. todo' = todo
  BY DEF EnsureStep, EnsureGet, EnsureCreate, EnsureRefresh, EnsureDelete, EnsurePoll,
         WaitEvent, WaitTimeout, StartWatcher, sweep
<1>2. CASE EnsureGet(c)
  <2>. DEFINE p == pods[NameOf(c)]
  <2>1. /\ pc[c] = "get" /\ now' = now
        /\ pc' = [pc EXCEPT ![c] = Branch(p)] /\ got' = [got EXCEPT ![c] = p]
    BY <1>2 DEF EnsureGet, At, Goto, api
  <2>2. p \in Pod \cup {NoPod}
    BY NameOfType DEF TypeOK
  <2>3. Branch(p) \notin Sweeping
    BY <2>2, NullsAssumption DEF Branch, Sweeping, Pod, Terminal
  <2>4. Branch(p) = "delete" => p # NoPod /\ (p.phase \in Terminal \/ now >= p.ttl)
    BY <2>2, NullsAssumption DEF Branch, Pod, Terminal, Expired
  <2>5. p # NoPod => p.ttl \in Nat
    BY <2>2 DEF Pod
  <2>. HIDE DEF p
  <2>6. Branch(p) = "delete" => p # NoPod /\ ~(p.phase \notin Terminal /\ now < p.ttl)
    BY <1>0, <2>4, <2>5
  <2>7. CASE d = c
    <3>1. pc'[d] = Branch(p) /\ got'[d] = p
      BY <1>0, <2>1, <2>7
    <3>. QED
      BY <1>1, <2>1, <2>3, <2>6, <2>7, <3>1 DEF Moves, Proceeds, Fresh, Sweeping, Stopped
  <2>8. CASE d # c
    BY <1>0, <1>1, <2>1, <2>8 DEF Moves, Stays
  <2>. QED
    BY <2>7, <2>8
<1>3. CASE ~EnsureGet(c)
  <2>1. pc[c] \in {"create", "refresh", "delete", "poll", "wait", "watch"}
    BY <1>3 DEF EnsureStep, EnsureCreate, EnsureRefresh, EnsureDelete, EnsurePoll,
                WaitEvent, WaitTimeout, StartWatcher, At
  <2>2. CASE /\ \E l \in {"get", "wait", "watch", "poll", "ready", "done"} :
                  pc' = [pc EXCEPT ![c] = l]
             /\ \A e \in Clients \ {c} : got'[e] = got[e]
    <3>1. CASE d = c
      BY <1>0, <1>1, <2>1, <2>2, <3>1 DEF Moves, Proceeds, Sweeping, Stopped
    <3>2. CASE d # c
      BY <1>0, <1>1, <2>2, <3>2 DEF Moves, Stays
    <3>. QED
      BY <3>1, <3>2
  <2>3. CASE EnsureCreate(c)
    <3>1. CASE pods[NameOf(c)] # NoPod
      <4>1. Retry(c)
        BY <2>3, <3>1 DEF EnsureCreate
      <4>2. got' = got \/ got' = [got EXCEPT ![c] = NoPod]
        BY <4>1 DEF Retry, Stop
      <4>. QED
        BY <1>0, <2>2, <4>1, <4>2, RetryType
    <3>2. CASE pods[NameOf(c)] = NoPod
      <4>1. pc' = [pc EXCEPT ![c] = "wait"] /\ \E p : got' = [got EXCEPT ![c] = p]
        BY <2>3, <3>2 DEF EnsureCreate, Goto
      <4>. QED
        BY <1>0, <2>2, <4>1
    <3>. QED
      BY <3>1, <3>2
  <2>4. CASE EnsureRefresh(c)
    <3>1. \/ pc' = [pc EXCEPT ![c] = "done"] /\ got' = [got EXCEPT ![c] = NoPod]
          \/ pc' = [pc EXCEPT ![c] = "watch"] /\ got' = got
      BY <2>4 DEF EnsureRefresh, Stop, Goto
    <3>. QED
      BY <1>0, <2>2, <3>1
  <2>5. CASE EnsureDelete(c)
    <3>1. pc' = [pc EXCEPT ![c] = "poll"] /\ got' = [got EXCEPT ![c] = NoPod]
      BY <2>5 DEF EnsureDelete, Goto
    <3>. QED
      BY <1>0, <2>2, <3>1
  <2>6. CASE EnsurePoll(c)
    <3>1. CASE Retry(c)
      <4>1. got' = got \/ got' = [got EXCEPT ![c] = NoPod]
        BY <3>1 DEF Retry, Stop
      <4>. QED
        BY <1>0, <2>2, <3>1, <4>1, RetryType
    <3>2. CASE PollAgain(c)
      BY <1>0, <1>1, <3>2, PollMoves
    <3>. QED
      BY <2>6, <3>1, <3>2 DEF EnsurePoll
  <2>7. CASE WaitEvent(c)
    <3>1. \/ \E p : pc' = [pc EXCEPT ![c] = "watch"] /\ got' = [got EXCEPT ![c] = p]
          \/ pc' = [pc EXCEPT ![c] = "done"] /\ got' = [got EXCEPT ![c] = NoPod]
          \/ pc' = pc /\ got' = got
          \/ Head(events[c]).pod.phase \notin {"Pending", "Running"} \cup Terminal
      BY <2>7 DEF WaitEvent, Stop, Goto
    <3>2. Head(events[c]).pod.phase \in {"Pending", "Running"} \cup Terminal
      <4>1. events[c] \in Seq(Event) /\ events[c] # << >>
        BY <1>0, <2>7 DEF WaitEvent, TypeOK
      <4>2. Head(events[c]) \in Event
        BY <4>1
      <4>. QED
        BY <4>2 DEF Event, Pod
    <3>3. CASE pc' = pc /\ got' = got
      BY <1>1, <3>3 DEF Moves, Stays
    <3>. QED
      BY <1>0, <2>2, <3>1, <3>2, <3>3
  <2>8. CASE WaitTimeout(c)
    <3>1. pc' = [pc EXCEPT ![c] = "done"] /\ got' = [got EXCEPT ![c] = NoPod]
      BY <2>8 DEF WaitTimeout, Stop, Goto
    <3>. QED
      BY <1>0, <2>2, <3>1
  <2>9. CASE StartWatcher(c)
    <3>1. pc' = [pc EXCEPT ![c] = "ready"] /\ got' = got
      BY <2>9 DEF StartWatcher, Goto, ensure
    <3>. QED
      BY <1>0, <2>2, <3>1
  <2>. QED
    BY <1>3, <2>3, <2>4, <2>5, <2>6, <2>7, <2>8, <2>9 DEF EnsureStep
<1>. QED
  BY <1>2, <1>3

LEMMA HandleMoves ==
  ASSUME TypeOK, NEW c \in Sessions, WatcherStep(c) \/ StreamStep(c), NEW d \in Clients
  PROVE  Moves(d)
<1>0. /\ pc \in [Clients -> Labels] /\ got \in [Clients -> Pod \cup {NoPod}]
      /\ c \in Clients
  BY DEF TypeOK, Clients
<1>1. todo' = todo
  BY DEF WatcherStep, WatcherEvent, WatcherInterrupted, StreamStep, OpenStream,
         StreamEnd, StreamLost, sweep
<1>2. CASE WatcherStep(c)
  <2>1. pc' = pc /\ got' = got
    BY <1>2 DEF WatcherStep, WatcherEvent, WatcherInterrupted, ensure
  <2>. QED
    BY <1>1, <2>1 DEF Moves, Stays
<1>3. CASE StreamStep(c)
  <2>1. pc[c] \in {"ready", "stream"}
    BY <1>3 DEF StreamStep, OpenStream, StreamEnd, StreamLost, At
  <2>2. /\ \E l \in {"ready", "stream", "done"} : pc' = [pc EXCEPT ![c] = l]
        /\ got' = got \/ got' = [got EXCEPT ![c] = NoPod]
    BY <1>3 DEF StreamStep, OpenStream, StreamEnd, StreamLost, Stop, Goto
  <2>3. CASE d = c
    BY <1>0, <1>1, <2>1, <2>2, <2>3 DEF Moves, Proceeds, Sweeping, Stopped
  <2>4. CASE d # c
    BY <1>0, <1>1, <2>2, <2>4 DEF Moves, Stays
  <2>. QED
    BY <2>3, <2>4
<1>. QED
  BY <1>2, <1>3

LEMMA StepMoves ==
  ASSUME TypeOK, [Next]_vars, NEW d \in Clients
  PROVE  Moves(d)
<1>1. CASE \E n \in Names : Kubelet(n) \/ ForeignDelete(n)
  BY <1>1 DEF Kubelet, ForeignDelete, sweep, ensure, Moves, Stays
<1>2. CASE Tick \/ UNCHANGED vars
  BY <1>2 DEF Tick, vars, sweep, ensure, Moves, Stays
<1>. QED
  BY <1>1, <1>2, CleanupMoves, FaultMoves, EnsureMoves, HandleMoves DEF Next, AllStopped

LEMMA SweepStep ==
  ASSUME SweepInv, [Next]_vars
  PROVE  SweepInv'
<1>. USE DEF SweepInv
<1>0. TypeOK /\ TypeInv' /\ TypeOK'
  BY TypeInvStep DEF TypeInv
<1>1. PodsNamed'
  <2>1. CASE Next
    BY <1>0, <2>1, StepRewrites, RewritesNamed
  <2>2. CASE UNCHANGED vars
    BY <2>2 DEF vars, api, PodsNamed, OfName
  <2>. QED
    BY <2>1, <2>2
<1>2. ASSUME NEW d \in Clients PROVE Tidy(d)'
  <2>0. Tidy(d) /\ Moves(d)
    BY <1>0, StepMoves
  <2>1. CASE Stays(d)
    <3>1. got[d] # NoPod /\ ~Fresh(got[d]) => ~Fresh(got[d])'
      <4>1. now \in Nat /\ now' \in Nat /\ now' >= now
        BY <1>0, ClockStep DEF TypeOK
      <4>2. got[d] # NoPod => got[d].ttl \in Nat
        BY <1>0 DEF TypeOK, Pod
      <4>. QED
        BY <2>1, <4>1, <4>2 DEF Stays, Fresh
    <3>. QED
      BY <2>0, <2>1, <3>1 DEF Tidy, Stays, OfName, Sweeping, Stopped
  <2>2. CASE Lists(d)
    <3>1. \A i \in todo'[d] : i.name \in Names /\ i.pod = pods[i.name] /\ i.pod # NoPod
                            /\ i = [name |-> i.name, pod |-> pods[i.name]]
      BY <2>2 DEF Lists
    <3>2. \A i \in todo'[d] : OfName(i.pod, i.name)
      BY <3>1 DEF PodsNamed
    <3>3. \A i, j \in todo'[d] : i.name = j.name => i = j
      BY <3>1
    <3>4. pc'[d] = "sweep" /\ got'[d] = NoPod
      BY <2>0, <2>2 DEF Lists, Tidy, Sweeping
    <3>. QED
      BY <3>2, <3>3, <3>4 DEF Tidy, OfName, Sweeping
  <2>3. CASE Leaves(d)
    BY <2>0, <2>3 DEF Tidy, Leaves, OfName, Sweeping, Stopped
  <2>4. CASE Proceeds(d)
    BY <2>0, <2>4 DEF Tidy, Proceeds, OfName, Sweeping, Stopped
  <2>. QED
    BY <2>0, <2>1, <2>2, <2>3, <2>4 DEF Moves
<1>. QED
  BY <1>0, <1>1, <1>2

LEMMA SweepInit == Init => SweepInv
<1>. SUFFICES ASSUME Init PROVE SweepInv
  OBVIOUS
<1>1. PodsNamed
  BY HandleInvInit DEF HandleInv
<1>2. ASSUME NEW c \in Clients PROVE Tidy(c)
  <2>1. todo[c] = {} /\ got[c] = NoPod /\ pc[c] = "start"
    BY DEF Init
  <2>. QED
    BY <2>1 DEF Tidy
<1>. QED
  BY <1>1, <1>2, InitTypeInv DEF SweepInv

LEMMA SpareStep ==
  ASSUME SweepInv, NEW c \in Clients, NEW n \in Names,
         (CleanupItem(c) /\ filter[c].ttlOnly) \/ (c \in Sessions /\ EnsureDelete(c)),
         Fresh(pods[n]), pods'[n] = NoPod
  PROVE  pods[n] \notin Seen(c)
<1>. USE DEF SweepInv
<1>0. TypeOK /\ Tidy(c) /\ pods[n] # NoPod /\ pods[n] \in Pod
  BY DEF TypeInv, TypeOK, Fresh
<1>. SUFFICES ASSUME pods[n] \in Seen(c) PROVE FALSE
  OBVIOUS
<1>1. CASE CleanupItem(c) /\ filter[c].ttlOnly
  <2>1. PICK i \in todo[c] : ShouldGC(i.pod) /\ DeleteByName(i.name)
    BY <1>0, <1>1 DEF CleanupItem, api
  <2>2. i.name = n
    BY <1>0, <2>1 DEF DeleteByName, TypeOK
  <2>3. got[c] = NoPod
    BY <1>0, <1>1 DEF Tidy, CleanupItem, At, Sweeping
  <2>4. PICK j \in todo[c] : j.pod = pods[n]
    BY <1>0, <2>3 DEF Seen
  <2>5. j.name = n
    BY <1>0, <2>4 DEF Tidy, PodsNamed, OfName
  <2>6. ShouldGC(pods[n])
    BY <1>0, <2>1, <2>2, <2>4, <2>5 DEF Tidy
  <2>7. now \in Nat /\ pods[n].ttl \in Nat
    BY <1>0 DEF TypeOK, Pod
  <2>. QED
    BY <2>6, <2>7 DEF ShouldGC, Expired, Fresh
<1>2. CASE c \in Sessions /\ EnsureDelete(c)
  <2>1. pc[c] = "delete"
    BY <1>2 DEF EnsureDelete, At
  <2>2. todo[c] = {} /\ ~Fresh(got[c])
    BY <1>0, <2>1 DEF Tidy, Sweeping, Stopped
  <2>. QED
    BY <2>2 DEF Seen
<1>. QED
  BY <1>1, <1>2

\* cleanup.go:62-76, lifecycle.go:84-88: the sweep, cleanup --ttl-only and
\* Ensure delete a fresh pod only if it was replaced or refreshed after they
\* read it.
THEOREM FreshPodsSpared == Spec => FreshDeletedOnlyIfRaced
<1>1. SweepInv /\ [Next]_vars =>
        [\A c \in Clients, n \in Names :
           /\ (CleanupItem(c) /\ filter[c].ttlOnly) \/ (c \in Sessions /\ EnsureDelete(c))
           /\ Fresh(pods[n])
           /\ pods'[n] = NoPod
           => pods[n] \notin Seen(c)]_vars
  BY SpareStep
<1>. QED
  BY <1>1, SweepInit, SweepStep, PTL DEF Spec, FreshDeletedOnlyIfRaced
=============================================================================
