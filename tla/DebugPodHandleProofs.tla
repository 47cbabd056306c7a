------------------------ MODULE DebugPodHandleProofs ------------------------
(***************************************************************************)
(* A handle of debugpod.Ensure never loses its pod silently.  The proof    *)
(* follows one session d: a step either is d's own, or is a step of the    *)
(* world, which leaves d's own state alone and, if it changes the pod d    *)
(* cares about, tells d of it.                                             *)
(***************************************************************************)
EXTENDS DebugPodProofs

USE DEF Codes

RunningAs(n, u) == RunningPod(n) /\ pods[n].uid = u

OfName(p, n) == PodNameFor[p.node] = n

PodsNamed == \A n \in Names : pods[n] # NoPod => OfName(pods[n], n)

\* The watcher lives from the return of Ensure to the end of the command, and
\* a session without a resourceVersion has nothing to receive.
Discipline(d) ==
  /\ watcher[d] = "on" => pc[d] \in {"ready", "stream"}
  /\ pc[d] \in {"ready", "stream"} => watcher[d] \in {"on", "closed"}
  /\ stream[d] # 0 => pc[d] = "stream"
  /\ ~Anchored(d) => events[d] = << >>

Held(d) ==
  pc[d] \in {"refresh", "watch"} \/ watcher[d] = "on" => Alive(d) \/ TerminationDue(d)

Attached(d) ==
  stream[d] # 0 /\ stream[d] # got[d].uid => watcher[d] = "closed" \/ TerminationDue(d)

\* What waitRunning may find in its watch: an event with a Running pod is
\* about the pod that runs, or is followed by the news of its end; a deletion
\* of a Running pod comes after an event that already ended the wait.
Awaited(d) ==
  pc[d] = "wait" =>
    /\ \A i \in 1 .. Len(events[d]) :
         events[d][i].pod.phase = "Running" =>
           IF events[d][i].type = "DELETED"
             THEN \E j \in 1 .. Len(events[d]) :
                    j < i /\ events[d][j].pod.phase = "Running"
             ELSE \/ RunningAs(NameOf(d), events[d][i].pod.uid)
                  \/ \E j \in 1 .. Len(events[d]) : j > i /\ Terminating(events[d][j])
    /\ RunningPod(NameOf(d)) =>
         \E i \in 1 .. Len(events[d]) : events[d][i].pod.phase = "Running"

Named(d) ==
  /\ got[d] # NoPod => OfName(got[d], NameOf(d))
  /\ \A i \in 1 .. Len(events[d]) : OfName(events[d][i].pod, NameOf(d))

SessionInv(d) == Discipline(d) /\ Held(d) /\ Attached(d) /\ Awaited(d) /\ Named(d)

HandleInv == TypeInv /\ PodsNamed /\ \A d \in Sessions : SessionInv(d)

-----------------------------------------------------------------------------
(* Steps of the world, as seen by session d. *)

Untouched(d) == /\ pc'[d] = pc[d] /\ got'[d] = got[d]
                /\ watcher'[d] = watcher[d] /\ stream'[d] = stream[d]

Quiet(d) == pods'[NameOf(d)] = pods[NameOf(d)] /\ events'[d] = events[d]

\* How the pod of name n may change, and the event that reports it.
Change(n, e) ==
  \/ /\ pods[n] # NoPod /\ pods'[n] = NoPod
     /\ e.type = "DELETED" /\ e.pod = pods[n]
  \/ /\ pods'[n] = e.pod /\ e.type # "DELETED" /\ OfName(e.pod, n)
     /\ \/ pods[n] = NoPod /\ e.pod.phase = "Pending"
        \/ /\ pods[n] # NoPod /\ e.pod.uid = pods[n].uid
           /\ \/ e.pod.phase = pods[n].phase
              \/ pods[n].phase = "Pending"
              \/ e.pod.phase \in Terminal

Told(d) ==
  \E e \in Event :
    /\ Change(NameOf(d), e)
    /\ events'[d] = IF Anchored(d) THEN Append(events[d], e) ELSE events[d]

WorldStep(d) == Untouched(d) /\ (Quiet(d) \/ Told(d))

LEMMA QuietInv ==
  ASSUME NEW d \in Sessions, SessionInv(d), Untouched(d), Quiet(d)
  PROVE  SessionInv(d)'
BY DEF SessionInv, Discipline, Held, Attached, Awaited, Named, Untouched, Quiet,
       Anchored, Alive, RunningPod, RunningAs, TerminationDue, OfName

\* An event appended to the watch of d.
LEMMA ToldInv ==
  ASSUME HandleInv, NEW d \in Sessions, Untouched(d), Told(d)
  PROVE  SessionInv(d)'
<1>. DEFINE n == NameOf(d)
            q == events[d]
<1>0. d \in Clients /\ n \in Names /\ SessionInv(d)
  BY NameOfType DEF HandleInv, Clients
<1>1. PICK e \in Event :
        /\ Change(n, e)
        /\ events'[d] = IF Anchored(d) THEN Append(q, e) ELSE q
  BY DEF Told
<1>2. /\ q \in Seq(Event)
      /\ pods[n] \in Pod \cup {NoPod}
      /\ e.pod \in Pod /\ e.pod # NoPod
  BY <1>0, NullsAssumption DEF HandleInv, TypeInv, TypeOK, Event
<1>3. CASE ~Anchored(d)
  <2>1. /\ events'[d] = << >> /\ q = << >>
        /\ ~Anchored(d)' /\ pc[d] \notin {"refresh", "wait", "watch"} /\ watcher[d] # "on"
    BY <1>0, <1>1, <1>3 DEF SessionInv, Discipline, Untouched, Anchored
  <2>2. Attached(d)'
    BY <1>0, <2>1 DEF SessionInv, Attached, Untouched, TerminationDue
  <2>. QED
    BY <1>0, <2>1, <2>2 DEF SessionInv, Discipline, Held, Awaited, Named, Untouched
<1>4. CASE Anchored(d)
  <2>1. /\ events'[d] = Append(q, e) /\ Len(events'[d]) = Len(q) + 1
        /\ events'[d][Len(q) + 1] = e
        /\ \A i \in 1 .. Len(q) : events'[d][i] = q[i]
        /\ Len(q) \in Nat
    BY <1>1, <1>2, <1>4
  <2>2. TerminationDue(d) => TerminationDue(d)'
    BY <2>1 DEF TerminationDue
  <2>3. Terminating(e) => TerminationDue(d)'
    BY <2>1 DEF TerminationDue
  <2>4. Alive(d) => Alive(d)' \/ TerminationDue(d)'
    BY <1>1, <1>2, <2>3 DEF Alive, RunningPod, Change, Terminating, Untouched
  <2>5. Discipline(d)'
    BY <1>0, <1>4 DEF SessionInv, Discipline, Untouched, Anchored
  <2>6. Held(d)' /\ Attached(d)'
    BY <1>0, <2>2, <2>4 DEF SessionInv, Held, Attached, Untouched
  <2>7. Named(d)'
    <3>1. OfName(e.pod, n)
      BY <1>0, <1>1 DEF Change, HandleInv, PodsNamed
    <3>. QED
      BY <1>0, <2>1, <3>1 DEF SessionInv, Named, Untouched, OfName
  <2>8. Awaited(d)'
    <3>. DEFINE Runs(u) == pods'[n] # NoPod /\ pods'[n].phase = "Running" /\ pods'[n].uid = u
    <3>. SUFFICES ASSUME pc[d] = "wait"
                  PROVE  /\ \A i \in 1 .. Len(q) + 1 :
                              events'[d][i].pod.phase = "Running" =>
                                IF events'[d][i].type = "DELETED"
                                  THEN \E j \in 1 .. Len(q) + 1 :
                                         j < i /\ events'[d][j].pod.phase = "Running"
                                  ELSE \/ Runs(events'[d][i].pod.uid)
                                       \/ \E j \in 1 .. Len(q) + 1 :
                                            j > i /\ Terminating(events'[d][j])
                         /\ RunningPod(n)' =>
                              \E i \in 1 .. Len(q) + 1 : events'[d][i].pod.phase = "Running"
      BY <2>1 DEF Awaited, Untouched, RunningAs, RunningPod, Terminating
    <3>1. Awaited(d)
      BY <1>0 DEF SessionInv
    <3>2. ASSUME NEW i \in 1 .. Len(q), q[i].pod.phase = "Running", q[i].type = "DELETED"
          PROVE  \E j \in 1 .. Len(q) + 1 : j < i /\ events'[d][j].pod.phase = "Running"
      BY <2>1, <3>1, <3>2 DEF Awaited
    <3>3. ASSUME NEW i \in 1 .. Len(q), q[i].pod.phase = "Running", q[i].type # "DELETED"
          PROVE  \/ Runs(q[i].pod.uid)
                 \/ \E j \in 1 .. Len(q) + 1 : j > i /\ Terminating(events'[d][j])
      <4>1. CASE RunningAs(n, q[i].pod.uid)
        BY <1>1, <1>2, <2>1, <4>1 DEF RunningAs, RunningPod, Change, Terminating
      <4>2. CASE \E j \in 1 .. Len(q) : j > i /\ Terminating(q[j])
        BY <2>1, <4>2
      <4>. QED
        BY <3>1, <3>3, <4>1, <4>2 DEF Awaited
    <3>4. ASSUME e.pod.phase = "Running", e.type = "DELETED"
          PROVE  \E j \in 1 .. Len(q) + 1 : j < Len(q) + 1 /\ events'[d][j].pod.phase = "Running"
      <4>1. RunningPod(n)
        BY <1>1, <3>4 DEF Change, RunningPod
      <4>. QED
        BY <2>1, <3>1, <4>1 DEF Awaited
    <3>5. ASSUME e.pod.phase = "Running", e.type # "DELETED"
          PROVE  Runs(e.pod.uid)
      BY <1>1, <1>2, <3>5 DEF Change, RunningAs, RunningPod
    <3>6. RunningPod(n)' => \E i \in 1 .. Len(q) + 1 : events'[d][i].pod.phase = "Running"
      BY <1>1, <2>1 DEF Change, RunningPod
    <3>7. ASSUME NEW i \in 1 .. Len(q) + 1, events'[d][i].pod.phase = "Running"
          PROVE  IF events'[d][i].type = "DELETED"
                   THEN \E j \in 1 .. Len(q) + 1 :
                          j < i /\ events'[d][j].pod.phase = "Running"
                   ELSE \/ Runs(events'[d][i].pod.uid)
                        \/ \E j \in 1 .. Len(q) + 1 :
                             j > i /\ Terminating(events'[d][j])
      <4>1. CASE i = Len(q) + 1
        BY <2>1, <3>4, <3>5, <3>7, <4>1
      <4>2. CASE i \in 1 .. Len(q)
        BY <2>1, <3>2, <3>3, <3>7, <4>2
      <4>. QED
        BY <2>1, <4>1, <4>2
    <3>. QED
      BY <3>6, <3>7
  <2>. QED
    BY <2>5, <2>6, <2>7, <2>8 DEF SessionInv
<1>. QED
  BY <1>3, <1>4

LEMMA WorldInv ==
  ASSUME HandleInv, NEW d \in Sessions, WorldStep(d)
  PROVE  SessionInv(d)'
BY QuietInv, ToldInv DEF WorldStep, HandleInv

-----------------------------------------------------------------------------
(* Which steps are steps of the world for d. *)

LEMMA NotifyTells ==
  ASSUME TypeOK, NEW d \in Sessions, NEW n \in Names, NEW p \in Pod, NEW new,
         NEW t \in {"ADDED", "MODIFIED", "DELETED"},
         pods' = [pods EXCEPT ![n] = new], events' = Notify(n, t, p),
         Change(n, [type |-> t, pod |-> p])
  PROVE  Quiet(d) \/ Told(d)
<1>0. d \in Clients /\ NameOf(d) \in Names /\ [type |-> t, pod |-> p] \in Event
  BY NameOfType DEF Clients, Event
<1>1. CASE NameOf(d) = n
  BY <1>0, <1>1 DEF Told, Notify
<1>2. CASE NameOf(d) # n
  BY <1>0, <1>2 DEF Quiet, Notify, TypeOK
<1>. QED
  BY <1>1, <1>2

LEMMA DeleteTells ==
  ASSUME TypeOK, NEW d \in Sessions, NEW n \in Names, DeleteByName(n)
  PROVE  Quiet(d) \/ Told(d)
<1>1. CASE pods[n] = NoPod
  BY <1>1, NameOfType DEF DeleteByName, Quiet, TypeOK
<1>2. CASE pods[n] # NoPod
  <2>1. pods[n] \in Pod
    BY <1>2 DEF TypeOK
  <2>2. pods' = [pods EXCEPT ![n] = NoPod] /\ events' = Notify(n, "DELETED", pods[n])
    BY <1>2 DEF DeleteByName
  <2>3. Change(n, [type |-> "DELETED", pod |-> pods[n]])
    BY <1>2, <2>2 DEF Change, TypeOK
  <2>. QED
    BY <2>1, <2>2, <2>3, NotifyTells
<1>. QED
  BY <1>1, <1>2

\* The three writes that change a pod without deleting it.
LEMMA CreateTells ==
  ASSUME HandleInv, NEW c \in Sessions, EnsureCreate(c), pods[NameOf(c)] = NoPod,
         NEW d \in Sessions
  PROVE  Quiet(d) \/ Told(d)
<1>. DEFINE n == NameOf(c)
            p == [uid |-> lastUid[n] + 1, node |-> NodeOf[c],
                  phase |-> "Pending", ttl |-> Lease(c)]
<1>0. n \in Names /\ TypeOK
  BY NameOfType DEF HandleInv, TypeInv
<1>1. p \in Pod
  BY <1>0, LeaseType, NodeOfAssumption DEF Pod, TypeOK
<1>2. pods' = [pods EXCEPT ![n] = p] /\ events' = Notify(n, "ADDED", p)
  BY DEF EnsureCreate
<1>3. Change(n, [type |-> "ADDED", pod |-> p])
  BY <1>0, <1>2 DEF Change, OfName, NameOf, TypeOK
<1>. HIDE DEF p
<1>. QED
  BY <1>0, <1>1, <1>2, <1>3, NotifyTells

LEMMA RefreshTells ==
  ASSUME HandleInv, NEW c \in Sessions, EnsureRefresh(c), pods[NameOf(c)] # NoPod,
         NEW d \in Sessions
  PROVE  Quiet(d) \/ Told(d)
<1>. DEFINE n == NameOf(c)
            p == [pods[n] EXCEPT !.ttl = Lease(c)]
<1>0. n \in Names /\ TypeOK /\ pods[n] \in Pod
  BY NameOfType DEF HandleInv, TypeInv, TypeOK
<1>1. p \in Pod /\ p.uid = pods[n].uid /\ p.node = pods[n].node /\ p.phase = pods[n].phase
  BY <1>0, LeaseType DEF Pod
<1>2. pods' = [pods EXCEPT ![n] = p] /\ events' = Notify(n, "MODIFIED", p)
  BY DEF EnsureRefresh
<1>. HIDE DEF p
<1>3. OfName(p, n)
  BY <1>0, <1>1 DEF OfName, HandleInv, PodsNamed
<1>4. Change(n, [type |-> "MODIFIED", pod |-> p])
  BY <1>0, <1>1, <1>2, <1>3 DEF Change, TypeOK
<1>. QED
  BY <1>0, <1>1, <1>2, <1>4, NotifyTells

LEMMA KubeletTells ==
  ASSUME HandleInv, NEW n \in Names, Kubelet(n), NEW d \in Sessions
  PROVE  Quiet(d) \/ Told(d)
<1>0. TypeOK /\ pods[n] # NoPod /\ pods[n] \in Pod
  BY DEF Kubelet, HandleInv, TypeInv, TypeOK
<1>1. PICK phase \in {"Running"} \cup Terminal :
        /\ \/ pods[n].phase = "Pending" /\ phase # "Succeeded"
           \/ pods[n].phase = "Running" /\ phase # "Running"
        /\ pods' = [pods EXCEPT ![n] = [pods[n] EXCEPT !.phase = phase]]
        /\ events' = Notify(n, "MODIFIED", [pods[n] EXCEPT !.phase = phase])
  BY DEF Kubelet
<1>. DEFINE p == [pods[n] EXCEPT !.phase = phase]
<1>2. p \in Pod /\ p.uid = pods[n].uid /\ p.node = pods[n].node /\ p.phase = phase
  BY <1>0 DEF Pod, Terminal
<1>3. pods' = [pods EXCEPT ![n] = p] /\ events' = Notify(n, "MODIFIED", p)
  BY <1>1
<1>. HIDE DEF p
<1>4. OfName(p, n)
  BY <1>0, <1>2 DEF OfName, HandleInv, PodsNamed
<1>5. Change(n, [type |-> "MODIFIED", pod |-> p])
  BY <1>0, <1>1, <1>2, <1>3, <1>4 DEF Change, TypeOK
<1>. QED
  BY <1>0, <1>2, <1>3, <1>5, NotifyTells

\* The end of a command concerns nobody else.
LEMMA StopAside ==
  ASSUME TypeOK, NEW c \in Clients, StopFrame(c), UNCHANGED api,
         NEW d \in Sessions, d # c
  PROVE  WorldStep(d)
<1>1. d \in Clients
  BY DEF Clients
<1>. QED
  BY <1>1 DEF StopFrame, Stop, Goto, WorldStep, Untouched, Quiet, TypeOK, api

LEMMA RetryAside ==
  ASSUME TypeOK, NEW c \in Clients, Retry(c), UNCHANGED api,
         NEW d \in Sessions, d # c
  PROVE  WorldStep(d)
<1>1. d \in Clients
  BY DEF Clients
<1>2. CASE attempt[c] < Attempts
  BY <1>1, <1>2 DEF Retry, Goto, WorldStep, Untouched, Quiet, TypeOK, api, session
<1>3. CASE ~(attempt[c] < Attempts)
  <2>1. StopFrame(c)
    BY <1>3 DEF Retry, StopFrame, Messages
  <2>. QED
    BY <2>1, StopAside
<1>. QED
  BY <1>2, <1>3

LEMMA PollAside ==
  ASSUME TypeOK, NEW c \in Clients, PollAgain(c), UNCHANGED api,
         NEW d \in Sessions, d # c
  PROVE  WorldStep(d)
<1>1. CASE polls[c] + 1 < MaxPolls
  BY <1>1 DEF PollAgain, WorldStep, Untouched, Quiet, api, session
<1>2. CASE ~(polls[c] + 1 < MaxPolls)
  <2>1. StopFrame(c)
    BY <1>2 DEF PollAgain, StopFrame, Messages
  <2>. QED
    BY <2>1, StopAside
<1>. QED
  BY <1>1, <1>2

LEMMA SweepIsWorld ==
  ASSUME TypeOK, NEW c \in Clients, CleanupItem(c), NEW d \in Sessions
  PROVE  WorldStep(d)
<1>1. PICK i \in todo[c] : UNCHANGED <<api, events, deleted>> \/ DeleteByName(i.name)
  BY DEF CleanupItem
<1>2. i.name \in Names
  BY DEF TypeOK, Item
<1>3. Quiet(d) \/ Told(d)
  BY <1>1, <1>2, DeleteTells DEF Quiet, api
<1>. QED
  BY <1>3 DEF CleanupItem, WorldStep, Untouched, ensure

LEMMA EnsureAside ==
  ASSUME HandleInv, NEW c \in Sessions, EnsureStep(c), NEW d \in Sessions, d # c
  PROVE  WorldStep(d)
<1>0. TypeOK /\ c \in Clients /\ d \in Clients /\ NameOf(c) \in Names
  BY NameOfType DEF HandleInv, TypeInv, Clients
<1>1. CASE EnsureGet(c)
  BY <1>0, <1>1 DEF EnsureGet, Goto, WorldStep, Untouched, Quiet, TypeOK, api, session
<1>2. CASE EnsureCreate(c)
  <2>1. CASE pods[NameOf(c)] # NoPod
    BY <1>0, <1>2, <2>1, RetryAside DEF EnsureCreate
  <2>2. CASE pods[NameOf(c)] = NoPod
    <3>1. Quiet(d) \/ Told(d)
      BY <1>2, <2>2, CreateTells
    <3>2. Untouched(d)
      BY <1>0, <1>2, <2>2 DEF EnsureCreate, Goto, Untouched, TypeOK
    <3>. QED
      BY <3>1, <3>2 DEF WorldStep
  <2>. QED
    BY <2>1, <2>2
<1>3. CASE EnsureRefresh(c)
  <2>1. CASE pods[NameOf(c)] = NoPod
    <3>1. StopFrame(c) /\ UNCHANGED api
      BY <1>3, <2>1 DEF EnsureRefresh, StopFrame, Messages
    <3>. QED
      BY <1>0, <3>1, StopAside
  <2>2. CASE pods[NameOf(c)] # NoPod
    <3>1. Quiet(d) \/ Told(d)
      BY <1>3, <2>2, RefreshTells
    <3>2. Untouched(d)
      BY <1>0, <1>3, <2>2 DEF EnsureRefresh, Goto, Untouched, TypeOK
    <3>. QED
      BY <3>1, <3>2 DEF WorldStep
  <2>. QED
    BY <2>1, <2>2
<1>4. CASE EnsureDelete(c)
  <2>1. Quiet(d) \/ Told(d)
    BY <1>0, <1>4, DeleteTells DEF EnsureDelete
  <2>. QED
    BY <1>0, <1>4, <2>1 DEF EnsureDelete, Goto, WorldStep, Untouched, TypeOK
<1>5. CASE EnsurePoll(c)
  BY <1>0, <1>5, RetryAside, PollAside DEF EnsurePoll
<1>6. CASE WaitEvent(c)
  <2>1. CASE StopFrame(c)
    BY <1>0, <1>6, <2>1, StopAside DEF WaitEvent
  <2>2. CASE ~StopFrame(c)
    <3>1. UNCHANGED api
      BY <1>6 DEF WaitEvent
    <3>2. Head(events[c]).pod.phase \in {"Running", "Pending"} \cup Terminal
      <4>1. events[c] \in Seq(Event) /\ events[c] # << >>
        BY <1>0, <1>6 DEF WaitEvent, TypeOK
      <4>2. Head(events[c]) \in Event
        BY <4>1
      <4>. QED
        BY <4>2 DEF Event, Pod
    <3>3. /\ pc' = pc \/ pc' = [pc EXCEPT ![c] = "watch"]
          /\ got' = got \/ got' = [got EXCEPT ![c] = Head(events[c]).pod]
          /\ events' = [events EXCEPT ![c] = Tail(@)]
          /\ UNCHANGED <<watcher, stream>>
      BY <1>6, <2>2, <3>2 DEF WaitEvent, Goto, StopFrame, Terminal, Messages
    <3>. QED
      BY <1>0, <3>1, <3>3 DEF WorldStep, Untouched, Quiet, TypeOK, api
  <2>. QED
    BY <2>1, <2>2
<1>7. CASE WaitTimeout(c)
  <2>1. StopFrame(c) /\ UNCHANGED api
    BY <1>7 DEF WaitTimeout, StopFrame, Messages
  <2>. QED
    BY <1>0, <2>1, StopAside
<1>8. CASE StartWatcher(c)
  BY <1>0, <1>8 DEF StartWatcher, Goto, WorldStep, Untouched, Quiet, TypeOK, api, ensure
<1>. QED
  BY <1>1, <1>2, <1>3, <1>4, <1>5, <1>6, <1>7, <1>8 DEF EnsureStep

LEMMA HandleAside ==
  ASSUME HandleInv, NEW c \in Sessions, WatcherStep(c) \/ StreamStep(c),
         NEW d \in Sessions, d # c
  PROVE  WorldStep(d)
<1>0. TypeOK /\ c \in Clients /\ d \in Clients
  BY DEF HandleInv, TypeInv, Clients
<1>1. CASE WatcherStep(c)
  BY <1>0, <1>1 DEF WatcherStep, WatcherEvent, WatcherInterrupted, CloseTerminated,
                    WorldStep, Untouched, Quiet, TypeOK, api, ensure
<1>2. CASE StreamStep(c)
  <2>1. UNCHANGED api
    BY <1>2 DEF StreamStep, OpenStream, StreamEnd, StreamLost
  <2>2. CASE StopFrame(c)
    BY <1>0, <2>1, <2>2, StopAside
  <2>3. CASE ~StopFrame(c)
    <3>1. /\ pc' = [pc EXCEPT ![c] = "stream"] \/ pc' = [pc EXCEPT ![c] = "ready"]
          /\ \/ stream' = [stream EXCEPT ![c] = 0]
             \/ stream' = [stream EXCEPT ![c] = pods[NameOf(c)].uid]
          /\ UNCHANGED <<got, events, watcher>>
      BY <1>2, <2>3 DEF StreamStep, OpenStream, StreamEnd, StreamLost, StopFrame,
                        Goto, Messages
    <3>. QED
      BY <1>0, <2>1, <3>1 DEF WorldStep, Untouched, Quiet, TypeOK, api
  <2>. QED
    BY <2>2, <2>3
<1>. QED
  BY <1>1, <1>2

LEMMA CommandAside ==
  ASSUME HandleInv, NEW c \in Clients,
         CleanupStep(c) \/ FaultStep(c) \/ Interrupted(c),
         NEW d \in Sessions, d # c
  PROVE  WorldStep(d)
<1>0. TypeOK /\ d \in Clients
  BY DEF HandleInv, TypeInv, Clients
<1>1. CASE StopFrame(c) /\ UNCHANGED api
  BY <1>0, <1>1, StopAside
<1>2. CASE CleanupDecline(c)
  <2>1. StopFrame(c) /\ UNCHANGED api
    BY <1>2 DEF CleanupDecline, StopFrame, Messages
  <2>. QED
    BY <1>1, <2>1
<1>3. CASE CleanupList(c)
  BY <1>0, <1>3 DEF CleanupList, Goto, WorldStep, Untouched, Quiet, TypeOK, api,
                    ensure, session
<1>4. CASE CleanupItem(c)
  BY <1>0, <1>4, SweepIsWorld
<1>5. CASE CleanupReturn(c)
  <2>1. CASE c \in Sessions
    BY <1>0, <1>5, <2>1 DEF CleanupReturn, Goto, WorldStep, Untouched, Quiet, TypeOK,
                            api, session
  <2>2. CASE c \notin Sessions
    <3>1. StopFrame(c) /\ UNCHANGED api
      BY <1>5, <2>2 DEF CleanupReturn, StopFrame, Messages
    <3>. QED
      BY <1>1, <3>1
  <2>. QED
    BY <2>1, <2>2
<1>6. CASE ApiError(c)
  <2>1. UNCHANGED api
    BY <1>6 DEF ApiError
  <2>2. CASE pc[c] \in {"start", "sweep"} /\ c \in Sessions
    <3>1. pc' = [pc EXCEPT ![c] = "get"] /\ UNCHANGED <<got, session>>
      BY <1>6, <2>2 DEF ApiError, Goto
    <3>. QED
      BY <1>0, <2>1, <3>1 DEF WorldStep, Untouched, Quiet, TypeOK, api, session
  <2>3. CASE pc[c] = "poll"
    <3>1. PollAgain(c)
      BY <1>6, <2>3 DEF ApiError
    <3>. QED
      BY <1>0, <2>1, <3>1, PollAside
  <2>4. CASE ~(pc[c] \in {"start", "sweep"} /\ c \in Sessions) /\ pc[c] # "poll"
    <3>1. Stop(c, Cluster, "exec stream") \/ Stop(c, Cluster, "api error")
      BY <1>6, <2>4 DEF ApiError
    <3>2. StopFrame(c)
      BY <3>1 DEF StopFrame, Messages
    <3>. QED
      BY <1>1, <2>1, <3>2
  <2>. QED
    BY <2>2, <2>3, <2>4
<1>7. CASE Interrupt(c)
  BY <1>7 DEF Interrupt, WorldStep, Untouched, Quiet, api, ensure, session
<1>8. CASE Kill(c)
  BY <1>0, <1>8 DEF Kill, Goto, WorldStep, Untouched, Quiet, TypeOK, api
<1>9. CASE WatchEnds(c)
  BY <1>0, <1>9 DEF WatchEnds, CloseTerminated, WorldStep, Untouched, Quiet, TypeOK,
                    api, ensure
<1>10. CASE Interrupted(c)
  <2>1. StopFrame(c) /\ UNCHANGED api
    BY <1>10 DEF Interrupted, StopFrame, Messages
  <2>. QED
    BY <1>1, <2>1
<1>. QED
  BY <1>2, <1>3, <1>4, <1>5, <1>6, <1>7, <1>8, <1>9, <1>10 DEF CleanupStep, FaultStep

-----------------------------------------------------------------------------
(* The steps of session d itself. *)

LEMMA StopOwn ==
  ASSUME TypeOK, NEW d \in Sessions, StopFrame(d)
  PROVE  SessionInv(d)'
<1>1. d \in Clients
  BY DEF Clients
<1>2. /\ pc'[d] = "done" /\ watcher'[d] # "on" /\ stream'[d] = 0
      /\ events'[d] = << >> /\ got'[d] = NoPod
  BY <1>1 DEF StopFrame, Stop, Goto, TypeOK
<1>. QED
  BY <1>2 DEF SessionInv, Discipline, Held, Attached, Awaited, Named

\* d is in a part of the command that holds no resourceVersion.
LEMMA UnanchoredOwn ==
  ASSUME TypeOK, NEW d \in Sessions, SessionInv(d), ~Anchored(d),
         pc'[d] \in {"start", "sweep", "get", "create", "delete", "poll", "done", "killed"},
         events'[d] = << >>, watcher'[d] # "on", stream'[d] = 0,
         got'[d] \in {got[d], NoPod}
  PROVE  SessionInv(d)'
BY DEF SessionInv, Discipline, Held, Attached, Awaited, Named, OfName

LEMMA RetryOwn ==
  ASSUME TypeOK, NEW d \in Sessions, SessionInv(d), ~Anchored(d), Retry(d),
         pc[d] \notin {"ready", "stream"}
  PROVE  SessionInv(d)'
<1>0. d \in Clients
  BY DEF Clients
<1>1. CASE attempt[d] < Attempts
  <2>1. /\ pc'[d] = "get" /\ got'[d] = got[d] /\ events'[d] = events[d]
        /\ watcher'[d] = watcher[d] /\ stream'[d] = stream[d]
    BY <1>0, <1>1 DEF Retry, Goto, TypeOK, session
  <2>2. events[d] = << >> /\ watcher[d] # "on" /\ stream[d] = 0
    BY DEF SessionInv, Discipline, Anchored
  <2>. QED
    BY <2>1, <2>2, UnanchoredOwn
<1>2. CASE ~(attempt[d] < Attempts)
  <2>1. StopFrame(d)
    BY <1>2 DEF Retry, StopFrame, Messages
  <2>. QED
    BY <2>1, StopOwn
<1>. QED
  BY <1>1, <1>2

LEMMA PollOwn ==
  ASSUME TypeOK, NEW d \in Sessions, SessionInv(d), pc[d] = "poll", PollAgain(d),
         UNCHANGED api
  PROVE  SessionInv(d)'
<1>1. CASE polls[d] + 1 < MaxPolls
  BY <1>1, QuietInv DEF PollAgain, Untouched, Quiet, api, session
<1>2. CASE ~(polls[d] + 1 < MaxPolls)
  <2>1. StopFrame(d)
    BY <1>2 DEF PollAgain, StopFrame, Messages
  <2>. QED
    BY <2>1, StopOwn
<1>. QED
  BY <1>1, <1>2

LEMMA EnsureOwn ==
  ASSUME HandleInv, NEW d \in Sessions, EnsureStep(d)
  PROVE  SessionInv(d)'
<1>. DEFINE n == NameOf(d)
            q == events[d]
<1>0. TypeOK /\ SessionInv(d) /\ d \in Clients /\ n \in Names
  BY NameOfType DEF HandleInv, TypeInv, Clients
<1>a. q \in Seq(Event) /\ pods[n] \in Pod \cup {NoPod}
  BY <1>0 DEF TypeOK
<1>1. CASE EnsureGet(d)
  <2>1. /\ pc[d] = "get" /\ watcher[d] # "on" /\ q = << >> /\ stream[d] = 0
        /\ got'[d] = pods[n] /\ pc'[d] = Branch(pods[n])
        /\ pods' = pods /\ events'[d] = << >>
        /\ watcher'[d] = watcher[d] /\ stream'[d] = 0
    BY <1>0, <1>1 DEF EnsureGet, At, Goto, TypeOK, api, session, SessionInv,
                      Discipline, Anchored
  <2>2. /\ Branch(pods[n]) \in {"create", "wait", "refresh", "delete"}
        /\ Branch(pods[n]) = "wait" => ~RunningPod(n)
        /\ Branch(pods[n]) = "refresh" => RunningPod(n)
    BY <1>a, NullsAssumption DEF Branch, Pod, Terminal, RunningPod
  <2>3. pods[n] # NoPod => OfName(pods[n], n)
    BY <1>0 DEF HandleInv, PodsNamed
  <2>4. Held(d)'
    BY <2>1, <2>2 DEF Held, Alive, RunningPod
  <2>5. Awaited(d)'
    BY <2>1, <2>2 DEF Awaited, RunningPod
  <2>6. Named(d)'
    BY <2>1, <2>3 DEF Named, OfName
  <2>7. Discipline(d)' /\ Attached(d)'
    BY <2>1, <2>2 DEF Discipline, Attached
  <2>. QED
    BY <2>4, <2>5, <2>6, <2>7 DEF SessionInv
<1>2. CASE EnsureCreate(d)
  <2>0. /\ pc[d] = "create" /\ watcher[d] # "on" /\ q = << >> /\ stream[d] = 0
        /\ ~Anchored(d)
    BY <1>0, <1>2 DEF EnsureCreate, At, SessionInv, Discipline, Anchored
  <2>1. CASE pods[n] # NoPod
    BY <1>0, <1>2, <2>0, <2>1, RetryOwn DEF EnsureCreate
  <2>2. CASE pods[n] = NoPod
    <3>1. /\ pc'[d] = "wait" /\ events'[d] = << >>
          /\ watcher'[d] = watcher[d] /\ stream'[d] = 0
          /\ got'[d].node = NodeOf[d]
      BY <1>0, <1>2, <2>0, <2>2 DEF EnsureCreate, Goto, Notify, TypeOK
    <3>2. pods'[n].phase = "Pending"
      BY <1>0, <1>2, <2>2 DEF EnsureCreate, TypeOK
    <3>3. Held(d)' /\ Attached(d)' /\ Discipline(d)'
      BY <2>0, <3>1 DEF Held, Attached, Discipline, Anchored
    <3>4. Awaited(d)'
      BY <3>1, <3>2 DEF Awaited, RunningPod
    <3>5. Named(d)'
      BY <3>1 DEF Named, OfName, NameOf
    <3>. QED
      BY <3>3, <3>4, <3>5 DEF SessionInv
  <2>. QED
    BY <2>1, <2>2
<1>3. CASE EnsureRefresh(d)
  <2>1. CASE pods[n] = NoPod
    <3>1. StopFrame(d)
      BY <1>3, <2>1 DEF EnsureRefresh, StopFrame, Messages
    <3>. QED
      BY <1>0, <3>1, StopOwn
  <2>2. CASE pods[n] # NoPod
    <3>. DEFINE p == [pods[n] EXCEPT !.ttl = Lease(d)]
                e == [type |-> "MODIFIED", pod |-> p]
    <3>1. /\ pc[d] = "refresh" /\ watcher[d] # "on" /\ stream[d] = 0
          /\ pc'[d] = "watch" /\ got'[d] = got[d]
          /\ watcher'[d] = watcher[d] /\ stream'[d] = 0
      BY <1>0, <1>3, <2>2 DEF EnsureRefresh, At, Goto, TypeOK, SessionInv, Discipline
    <3>2. /\ events'[d] = Append(q, e)
          /\ pods'[n] = p
      BY <1>0, <1>3, <2>2, <3>1 DEF EnsureRefresh, Notify, Anchored, TypeOK
    <3>3. p \in Pod /\ p.uid = pods[n].uid /\ p.node = pods[n].node /\ p.phase = pods[n].phase
      BY <1>0, <1>a, <2>2, LeaseType DEF Pod
    <3>4. e \in Event /\ e.pod = p /\ OfName(p, n)
      BY <1>0, <2>2, <3>3 DEF Event, OfName, HandleInv, PodsNamed
    <3>. HIDE DEF p, e
    <3>5. /\ Len(events'[d]) = Len(q) + 1 /\ Len(q) \in Nat
          /\ events'[d][Len(q) + 1] = e
          /\ \A i \in 1 .. Len(q) : events'[d][i] = q[i]
      BY <1>a, <3>2, <3>4
    <3>6. Held(d)'
      <4>1. Alive(d) => Alive(d)'
        BY <3>1, <3>2, <3>3, NullsAssumption DEF Alive, RunningPod
      <4>2. TerminationDue(d) => TerminationDue(d)'
        BY <3>5 DEF TerminationDue
      <4>. QED
        BY <1>0, <3>1, <4>1, <4>2 DEF SessionInv, Held
    <3>7. Named(d)'
      <4>1. got[d] # NoPod => OfName(got[d], n)
        BY <1>0 DEF SessionInv, Named
      <4>2. \A i \in 1 .. Len(q) : OfName(q[i].pod, n)
        BY <1>0 DEF SessionInv, Named
      <4>3. ASSUME NEW i \in 1 .. Len(events'[d]) PROVE OfName(events'[d][i].pod, n)
        <5>1. CASE i = Len(q) + 1
          BY <3>4, <3>5, <5>1
        <5>2. CASE i # Len(q) + 1
          BY <3>5, <4>2, <5>2
        <5>. QED
          BY <5>1, <5>2
      <4>. QED
        BY <3>1, <4>1, <4>3 DEF Named, OfName
    <3>8. Attached(d)' /\ Discipline(d)' /\ Awaited(d)'
      BY <3>1 DEF Attached, Discipline, Awaited, Anchored
    <3>. QED
      BY <3>6, <3>7, <3>8 DEF SessionInv
  <2>. QED
    BY <2>1, <2>2
<1>4. CASE EnsureDelete(d)
  <2>1. ~Anchored(d) /\ q = << >> /\ watcher[d] # "on" /\ stream[d] = 0
    BY <1>0, <1>4 DEF EnsureDelete, At, Anchored, SessionInv, Discipline
  <2>2. events'[d] = << >>
    BY <1>0, <1>4, <2>1 DEF EnsureDelete, DeleteByName, Notify
  <2>3. pc'[d] = "poll" /\ got'[d] = NoPod /\ watcher' = watcher /\ stream' = stream
    BY <1>0, <1>4 DEF EnsureDelete, Goto, TypeOK
  <2>. QED
    BY <1>0, <2>1, <2>2, <2>3, UnanchoredOwn
<1>5. CASE EnsurePoll(d)
  <2>1. pc[d] = "poll" /\ ~Anchored(d) /\ UNCHANGED api
    BY <1>0, <1>5 DEF EnsurePoll, At, Anchored, SessionInv, Discipline
  <2>2. Retry(d) \/ PollAgain(d)
    BY <1>5 DEF EnsurePoll
  <2>. QED
    BY <1>0, <2>1, <2>2, RetryOwn, PollOwn
<1>7. CASE WaitTimeout(d)
  <2>1. StopFrame(d)
    BY <1>7 DEF WaitTimeout, StopFrame, Messages
  <2>. QED
    BY <1>0, <2>1, StopOwn
<1>8. CASE StartWatcher(d)
  <2>1. /\ pc[d] = "watch" /\ pc'[d] = "ready" /\ watcher'[d] = "on"
        /\ stream'[d] = 0 /\ got' = got /\ events' = events /\ pods' = pods
    BY <1>0, <1>8 DEF StartWatcher, At, Goto, TypeOK, api, ensure, SessionInv, Discipline
  <2>2. Held(d)'
    BY <1>0, <2>1 DEF SessionInv, Held, Alive, RunningPod, TerminationDue
  <2>3. Attached(d)' /\ Discipline(d)' /\ Awaited(d)'
    BY <2>1 DEF Attached, Discipline, Awaited, Anchored
  <2>4. Named(d)'
    BY <1>0, <2>1 DEF SessionInv, Named, OfName
  <2>. QED
    BY <2>2, <2>3, <2>4 DEF SessionInv
<1>6. CASE WaitEvent(d)
  <2>0. StopFrame(d) => SessionInv(d)'
    BY <1>0, StopOwn
  <2>1. /\ pc[d] = "wait" /\ q # << >> /\ watcher[d] # "on" /\ stream[d] = 0
        /\ Awaited(d) /\ Named(d)
    BY <1>0, <1>6 DEF WaitEvent, At, SessionInv, Discipline
  <2>2. /\ Head(q) = q[1] /\ q[1] \in Event /\ Len(q) \in Nat \ {0}
        /\ Len(Tail(q)) = Len(q) - 1
        /\ \A i \in 1 .. Len(q) - 1 : Tail(q)[i] = q[i + 1]
    BY <1>a, <2>1
  <2>3. Head(q).pod.phase \in {"Running", "Pending"} \cup Terminal
    BY <2>2 DEF Event, Pod
  <2>4. CASE Head(q).pod.phase = "Running"
    <3>1. /\ got'[d] = q[1].pod /\ events'[d] = Tail(q) /\ pc'[d] = "watch"
          /\ watcher' = watcher /\ stream' = stream /\ pods' = pods
      <4>1. /\ got' = [got EXCEPT ![d] = Head(q).pod]
            /\ events' = [events EXCEPT ![d] = Tail(@)]
            /\ pc' = [pc EXCEPT ![d] = "watch"]
            /\ UNCHANGED <<watcher, stream, pods>>
        BY <1>6, <2>4 DEF WaitEvent, Goto, Terminal, api
      <4>. QED
        BY <1>0, <2>2, <4>1 DEF TypeOK
    <3>2. q[1].type # "DELETED"
      BY <2>1, <2>2, <2>4 DEF Awaited
    <3>3. \/ RunningAs(n, q[1].pod.uid)
          \/ \E j \in 1 .. Len(q) : j > 1 /\ Terminating(q[j])
      BY <2>1, <2>2, <2>4, <3>2 DEF Awaited
    <3>4. Held(d)'
      <4>1. CASE RunningAs(n, q[1].pod.uid)
        BY <3>1, <4>1 DEF Held, Alive, RunningAs, RunningPod
      <4>2. CASE \E j \in 1 .. Len(q) : j > 1 /\ Terminating(q[j])
        <5>1. PICK j \in 1 .. Len(q) : j > 1 /\ Terminating(q[j])
          BY <4>2
        <5>2. j - 1 \in 1 .. Len(q) - 1 /\ Tail(q)[j - 1] = q[j]
          BY <2>2, <5>1
        <5>. QED
          BY <2>2, <3>1, <5>1, <5>2 DEF Held, TerminationDue
      <4>. QED
        BY <3>3, <4>1, <4>2
    <3>5. Named(d)'
      BY <2>1, <2>2, <3>1 DEF Named, OfName
    <3>6. Attached(d)' /\ Discipline(d)' /\ Awaited(d)'
      BY <2>1, <3>1 DEF Attached, Discipline, Awaited, Anchored
    <3>. QED
      BY <3>4, <3>5, <3>6 DEF SessionInv
  <2>5. CASE Head(q).pod.phase \in Terminal
    <3>1. StopFrame(d)
      BY <1>6, <2>5 DEF WaitEvent, StopFrame, Terminal, Messages
    <3>. QED
      BY <2>0, <3>1
  <2>6. CASE Head(q).pod.phase = "Pending"
    <3>1. /\ got' = got /\ events'[d] = Tail(q) /\ pc' = pc
          /\ watcher' = watcher /\ stream' = stream /\ pods' = pods
      BY <1>0, <1>6, <2>2, <2>6 DEF WaitEvent, TypeOK, api, Terminal
    <3>2. ASSUME NEW i \in 1 .. Len(q) - 1, Tail(q)[i].pod.phase = "Running",
                 Tail(q)[i].type = "DELETED"
          PROVE  \E j \in 1 .. Len(q) - 1 : j < i /\ Tail(q)[j].pod.phase = "Running"
      <4>1. PICK j \in 1 .. Len(q) : j < i + 1 /\ q[j].pod.phase = "Running"
        BY <2>1, <2>2, <3>2 DEF Awaited
      <4>2. j # 1
        BY <2>2, <2>6, <4>1
      <4>3. j - 1 \in 1 .. Len(q) - 1 /\ j - 1 < i /\ Tail(q)[j - 1] = q[j]
        BY <2>2, <4>1, <4>2
      <4>. QED
        BY <4>1, <4>3
    <3>3. ASSUME NEW i \in 1 .. Len(q) - 1, Tail(q)[i].pod.phase = "Running",
                 Tail(q)[i].type # "DELETED"
          PROVE  \/ RunningAs(n, Tail(q)[i].pod.uid)
                 \/ \E j \in 1 .. Len(q) - 1 : j > i /\ Terminating(Tail(q)[j])
      <4>1. \/ RunningAs(n, q[i + 1].pod.uid)
            \/ \E j \in 1 .. Len(q) : j > i + 1 /\ Terminating(q[j])
        BY <2>1, <2>2, <3>3 DEF Awaited
      <4>2. ASSUME NEW j \in 1 .. Len(q), j > i + 1, Terminating(q[j])
            PROVE  \E k \in 1 .. Len(q) - 1 : k > i /\ Terminating(Tail(q)[k])
        <5>1. j - 1 \in 1 .. Len(q) - 1 /\ j - 1 > i /\ Tail(q)[j - 1] = q[j]
          BY <2>2, <4>2
        <5>. QED
          BY <4>2, <5>1
      <4>. QED
        BY <2>2, <4>1, <4>2
    <3>4. RunningPod(n) => \E i \in 1 .. Len(q) - 1 : Tail(q)[i].pod.phase = "Running"
      <4>. SUFFICES ASSUME RunningPod(n)
                    PROVE  \E i \in 1 .. Len(q) - 1 : Tail(q)[i].pod.phase = "Running"
        OBVIOUS
      <4>1. PICK i \in 1 .. Len(q) : q[i].pod.phase = "Running"
        BY <2>1 DEF Awaited
      <4>2. i # 1
        BY <2>2, <2>6, <4>1
      <4>3. i - 1 \in 1 .. Len(q) - 1 /\ Tail(q)[i - 1] = q[i]
        BY <2>2, <4>1, <4>2
      <4>. QED
        BY <4>1, <4>3
    <3>5. Awaited(d)'
      BY <2>2, <3>1, <3>2, <3>3, <3>4 DEF Awaited, RunningAs, RunningPod
    <3>6. Named(d)'
      BY <2>1, <2>2, <3>1 DEF Named, OfName
    <3>7. Held(d)' /\ Attached(d)' /\ Discipline(d)'
      BY <2>1, <3>1 DEF Held, Attached, Discipline, Anchored
    <3>. QED
      BY <3>5, <3>6, <3>7 DEF SessionInv
  <2>. QED
    BY <2>3, <2>4, <2>5, <2>6
<1>. QED
  BY <1>1, <1>2, <1>3, <1>4, <1>5, <1>6, <1>7, <1>8 DEF EnsureStep

LEMMA CloseOwn ==
  ASSUME HandleInv, NEW d \in Sessions, watcher[d] = "on", CloseTerminated(d),
         pc' = pc, got' = got, stream' = stream
  PROVE  SessionInv(d)'
<1>1. TypeOK /\ SessionInv(d) /\ d \in Clients
  BY DEF HandleInv, TypeInv, Clients
<1>2. /\ pc[d] \in {"ready", "stream"} /\ watcher'[d] = "closed" /\ events'[d] = << >>
  BY <1>1 DEF CloseTerminated, TypeOK, SessionInv, Discipline
<1>. QED
  BY <1>1, <1>2 DEF SessionInv, Discipline, Held, Attached, Awaited, Named, OfName

LEMMA HandleOwn ==
  ASSUME HandleInv, NEW d \in Sessions, WatcherStep(d) \/ StreamStep(d)
  PROVE  SessionInv(d)'
<1>. DEFINE n == NameOf(d)
            q == events[d]
<1>0. TypeOK /\ SessionInv(d) /\ d \in Clients /\ q \in Seq(Event)
  BY DEF HandleInv, TypeInv, Clients, TypeOK
<1>1. CASE WatcherEvent(d)
  <2>1. /\ watcher[d] = "on" /\ q # << >> /\ pc' = pc /\ got' = got /\ stream' = stream
        /\ pods' = pods
    BY <1>1 DEF WatcherEvent, ensure, api
  <2>2. CASE Terminating(Head(q))
    BY <1>1, <2>1, <2>2, CloseOwn DEF WatcherEvent
  <2>3. CASE ~Terminating(Head(q))
    <3>1. watcher' = watcher /\ events'[d] = Tail(q)
      BY <1>0, <1>1, <2>3 DEF WatcherEvent, TypeOK
    <3>2. /\ Head(q) = q[1] /\ Len(q) \in Nat \ {0}
          /\ Len(Tail(q)) = Len(q) - 1
          /\ \A i \in 1 .. Len(q) - 1 : Tail(q)[i] = q[i + 1]
      BY <1>0, <2>1
    <3>3. TerminationDue(d) => TerminationDue(d)'
      <4>1. SUFFICES ASSUME NEW j \in 1 .. Len(q), Terminating(q[j])
                     PROVE  \E k \in 1 .. Len(q) - 1 : Terminating(Tail(q)[k])
        BY <3>1, <3>2 DEF TerminationDue
      <4>2. j - 1 \in 1 .. Len(q) - 1 /\ Tail(q)[j - 1] = q[j]
        BY <2>3, <3>2, <4>1
      <4>. QED
        BY <4>1, <4>2
    <3>4. Held(d)' /\ Attached(d)'
      BY <1>0, <2>1, <3>1, <3>3 DEF SessionInv, Held, Attached, Alive, RunningPod
    <3>5. Discipline(d)' /\ Awaited(d)'
      BY <1>0, <2>1, <3>1 DEF SessionInv, Discipline, Awaited, Anchored
    <3>6. Named(d)'
      BY <1>0, <2>1, <3>1, <3>2 DEF SessionInv, Named, OfName
    <3>. QED
      BY <3>4, <3>5, <3>6 DEF SessionInv
  <2>. QED
    BY <2>2, <2>3
<1>2. CASE WatcherInterrupted(d)
  BY <1>2, CloseOwn DEF WatcherInterrupted, ensure
<1>3. CASE StreamStep(d)
  <2>1. CASE StopFrame(d)
    BY <1>0, <2>1, StopOwn
  <2>2. CASE ~StopFrame(d)
    <3>1. /\ UNCHANGED <<got, events, watcher, pods>> /\ pc[d] \in {"ready", "stream"}
          /\ \/ /\ pc' = [pc EXCEPT ![d] = "stream"] /\ RunningPod(n)
                /\ stream' = [stream EXCEPT ![d] = pods[n].uid]
             \/ /\ pc' = [pc EXCEPT ![d] = "ready"]
                /\ stream' = [stream EXCEPT ![d] = 0]
      BY <1>3, <2>2 DEF StreamStep, OpenStream, StreamEnd, StreamLost, StopFrame,
                        At, Goto, Messages, api
    <3>2. /\ pc'[d] \in {"ready", "stream"} /\ (pc'[d] = "ready" => stream'[d] = 0)
          /\ stream'[d] # 0 => stream'[d] = pods[n].uid /\ RunningPod(n)
      BY <1>0, <3>1 DEF TypeOK
    <3>3. watcher[d] \in {"on", "closed"}
      BY <1>0, <3>1 DEF SessionInv, Discipline
    <3>4. Held(d)'
      BY <1>0, <3>1, <3>2 DEF SessionInv, Held, Alive, RunningPod, TerminationDue
    <3>5. Attached(d)'
      BY <1>0, <3>1, <3>2, <3>3 DEF SessionInv, Held, Attached, Alive, TerminationDue
    <3>6. Discipline(d)' /\ Awaited(d)' /\ Named(d)'
      BY <1>0, <3>1, <3>2, <3>3 DEF SessionInv, Discipline, Awaited, Named, Anchored, OfName
    <3>. QED
      BY <3>4, <3>5, <3>6 DEF SessionInv
  <2>. QED
    BY <2>1, <2>2
<1>. QED
  BY <1>1, <1>2, <1>3 DEF WatcherStep

LEMMA CommandOwn ==
  ASSUME HandleInv, NEW d \in Sessions, CleanupStep(d) \/ FaultStep(d) \/ Interrupted(d)
  PROVE  SessionInv(d)'
<1>0. TypeOK /\ SessionInv(d) /\ d \in Clients
  BY DEF HandleInv, TypeInv, Clients
<1>1. CASE StopFrame(d)
  BY <1>0, <1>1, StopOwn
<1>2. CASE CleanupDecline(d)
  BY <1>2, ClientsAssumption DEF CleanupDecline
<1>a. ASSUME pc[d] \in {"start", "sweep"}, pc'[d] \in {"sweep", "get"},
             UNCHANGED <<got, session>>
      PROVE  SessionInv(d)'
  <2>1. ~Anchored(d) /\ events[d] = << >> /\ watcher[d] # "on" /\ stream[d] = 0
    BY <1>0, <1>a DEF SessionInv, Discipline, Anchored
  <2>. QED
    BY <1>0, <1>a, <2>1, UnanchoredOwn DEF session
<1>3. CASE CleanupList(d)
  BY <1>0, <1>3, <1>a DEF CleanupList, At, Goto, TypeOK, ensure
<1>4. CASE CleanupItem(d)
  BY <1>0, <1>4, SweepIsWorld, WorldInv
<1>5. CASE CleanupReturn(d)
  BY <1>0, <1>5, <1>a DEF CleanupReturn, At, Goto, TypeOK
<1>6. CASE ApiError(d)
  <2>1. UNCHANGED api
    BY <1>6 DEF ApiError
  <2>2. CASE pc[d] \in {"start", "sweep"}
    <3>1. pc' = [pc EXCEPT ![d] = "get"] /\ UNCHANGED <<got, session>>
      BY <1>6, <2>2 DEF ApiError, Goto
    <3>. QED
      BY <1>0, <1>a, <2>2, <3>1 DEF TypeOK
  <2>3. CASE pc[d] = "poll"
    <3>1. PollAgain(d)
      BY <1>6, <2>3 DEF ApiError
    <3>. QED
      BY <1>0, <2>1, <2>3, <3>1, PollOwn
  <2>4. CASE pc[d] \notin {"start", "sweep", "poll"}
    <3>1. Stop(d, Cluster, "exec stream") \/ Stop(d, Cluster, "api error")
      BY <1>6, <2>4 DEF ApiError
    <3>2. StopFrame(d)
      BY <3>1 DEF StopFrame, Messages
    <3>. QED
      BY <1>1, <3>2
  <2>. QED
    BY <2>2, <2>3, <2>4
<1>7. CASE Interrupt(d)
  BY <1>0, <1>7, QuietInv DEF Interrupt, Untouched, Quiet, api, ensure, session
<1>8. CASE Kill(d)
  <2>1. /\ pc'[d] = "killed" /\ watcher'[d] = "off" /\ stream'[d] = 0
        /\ events'[d] = << >> /\ got'[d] = NoPod
    BY <1>0, <1>8 DEF Kill, Goto, TypeOK
  <2>. QED
    BY <2>1 DEF SessionInv, Discipline, Held, Attached, Awaited, Named
<1>9. CASE WatchEnds(d)
  BY <1>9, CloseOwn DEF WatchEnds, ensure
<1>10. CASE Interrupted(d)
  <2>1. StopFrame(d)
    BY <1>10 DEF Interrupted, StopFrame, Messages
  <2>. QED
    BY <1>1, <2>1
<1>. QED
  BY <1>2, <1>3, <1>4, <1>5, <1>6, <1>7, <1>8, <1>9, <1>10 DEF CleanupStep, FaultStep

-----------------------------------------------------------------------------
(* The invariant of the whole system. *)

\* The pods of a step: at most one name changes, and keeps its node.
Rewrites == \E n \in Names : \E new :
  pods' = [pods EXCEPT ![n] = new] /\ (new # NoPod => OfName(new, n))

LEMMA RewritesNamed ==
  ASSUME TypeOK, PodsNamed, UNCHANGED pods \/ Rewrites
  PROVE  PodsNamed'
BY DEF TypeOK, PodsNamed, Rewrites, OfName

LEMMA DeleteRewrites ==
  ASSUME NEW n \in Names, DeleteByName(n)
  PROVE  Rewrites
BY DEF DeleteByName, Rewrites

LEMMA StepRewrites ==
  ASSUME TypeOK, PodsNamed, Next
  PROVE  UNCHANGED pods \/ Rewrites
<1>1. ASSUME NEW c \in Clients, CleanupStep(c) PROVE UNCHANGED pods \/ Rewrites
  <2>1. CASE CleanupItem(c)
    <3>1. PICK i \in todo[c] : UNCHANGED <<api, events, deleted>> \/ DeleteByName(i.name)
      BY <2>1 DEF CleanupItem
    <3>2. i.name \in Names
      BY DEF TypeOK, Item
    <3>. QED
      BY <3>1, <3>2, DeleteRewrites DEF api
  <2>. QED
    BY <1>1, <2>1 DEF CleanupStep, CleanupDecline, CleanupList, CleanupReturn, api
<1>2. ASSUME NEW c \in Clients, Interrupted(c) \/ FaultStep(c)
      PROVE  UNCHANGED pods
  BY <1>2 DEF FaultStep, Interrupted, ApiError, Interrupt, Kill, WatchEnds, api
<1>3. ASSUME NEW c \in Sessions, EnsureStep(c) PROVE UNCHANGED pods \/ Rewrites
  <2>. DEFINE n == NameOf(c)
  <2>0. n \in Names
    BY NameOfType
  <2>1. CASE EnsureCreate(c)
    <3>1. CASE pods[n] # NoPod
      BY <2>1, <3>1 DEF EnsureCreate, api
    <3>2. CASE pods[n] = NoPod
      <4>. DEFINE p == [uid |-> lastUid[n] + 1, node |-> NodeOf[c],
                        phase |-> "Pending", ttl |-> Lease(c)]
      <4>1. pods' = [pods EXCEPT ![n] = p]
        BY <2>1, <3>2 DEF EnsureCreate
      <4>2. OfName(p, n)
        BY DEF OfName, NameOf
      <4>. QED
        BY <2>0, <4>1, <4>2 DEF Rewrites
    <3>. QED
      BY <3>1, <3>2
  <2>2. CASE EnsureRefresh(c)
    <3>1. CASE pods[n] = NoPod
      BY <2>2, <3>1 DEF EnsureRefresh, api
    <3>2. CASE pods[n] # NoPod
      <4>. DEFINE p == [pods[n] EXCEPT !.ttl = Lease(c)]
      <4>1. pods' = [pods EXCEPT ![n] = p]
        BY <2>2, <3>2 DEF EnsureRefresh
      <4>2. pods[n] \in Pod
        BY <2>0, <3>2 DEF TypeOK
      <4>3. p.node = pods[n].node
        BY <4>2 DEF Pod
      <4>4. OfName(p, n)
        BY <2>0, <3>2, <4>3 DEF OfName, PodsNamed
      <4>. HIDE DEF p
      <4>. QED
        BY <2>0, <4>1, <4>4 DEF Rewrites
    <3>. QED
      BY <3>1, <3>2
  <2>3. CASE EnsureDelete(c)
    BY <2>0, <2>3, DeleteRewrites DEF EnsureDelete
  <2>. QED
    BY <1>3, <2>1, <2>2, <2>3 DEF EnsureStep, EnsureGet, EnsurePoll, WaitEvent,
                                  WaitTimeout, StartWatcher, api
<1>4. ASSUME NEW c \in Sessions, WatcherStep(c) \/ StreamStep(c) PROVE UNCHANGED pods
  BY <1>4 DEF WatcherStep, WatcherEvent, WatcherInterrupted, StreamStep, OpenStream,
              StreamEnd, StreamLost, api
<1>5. ASSUME NEW n \in Names, Kubelet(n) PROVE Rewrites
  <2>1. PICK phase \in {"Running"} \cup Terminal :
          pods' = [pods EXCEPT ![n] = [pods[n] EXCEPT !.phase = phase]]
    BY <1>5 DEF Kubelet
  <2>. DEFINE p == [pods[n] EXCEPT !.phase = phase]
  <2>2. pods[n] # NoPod /\ pods[n] \in Pod
    BY <1>5 DEF Kubelet, TypeOK
  <2>3. p.node = pods[n].node /\ pods' = [pods EXCEPT ![n] = p]
    BY <2>1, <2>2 DEF Pod
  <2>. HIDE DEF p
  <2>4. OfName(p, n)
    BY <2>2, <2>3 DEF OfName, PodsNamed
  <2>. QED
    BY <2>3, <2>4 DEF Rewrites
<1>6. ASSUME NEW n \in Names, ForeignDelete(n) PROVE Rewrites
  BY <1>6, DeleteRewrites DEF ForeignDelete
<1>7. CASE Tick \/ AllStopped
  BY <1>7 DEF Tick, AllStopped, vars, api
<1>. QED
  BY <1>1, <1>2, <1>3, <1>4, <1>5, <1>6, <1>7 DEF Next

LEMMA HandleInvInit == Init => HandleInv
<1>. SUFFICES ASSUME Init PROVE HandleInv
  OBVIOUS
<1>1. TypeInv
  BY InitTypeInv
<1>2. PodsNamed
  BY DEF Init, PodsNamed, Leftover, OfName
<1>3. ASSUME NEW d \in Sessions PROVE SessionInv(d)
  <2>1. /\ pc[d] = "start" /\ watcher[d] = "off" /\ stream[d] = 0
        /\ events[d] = << >> /\ got[d] = NoPod
    BY DEF Init, Clients
  <2>. QED
    BY <2>1 DEF SessionInv, Discipline, Held, Attached, Awaited, Named
<1>. QED
  BY <1>1, <1>2, <1>3 DEF HandleInv

LEMMA HandleInvStep ==
  ASSUME HandleInv, [Next]_vars
  PROVE  HandleInv'
<1>0. TypeInv /\ TypeOK /\ PodsNamed
  BY DEF HandleInv, TypeInv
<1>1. CASE UNCHANGED vars
  <2>1. \A d \in Sessions : Untouched(d) /\ Quiet(d)
    BY <1>1 DEF Untouched, Quiet, vars, api, ensure, session
  <2>2. \A d \in Sessions : SessionInv(d)'
    BY <2>1, QuietInv DEF HandleInv
  <2>3. TypeInv' /\ PodsNamed'
    BY <1>0, <1>1 DEF vars, api, sweep, ensure, session, TypeInv, TypeOK, PollBound,
                      PodsNamed, OfName
  <2>. QED
    BY <2>2, <2>3 DEF HandleInv
<1>2. CASE Next
  <2>1. TypeInv'
    BY <1>0, <1>2, TypeInvStep
  <2>2. PodsNamed'
    BY <1>0, <1>2, StepRewrites, RewritesNamed
  <2>3. ASSUME NEW d \in Sessions PROVE SessionInv(d)'
    <3>1. ASSUME NEW c \in Clients, CleanupStep(c) \/ Interrupted(c) \/ FaultStep(c)
          PROVE  SessionInv(d)'
      BY <3>1, CommandAside, CommandOwn, WorldInv
    <3>2. ASSUME NEW c \in Sessions, EnsureStep(c) PROVE SessionInv(d)'
      BY <3>2, EnsureAside, EnsureOwn, WorldInv
    <3>3. ASSUME NEW c \in Sessions, WatcherStep(c) \/ StreamStep(c) PROVE SessionInv(d)'
      BY <3>3, HandleAside, HandleOwn, WorldInv
    <3>4. ASSUME NEW n \in Names, Kubelet(n) PROVE SessionInv(d)'
      <4>1. Untouched(d)
        BY <3>4 DEF Kubelet, Untouched, ensure
      <4>. QED
        BY <3>4, <4>1, KubeletTells, WorldInv DEF WorldStep
    <3>5. ASSUME NEW n \in Names, ForeignDelete(n) PROVE SessionInv(d)'
      <4>1. Untouched(d)
        BY <3>5 DEF ForeignDelete, Untouched, ensure
      <4>2. Quiet(d) \/ Told(d)
        BY <1>0, <3>5, DeleteTells DEF ForeignDelete
      <4>. QED
        BY <4>1, <4>2, WorldInv DEF WorldStep
    <3>6. CASE Tick \/ AllStopped
      <4>1. Untouched(d) /\ Quiet(d)
        BY <3>6 DEF Tick, AllStopped, Untouched, Quiet, vars, api, ensure, session
      <4>. QED
        BY <4>1, WorldInv DEF WorldStep
    <3>. QED
      BY <1>2, <3>1, <3>2, <3>3, <3>4, <3>5, <3>6 DEF Next
  <2>. QED
    BY <2>1, <2>2, <2>3 DEF HandleInv
<1>. QED
  BY <1>1, <1>2

LEMMA HandleInvariant == Spec => []HandleInv
BY HandleInvInit, HandleInvStep, PTL DEF Spec

-----------------------------------------------------------------------------

\* lifecycle.go:220-266: the end of the incarnation a handle was built on is
\* never lost, whatever the other sessions, cleanups, the kubelet, faults and
\* deletions by others do between the read of the pod and the watch.
THEOREM TerminationNeverLost == Spec => []NoLostTermination
<1>1. HandleInv => NoLostTermination
  BY DEF HandleInv, SessionInv, Held, NoLostTermination
<1>. QED
  BY <1>1, HandleInvariant, PTL

\* exec.go:42-46 addresses the pod by name: a stream into an incarnation other
\* than that of the handle is one that Terminated has denounced, or will.
THEOREM StreamsAreDenounced == Spec => []StreamOnHandlePod
<1>1. HandleInv => StreamOnHandlePod
  BY DEF HandleInv, SessionInv, Attached, StreamOnHandlePod
<1>. QED
  BY <1>1, HandleInvariant, PTL

\* manifest.go:36-45: the pod a session holds is placed on a node whose name has
\* the hash of the node it was asked for.  Nothing is assumed of the hash: that the
\* node is another one takes a collision, and the code does not look.
THEOREM HandlesStayOnNode == Spec => []HandleOnNode
<1>1. HandleInv => HandleOnNode
  BY DEF HandleInv, SessionInv, Named, OfName, HandleOnNode
<1>. QED
  BY <1>1, HandleInvariant, PTL
=============================================================================
