--------------------------- MODULE DebugPodProofs ---------------------------
(***************************************************************************)
(* Proofs about DebugPod, for any number of sessions, cleanup commands,    *)
(* nodes and names and for every bound.                                    *)
(***************************************************************************)
EXTENDS DebugPod, TLAPS

USE DEF Codes

-----------------------------------------------------------------------------
(* Types.  A poll that reaches MaxPolls leaves the loop, so TypeOK needs   *)
(* PollBound to be inductive.                                              *)

PollBound == \A c \in Clients : pc[c] = "poll" => polls[c] < MaxPolls

TypeInv == TypeOK /\ PollBound

LEMMA NameOfType ==
  ASSUME NEW c \in Sessions
  PROVE  NameOf(c) \in Names
BY NamesAssumption, NodeOfAssumption DEF NameOf

LEMMA NotifyType ==
  ASSUME TypeOK, NEW n \in Names, NEW t \in {"ADDED", "MODIFIED", "DELETED"},
         NEW p \in Pod
  PROVE  Notify(n, t, p) \in [Clients -> Seq(Event)]
<1>1. [type |-> t, pod |-> p] \in Event
  BY DEF Event
<1>2. SUFFICES ASSUME NEW d \in Clients
               PROVE  /\ events[d] \in Seq(Event)
                      /\ Append(events[d], [type |-> t, pod |-> p]) \in Seq(Event)
  BY DEF Notify
<1>. QED
  BY <1>1 DEF TypeOK

LEMMA DeleteType ==
  ASSUME TypeOK, NEW n \in Names, DeleteByName(n)
  PROVE  /\ pods' \in [Names -> Pod \cup {NoPod}]
         /\ events' \in [Clients -> Seq(Event)]
         /\ now' = now /\ lastUid' = lastUid
<1>1. CASE pods[n] = NoPod
  BY <1>1 DEF TypeOK, DeleteByName
<1>2. CASE pods[n] # NoPod
  <2>1. pods[n] \in Pod
    BY <1>2 DEF TypeOK
  <2>2. Notify(n, "DELETED", pods[n]) \in [Clients -> Seq(Event)]
    BY <2>1, NotifyType
  <2>. QED
    BY <1>2, <2>2 DEF TypeOK, DeleteByName
<1>. QED
  BY <1>1, <1>2

\* What Stop leaves behind has the types of what it writes.
StopTyped ==
  /\ pc' \in [Clients -> Labels]
  /\ result' \in [Clients -> [code: Codes,
                              msg: Messages]]
  /\ got' \in [Clients -> Pod \cup {NoPod}]
  /\ events' \in [Clients -> Seq(Event)]
  /\ watcher' \in [Clients -> {"off", "on", "closed"}]
  /\ stream' \in [Clients -> Nat]

LEMMA StopType ==
  ASSUME TypeOK, NEW c \in Clients,
         NEW code \in Codes,
         NEW msg \in Messages, Stop(c, code, msg)
  PROVE  StopTyped /\ pc' = [pc EXCEPT ![c] = "done"]
BY DEF TypeOK, Stop, StopTyped, Goto, Labels

LEMMA RetryType ==
  ASSUME TypeOK, NEW c \in Clients, Retry(c)
  PROVE  /\ StopTyped
         /\ attempt' \in [Clients -> 1 .. Attempts]
         /\ \/ pc' = [pc EXCEPT ![c] = "done"]
            \/ pc' = [pc EXCEPT ![c] = "get"]
<1>1. CASE attempt[c] < Attempts
  <2>1. /\ attempt' = [attempt EXCEPT ![c] = @ + 1]
        /\ pc' = [pc EXCEPT ![c] = "get"]
        /\ UNCHANGED <<got, result, events, watcher, stream>>
    BY <1>1 DEF Retry, Goto, session
  <2>2. attempt' \in [Clients -> 1 .. Attempts]
    <3>1. attempt \in [Clients -> 1 .. 3]
      BY DEF TypeOK, Attempts
    <3>2. attempt[c] + 1 \in 1 .. 3
      BY <1>1, <3>1 DEF Attempts
    <3>. QED
      BY <2>1, <3>1, <3>2 DEF Attempts
  <2>3. StopTyped
    BY <2>1 DEF TypeOK, StopTyped, Labels
  <2>. QED
    BY <2>1, <2>2, <2>3
<1>2. CASE ~(attempt[c] < Attempts)
  <2>1. Stop(c, Internal, "too many race retries") /\ attempt' = attempt
    BY <1>2 DEF Retry
  <2>. QED
    BY <2>1, StopType DEF Messages, TypeOK
<1>. QED
  BY <1>1, <1>2

\* A step that only stops a client, or only moves it, keeps the types.
StopFrame(c) ==
  \E code \in Codes, msg \in Messages :
    Stop(c, code, msg)

LEMMA StopTypeInv ==
  ASSUME TypeInv, NEW c \in Clients, StopFrame(c), faults' \in Nat,
         UNCHANGED <<api, interrupted, sweep, attempt, polls, stamp>>
  PROVE  TypeInv'
<1>1. StopTyped /\ pc' = [pc EXCEPT ![c] = "done"]
  BY StopType DEF TypeInv, StopFrame
<1>2. TypeOK'
  BY <1>1 DEF TypeInv, TypeOK, StopTyped, api, sweep
<1>3. PollBound'
  BY <1>1 DEF TypeInv, TypeOK, PollBound
<1>. QED
  BY <1>2, <1>3 DEF TypeInv

LEMMA PollType ==
  ASSUME TypeInv, NEW c \in Clients, pc[c] = "poll", PollAgain(c), faults' \in Nat,
         UNCHANGED <<api, interrupted, sweep, stamp>>
  PROVE  TypeInv'
<1>. USE DEF TypeInv
<1>1. polls' = [polls EXCEPT ![c] = @ + 1] /\ attempt' = attempt
  BY DEF PollAgain
<1>2. polls[c] \in 0 .. MaxPolls /\ polls[c] < MaxPolls
  BY DEF TypeOK, PollBound
<1>3. polls' \in [Clients -> 0 .. MaxPolls]
  <2>1. polls[c] + 1 \in 0 .. MaxPolls
    BY <1>2, BoundsAssumption
  <2>. QED
    BY <1>1, <2>1 DEF TypeOK
<1>4. CASE polls[c] + 1 < MaxPolls
  <2>1. UNCHANGED <<pc, result, got, session>>
    BY <1>4 DEF PollAgain
  <2>2. TypeOK'
    BY <1>1, <1>3, <2>1 DEF TypeOK, api, sweep, session
  <2>3. PollBound'
    BY <1>1, <1>4, <2>1 DEF TypeOK, PollBound
  <2>. QED
    BY <2>2, <2>3
<1>5. CASE ~(polls[c] + 1 < MaxPolls)
  <2>1. Stop(c, Cluster, "timeout waiting gone")
    BY <1>5 DEF PollAgain
  <2>2. StopTyped /\ pc' = [pc EXCEPT ![c] = "done"]
    BY <2>1, StopType DEF Messages
  <2>3. TypeOK'
    BY <1>1, <1>3, <2>2 DEF TypeOK, StopTyped, api, sweep
  <2>4. PollBound'
    BY <1>1, <2>2 DEF TypeOK, PollBound
  <2>. QED
    BY <2>3, <2>4
<1>. QED
  BY <1>4, <1>5

LEMMA CleanupTypeInv ==
  ASSUME TypeInv, NEW c \in Clients, CleanupStep(c)
  PROVE  TypeInv'
<1>. USE DEF TypeInv
<1>1. CASE CleanupDecline(c)
  BY <1>1, StopTypeInv DEF CleanupDecline, StopFrame, TypeOK, Messages
<1>2. CASE CleanupList(c)
  <2>1. todo' \in [Clients -> SUBSET Item]
    BY <1>2 DEF CleanupList, TypeOK, Item
  <2>2. TypeOK'
    BY <1>2, <2>1 DEF CleanupList, TypeOK, api, ensure, session, Goto, Labels
  <2>3. PollBound'
    BY <1>2 DEF CleanupList, TypeOK, PollBound, ensure, Goto
  <2>. QED
    BY <2>2, <2>3
<1>3. CASE CleanupItem(c)
  <2>1. PICK i \in todo[c] :
          /\ todo' = [todo EXCEPT ![c] = @ \ {i}]
          /\ IF filter[c].ttlOnly /\ ~ShouldGC(i.pod)
               THEN UNCHANGED <<api, events, deleted>>
               ELSE /\ DeleteByName(i.name)
                    /\ deleted' = IF c \in Cleaners
                                    THEN [deleted EXCEPT ![c] = @ \cup {i}]
                                    ELSE deleted
    BY <1>3 DEF CleanupItem
  <2>2. i \in Item /\ i.name \in Names
    BY <2>1 DEF TypeOK, Item
  <2>3. /\ pods' \in [Names -> Pod \cup {NoPod}]
        /\ events' \in [Clients -> Seq(Event)]
        /\ now' = now /\ lastUid' = lastUid
    BY <2>1, <2>2, DeleteType DEF TypeOK, api
  <2>4. todo' \in [Clients -> SUBSET Item] /\ deleted' \in [Clients -> SUBSET Item]
    <3>1. todo[c] \ {i} \in SUBSET Item /\ deleted[c] \cup {i} \in SUBSET Item
      BY <2>2 DEF TypeOK
    <3>2. todo' \in [Clients -> SUBSET Item]
      BY <2>1, <3>1 DEF TypeOK
    <3>3. deleted' = deleted \/ deleted' = [deleted EXCEPT ![c] = @ \cup {i}]
      BY <2>1
    <3>4. deleted' \in [Clients -> SUBSET Item]
      BY <3>1, <3>3 DEF TypeOK
    <3>. QED
      BY <3>2, <3>4
  <2>5. TypeOK'
    BY <1>3, <2>3, <2>4 DEF CleanupItem, TypeOK, ensure
  <2>6. PollBound'
    BY <1>3 DEF CleanupItem, PollBound, ensure
  <2>. QED
    BY <2>5, <2>6
<1>4. CASE CleanupReturn(c)
  <2>1. CASE c \in Sessions
    <3>1. TypeOK'
      BY <1>4, <2>1 DEF CleanupReturn, TypeOK, api, sweep, session, Goto, Labels
    <3>2. PollBound'
      BY <1>4, <2>1 DEF CleanupReturn, TypeOK, PollBound, Goto
    <3>. QED
      BY <3>1, <3>2
  <2>2. CASE c \notin Sessions
    BY <1>4, <2>2, StopTypeInv DEF CleanupReturn, StopFrame, TypeOK, Messages
  <2>. QED
    BY <2>1, <2>2
<1>. QED
  BY <1>1, <1>2, <1>3, <1>4 DEF CleanupStep

LEMMA BranchType ==
  ASSUME NEW p \in Pod \cup {NoPod}
  PROVE  Branch(p) \in Labels \ {"poll"}
BY NullsAssumption DEF Branch, Labels, Pod, Terminal

\* In an action that rests on one client's step of Ensure, the pods it
\* writes are well formed.
LEMMA LeaseType ==
  ASSUME TypeOK, NEW c \in Sessions
  PROVE  Lease(c) \in Nat
BY BoundsAssumption DEF Lease, TypeOK, Clients

LEMMA EnsureTypeInv ==
  ASSUME TypeInv, NEW c \in Sessions, EnsureStep(c)
  PROVE  TypeInv'
<1>. USE DEF TypeInv
<1>0. c \in Clients /\ NameOf(c) \in Names
  BY NameOfType DEF Clients
<1>1. CASE EnsureGet(c)
  <2>1. pods[NameOf(c)] \in Pod \cup {NoPod}
    BY <1>0 DEF TypeOK
  <2>2. Branch(pods[NameOf(c)]) \in Labels \ {"poll"}
    BY <2>1, BranchType
  <2>3. TypeOK'
    BY <1>0, <1>1, <2>1, <2>2 DEF EnsureGet, TypeOK, api, sweep, session, Goto
  <2>4. PollBound'
    BY <1>0, <1>1, <2>2 DEF EnsureGet, TypeOK, PollBound, Goto
  <2>. QED
    BY <2>3, <2>4
<1>2. CASE EnsureCreate(c)
  <2>. DEFINE n == NameOf(c)
              p == [uid |-> lastUid[n] + 1, node |-> NodeOf[c],
                    phase |-> "Pending", ttl |-> Lease(c)]
  <2>1. CASE pods[n] # NoPod
    <3>1. Retry(c) /\ UNCHANGED <<api, faults, interrupted, sweep, polls, stamp>>
      BY <1>2, <2>1 DEF EnsureCreate
    <3>2. TypeOK'
      BY <1>0, <3>1, RetryType DEF TypeOK, StopTyped, api, sweep
    <3>3. PollBound'
      BY <1>0, <3>1, RetryType DEF TypeOK, PollBound
    <3>. QED
      BY <3>2, <3>3
  <2>2. CASE pods[n] = NoPod
    <3>0. lastUid[n] + 1 \in Nat /\ NodeOf[c] \in Nodes /\ Lease(c) \in Nat
      BY <1>0, LeaseType, NodeOfAssumption DEF TypeOK
    <3>1. p \in Pod
      BY <3>0 DEF Pod
    <3>2. Notify(n, "ADDED", p) \in [Clients -> Seq(Event)]
      BY <1>0, <3>1, NotifyType
    <3>3. /\ pods' = [pods EXCEPT ![n] = p]
          /\ lastUid' = [lastUid EXCEPT ![n] = @ + 1]
          /\ got' = [got EXCEPT ![c] = p]
          /\ events' = Notify(n, "ADDED", p)
          /\ pc' = [pc EXCEPT ![c] = "wait"]
          /\ UNCHANGED <<now, result, attempt, watcher, stream,
                         faults, interrupted, sweep, polls, stamp>>
      BY <1>2, <2>2 DEF EnsureCreate, Goto
    <3>4. TypeOK'
      <4>1. /\ pods' \in [Names -> Pod \cup {NoPod}]
            /\ lastUid' \in [Names -> Nat]
            /\ got' \in [Clients -> Pod \cup {NoPod}]
        BY <1>0, <3>1, <3>3 DEF TypeOK
      <4>. QED
        BY <1>0, <3>2, <3>3, <4>1 DEF TypeOK, sweep, Labels
    <3>5. PollBound'
      BY <1>0, <3>3 DEF TypeOK, PollBound
    <3>. QED
      BY <3>4, <3>5
  <2>. QED
    BY <2>1, <2>2
<1>3. CASE EnsureRefresh(c)
  <2>. DEFINE n == NameOf(c)
              p == [pods[n] EXCEPT !.ttl = Lease(c)]
  <2>1. CASE pods[n] = NoPod
    BY <1>0, <1>3, <2>1, StopTypeInv DEF EnsureRefresh, StopFrame, TypeOK, Messages
  <2>2. CASE pods[n] # NoPod
    <3>0. pods[n] \in Pod /\ Lease(c) \in Nat
      BY <1>0, <2>2, LeaseType DEF TypeOK
    <3>1. p \in Pod
      BY <3>0 DEF Pod
    <3>2. Notify(n, "MODIFIED", p) \in [Clients -> Seq(Event)]
      BY <1>0, <3>1, NotifyType
    <3>3. /\ pods' = [pods EXCEPT ![n] = p]
          /\ events' = Notify(n, "MODIFIED", p)
          /\ pc' = [pc EXCEPT ![c] = "watch"]
          /\ UNCHANGED <<now, lastUid, result, got, watcher, stream,
                         faults, interrupted, sweep, attempt, polls, stamp>>
      BY <1>3, <2>2 DEF EnsureRefresh, Goto
    <3>4. TypeOK'
      BY <1>0, <3>1, <3>2, <3>3 DEF TypeOK, sweep, Labels
    <3>5. PollBound'
      BY <1>0, <3>3 DEF TypeOK, PollBound
    <3>. QED
      BY <3>4, <3>5
  <2>. QED
    BY <2>1, <2>2
<1>4. CASE EnsureDelete(c)
  <2>1. /\ pods' \in [Names -> Pod \cup {NoPod}]
        /\ events' \in [Clients -> Seq(Event)]
        /\ now' = now /\ lastUid' = lastUid
    BY <1>0, <1>4, DeleteType DEF EnsureDelete
  <2>2. 0 \in 0 .. MaxPolls /\ 0 < MaxPolls
    BY BoundsAssumption
  <2>3. TypeOK'
    BY <1>0, <1>4, <2>1, <2>2 DEF EnsureDelete, TypeOK, sweep, Goto, Labels
  <2>4. PollBound'
    BY <1>0, <1>4, <2>2 DEF EnsureDelete, TypeOK, PollBound, Goto
  <2>. QED
    BY <2>3, <2>4
<1>5. CASE EnsurePoll(c)
  <2>1. CASE pods[NameOf(c)] = NoPod
    <3>1. Retry(c) /\ UNCHANGED <<polls, api, faults, interrupted, sweep, stamp>>
      BY <1>5, <2>1 DEF EnsurePoll
    <3>2. TypeOK'
      BY <1>0, <3>1, RetryType DEF TypeOK, StopTyped, api, sweep
    <3>3. PollBound'
      BY <1>0, <3>1, RetryType DEF TypeOK, PollBound
    <3>. QED
      BY <3>2, <3>3
  <2>2. CASE pods[NameOf(c)] # NoPod
    BY <1>0, <1>5, <2>2, PollType DEF EnsurePoll, At, TypeOK
  <2>. QED
    BY <2>1, <2>2
<1>6. CASE WaitEvent(c)
  <2>. DEFINE p == Head(events[c]).pod
  <2>1. p \in Pod /\ Tail(events[c]) \in Seq(Event)
    <3>1. events[c] \in Seq(Event) /\ events[c] # <<>>
      BY <1>0, <1>6 DEF WaitEvent, TypeOK
    <3>2. Head(events[c]) \in Event /\ Tail(events[c]) \in Seq(Event)
      BY <3>1
    <3>. QED
      BY <3>2 DEF Event
  <2>2. CASE p.phase = "Running"
    <3>1. /\ got' = [got EXCEPT ![c] = p]
          /\ events' = [events EXCEPT ![c] = Tail(@)]
          /\ pc' = [pc EXCEPT ![c] = "watch"]
          /\ UNCHANGED <<result, watcher, stream, api, faults, interrupted,
                         sweep, attempt, polls, stamp>>
      BY <1>6, <2>2 DEF WaitEvent, Goto, Terminal
    <3>2. TypeOK'
      BY <1>0, <2>1, <3>1 DEF TypeOK, api, sweep, Labels
    <3>3. PollBound'
      BY <1>0, <3>1 DEF TypeOK, PollBound
    <3>. QED
      BY <3>2, <3>3
  <2>3. CASE p.phase \in Terminal
    <3>1. /\ Stop(c, Cluster, "terminal phase")
          /\ UNCHANGED <<api, faults, interrupted, sweep, attempt, polls, stamp>>
      BY <1>6, <2>3 DEF WaitEvent, Terminal
    <3>. QED
      BY <1>0, <3>1, StopTypeInv DEF StopFrame, TypeOK, Messages
  <2>4. CASE p.phase = "Pending"
    <3>1. /\ events' = [events EXCEPT ![c] = Tail(@)]
          /\ UNCHANGED <<pc, result, got, watcher, stream, api, faults,
                         interrupted, sweep, attempt, polls, stamp>>
      BY <1>6, <2>4 DEF WaitEvent, Terminal
    <3>2. TypeOK'
      BY <1>0, <2>1, <3>1 DEF TypeOK, api, sweep
    <3>3. PollBound'
      BY <3>1 DEF PollBound
    <3>. QED
      BY <3>2, <3>3
  <2>. QED
    BY <2>1, <2>2, <2>3, <2>4 DEF Pod
<1>7. CASE WaitTimeout(c)
  BY <1>0, <1>7, StopTypeInv DEF WaitTimeout, StopFrame, TypeOK, Messages
<1>8. CASE StartWatcher(c)
  <2>1. TypeOK'
    BY <1>0, <1>8 DEF StartWatcher, TypeOK, api, sweep, ensure, Goto, Labels
  <2>2. PollBound'
    BY <1>0, <1>8 DEF StartWatcher, TypeOK, PollBound, ensure, Goto
  <2>. QED
    BY <2>1, <2>2
<1>. QED
  BY <1>1, <1>2, <1>3, <1>4, <1>5, <1>6, <1>7, <1>8 DEF EnsureStep

LEMMA HandleTypeInv ==
  ASSUME TypeInv, NEW c \in Sessions, WatcherStep(c) \/ StreamStep(c)
  PROVE  TypeInv'
<1>. USE DEF TypeInv
<1>0. c \in Clients /\ NameOf(c) \in Names
  BY NameOfType DEF Clients
<1>1. CASE WatcherEvent(c)
  <2>1. Tail(events[c]) \in Seq(Event)
    BY <1>0, <1>1 DEF WatcherEvent, TypeOK
  <2>2. /\ events' \in [Clients -> Seq(Event)]
        /\ watcher' \in [Clients -> {"off", "on", "closed"}]
    <3>1. events[c] # <<>> /\ watcher[c] = "on"
      BY <1>1 DEF WatcherEvent
    <3>2. CASE Terminating(Head(events[c]))
      <4>1. CloseTerminated(c)
        BY <1>1, <3>2 DEF WatcherEvent
      <4>. QED
        BY <1>0, <4>1 DEF CloseTerminated, TypeOK
    <3>3. CASE ~Terminating(Head(events[c]))
      <4>1. events' = [events EXCEPT ![c] = Tail(@)] /\ watcher' = watcher
        BY <1>1, <3>3 DEF WatcherEvent
      <4>. QED
        BY <1>0, <2>1, <4>1 DEF TypeOK
    <3>. QED
      BY <3>2, <3>3
  <2>3. TypeOK'
    BY <1>1, <2>2 DEF WatcherEvent, TypeOK, api, sweep, ensure
  <2>4. PollBound'
    BY <1>1 DEF WatcherEvent, PollBound, ensure
  <2>. QED
    BY <2>3, <2>4
<1>2. CASE WatcherInterrupted(c)
  <2>1. TypeOK'
    BY <1>0, <1>2 DEF WatcherInterrupted, CloseTerminated, TypeOK, api, sweep, ensure
  <2>2. PollBound'
    BY <1>2 DEF WatcherInterrupted, PollBound, ensure
  <2>. QED
    BY <2>1, <2>2
<1>3. CASE OpenStream(c)
  <2>1. CASE RunningPod(NameOf(c))
    <3>1. pods[NameOf(c)].uid \in Nat
      BY <1>0, <2>1 DEF RunningPod, TypeOK, Pod
    <3>2. /\ stream' = [stream EXCEPT ![c] = pods[NameOf(c)].uid]
          /\ pc' = [pc EXCEPT ![c] = "stream"]
          /\ UNCHANGED <<result, got, events, watcher, api, faults,
                         interrupted, sweep, attempt, polls, stamp>>
      BY <1>3, <2>1 DEF OpenStream, Goto
    <3>3. TypeOK'
      BY <1>0, <3>1, <3>2 DEF TypeOK, api, sweep, Labels
    <3>4. PollBound'
      BY <1>0, <3>2 DEF TypeOK, PollBound
    <3>. QED
      BY <3>3, <3>4
  <2>2. CASE ~RunningPod(NameOf(c))
    BY <1>0, <1>3, <2>2, StopTypeInv DEF OpenStream, StopFrame, TypeOK, Messages
  <2>. QED
    BY <2>1, <2>2
<1>4. CASE StreamEnd(c)
  <2>1. UNCHANGED <<api, faults, interrupted, sweep, attempt, polls, stamp>>
    BY <1>4 DEF StreamEnd
  <2>2. CASE Goto(c, "ready") /\ stream' = [stream EXCEPT ![c] = 0]
             /\ UNCHANGED <<result, got, events, watcher>>
    <3>1. TypeOK'
      BY <1>0, <2>1, <2>2 DEF TypeOK, api, sweep, Goto, Labels
    <3>2. PollBound'
      BY <1>0, <2>1, <2>2 DEF TypeOK, PollBound, Goto
    <3>. QED
      BY <3>1, <3>2
  <2>3. CASE Stop(c, OK, "") \/ Stop(c, Node, "remote exit status")
    BY <1>0, <2>1, <2>3, StopTypeInv DEF StopFrame, TypeOK, Messages
  <2>. QED
    BY <1>4, <2>2, <2>3 DEF StreamEnd
<1>5. CASE StreamLost(c)
  BY <1>0, <1>5, StopTypeInv DEF StreamLost, StopFrame, TypeOK, Messages
<1>. QED
  BY <1>1, <1>2, <1>3, <1>4, <1>5 DEF WatcherStep, StreamStep

LEMMA FaultTypeInv ==
  ASSUME TypeInv, NEW c \in Clients, FaultStep(c) \/ Interrupted(c)
  PROVE  TypeInv'
<1>. USE DEF TypeInv
<1>1. CASE ApiError(c)
  <2>1. /\ UNCHANGED <<api, interrupted, filter, deleted, stamp>>
        /\ faults' \in Nat
    <3>1. UNCHANGED <<api, interrupted, filter, deleted, stamp>>
      BY <1>1 DEF ApiError
    <3>2. faults' = faults + 1
      BY <1>1 DEF ApiError
    <3>. QED
      BY <3>1, <3>2 DEF TypeOK
  <2>2. CASE pc[c] \in {"start", "sweep"} /\ c \in Sessions
    <3>1. /\ todo' = [todo EXCEPT ![c] = {}]
          /\ pc' = [pc EXCEPT ![c] = "get"]
          /\ UNCHANGED <<result, got, session, attempt, polls>>
      BY <1>1, <2>2 DEF ApiError, Goto
    <3>2. TypeOK'
      BY <2>1, <3>1 DEF TypeOK, api, session, Labels
    <3>3. PollBound'
      BY <3>1 DEF TypeOK, PollBound
    <3>. QED
      BY <3>2, <3>3
  <2>3. CASE pc[c] = "poll"
    BY <1>1, <2>1, <2>3, PollType DEF ApiError, sweep
  <2>4. CASE ~(pc[c] \in {"start", "sweep"} /\ c \in Sessions) /\ pc[c] # "poll"
    <3>1. /\ \/ Stop(c, Cluster, "exec stream")
             \/ Stop(c, Cluster, "api error")
          /\ UNCHANGED <<todo, attempt, polls>>
      BY <1>1, <2>4 DEF ApiError
    <3>. QED
      BY <2>1, <3>1, StopTypeInv DEF StopFrame, Messages, sweep
  <2>. QED
    BY <2>2, <2>3, <2>4
<1>2. CASE Interrupt(c)
  <2>1. TypeOK'
    BY <1>2 DEF Interrupt, TypeOK, api, sweep, ensure, session
  <2>2. PollBound'
    BY <1>2 DEF Interrupt, PollBound, ensure
  <2>. QED
    BY <2>1, <2>2
<1>3. CASE Kill(c)
  <2>1. TypeOK'
    BY <1>3 DEF Kill, TypeOK, api, sweep, Goto, Labels
  <2>2. PollBound'
    BY <1>3 DEF Kill, TypeOK, PollBound, Goto
  <2>. QED
    BY <2>1, <2>2
<1>4. CASE WatchEnds(c)
  <2>1. TypeOK'
    BY <1>4 DEF WatchEnds, CloseTerminated, TypeOK, api, sweep, ensure
  <2>2. PollBound'
    BY <1>4 DEF WatchEnds, PollBound, ensure
  <2>. QED
    BY <2>1, <2>2
<1>5. CASE Interrupted(c)
  <2>1. /\ \/ Stop(c, Sigint, "context canceled")
           \/ Stop(c, Cluster, "watch closed unexpectedly")
        /\ UNCHANGED <<api, faults, interrupted, sweep, attempt, polls, stamp>>
    BY <1>5 DEF Interrupted
  <2>. QED
    BY <2>1, StopTypeInv DEF StopFrame, TypeOK, Messages
<1>. QED
  BY <1>1, <1>2, <1>3, <1>4, <1>5 DEF FaultStep

LEMMA WorldTypeInv ==
  ASSUME TypeInv, (\E n \in Names : Kubelet(n) \/ ForeignDelete(n)) \/ Tick
  PROVE  TypeInv'
<1>. USE DEF TypeInv
<1>1. CASE \E n \in Names : Kubelet(n)
  <2>1. PICK n \in Names : Kubelet(n)
    BY <1>1
  <2>2. PICK phase \in {"Running"} \cup Terminal :
          /\ pods' = [pods EXCEPT ![n] = [pods[n] EXCEPT !.phase = phase]]
          /\ events' = Notify(n, "MODIFIED", [pods[n] EXCEPT !.phase = phase])
    BY <2>1 DEF Kubelet
  <2>3. [pods[n] EXCEPT !.phase = phase] \in Pod
    <3>1. pods[n] \in Pod
      BY <2>1 DEF Kubelet, TypeOK
    <3>. QED
      BY <3>1 DEF Pod, Terminal
  <2>4. Notify(n, "MODIFIED", [pods[n] EXCEPT !.phase = phase]) \in [Clients -> Seq(Event)]
    BY <2>3, NotifyType
  <2>5. TypeOK'
    BY <2>1, <2>2, <2>3, <2>4 DEF Kubelet, TypeOK, sweep, ensure
  <2>6. PollBound'
    BY <2>1 DEF Kubelet, PollBound, ensure
  <2>. QED
    BY <2>5, <2>6
<1>2. CASE \E n \in Names : ForeignDelete(n)
  <2>1. PICK n \in Names : ForeignDelete(n)
    BY <1>2
  <2>2. /\ pods' \in [Names -> Pod \cup {NoPod}]
        /\ events' \in [Clients -> Seq(Event)]
        /\ now' = now /\ lastUid' = lastUid
    BY <2>1, DeleteType DEF ForeignDelete
  <2>3. TypeOK'
    BY <2>1, <2>2 DEF ForeignDelete, TypeOK, sweep, ensure
  <2>4. PollBound'
    BY <2>1 DEF ForeignDelete, PollBound, ensure
  <2>. QED
    BY <2>3, <2>4
<1>3. CASE Tick
  <2>1. TypeOK'
    BY <1>3 DEF Tick, TypeOK, sweep, ensure, session
  <2>2. PollBound'
    BY <1>3 DEF Tick, PollBound, ensure
  <2>. QED
    BY <2>1, <2>2
<1>. QED
  BY <1>1, <1>2, <1>3

LEMMA InitTypeInv == Init => TypeInv
<1>. SUFFICES ASSUME Init PROVE TypeInv
  OBVIOUS
<1>1. \A n \in Names : pods[n] \in Pod \cup {NoPod}
  <2>1. SUFFICES ASSUME NEW n \in Names PROVE Leftover(n) \subseteq Pod
    BY DEF Init
  <2>2. 0 .. DefaultTTL \subseteq Nat /\ {1} \subseteq Nat
    BY BoundsAssumption
  <2>. QED
    BY <2>2 DEF Leftover, Pod, Terminal
<1>2. 1 \in 1 .. Attempts /\ 0 \in 0 .. MaxPolls
  BY BoundsAssumption DEF Attempts
<1>3. pods \in [Names -> Pod \cup {NoPod}]
  BY <1>1 DEF Init
<1>4. TypeOK
  <2>1. /\ now \in Nat /\ faults \in Nat
        /\ lastUid \in [Names -> Nat]
        /\ pc \in [Clients -> Labels]
        /\ interrupted \subseteq Clients
        /\ stamp \in [Clients -> Nat] /\ stream \in [Clients -> Nat]
    BY DEF Init, Labels
  <2>2. /\ result \in [Clients -> [code: Codes,
                                   msg: Messages]]
        /\ filter \in [Clients -> Filter]
        /\ todo \in [Clients -> SUBSET Item]
        /\ deleted \in [Clients -> SUBSET Item]
    BY DEF Init, Messages
  <2>3. /\ got \in [Clients -> Pod \cup {NoPod}]
        /\ events \in [Clients -> Seq(Event)]
        /\ watcher \in [Clients -> {"off", "on", "closed"}]
    <3>1. << >> \in Seq(Event)
      OBVIOUS
    <3>2. events = [c \in Clients |-> << >>]
      BY DEF Init
    <3>3. events \in [Clients -> Seq(Event)]
      BY <3>1, <3>2
    <3>4. got \in [Clients -> Pod \cup {NoPod}]
      BY DEF Init
    <3>5. watcher \in [Clients -> {"off", "on", "closed"}]
      BY DEF Init
    <3>. QED
      BY <3>3, <3>4, <3>5
  <2>4. /\ attempt \in [Clients -> 1 .. Attempts]
        /\ polls \in [Clients -> 0 .. MaxPolls]
    BY <1>2 DEF Init
  <2>. QED
    BY <1>3, <2>1, <2>2, <2>3, <2>4 DEF TypeOK
<1>5. PollBound
  BY DEF Init, PollBound
<1>. QED
  BY <1>4, <1>5 DEF TypeInv

LEMMA TypeInvStep ==
  ASSUME TypeInv, [Next]_vars
  PROVE  TypeInv'
<1>1. ASSUME NEW c \in Clients, CleanupStep(c) PROVE TypeInv'
  BY <1>1, CleanupTypeInv
<1>2. ASSUME NEW c \in Clients, FaultStep(c) \/ Interrupted(c) PROVE TypeInv'
  BY <1>2, FaultTypeInv
<1>3. ASSUME NEW c \in Sessions, EnsureStep(c) PROVE TypeInv'
  BY <1>3, EnsureTypeInv
<1>4. ASSUME NEW c \in Sessions, WatcherStep(c) \/ StreamStep(c) PROVE TypeInv'
  BY <1>4, HandleTypeInv
<1>5. CASE (\E n \in Names : Kubelet(n) \/ ForeignDelete(n)) \/ Tick
  BY <1>5, WorldTypeInv
<1>6. CASE UNCHANGED vars
  BY <1>6 DEF vars, api, sweep, ensure, session, TypeInv, TypeOK, PollBound
<1>. QED
  BY <1>1, <1>2, <1>3, <1>4, <1>5, <1>6 DEF Next, AllStopped

\* The invariant every other proof starts from.
LEMMA TypeInvariant == Spec => []TypeInv
BY InitTypeInv, TypeInvStep, PTL DEF Spec

\* Type correctness of the model of lifecycle.go and cleanup.go.
THEOREM TypeCorrect == Spec => []TypeOK
BY TypeInvariant, PTL DEF TypeInv
=============================================================================
