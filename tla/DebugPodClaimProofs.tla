------------------------ MODULE DebugPodClaimProofs -------------------------
(***************************************************************************)
(* DebugPod implements PodClaim.  The invariant adds to that of the        *)
(* handles how the incarnations in the events of a session relate to the   *)
(* pod that has the name now; the simulation then takes one session at a   *)
(* time.  The last part follows a session through the attempts of Ensure.  *)
(***************************************************************************)
EXTENDS DebugPodClaim, DebugPodCleanupProofs

USE DEF Codes

\* Incarnation u of name n, if it still is there, has left the phase Pending.
OnceRan(n, u) == pods[n] # NoPod /\ pods[n].uid = u => pods[n].phase # "Pending"

Counted ==
  \A n \in Names : pods[n] # NoPod => pods[n].uid = lastUid[n] /\ lastUid[n] >= 1

\* What d knows is about incarnations that have been given out.
Dated(d) ==
  /\ got[d] # NoPod => got[d].uid \in 1 .. lastUid[NameOf(d)]
  /\ \A i \in 1 .. Len(events[d]) : events[d][i].pod.uid \in 1 .. lastUid[NameOf(d)]

Based(d) == pc[d] \in {"refresh", "watch"} \/ watcher[d] = "on" => got[d] # NoPod

\* The incarnation a handle is about to be built on: the news of its end is
\* never ahead of its end.
Fixed(d) ==
  pc[d] \in {"refresh", "watch"} =>
    /\ OnceRan(NameOf(d), got[d].uid)
    /\ TerminationDue(d) => ~RunningAs(NameOf(d), got[d].uid)

\* The same of every incarnation that waitRunning may still find Running.
Ordered(d) ==
  pc[d] = "wait" =>
    \A i \in 1 .. Len(events[d]) :
      events[d][i].pod.phase = "Running" =>
        /\ OnceRan(NameOf(d), events[d][i].pod.uid)
        /\ (\E j \in 1 .. Len(events[d]) : j > i /\ Terminating(events[d][j]))
             => ~RunningAs(NameOf(d), events[d][i].pod.uid)

Sequenced(d) == Dated(d) /\ Based(d) /\ Fixed(d) /\ Ordered(d)

ClaimInv == HandleInv /\ Counted /\ \A d \in Sessions : Sequenced(d)

-----------------------------------------------------------------------------
(* The pod of one name in a step. *)

Kept(m) == pods'[m] = pods[m] /\ lastUid'[m] = lastUid[m]
Gone(m) == pods[m] # NoPod /\ pods'[m] = NoPod /\ lastUid'[m] = lastUid[m]
Moved(m) ==
  /\ pods[m] # NoPod /\ pods'[m] \in Pod
  /\ pods'[m].uid = pods[m].uid /\ Forward(pods[m], pods'[m])
  /\ lastUid'[m] = lastUid[m]
Born(m) ==
  /\ pods[m] = NoPod /\ pods'[m] \in Pod
  /\ pods'[m].uid = lastUid[m] + 1 /\ pods'[m].phase = "Pending"
  /\ lastUid'[m] = lastUid[m] + 1

AllKept == \A m \in Names : Kept(m)
OneMoves(n) == (\A m \in Names \ {n} : Kept(m)) /\ (Gone(n) \/ Moved(n) \/ Born(n))

LEMMA PodsOfStep ==
  ASSUME TypeOK, [Next]_vars
  PROVE  AllKept \/ \E n \in Names : OneMoves(n)
<1>0. pods \in [Names -> Pod \cup {NoPod}] /\ lastUid \in [Names -> Nat]
  BY DEF TypeOK
<1>1. CASE UNCHANGED <<pods, lastUid>>
  BY <1>1 DEF AllKept, Kept
<1>2. ASSUME NEW n \in Names, Removed(n) PROVE AllKept \/ OneMoves(n)
  <2>1. pods' = [pods EXCEPT ![n] = NoPod] /\ lastUid' = lastUid
    BY <1>2 DEF Removed
  <2>. QED
    BY <1>0, <2>1 DEF AllKept, OneMoves, Kept, Gone
<1>3. ASSUME NEW n \in Names, Updated(n) PROVE OneMoves(n)
  <2>1. PICK q \in Pod : /\ pods[n] # NoPod /\ q.uid = pods[n].uid /\ Forward(pods[n], q)
                         /\ pods' = [pods EXCEPT ![n] = q] /\ lastUid' = lastUid
    BY <1>3 DEF Updated
  <2>. QED
    BY <1>0, <2>1 DEF OneMoves, Kept, Moved
<1>4. ASSUME NEW n \in Names, Created(n) PROVE OneMoves(n)
  <2>1. PICK q \in Pod : /\ pods[n] = NoPod /\ q.uid = lastUid[n] + 1 /\ q.phase = "Pending"
                         /\ pods' = [pods EXCEPT ![n] = q]
                         /\ lastUid' = [lastUid EXCEPT ![n] = @ + 1]
    BY <1>4 DEF Created
  <2>. QED
    BY <1>0, <2>1 DEF OneMoves, Kept, Born
<1>. QED
  BY <1>1, <1>2, <1>3, <1>4, StepOfPods DEF PodStep

LEMMA PodOfStep ==
  ASSUME TypeOK, [Next]_vars, NEW m \in Names
  PROVE  Kept(m) \/ Gone(m) \/ Moved(m) \/ Born(m)
BY PodsOfStep DEF AllKept, OneMoves

LEMMA CountedStep ==
  ASSUME TypeOK, Counted, [Next]_vars
  PROVE  Counted' /\ \A m \in Names : lastUid[m] \in Nat /\ lastUid'[m] \in {lastUid[m], lastUid[m] + 1}
<1>0. \A m \in Names : lastUid[m] \in Nat
  BY DEF TypeOK
<1>1. ASSUME NEW m \in Names
      PROVE  /\ lastUid'[m] \in {lastUid[m], lastUid[m] + 1}
             /\ pods'[m] # NoPod => pods'[m].uid = lastUid'[m] /\ lastUid'[m] >= 1
  BY <1>0, PodOfStep DEF Counted, Kept, Gone, Moved, Born
<1>. QED
  BY <1>0, <1>1 DEF Counted

\* What has run once does not start again, and what has ended stays so.
RanAfter(n, u)   == pods'[n] # NoPod /\ pods'[n].uid = u => pods'[n].phase # "Pending"
EndedAfter(n, u) == ~(pods'[n] # NoPod /\ pods'[n].phase = "Running" /\ pods'[n].uid = u)

LEMMA Onward ==
  ASSUME TypeOK, [Next]_vars, NEW n \in Names, NEW u \in 1 .. lastUid[n], OnceRan(n, u)
  PROVE  RanAfter(n, u) /\ (~RunningAs(n, u) => EndedAfter(n, u))
<1>1. lastUid[n] \in Nat /\ u # lastUid[n] + 1
  BY DEF TypeOK
<1>. QED
  BY <1>1, PodOfStep DEF Kept, Gone, Moved, Born, Forward, Terminal, OnceRan, RunningAs,
                         RunningPod, RanAfter, EndedAfter

LEMMA TerminatingEnds ==
  ASSUME NEW n \in Names, NEW e \in Event, Change(n, e), Terminating(e)
  PROVE  StateOf(n)' = "over" /\ ~RunningPod(n)'
BY DEF Change, Terminating, StateOf, Terminal, RunningPod

-----------------------------------------------------------------------------
(* Events from the world, and from the patch of d itself. *)

\* A session learns of e while it stays where it is, or as its patch returns.
Remains(d) ==
  /\ got'[d] = got[d] /\ watcher'[d] = watcher[d]
  /\ pc'[d] = pc[d] \/ (pc[d] = "refresh" /\ pc'[d] = "watch")

Learns(d, e) ==
  /\ Remains(d)
  /\ Change(NameOf(d), e)
  /\ events'[d] = IF Anchored(d) THEN Append(events[d], e) ELSE events[d]

LEMMA EventDated ==
  ASSUME TypeOK, Counted, Counted', [Next]_vars, NEW n \in Names, NEW e \in Event, Change(n, e)
  PROVE  e.pod.uid \in 1 .. lastUid'[n]
<1>1. lastUid[n] \in Nat /\ lastUid'[n] \in {lastUid[n], lastUid[n] + 1}
  BY CountedStep DEF TypeOK
<1>2. e.pod \in Pod /\ e.pod # NoPod
  BY NullsAssumption DEF Event
<1>. QED
  BY <1>1, <1>2 DEF Change, Counted

LEMMA LearnsSequenced ==
  ASSUME ClaimInv, Counted', [Next]_vars, NEW d \in Sessions, NEW e \in Event, Learns(d, e)
  PROVE  Sequenced(d)'
<1>. DEFINE n == NameOf(d)
            q == events[d]
<1>0. /\ TypeOK /\ n \in Names /\ q \in Seq(Event) /\ SessionInv(d) /\ Sequenced(d) /\ Counted
      /\ got[d] \in Pod \cup {NoPod}
  BY NameOfType DEF ClaimInv, HandleInv, TypeInv, TypeOK, Clients
<1>1. lastUid[n] \in Nat /\ lastUid'[n] \in {lastUid[n], lastUid[n] + 1}
  BY <1>0, CountedStep
<1>2. e.pod.uid \in 1 .. lastUid'[n]
  BY <1>0, EventDated DEF Learns, Remains
<1>3. \/ events'[d] = q /\ pc[d] \notin {"refresh", "watch", "wait"}
      \/ /\ Len(events'[d]) = Len(q) + 1 /\ Len(q) \in Nat
         /\ events'[d][Len(q) + 1] = e
         /\ \A i \in 1 .. Len(q) : events'[d][i] = q[i]
  BY <1>0 DEF Learns, Remains, Anchored
<1>4. Dated(d)'
  <2>1. got[d] # NoPod => got[d].uid \in 1 .. lastUid'[n]
    BY <1>0, <1>1 DEF Sequenced, Dated
  <2>2. \A i \in 1 .. Len(q) : q[i].pod.uid \in 1 .. lastUid'[n]
    BY <1>0, <1>1 DEF Sequenced, Dated
  <2>3. \A i \in 1 .. Len(events'[d]) : events'[d][i].pod.uid \in 1 .. lastUid'[n]
    BY <1>2, <1>3, <2>2
  <2>. QED
    BY <2>1, <2>3 DEF Dated, Learns, Remains
<1>5. Based(d)'
  BY <1>0 DEF Sequenced, Based, Learns, Remains
<1>6. Terminating(e) => ~RunningPod(n)'
  BY <1>0, TerminatingEnds DEF Learns, Remains
<1>7. \A u \in 1 .. lastUid[n] :
        OnceRan(n, u) => RanAfter(n, u) /\ (~RunningAs(n, u) => EndedAfter(n, u))
  BY <1>0, Onward
<1>8. Fixed(d)'
  <2>. SUFFICES ASSUME pc'[d] \in {"refresh", "watch"}
                PROVE  /\ RanAfter(n, got[d].uid)
                       /\ TerminationDue(d)' => EndedAfter(n, got[d].uid)
    BY DEF Fixed, Learns, Remains, OnceRan, RunningAs, RunningPod, RanAfter, EndedAfter
  <2>1. pc[d] \in {"refresh", "watch"} /\ got[d] # NoPod
    BY <1>0 DEF Learns, Remains, Sequenced, Based
  <2>2. /\ got[d].uid \in 1 .. lastUid[n] /\ OnceRan(n, got[d].uid)
        /\ TerminationDue(d) => ~RunningAs(n, got[d].uid)
    BY <1>0, <2>1 DEF Sequenced, Dated, Fixed
  <2>3. TerminationDue(d)' => TerminationDue(d) \/ Terminating(e)
    BY <1>3 DEF TerminationDue
  <2>. QED
    BY <1>6, <1>7, <2>2, <2>3 DEF EndedAfter, RunningPod
<1>9. Ordered(d)'
  <2>. SUFFICES ASSUME pc'[d] = "wait", NEW i \in 1 .. Len(events'[d]),
                       events'[d][i].pod.phase = "Running"
                PROVE  /\ RanAfter(n, events'[d][i].pod.uid)
                       /\ (\E j \in 1 .. Len(events'[d]) : j > i /\ Terminating(events'[d][j]))
                            => EndedAfter(n, events'[d][i].pod.uid)
    BY DEF Ordered, OnceRan, RunningAs, RunningPod, RanAfter, EndedAfter, Terminating
  <2>0. pc[d] = "wait" /\ Len(q) \in Nat /\ Len(events'[d]) = Len(q) + 1
    BY <1>3 DEF Learns, Remains
  <2>1. CASE i = Len(q) + 1
    <3>1. events'[d][i] = e /\ ~\E j \in 1 .. Len(events'[d]) : j > i
      BY <1>3, <2>0, <2>1
    <3>2. RanAfter(n, e.pod.uid)
      BY <3>1 DEF Learns, Change, RanAfter
    <3>. QED
      BY <3>1, <3>2
  <2>2. CASE i \in 1 .. Len(q)
    <3>. DEFINE u == q[i].pod.uid
    <3>1. events'[d][i] = q[i] /\ q[i].pod.phase = "Running"
      BY <1>3, <2>0, <2>2
    <3>2. /\ u \in 1 .. lastUid[n] /\ OnceRan(n, u)
          /\ (\E j \in 1 .. Len(q) : j > i /\ Terminating(q[j])) => ~RunningAs(n, u)
      BY <1>0, <2>0, <2>2, <3>1 DEF Sequenced, Dated, Ordered
    <3>3. ASSUME NEW j \in 1 .. Len(events'[d]), j > i, Terminating(events'[d][j])
          PROVE  Terminating(e) \/ \E k \in 1 .. Len(q) : k > i /\ Terminating(q[k])
      BY <1>3, <2>0, <3>3
    <3>. QED
      BY <1>6, <1>7, <3>1, <3>2, <3>3 DEF EndedAfter, RunningPod
  <2>. QED
    BY <2>0, <2>1, <2>2
<1>. QED
  BY <1>4, <1>5, <1>8, <1>9 DEF Sequenced

LEMMA RemainsSequenced ==
  ASSUME ClaimInv, Counted', [Next]_vars, NEW d \in Sessions, Remains(d), Quiet(d) \/ Told(d)
  PROVE  Sequenced(d)'
<1>. DEFINE n == NameOf(d)
<1>0. /\ TypeOK /\ n \in Names /\ Sequenced(d) /\ Counted 
      /\ got[d] \in Pod \cup {NoPod} /\ events[d] \in Seq(Event)
  BY NameOfType DEF ClaimInv, HandleInv, TypeInv, TypeOK, Clients
<1>1. CASE Quiet(d)
  <2>1. lastUid[n] \in Nat /\ lastUid'[n] \in {lastUid[n], lastUid[n] + 1}
    BY <1>0, CountedStep
  <2>2. Dated(d)'
    BY <1>0, <1>1, <2>1 DEF Sequenced, Dated, Remains, Quiet
  <2>. QED
    BY <1>0, <1>1, <2>2 DEF Sequenced, Based, Fixed, Ordered, Remains, Quiet, OnceRan,
                            RunningAs, RunningPod, TerminationDue, Terminating
<1>2. CASE Told(d)
  <2>1. PICK e \in Event : Learns(d, e)
    BY <1>2 DEF Told, Learns
  <2>. QED
    BY <2>1, LearnsSequenced
<1>. QED
  BY <1>1, <1>2

LEMMA WorldSequenced ==
  ASSUME ClaimInv, Counted', [Next]_vars, NEW d \in Sessions, WorldStep(d)
  PROVE  Sequenced(d)'
BY RemainsSequenced DEF WorldStep, Untouched, Remains

-----------------------------------------------------------------------------
(* The steps of session d itself. *)

\* d has, or takes, no resourceVersion.
Drops(d) ==
  /\ pc'[d] \notin {"refresh", "wait", "watch"} /\ watcher'[d] # "on"
  /\ events'[d] = << >> /\ got'[d] \in {got[d], NoPod}

\* d uses its handle: what it has received gets shorter at most.
Uses(d) ==
  /\ pc'[d] \notin {"refresh", "wait", "watch"}
  /\ watcher'[d] = "on" => watcher[d] = "on" \/ pc[d] = "watch"
  /\ got'[d] = got[d]
  /\ events'[d] = events[d] \/ (events[d] # << >> /\ events'[d] = Tail(events[d]))

LEMMA DropsSequenced ==
  ASSUME ClaimInv, [Next]_vars, NEW d \in Sessions, Drops(d) \/ Uses(d)
  PROVE  Sequenced(d)'
<1>. DEFINE n == NameOf(d)
<1>0. /\ TypeOK /\ n \in Names /\ Sequenced(d) /\ Counted
      /\ got[d] \in Pod \cup {NoPod} /\ events[d] \in Seq(Event)
  BY NameOfType DEF ClaimInv, HandleInv, TypeInv, TypeOK, Clients
<1>1. lastUid[n] \in Nat /\ lastUid'[n] \in {lastUid[n], lastUid[n] + 1}
  BY <1>0, CountedStep
<1>2. /\ got[d] # NoPod => got[d].uid \in 1 .. lastUid'[n]
      /\ \A i \in 1 .. Len(events[d]) : events[d][i].pod.uid \in 1 .. lastUid'[n]
  BY <1>0, <1>1 DEF Sequenced, Dated
<1>3. Dated(d)'
  <2>1. CASE events'[d] = << >> \/ events'[d] = events[d]
    BY <1>2, <2>1 DEF Dated, Drops, Uses
  <2>2. CASE events[d] # << >> /\ events'[d] = Tail(events[d])
    <3>1. /\ Len(events'[d]) = Len(events[d]) - 1 /\ Len(events[d]) \in Nat
          /\ \A i \in 1 .. Len(events'[d]) : events'[d][i] = events[d][i + 1]
      BY <1>0, <2>2
    <3>2. \A i \in 1 .. Len(events'[d]) : events'[d][i].pod.uid \in 1 .. lastUid'[n]
      <4>1. \A i \in 1 .. Len(events'[d]) : i + 1 \in 1 .. Len(events[d])
        BY <3>1
      <4>. QED
        BY <1>2, <3>1, <4>1
    <3>. QED
      BY <1>2, <3>2 DEF Dated, Drops, Uses
  <2>. QED
    BY <2>1, <2>2 DEF Drops, Uses
<1>4. Based(d)' /\ Fixed(d)' /\ Ordered(d)'
  BY <1>0 DEF Sequenced, Based, Fixed, Ordered, Drops, Uses
<1>. QED
  BY <1>3, <1>4 DEF Sequenced

LEMMA StopDrops ==
  ASSUME TypeOK, NEW d \in Sessions, StopFrame(d)
  PROVE  Drops(d)
<1>1. d \in Clients
  BY DEF Clients
<1>. QED
  BY <1>1 DEF StopFrame, Stop, Goto, TypeOK, Drops

\* d is in a part of the command without a resourceVersion, and stays in one.
LEMMA AwayDrops ==
  ASSUME TypeOK, NEW d \in Sessions, SessionInv(d), ~Anchored(d),
         pc'[d] \notin {"refresh", "wait", "watch"},
         got'[d] \in {got[d], NoPod}, events'[d] = events[d], watcher'[d] = watcher[d]
  PROVE  Drops(d)
BY DEF SessionInv, Discipline, Anchored, Drops

LEMMA RetryDrops ==
  ASSUME TypeOK, NEW d \in Sessions, SessionInv(d), ~Anchored(d), Retry(d)
  PROVE  Drops(d)
<1>0. d \in Clients
  BY DEF Clients
<1>1. CASE attempt[d] < Attempts
  <2>1. /\ pc'[d] = "get" /\ got'[d] = got[d] /\ events'[d] = events[d]
        /\ watcher'[d] = watcher[d]
    BY <1>0, <1>1 DEF Retry, Goto, TypeOK, session
  <2>. QED
    BY <2>1, AwayDrops
<1>2. CASE ~(attempt[d] < Attempts)
  <2>1. StopFrame(d)
    BY <1>2 DEF Retry, StopFrame, Messages
  <2>. QED
    BY <2>1, StopDrops
<1>. QED
  BY <1>1, <1>2

LEMMA PollDrops ==
  ASSUME TypeOK, NEW d \in Sessions, SessionInv(d), pc[d] = "poll", PollAgain(d)
  PROVE  Drops(d)
<1>0. ~Anchored(d)
  BY DEF SessionInv, Discipline, Anchored
<1>1. CASE polls[d] + 1 < MaxPolls
  BY <1>0, <1>1, AwayDrops DEF PollAgain, session
<1>2. CASE ~(polls[d] + 1 < MaxPolls)
  <2>1. StopFrame(d)
    BY <1>2 DEF PollAgain, StopFrame, Messages
  <2>. QED
    BY <2>1, StopDrops
<1>. QED
  BY <1>1, <1>2

LEMMA WaitSequenced ==
  ASSUME ClaimInv, [Next]_vars, NEW d \in Sessions, WaitEvent(d)
  PROVE  Sequenced(d)'
<1>. DEFINE n == NameOf(d)
            q == events[d]
<1>0. /\ TypeOK /\ n \in Names /\ Sequenced(d) /\ SessionInv(d) /\ d \in Clients
      /\ q \in Seq(Event)
  BY NameOfType DEF ClaimInv, HandleInv, TypeInv, TypeOK, Clients
<1>1. /\ pc[d] = "wait" /\ watcher[d] # "on" /\ Ordered(d) /\ q # << >>
      /\ pods' = pods /\ lastUid' = lastUid
  BY <1>0 DEF WaitEvent, At, SessionInv, Discipline, Sequenced, api
<1>2. /\ Head(q) = q[1] /\ q[1] \in Event /\ Len(q) \in Nat \ {0}
      /\ Len(Tail(q)) = Len(q) - 1
      /\ \A i \in 1 .. Len(q) - 1 : Tail(q)[i] = q[i + 1]
  BY <1>0, <1>1
<1>3. q[1].pod \in Pod /\ q[1].pod.phase \in {"Running", "Pending"} \cup Terminal
  BY <1>2 DEF Event, Pod
<1>4. \A i \in 1 .. Len(q) - 1 : Tail(q)[i].pod.uid \in 1 .. lastUid[n]
  BY <1>0, <1>2 DEF Sequenced, Dated
<1>5. CASE q[1].pod.phase = "Running"
  <2>1. got'[d] = q[1].pod /\ events'[d] = Tail(q) /\ pc'[d] = "watch" /\ watcher' = watcher
    <3>1. /\ got' = [got EXCEPT ![d] = Head(q).pod]
          /\ events' = [events EXCEPT ![d] = Tail(@)]
          /\ pc' = [pc EXCEPT ![d] = "watch"] /\ watcher' = watcher
      BY <1>2, <1>5 DEF WaitEvent, Goto, Terminal
    <3>. QED
      BY <1>0, <1>2, <3>1 DEF TypeOK
  <2>2. /\ q[1].pod.uid \in 1 .. lastUid[n] /\ OnceRan(n, q[1].pod.uid)
        /\ (\E j \in 1 .. Len(q) : j > 1 /\ Terminating(q[j])) => ~RunningAs(n, q[1].pod.uid)
    BY <1>0, <1>1, <1>2, <1>5 DEF Sequenced, Dated, Ordered
  <2>3. TerminationDue(d)' => \E j \in 1 .. Len(q) : j > 1 /\ Terminating(q[j])
    <3>1. ASSUME NEW i \in 1 .. Len(q) - 1, Terminating(Tail(q)[i])
          PROVE  i + 1 \in 1 .. Len(q) /\ i + 1 > 1 /\ Terminating(q[i + 1])
      BY <1>2, <3>1
    <3>. QED
      BY <1>2, <2>1, <3>1 DEF TerminationDue
  <2>4. Fixed(d)'
    BY <1>1, <2>1, <2>2, <2>3 DEF Fixed, OnceRan, RunningAs, RunningPod
  <2>5. Dated(d)' /\ Based(d)' /\ Ordered(d)'
    BY <1>1, <1>2, <1>3, <1>4, <2>1, <2>2, NullsAssumption DEF Dated, Based, Ordered
  <2>. QED
    BY <2>4, <2>5 DEF Sequenced
<1>6. CASE q[1].pod.phase \in Terminal
  <2>1. StopFrame(d)
    BY <1>2, <1>6 DEF WaitEvent, StopFrame, Terminal, Messages
  <2>. QED
    BY <1>0, <2>1, StopDrops, DropsSequenced
<1>7. CASE q[1].pod.phase = "Pending"
  <2>1. got' = got /\ events'[d] = Tail(q) /\ pc' = pc /\ watcher' = watcher
    BY <1>0, <1>2, <1>7 DEF WaitEvent, TypeOK, Terminal
  <2>2. Dated(d)' /\ Based(d)' /\ Fixed(d)'
    BY <1>0, <1>1, <1>2, <1>4, <2>1 DEF Sequenced, Dated, Based, Fixed
  <2>3. Ordered(d)'
    <3>. SUFFICES ASSUME NEW i \in 1 .. Len(q) - 1, Tail(q)[i].pod.phase = "Running"
                  PROVE  /\ OnceRan(n, Tail(q)[i].pod.uid)
                         /\ (\E j \in 1 .. Len(q) - 1 : j > i /\ Terminating(Tail(q)[j]))
                              => ~RunningAs(n, Tail(q)[i].pod.uid)
      BY <1>1, <1>2, <2>1 DEF Ordered, OnceRan, RunningAs, RunningPod, Terminating
    <3>1. i + 1 \in 1 .. Len(q) /\ Tail(q)[i] = q[i + 1]
      BY <1>2
    <3>2. /\ OnceRan(n, q[i + 1].pod.uid)
          /\ (\E j \in 1 .. Len(q) : j > i + 1 /\ Terminating(q[j]))
               => ~RunningAs(n, q[i + 1].pod.uid)
      BY <1>1, <3>1 DEF Ordered
    <3>3. ASSUME NEW j \in 1 .. Len(q) - 1, j > i, Terminating(Tail(q)[j])
          PROVE  j + 1 \in 1 .. Len(q) /\ j + 1 > i + 1 /\ Terminating(q[j + 1])
      BY <1>2, <3>3
    <3>. QED
      BY <3>1, <3>2, <3>3
  <2>. QED
    BY <2>2, <2>3 DEF Sequenced
<1>. QED
  BY <1>3, <1>5, <1>6, <1>7

LEMMA EnsureSequenced ==
  ASSUME ClaimInv, Counted', [Next]_vars, NEW d \in Sessions, EnsureStep(d)
  PROVE  Sequenced(d)'
<1>. DEFINE n == NameOf(d)
<1>0. /\ TypeOK /\ HandleInv /\ Counted /\ n \in Names /\ Sequenced(d) /\ SessionInv(d)
      /\ d \in Clients /\ events[d] \in Seq(Event) /\ pods[n] \in Pod \cup {NoPod}
      /\ lastUid[n] \in Nat
  BY NameOfType DEF ClaimInv, HandleInv, TypeInv, TypeOK, Clients
<1>1. CASE EnsureGet(d)
  <2>1. /\ pc[d] = "get" /\ watcher[d] # "on" /\ events[d] = << >>
        /\ got'[d] = pods[n] /\ pc'[d] = Branch(pods[n])
        /\ pods' = pods /\ lastUid' = lastUid /\ events'[d] = << >>
        /\ watcher'[d] = watcher[d]
    BY <1>0, <1>1 DEF EnsureGet, At, Goto, TypeOK, api, session, SessionInv,
                      Discipline, Anchored
  <2>2. /\ Branch(pods[n]) \in {"create", "wait", "refresh", "delete"}
        /\ Branch(pods[n]) = "refresh" => RunningPod(n)
    BY <1>0, NullsAssumption DEF Branch, Pod, Terminal, RunningPod
  <2>3. pods[n] # NoPod => pods[n].uid \in 1 .. lastUid[n]
    BY <1>0 DEF Counted
  <2>4. Dated(d)' /\ Based(d)' /\ Ordered(d)'
    BY <2>1, <2>2, <2>3 DEF Dated, Based, Ordered, RunningPod
  <2>5. Fixed(d)'
    BY <2>1, <2>2 DEF Fixed, OnceRan, RunningPod, TerminationDue
  <2>. QED
    BY <2>4, <2>5 DEF Sequenced
<1>2. CASE EnsureCreate(d)
  <2>0. pc[d] = "create" /\ watcher[d] # "on" /\ events[d] = << >> /\ ~Anchored(d)
    BY <1>0, <1>2 DEF EnsureCreate, At, SessionInv, Discipline, Anchored
  <2>1. CASE pods[n] # NoPod
    BY <1>0, <1>2, <2>0, <2>1, RetryDrops, DropsSequenced DEF EnsureCreate
  <2>2. CASE pods[n] = NoPod
    <3>1. /\ pc'[d] = "wait" /\ events'[d] = << >> /\ watcher'[d] = watcher[d]
          /\ got'[d].uid = lastUid[n] + 1 /\ lastUid'[n] = lastUid[n] + 1
      BY <1>0, <1>2, <2>0, <2>2 DEF EnsureCreate, Goto, Notify, TypeOK
    <3>. QED
      BY <1>0, <2>0, <3>1 DEF Sequenced, Dated, Based, Fixed, Ordered
  <2>. QED
    BY <2>1, <2>2
<1>3. CASE EnsureRefresh(d)
  <2>1. CASE pods[n] = NoPod
    <3>1. StopFrame(d)
      BY <1>3, <2>1 DEF EnsureRefresh, StopFrame, Messages
    <3>. QED
      BY <1>0, <3>1, StopDrops, DropsSequenced
  <2>2. CASE pods[n] # NoPod
    <3>1. Remains(d)
      BY <1>0, <1>3, <2>2 DEF EnsureRefresh, At, Goto, TypeOK, Remains
    <3>. QED
      BY <1>0, <1>3, <2>2, <3>1, RefreshTells, RemainsSequenced
  <2>. QED
    BY <2>1, <2>2
<1>4. CASE EnsureDelete(d)
  <2>1. ~Anchored(d) /\ pc'[d] = "poll" /\ got'[d] = NoPod /\ watcher' = watcher
    BY <1>0, <1>4 DEF EnsureDelete, At, Goto, Anchored, SessionInv, Discipline, TypeOK
  <2>2. events'[d] = events[d]
    BY <1>0, <1>4, <2>1 DEF EnsureDelete, DeleteByName, Notify
  <2>. QED
    BY <1>0, <2>1, <2>2, AwayDrops, DropsSequenced
<1>5. CASE EnsurePoll(d)
  <2>1. pc[d] = "poll" /\ ~Anchored(d) /\ (Retry(d) \/ PollAgain(d))
    BY <1>0, <1>5 DEF EnsurePoll, At, Anchored, SessionInv, Discipline
  <2>. QED
    BY <1>0, <2>1, RetryDrops, PollDrops, DropsSequenced
<1>6. CASE WaitTimeout(d)
  <2>1. StopFrame(d)
    BY <1>6 DEF WaitTimeout, StopFrame, Messages
  <2>. QED
    BY <1>0, <2>1, StopDrops, DropsSequenced
<1>7. CASE StartWatcher(d)
  <2>1. Uses(d)
    BY <1>0, <1>7 DEF StartWatcher, At, Goto, TypeOK, ensure, Uses
  <2>. QED
    BY <2>1, DropsSequenced
<1>. QED
  BY <1>1, <1>2, <1>3, <1>4, <1>5, <1>6, <1>7, WaitSequenced DEF EnsureStep

LEMMA HandleUses ==
  ASSUME HandleInv, NEW d \in Sessions, WatcherStep(d) \/ StreamStep(d)
  PROVE  /\ UNCHANGED <<pods, lastUid>>
         /\ Drops(d) \/ (Uses(d) /\ watcher'[d] = watcher[d]
                                 /\ (TerminationDue(d)' <=> TerminationDue(d)))
<1>0. TypeOK /\ SessionInv(d) /\ d \in Clients /\ events[d] \in Seq(Event)
  BY DEF HandleInv, TypeInv, Clients, TypeOK
<1>1. UNCHANGED <<pods, lastUid>>
  BY DEF WatcherStep, WatcherEvent, WatcherInterrupted, StreamStep, OpenStream,
         StreamEnd, StreamLost, api
<1>2. ASSUME watcher[d] = "on", CloseTerminated(d), pc' = pc, got' = got PROVE Drops(d)
  BY <1>0, <1>2 DEF CloseTerminated, TypeOK, SessionInv, Discipline, Drops
<1>3. CASE WatcherEvent(d)
  <2>1. /\ watcher[d] = "on" /\ events[d] # << >> /\ pc' = pc /\ got' = got
        /\ pc[d] \in {"ready", "stream"}
    BY <1>0, <1>3 DEF WatcherEvent, ensure, SessionInv, Discipline
  <2>2. CASE Terminating(Head(events[d]))
    BY <1>1, <1>2, <1>3, <2>1, <2>2 DEF WatcherEvent
  <2>3. CASE ~Terminating(Head(events[d]))
    <3>1. watcher' = watcher /\ events'[d] = Tail(events[d])
      BY <1>0, <1>3, <2>3 DEF WatcherEvent, TypeOK
    <3>2. /\ Head(events[d]) = events[d][1] /\ Len(events[d]) \in Nat \ {0}
          /\ Len(Tail(events[d])) = Len(events[d]) - 1
          /\ \A i \in 1 .. Len(events[d]) - 1 : Tail(events[d])[i] = events[d][i + 1]
      BY <1>0, <2>1
    <3>3. ASSUME NEW i \in 1 .. Len(events[d]), Terminating(events[d][i])
          PROVE  i - 1 \in 1 .. Len(events[d]) - 1 /\ Tail(events[d])[i - 1] = events[d][i]
      BY <2>3, <3>2, <3>3
    <3>4. ASSUME NEW i \in 1 .. Len(events[d]) - 1
          PROVE  i + 1 \in 1 .. Len(events[d]) /\ Tail(events[d])[i] = events[d][i + 1]
      BY <3>2
    <3>5. TerminationDue(d)' <=> TerminationDue(d)
      BY <3>1, <3>2, <3>3, <3>4 DEF TerminationDue
    <3>6. Uses(d)
      BY <2>1, <3>1 DEF Uses
    <3>. QED
      BY <1>1, <3>1, <3>5, <3>6
  <2>. QED
    BY <2>2, <2>3
<1>4. CASE WatcherInterrupted(d)
  BY <1>1, <1>2, <1>4 DEF WatcherInterrupted, ensure
<1>5. CASE StreamStep(d)
  <2>1. CASE StopFrame(d)
    BY <1>0, <1>1, <2>1, StopDrops
  <2>2. CASE ~StopFrame(d)
    <3>1. /\ UNCHANGED <<got, events, watcher>>
          /\ pc' = [pc EXCEPT ![d] = "stream"] \/ pc' = [pc EXCEPT ![d] = "ready"]
      BY <1>5, <2>2 DEF StreamStep, OpenStream, StreamEnd, StreamLost, StopFrame, Goto,
                        Messages
    <3>2. Uses(d) /\ watcher'[d] = watcher[d] /\ (TerminationDue(d)' <=> TerminationDue(d))
      BY <1>0, <3>1 DEF Uses, TypeOK, TerminationDue
    <3>. QED
      BY <1>1, <3>2
  <2>. QED
    BY <2>1, <2>2
<1>. QED
  BY <1>3, <1>4, <1>5 DEF WatcherStep

LEMMA CommandDrops ==
  ASSUME HandleInv, NEW d \in Sessions, CleanupStep(d) \/ FaultStep(d) \/ Interrupted(d)
  PROVE  \/ WorldStep(d) /\ (watcher[d] # "on" \/ UNCHANGED <<pods, lastUid>>)
         \/ UNCHANGED <<pods, lastUid>> /\ Drops(d)
<1>0. TypeOK /\ SessionInv(d) /\ d \in Clients
  BY DEF HandleInv, TypeInv, Clients
<1>1. CASE CleanupItem(d)
  BY <1>0, <1>1, SweepIsWorld DEF CleanupItem, At, SessionInv, Discipline
<1>2. CASE CleanupDecline(d)
  BY <1>2, ClientsAssumption DEF CleanupDecline
<1>a. ASSUME pc[d] \in {"start", "sweep"}, pc'[d] \in {"sweep", "get"},
             UNCHANGED <<got, session>>
      PROVE  Drops(d)
  <2>1. ~Anchored(d)
    BY <1>0, <1>a DEF SessionInv, Discipline, Anchored
  <2>. QED
    BY <1>0, <1>a, <2>1, AwayDrops DEF session
<1>3. CASE CleanupList(d)
  BY <1>0, <1>3, <1>a DEF CleanupList, At, Goto, TypeOK, ensure, api
<1>5. CASE CleanupReturn(d)
  BY <1>0, <1>5, <1>a DEF CleanupReturn, At, Goto, TypeOK, api
<1>6. CASE ApiError(d)
  <2>1. UNCHANGED <<pods, lastUid>>
    BY <1>6 DEF ApiError, api
  <2>2. CASE pc[d] \in {"start", "sweep"}
    <3>1. pc' = [pc EXCEPT ![d] = "get"] /\ UNCHANGED <<got, session>>
      BY <1>6, <2>2 DEF ApiError, Goto
    <3>. QED
      BY <1>0, <1>a, <2>1, <2>2, <3>1 DEF TypeOK
  <2>3. CASE pc[d] = "poll"
    <3>1. PollAgain(d)
      BY <1>6, <2>3 DEF ApiError
    <3>. QED
      BY <1>0, <2>1, <2>3, <3>1, PollDrops
  <2>4. CASE pc[d] \notin {"start", "sweep", "poll"}
    <3>1. Stop(d, Cluster, "exec stream") \/ Stop(d, Cluster, "api error")
      BY <1>6, <2>4 DEF ApiError
    <3>2. StopFrame(d)
      BY <3>1 DEF StopFrame, Messages
    <3>. QED
      BY <1>0, <2>1, <3>2, StopDrops
  <2>. QED
    BY <2>2, <2>3, <2>4
<1>7. CASE Interrupt(d)
  BY <1>7 DEF Interrupt, WorldStep, Untouched, Quiet, api, ensure, session
<1>8. CASE Kill(d)
  BY <1>0, <1>8 DEF Kill, Goto, TypeOK, Drops, api
<1>9. CASE WatchEnds(d)
  BY <1>0, <1>9 DEF WatchEnds, CloseTerminated, TypeOK, SessionInv, Discipline, Drops,
                    api, ensure
<1>10. CASE Interrupted(d)
  <2>1. StopFrame(d) /\ UNCHANGED <<pods, lastUid>>
    BY <1>10 DEF Interrupted, StopFrame, Messages, api
  <2>. QED
    BY <1>0, <2>1, StopDrops
<1>. QED
  BY <1>1, <1>2, <1>3, <1>5, <1>6, <1>7, <1>8, <1>9, <1>10 DEF CleanupStep, FaultStep

-----------------------------------------------------------------------------
(* The invariant. *)

\* The steps in which no session acts, for any of them.
Outside == Tick \/ AllStopped \/ UNCHANGED vars \/ \E n \in Names : Kubelet(n) \/ ForeignDelete(n)

LEMMA OutsideIsWorld ==
  ASSUME HandleInv, NEW d \in Sessions, Outside
  PROVE  WorldStep(d)
<1>0. TypeOK
  BY DEF HandleInv, TypeInv
<1>1. ASSUME NEW n \in Names, Kubelet(n) PROVE WorldStep(d)
  <2>1. Untouched(d)
    BY <1>1 DEF Kubelet, Untouched, ensure
  <2>. QED
    BY <1>1, <2>1, KubeletTells DEF WorldStep
<1>2. ASSUME NEW n \in Names, ForeignDelete(n) PROVE WorldStep(d)
  <2>1. Untouched(d)
    BY <1>2 DEF ForeignDelete, Untouched, ensure
  <2>. QED
    BY <1>0, <1>2, <2>1, DeleteTells DEF ForeignDelete, WorldStep
<1>3. CASE Tick \/ AllStopped \/ UNCHANGED vars
  BY <1>3 DEF Tick, AllStopped, WorldStep, Untouched, Quiet, vars, api, ensure, session
<1>. QED
  BY <1>1, <1>2, <1>3 DEF Outside

\* Every step is one of the world for all sessions, or for all but one.
Acts(c) == \/ EnsureStep(c) \/ WatcherStep(c) \/ StreamStep(c)
           \/ CleanupStep(c) \/ FaultStep(c) \/ Interrupted(c)

LEMMA ActorOfStep ==
  ASSUME HandleInv, [Next]_vars
  PROVE  \/ \A d \in Sessions : WorldStep(d)
         \/ \E c \in Sessions : Acts(c) /\ \A d \in Sessions \ {c} : WorldStep(d)
<1>1. ASSUME NEW c \in Clients, CleanupStep(c) \/ Interrupted(c) \/ FaultStep(c)
      PROVE  \A d \in Sessions \ {c} : WorldStep(d)
  BY <1>1, CommandAside
<1>2. ASSUME NEW c \in Sessions, EnsureStep(c) \/ WatcherStep(c) \/ StreamStep(c)
      PROVE  \A d \in Sessions \ {c} : WorldStep(d)
  BY <1>2, EnsureAside, HandleAside
<1>3. ASSUME Outside PROVE \A d \in Sessions : WorldStep(d)
  BY <1>3, OutsideIsWorld
<1>4. \/ Outside
      \/ \E c \in Clients : CleanupStep(c) \/ Interrupted(c) \/ FaultStep(c)
      \/ \E c \in Sessions : EnsureStep(c) \/ WatcherStep(c) \/ StreamStep(c)
  BY DEF Next, Outside
<1>. QED
  BY <1>1, <1>2, <1>3, <1>4 DEF Acts

LEMMA ActsSequenced ==
  ASSUME ClaimInv, Counted', [Next]_vars, NEW d \in Sessions, Acts(d)
  PROVE  Sequenced(d)'
<1>0. HandleInv
  BY DEF ClaimInv
<1>. QED
  BY <1>0, EnsureSequenced, HandleUses, CommandDrops, DropsSequenced, WorldSequenced DEF Acts

LEMMA ClaimInvInit == Init => ClaimInv
<1>. SUFFICES ASSUME Init PROVE ClaimInv
  OBVIOUS
<1>1. ASSUME NEW n \in Names, pods[n] # NoPod PROVE pods[n].uid = 1 /\ lastUid[n] = 1
  BY <1>1 DEF Init, Leftover
<1>2. ASSUME NEW d \in Sessions PROVE Sequenced(d)
  <2>1. pc[d] = "start" /\ watcher[d] = "off" /\ events[d] = << >> /\ got[d] = NoPod
    BY DEF Init, Clients
  <2>. QED
    BY <2>1 DEF Sequenced, Dated, Based, Fixed, Ordered
<1>. QED
  BY <1>1, <1>2, HandleInvInit DEF ClaimInv, Counted

LEMMA ClaimInvStep ==
  ASSUME ClaimInv, [Next]_vars
  PROVE  ClaimInv'
<1>0. HandleInv /\ TypeOK /\ Counted
  BY DEF ClaimInv, HandleInv, TypeInv
<1>1. HandleInv' /\ Counted'
  BY <1>0, HandleInvStep, CountedStep
<1>2. \A d \in Sessions : Sequenced(d)'
  BY <1>0, <1>1, ActorOfStep, ActsSequenced, WorldSequenced
<1>. QED
  BY <1>1, <1>2 DEF ClaimInv

LEMMA ClaimInvariant == Spec => []ClaimInv
BY ClaimInvInit, ClaimInvStep, PTL DEF Spec

-----------------------------------------------------------------------------
(* The simulation. *)

\* What an abstract step may do to the claim of a session.
Honoured(d) ==
  /\ ClaimOf(d)' = ClaimOf(d)
  /\ DueOf(d)' = (DueOf(d) \/ /\ StateOf(NameOf(d)) # "over" /\ StateOf(NameOf(d))' = "over"
                              /\ ClaimOf(d) = lastUid[NameOf(d)])

Claimed(d) ==
  /\ ClaimOf(d) = 0 /\ ClaimOf(d)' \in 1 .. lastUid[NameOf(d)]
  /\ DueOf(d)' = ~(ClaimOf(d)' = lastUid[NameOf(d)] /\ StateOf(NameOf(d)) = "running")

Released(d) == ClaimOf(d) # 0 /\ ClaimOf(d)' = 0 /\ DueOf(d)' = FALSE

\* A session without a watcher before and after.
LEMMA IdleHonoured ==
  ASSUME Counted, NEW d \in Sessions, watcher[d] # "on", watcher'[d] # "on"
  PROVE  Honoured(d)
<1>1. StateOf(NameOf(d)) # "over" => lastUid[NameOf(d)] # 0
  BY NameOfType DEF Counted, StateOf
<1>2. ClaimOf(d) = 0 /\ ClaimOf(d)' = 0 /\ DueOf(d) = FALSE /\ DueOf(d)' = FALSE
  BY DEF ClaimOf, DueOf
<1>. QED
  BY <1>1, <1>2 DEF Honoured

\* The incarnation of a handle is known, and its end is due or has not come.
LEMMA HandleSound ==
  ASSUME ClaimInv, NEW d \in Sessions, pc[d] = "watch" \/ watcher[d] = "on"
  PROVE  /\ got[d] # NoPod /\ got[d].uid \in 1 .. lastUid[NameOf(d)]
         /\ lastUid[NameOf(d)] \in Nat
         /\ Alive(d) => got[d].uid = lastUid[NameOf(d)] /\ StateOf(NameOf(d)) = "running"
         /\ got[d].uid = lastUid[NameOf(d)] /\ StateOf(NameOf(d)) = "running" => Alive(d)
         /\ Alive(d) \/ TerminationDue(d)
<1>. DEFINE n == NameOf(d)
<1>1. /\ n \in Names /\ lastUid[n] \in Nat /\ pods[n] \in Pod \cup {NoPod}
      /\ Counted /\ SessionInv(d) /\ Sequenced(d)
  BY NameOfType DEF ClaimInv, HandleInv, TypeInv, TypeOK
<1>2. got[d] # NoPod /\ got[d].uid \in 1 .. lastUid[n] /\ (Alive(d) \/ TerminationDue(d))
  BY <1>1 DEF Sequenced, Based, Dated, SessionInv, Held
<1>3. /\ RunningPod(n) <=> StateOf(n) = "running"
      /\ pods[n] # NoPod => pods[n].uid = lastUid[n]
  BY <1>1 DEF StateOf, RunningPod, Pod, Terminal, Counted
<1>. QED
  BY <1>1, <1>2, <1>3 DEF Alive, RunningPod

LEMMA WorldHonours ==
  ASSUME ClaimInv, ClaimInv', NEW d \in Sessions, WorldStep(d)
  PROVE  Honoured(d)
<1>. DEFINE n == NameOf(d)
<1>0. /\ Counted /\ TypeOK /\ n \in Names /\ events[d] \in Seq(Event)
      /\ watcher'[d] = watcher[d] /\ got'[d] = got[d]
  BY NameOfType DEF ClaimInv, HandleInv, TypeInv, TypeOK, Clients, WorldStep, Untouched
<1>1. CASE watcher[d] # "on"
  BY <1>0, <1>1, IdleHonoured
<1>2. CASE watcher[d] = "on"
  <2>1. ClaimOf(d) = got[d].uid /\ ClaimOf(d)' = got[d].uid
    BY <1>0, <1>2 DEF ClaimOf
  <2>2. (DueOf(d) <=> TerminationDue(d)) /\ (DueOf(d)' <=> TerminationDue(d)')
    BY <1>0, <1>2 DEF DueOf
  <2>3. /\ TerminationDue(d) => TerminationDue(d)'
        /\ TerminationDue(d)' /\ ~TerminationDue(d) => StateOf(n)' = "over"
    <3>1. CASE Quiet(d)
      BY <3>1 DEF Quiet, TerminationDue
    <3>2. CASE Told(d)
      <4>1. PICK e \in Event : Change(n, e) /\ events'[d] = Append(events[d], e)
        BY <1>2, <3>2 DEF Told, Anchored
      <4>2. /\ Len(events'[d]) = Len(events[d]) + 1 /\ Len(events[d]) \in Nat
            /\ events'[d][Len(events[d]) + 1] = e
            /\ \A i \in 1 .. Len(events[d]) : events'[d][i] = events[d][i]
        BY <1>0, <4>1
      <4>3. Terminating(e) => StateOf(n)' = "over"
        BY <1>0, <4>1, TerminatingEnds
      <4>4. TerminationDue(d) => TerminationDue(d)'
        BY <4>2 DEF TerminationDue
      <4>5. TerminationDue(d)' => TerminationDue(d) \/ Terminating(e)
        BY <4>2 DEF TerminationDue
      <4>. QED
        BY <4>3, <4>4, <4>5
    <3>. QED
      BY <3>1, <3>2 DEF WorldStep
  <2>4. \/ TerminationDue(d)
        \/ got[d].uid = lastUid[n] /\ StateOf(n) = "running"
    BY <1>2, HandleSound
  <2>5. TerminationDue(d)' \/ StateOf(n)' = "running"
    <3>1. watcher'[d] = "on"
      BY <1>0, <1>2
    <3>2. Alive(d)' \/ TerminationDue(d)'
      BY <3>1 DEF ClaimInv, HandleInv, SessionInv, Held
    <3>3. Alive(d)' => StateOf(n)' = "running"
      BY DEF Alive, RunningPod, StateOf, Terminal
    <3>. QED
      BY <3>2, <3>3
  <2>6. DueOf(d)' = (DueOf(d) \/ /\ StateOf(n) # "over" /\ StateOf(n)' = "over"
                                 /\ ClaimOf(d) = lastUid[n])
    <3>1. DueOf(d) \in BOOLEAN /\ DueOf(d)' \in BOOLEAN
      BY DEF DueOf
    <3>2. DueOf(d)' <=> (DueOf(d) \/ /\ StateOf(n) # "over" /\ StateOf(n)' = "over"
                                     /\ ClaimOf(d) = lastUid[n])
      BY <2>1, <2>2, <2>3, <2>4, <2>5
    <3>. QED
      BY <3>1, <3>2
  <2>. QED
    BY <2>1, <2>6 DEF Honoured
<1>. QED
  BY <1>1, <1>2

LEMMA ActsHonours ==
  ASSUME ClaimInv, ClaimInv', NEW d \in Sessions, Acts(d)
  PROVE  \/ Honoured(d)
         \/ UNCHANGED <<pods, lastUid>> /\ (Claimed(d) \/ Released(d))
<1>. DEFINE n == NameOf(d)
<1>0. /\ HandleInv /\ Counted /\ TypeOK /\ n \in Names /\ d \in Clients
      /\ SessionInv(d) /\ Sequenced(d)
  BY NameOfType DEF ClaimInv, HandleInv, TypeInv, Clients
<1>1. ASSUME Drops(d), UNCHANGED <<pods, lastUid>>
      PROVE  Honoured(d) \/ (UNCHANGED <<pods, lastUid>> /\ Released(d))
  <2>1. CASE watcher[d] # "on"
    BY <1>0, <1>1, <2>1, IdleHonoured DEF Drops
  <2>2. CASE watcher[d] = "on"
    <3>1. got[d].uid # 0
      BY <2>2, HandleSound
    <3>. QED
      BY <1>1, <2>2, <3>1 DEF Drops, Released, ClaimOf, DueOf
  <2>. QED
    BY <2>1, <2>2
<1>2. CASE StartWatcher(d)
  <2>1. /\ pc[d] = "watch" /\ watcher[d] # "on" /\ watcher'[d] = "on"
        /\ got' = got /\ events' = events /\ pods' = pods /\ lastUid' = lastUid
    BY <1>0, <1>2 DEF StartWatcher, At, TypeOK, api, ensure, SessionInv, Discipline
  <2>2. ClaimOf(d) = 0 /\ ClaimOf(d)' = got[d].uid
    BY <2>1 DEF ClaimOf
  <2>3. DueOf(d)' = TerminationDue(d)
    BY <2>1 DEF DueOf, TerminationDue
  <2>4. TerminationDue(d) => ~Alive(d)
    BY <1>0, <2>1 DEF Sequenced, Fixed, Alive, RunningAs
  <2>5. TerminationDue(d) = ~(got[d].uid = lastUid[n] /\ StateOf(n) = "running")
    <3>1. TerminationDue(d) <=> ~(got[d].uid = lastUid[n] /\ StateOf(n) = "running")
      BY <2>1, <2>4, HandleSound
    <3>. QED
      BY <3>1 DEF TerminationDue
  <2>6. got[d].uid \in 1 .. lastUid[n]
    BY <2>1, HandleSound
  <2>. QED
    BY <2>1, <2>2, <2>3, <2>5, <2>6 DEF Claimed
<1>3. CASE EnsureStep(d) /\ ~StartWatcher(d)
  <2>1. watcher[d] # "on"
    BY <1>0, <1>3 DEF EnsureStep, EnsureGet, EnsureCreate, EnsureRefresh, EnsureDelete,
                      EnsurePoll, WaitEvent, WaitTimeout, At, SessionInv, Discipline
  <2>2. CASE StopFrame(d)
    BY <1>0, <2>1, <2>2, StopDrops, IdleHonoured DEF Drops
  <2>3. CASE ~StopFrame(d)
    <3>1. watcher' = watcher
      <4>1. CASE WaitEvent(d)
        <5>1. events[d] \in Seq(Event) /\ events[d] # << >>
          BY <1>0, <4>1 DEF WaitEvent, TypeOK
        <5>2. Head(events[d]).pod.phase \in {"Running", "Pending"} \cup Terminal
          <6>1. Head(events[d]) \in Event
            BY <5>1
          <6>. QED
            BY <6>1 DEF Event, Pod
        <5>. QED
          BY <2>3, <4>1, <5>2 DEF WaitEvent, StopFrame, Terminal, Messages
      <4>2. CASE ~WaitEvent(d)
        BY <1>3, <2>3, <4>2 DEF EnsureStep, EnsureGet, EnsureCreate, EnsureRefresh,
                                EnsureDelete, EnsurePoll, WaitTimeout, PollAgain, Retry,
                                StopFrame, Messages, session
      <4>. QED
        BY <4>1, <4>2
    <3>. QED
      BY <1>0, <2>1, <3>1, IdleHonoured
  <2>. QED
    BY <2>2, <2>3
<1>4. CASE WatcherStep(d) \/ StreamStep(d)
  <2>1. CASE Drops(d)
    BY <1>0, <1>1, <1>4, <2>1, HandleUses
  <2>2. CASE ~Drops(d)
    <3>1. /\ UNCHANGED <<pods, lastUid>> /\ got'[d] = got[d] /\ watcher'[d] = watcher[d]
          /\ TerminationDue(d)' <=> TerminationDue(d)
      BY <1>0, <1>4, <2>2, HandleUses DEF Uses
    <3>2. ClaimOf(d)' = ClaimOf(d) /\ DueOf(d)' = DueOf(d) /\ StateOf(n)' = StateOf(n)
      BY <3>1 DEF ClaimOf, DueOf, StateOf, TerminationDue
    <3>. QED
      BY <3>2 DEF Honoured, DueOf
  <2>. QED
    BY <2>1, <2>2
<1>5. CASE CleanupStep(d) \/ FaultStep(d) \/ Interrupted(d)
  BY <1>0, <1>1, <1>5, CommandDrops, WorldHonours
<1>. QED
  BY <1>2, <1>3, <1>4, <1>5 DEF Acts

\* Sessions move one at a time, and with the pods only as PodClaim says.
LEMMA ClaimsOfStep ==
  ASSUME ClaimInv, [Next]_vars
  PROVE  \/ \A d \in Sessions : Honoured(d)
         \/ \E c \in Sessions : /\ UNCHANGED <<pods, lastUid>> /\ (Claimed(c) \/ Released(c))
                                /\ \A d \in Sessions \ {c} : Honoured(d)
<1>1. ClaimInv' /\ HandleInv
  BY ClaimInvStep DEF ClaimInv
<1>2. \A d \in Sessions : WorldStep(d) => Honoured(d)
  BY <1>1, WorldHonours
<1>3. ASSUME NEW c \in Sessions, Acts(c)
      PROVE  Honoured(c) \/ (UNCHANGED <<pods, lastUid>> /\ (Claimed(c) \/ Released(c)))
  BY <1>1, <1>3, ActsHonours
<1>. QED
  BY <1>1, <1>2, <1>3, ActorOfStep

StateFun == [n \in Names |-> StateOf(n)]
ClaimFun == [c \in Sessions |-> ClaimOf(c)]
DueFun   == [c \in Sessions |-> DueOf(c)]

\* The functions after a step in which all claims are honoured.
LEMMA HonouredFuns ==
  ASSUME \A d \in Sessions : Honoured(d), NEW n \in Names,
         \A m \in Names \ {n} : StateOf(m)' = StateOf(m)
  PROVE  /\ ClaimFun' = ClaimFun
         /\ StateFun' = [StateFun EXCEPT ![n] = StateOf(n)']
         /\ StateOf(n) = "over" \/ StateOf(n)' # "over" => DueFun' = DueFun
         /\ StateOf(n) # "over" /\ StateOf(n)' = "over" =>
              DueFun' = [d \in Sessions |->
                           DueFun[d] \/ (NameOf(d) = n /\ ClaimFun[d] = lastUid[n])]
<1>1. \A d \in Sessions : NameOf(d) \in Names
  BY NameOfType
<1>2. ClaimFun' = ClaimFun
  BY DEF ClaimFun, Honoured
<1>3. StateFun' = [StateFun EXCEPT ![n] = StateOf(n)']
  BY DEF StateFun
<1>4. \A d \in Sessions : DueOf(d) \in BOOLEAN
  BY DEF DueOf
<1>5. ASSUME StateOf(n) = "over" \/ StateOf(n)' # "over" PROVE DueFun' = DueFun
  <2>1. \A d \in Sessions : DueOf(d)' = DueOf(d)
    BY <1>1, <1>4, <1>5 DEF Honoured
  <2>. QED
    BY <2>1 DEF DueFun
<1>6. ASSUME StateOf(n) # "over", StateOf(n)' = "over"
      PROVE  DueFun' = [d \in Sessions |->
                          DueFun[d] \/ (NameOf(d) = n /\ ClaimFun[d] = lastUid[n])]
  <2>1. \A d \in Sessions :
          DueOf(d)' = (DueOf(d) \/ (NameOf(d) = n /\ ClaimOf(d) = lastUid[n]))
    BY <1>1, <1>4, <1>6 DEF Honoured
  <2>. QED
    BY <2>1 DEF DueFun, ClaimFun
<1>. QED
  BY <1>2, <1>3, <1>5, <1>6

LEMMA SimulatesInit ==
  ASSUME Init
  PROVE  Claims!Init
<1>1. \A n \in Names : /\ lastUid[n] \in {0, 1}
                       /\ StateOf(n) \in {"starting", "running", "over"}
                       /\ lastUid[n] = 0 => StateOf(n) = "over"
  <2>. SUFFICES ASSUME NEW n \in Names
                PROVE  /\ lastUid[n] \in {0, 1}
                       /\ StateOf(n) \in {"starting", "running", "over"}
                       /\ lastUid[n] = 0 => StateOf(n) = "over"
    OBVIOUS
  <2>1. pods[n] \in Leftover(n) \cup {NoPod} /\ lastUid[n] = IF pods[n] = NoPod THEN 0 ELSE 1
    BY DEF Init
  <2>2. pods[n] # NoPod => pods[n].phase \in {"Pending", "Running"} \cup Terminal
    BY <2>1 DEF Leftover
  <2>. QED
    BY <2>1, <2>2 DEF StateOf
<1>2. \A d \in Sessions : ClaimOf(d) = 0 /\ DueOf(d) = FALSE
  BY DEF Init, ClaimOf, DueOf, Clients
<1>3. lastUid \in [Names -> {0, 1}]
  BY <1>1 DEF Init
<1>. QED
  BY <1>1, <1>2, <1>3 DEF Claims!Init

LEMMA SimulatesStep ==
  ASSUME ClaimInv, [Next]_vars
  PROVE  [Claims!Next]_(Claims!cvars)
<1>. DEFINE Abstract == Claims!Next \/ UNCHANGED Claims!cvars
<1>0. /\ TypeOK /\ Counted
      /\ lastUid \in [Names -> Nat] /\ lastUid' \in [Names -> Nat]
      /\ \A n \in Names : pods[n] \in Pod \cup {NoPod}
  <2>1. TypeInv'
    BY TypeInvStep DEF ClaimInv, HandleInv
  <2>. QED
    BY <2>1 DEF ClaimInv, HandleInv, TypeInv, TypeOK
<1>a. ASSUME NEW m \in Names, pods'[m] = pods[m] PROVE StateOf(m)' = StateOf(m)
  BY <1>a DEF StateOf
<1>1. ASSUME NEW c \in Sessions, UNCHANGED <<pods, lastUid>>, Claimed(c) \/ Released(c),
             \A d \in Sessions \ {c} : Honoured(d)
      PROVE  Abstract
  <2>1. \A n \in Names : StateOf(n)' = StateOf(n)
    BY <1>1, <1>a
  <2>2. StateFun' = StateFun
    BY <2>1 DEF StateFun
  <2>3. \A d \in Sessions \ {c} : ClaimOf(d)' = ClaimOf(d) /\ DueOf(d)' = DueOf(d)
    <3>1. \A d \in Sessions : DueOf(d) \in BOOLEAN
      BY DEF DueOf
    <3>. QED
      BY <1>1, <2>1, <3>1, NameOfType DEF Honoured
  <2>4. /\ ClaimFun' = [ClaimFun EXCEPT ![c] = ClaimOf(c)']
        /\ DueFun' = [DueFun EXCEPT ![c] = DueOf(c)']
    BY <2>3 DEF ClaimFun, DueFun
  <2>5. CASE Claimed(c)
    <3>1. Claims!Claim(c)
      BY <1>1, <2>2, <2>4, <2>5, NameOfType
         DEF Claims!Claim, Claimed, ClaimFun, DueFun, StateFun, DueOf
    <3>. QED
      BY <3>1 DEF Claims!Next
  <2>6. CASE Released(c)
    <3>1. Claims!Release(c)
      BY <1>1, <2>2, <2>4, <2>6 DEF Claims!Release, Released, ClaimFun, DueFun, StateFun
    <3>. QED
      BY <3>1 DEF Claims!Next
  <2>. QED
    BY <1>1, <2>5, <2>6
<1>2. ASSUME AllKept, \A d \in Sessions : Honoured(d) PROVE Abstract
  <2>1. \A n \in Names : StateOf(n)' = StateOf(n)
    BY <1>2, <1>a DEF AllKept, Kept
  <2>2. lastUid' = lastUid
    BY <1>0, <1>2 DEF AllKept, Kept
  <2>3. \A d \in Sessions : ClaimOf(d)' = ClaimOf(d) /\ DueOf(d)' = DueOf(d)
    <3>1. \A d \in Sessions : DueOf(d) \in BOOLEAN
      BY DEF DueOf
    <3>. QED
      BY <1>2, <2>1, <3>1, NameOfType DEF Honoured
  <2>. QED
    BY <2>1, <2>2, <2>3 DEF Claims!cvars
<1>3. ASSUME NEW n \in Names, OneMoves(n), \A d \in Sessions : Honoured(d) PROVE Abstract
  <2>1. \A m \in Names \ {n} : StateOf(m)' = StateOf(m) /\ lastUid'[m] = lastUid[m]
    BY <1>3, <1>a DEF OneMoves, Kept
  <2>2. /\ ClaimFun' = ClaimFun
        /\ StateFun' = [StateFun EXCEPT ![n] = StateOf(n)']
        /\ StateOf(n) = "over" \/ StateOf(n)' # "over" => DueFun' = DueFun
        /\ StateOf(n) # "over" /\ StateOf(n)' = "over" =>
             DueFun' = [d \in Sessions |->
                          DueFun[d] \/ (NameOf(d) = n /\ ClaimFun[d] = lastUid[n])]
    BY <1>3, <2>1, HonouredFuns
  <2>3. CASE Born(n)
    <3>1. StateOf(n) = "over" /\ StateOf(n)' = "starting"
      BY <2>3, NullsAssumption DEF Born, StateOf, Terminal
    <3>2. lastUid' = [lastUid EXCEPT ![n] = @ + 1]
      BY <1>0, <2>1, <2>3 DEF Born
    <3>3. Claims!Begin(n)
      BY <2>2, <3>1, <3>2 DEF Claims!Begin, StateFun, ClaimFun, DueFun
    <3>. QED
      BY <3>3 DEF Claims!Next
  <2>4. CASE Gone(n) \/ Moved(n)
    <3>1. lastUid' = lastUid
      BY <1>0, <2>1, <2>4 DEF Gone, Moved
    <3>2. \/ StateOf(n)' = StateOf(n)
          \/ StateOf(n) = "starting" /\ StateOf(n)' = "running"
          \/ StateOf(n) # "over" /\ StateOf(n)' = "over"
      BY <1>0, <2>4, NullsAssumption DEF Gone, Moved, Forward, StateOf, Terminal, Pod
    <3>3. CASE StateOf(n)' = StateOf(n)
      <4>1. StateFun' = StateFun /\ DueFun' = DueFun
        BY <2>2, <3>3 DEF StateFun
      <4>. QED
        BY <2>2, <3>1, <4>1 DEF Claims!cvars, StateFun, ClaimFun, DueFun
    <3>4. CASE StateOf(n) = "starting" /\ StateOf(n)' = "running"
      <4>1. Claims!Run(n)
        BY <2>2, <3>1, <3>4 DEF Claims!Run, StateFun, ClaimFun, DueFun
      <4>. QED
        BY <4>1 DEF Claims!Next
    <3>5. CASE StateOf(n) # "over" /\ StateOf(n)' = "over"
      <4>1. Claims!End(n)
        BY <2>2, <3>1, <3>5 DEF Claims!End, StateFun, ClaimFun, DueFun
      <4>. QED
        BY <4>1 DEF Claims!Next
    <3>. QED
      BY <3>2, <3>3, <3>4, <3>5
  <2>. QED
    BY <1>3, <2>3, <2>4 DEF OneMoves
<1>. QED
  BY <1>0, <1>1, <1>2, <1>3, ClaimsOfStep, PodsOfStep

\* lifecycle.go, exec.go, cleanup.go: whatever sessions, cleanups, the kubelet
\* and faults do together, to the holders of handles it is a pod that begins,
\* runs and ends, with a notice of the end to each of them.
THEOREM HandlesAreClaims == Spec => ClaimSafe
BY SimulatesInit, SimulatesStep, ClaimInvariant, PTL DEF Spec, ClaimSafe, Claims!Spec

\* lifecycle.go:220-268: a claim without a notice coming is a claim on a pod that
\* runs, the latest of its name; so PodClaim promises its holders no more than
\* what they have.
THEOREM ClaimsAreSound == Spec => []Claims!ClaimSound
<1>1. ClaimInv => Claims!ClaimSound
  <2>. SUFFICES ASSUME ClaimInv, NEW c \in Sessions, ClaimOf(c) # 0, ~DueOf(c)
                PROVE  ClaimOf(c) = lastUid[NameOf(c)] /\ StateOf(NameOf(c)) = "running"
    <3>1. \A c \in Sessions : NameOf(c) \in Names
      BY NameOfType
    <3>. QED
      BY <3>1 DEF Claims!ClaimSound
  <2>1. watcher[c] = "on" /\ ClaimOf(c) = got[c].uid /\ ~TerminationDue(c)
    BY DEF ClaimOf, DueOf
  <2>2. Alive(c)
    BY <2>1 DEF ClaimInv, HandleInv, SessionInv, Held
  <2>3. NameOf(c) \in Names
    BY NameOfType
  <2>4. pods[NameOf(c)] # NoPod /\ pods[NameOf(c)].phase = "Running"
    BY <2>2 DEF Alive, RunningPod
  <2>5. StateOf(NameOf(c)) = "running"
    BY <2>4 DEF StateOf, Terminal
  <2>. QED
    BY <2>1, <2>2, <2>3, <2>4, <2>5 DEF ClaimInv, Counted, Alive
<1>. QED
  BY <1>1, ClaimInvariant, PTL

-----------------------------------------------------------------------------
(* The course of a session through Ensure.                                 *)

Rests(d) == /\ pc'[d] = pc[d] /\ polls'[d] = polls[d]
            /\ attempt'[d] = attempt[d] /\ result'[d] = result[d]

\* Outside of Ensure, where it ends with an error that is no lost race.
Quits(d) == /\ attempt'[d] = attempt[d] /\ pc'[d] \notin Ensuring
            /\ pc'[d] = "done" => result'[d].code # Internal

\* From call to call within one attempt.
Advances(d) ==
  /\ attempt'[d] = attempt[d]
  /\ \/ pc[d] \notin Ensuring /\ pc'[d] = "get"
     \/ pc[d] = "get" /\ pc'[d] = Branch(pods[NameOf(d)]) /\ Kept(NameOf(d))
     \/ pc[d] = "create" /\ pc'[d] = "wait"
     \/ pc[d] \in {"refresh", "wait"} /\ pc'[d] = "watch"
     \/ pc[d] = "delete" /\ pc'[d] = "poll" /\ polls'[d] = 0 /\ pods'[NameOf(d)] = NoPod
     \/ /\ pc[d] = "poll" /\ pc'[d] = "poll"
        /\ polls'[d] = polls[d] + 1 /\ polls'[d] < MaxPolls

\* A lost attempt: another one, or none.
Loses(d) ==
  /\ \/ pc[d] = "create" /\ pods[NameOf(d)] # NoPod
     \/ pc[d] = "poll" /\ pods[NameOf(d)] = NoPod
  /\ Kept(NameOf(d))
  /\ \/ attempt[d] < Attempts /\ attempt'[d] = attempt[d] + 1 /\ pc'[d] = "get"
     \/ attempt[d] = Attempts /\ attempt'[d] = attempt[d] /\ pc'[d] = "done"

Course(d) == Rests(d) \/ Quits(d) \/ Advances(d) \/ Loses(d)

\* A step of a client is seen by itself only.
Beside(c) == \A d \in Clients \ {c} : Rests(d)

LEMMA OtherCodes == {OK, User, Cluster, Node, Sigint} \subseteq Codes \ {Internal}
BY DEF Codes, OK, User, Cluster, Node, Internal, Sigint

LEMMA StopCourse ==
  ASSUME TypeOK, NEW c \in Clients, NEW code \in Codes \ {Internal}, NEW msg,
         Stop(c, code, msg), attempt' = attempt,
         \A d \in Clients \ {c} : polls'[d] = polls[d]
  PROVE  Quits(c) /\ Beside(c)
<1>1. /\ pc' = [pc EXCEPT ![c] = "done"]
      /\ result' = [result EXCEPT ![c] = [code |-> code, msg |-> msg]]
  BY DEF Stop, Goto
<1>2. /\ pc'[c] = "done" /\ result'[c].code = code
      /\ \A d \in Clients \ {c} : pc'[d] = pc[d] /\ result'[d] = result[d]
  BY <1>1 DEF TypeOK
<1>. QED
  BY <1>2 DEF Quits, Beside, Rests, Ensuring

LEMMA GotoCourse ==
  ASSUME TypeOK, NEW c \in Clients, NEW l, Goto(c, l), result' = result, attempt' = attempt,
         polls' = polls
  PROVE  pc'[c] = l /\ Beside(c)
BY DEF Goto, TypeOK, Beside, Rests

LEMMA AgainCourse ==
  ASSUME TypeOK, NEW c \in Clients, pc[c] = "poll", PollAgain(c)
  PROVE  (Quits(c) \/ Advances(c)) /\ Beside(c)
<1>1. /\ polls' = [polls EXCEPT ![c] = @ + 1] /\ attempt' = attempt
      /\ IF polls[c] + 1 < MaxPolls
           THEN UNCHANGED <<pc, result, got, session>>
           ELSE Stop(c, Cluster, "timeout waiting gone")
  BY DEF PollAgain
<1>2. polls'[c] = polls[c] + 1 /\ \A d \in Clients \ {c} : polls'[d] = polls[d]
  BY <1>1 DEF TypeOK
<1>3. CASE Stop(c, Cluster, "timeout waiting gone")
  <2>1. Cluster \in Codes \ {Internal}
    BY OtherCodes
  <2>. QED
    BY <1>1, <1>2, <1>3, <2>1, StopCourse
<1>4. CASE polls[c] + 1 < MaxPolls /\ UNCHANGED <<pc, result>>
  BY <1>1, <1>2, <1>4 DEF Advances, Beside, Rests
<1>. QED
  BY <1>1, <1>3, <1>4

LEMMA RetryCourse ==
  ASSUME TypeOK, NEW c \in Clients, Retry(c), polls' = polls, Kept(NameOf(c)),
         \/ pc[c] = "create" /\ pods[NameOf(c)] # NoPod
         \/ pc[c] = "poll" /\ pods[NameOf(c)] = NoPod
  PROVE  Loses(c) /\ Beside(c)
<1>1. attempt \in [Clients -> 1 .. 3] /\ attempt[c] \in 1 .. 3 /\ Attempts = 3
  BY DEF TypeOK, Attempts
<1>2. CASE attempt[c] < Attempts
  <2>1. /\ attempt' = [attempt EXCEPT ![c] = @ + 1] /\ result' = result
        /\ pc' = [pc EXCEPT ![c] = "get"]
    BY <1>2 DEF Retry, Goto
  <2>2. attempt'[c] = attempt[c] + 1 /\ pc'[c] = "get"
    BY <1>1, <2>1 DEF TypeOK
  <2>3. Beside(c)
    BY <1>1, <2>1 DEF TypeOK, Beside, Rests
  <2>. QED
    BY <1>2, <2>2, <2>3 DEF Loses
<1>3. CASE ~(attempt[c] < Attempts)
  <2>1. /\ attempt' = attempt /\ attempt[c] = Attempts
        /\ pc' = [pc EXCEPT ![c] = "done"]
        /\ result' = [result EXCEPT ![c] = [code |-> Internal, msg |-> "too many race retries"]]
    <3>1. attempt[c] = Attempts
      BY <1>1, <1>3
    <3>. QED
      BY <1>3, <3>1 DEF Retry, Stop, Goto
  <2>2. pc'[c] = "done" /\ Beside(c)
    BY <2>1 DEF TypeOK, Beside, Rests
  <2>. QED
    BY <2>1, <2>2 DEF Loses
<1>. QED
  BY <1>2, <1>3

LEMMA EnsureCourse ==
  ASSUME TypeOK, NEW c \in Sessions, EnsureStep(c)
  PROVE  Course(c) /\ Beside(c)
<1>. DEFINE n == NameOf(c)
<1>0. c \in Clients /\ n \in Names /\ polls \in [Clients -> 0 .. MaxPolls]
  BY NameOfType DEF Clients, TypeOK
<1>1. CASE EnsureGet(c)
  <2>1. /\ pc[c] = "get" /\ Goto(c, Branch(pods[n])) /\ Kept(n)
        /\ UNCHANGED <<result, attempt, polls>>
    BY <1>1 DEF EnsureGet, At, Kept, api
  <2>. QED
    BY <1>0, <2>1, GotoCourse DEF Course, Advances
<1>2. CASE EnsureCreate(c)
  <2>1. CASE pods[n] # NoPod
    <3>1. Retry(c) /\ polls' = polls /\ Kept(n) /\ pc[c] = "create"
      BY <1>2, <2>1 DEF EnsureCreate, At, Kept, api
    <3>. QED
      BY <1>0, <2>1, <3>1, RetryCourse DEF Course
  <2>2. CASE pods[n] = NoPod
    <3>1. pc[c] = "create" /\ Goto(c, "wait") /\ UNCHANGED <<result, attempt, polls>>
      BY <1>2, <2>2 DEF EnsureCreate, At
    <3>. QED
      BY <1>0, <3>1, GotoCourse DEF Course, Advances
  <2>. QED
    BY <2>1, <2>2
<1>3. CASE EnsureRefresh(c)
  <2>1. CASE pods[n] = NoPod
    BY <1>0, <1>3, <2>1, OtherCodes, StopCourse DEF EnsureRefresh, Course
  <2>2. CASE pods[n] # NoPod
    <3>1. pc[c] = "refresh" /\ Goto(c, "watch") /\ UNCHANGED <<result, attempt, polls>>
      BY <1>3, <2>2 DEF EnsureRefresh, At
    <3>. QED
      BY <1>0, <3>1, GotoCourse DEF Course, Advances
  <2>. QED
    BY <2>1, <2>2
<1>4. CASE EnsureDelete(c)
  <2>1. /\ pc[c] = "delete" /\ pc' = [pc EXCEPT ![c] = "poll"]
        /\ polls' = [polls EXCEPT ![c] = 0] /\ UNCHANGED <<result, attempt>>
        /\ pods' = [pods EXCEPT ![n] = NoPod]
    BY <1>4 DEF EnsureDelete, At, Goto, DeleteByName
  <2>2. pc'[c] = "poll" /\ polls'[c] = 0 /\ attempt'[c] = attempt[c] /\ pods'[n] = NoPod
    BY <1>0, <2>1 DEF TypeOK
  <2>3. Beside(c)
    BY <2>1 DEF TypeOK, Beside, Rests
  <2>. QED
    BY <2>1, <2>2, <2>3 DEF Course, Advances
<1>5. CASE EnsurePoll(c)
  <2>1. pc[c] = "poll" /\ Kept(n)
    BY <1>5 DEF EnsurePoll, At, Kept, api
  <2>2. CASE pods[n] = NoPod
    BY <1>0, <1>5, <2>1, <2>2, RetryCourse DEF EnsurePoll, Course
  <2>3. CASE pods[n] # NoPod
    BY <1>0, <1>5, <2>1, <2>3, AgainCourse DEF EnsurePoll, Course
  <2>. QED
    BY <2>2, <2>3
<1>6. CASE WaitEvent(c)
  <2>1. pc[c] = "wait" /\ UNCHANGED <<attempt, polls>>
    BY <1>6 DEF WaitEvent, At
  <2>2. \/ Goto(c, "watch") /\ result' = result
        \/ Stop(c, Cluster, "terminal phase")
        \/ UNCHANGED <<pc, result>>
    <3>1. events[c] \in Seq(Event) /\ events[c] # <<>>
      BY <1>0, <1>6 DEF TypeOK, WaitEvent
    <3>2. Head(events[c]).pod \in Pod
      <4>1. Head(events[c]) \in Event
        BY <3>1
      <4>. QED
        BY <4>1 DEF Event
    <3>3. Head(events[c]).pod.phase \in {"Running", "Pending"} \cup Terminal
      BY <3>2 DEF Pod
    <3>. QED
      BY <1>6, <3>3 DEF WaitEvent
  <2>3. CASE Goto(c, "watch") /\ result' = result
    BY <1>0, <2>1, <2>3, GotoCourse DEF Course, Advances
  <2>4. CASE Stop(c, Cluster, "terminal phase")
    BY <1>0, <2>1, <2>4, OtherCodes, StopCourse DEF Course
  <2>5. CASE UNCHANGED <<pc, result>>
    BY <2>1, <2>5 DEF Course, Beside, Rests
  <2>. QED
    BY <2>2, <2>3, <2>4, <2>5
<1>7. CASE WaitTimeout(c)
  BY <1>0, <1>7, OtherCodes, StopCourse DEF WaitTimeout, Course
<1>8. CASE StartWatcher(c)
  <2>1. Goto(c, "ready") /\ UNCHANGED <<result, attempt, polls>>
    BY <1>8 DEF StartWatcher, ensure
  <2>. QED
    BY <1>0, <2>1, GotoCourse DEF Course, Quits, Ensuring
<1>. QED
  BY <1>1, <1>2, <1>3, <1>4, <1>5, <1>6, <1>7, <1>8 DEF EnsureStep

LEMMA HandleCourse ==
  ASSUME TypeOK, NEW c \in Sessions, WatcherStep(c) \/ StreamStep(c)
  PROVE  Course(c) /\ Beside(c)
<1>0. c \in Clients
  BY DEF Clients
<1>1. CASE WatcherStep(c)
  BY <1>1 DEF WatcherStep, WatcherEvent, WatcherInterrupted, ensure, Course, Beside, Rests
<1>2. CASE StreamStep(c)
  <2>1. UNCHANGED <<attempt, polls>>
    BY <1>2 DEF StreamStep, OpenStream, StreamEnd, StreamLost
  <2>2. \/ \E l \in {"stream", "ready"} : Goto(c, l) /\ result' = result
        \/ \E code \in {OK, Cluster, Node}, msg \in Messages : Stop(c, code, msg)
    BY <1>2 DEF StreamStep, OpenStream, StreamEnd, StreamLost, Messages
  <2>3. ASSUME NEW l \in {"stream", "ready"}, Goto(c, l), result' = result
        PROVE  Course(c) /\ Beside(c)
    BY <1>0, <2>1, <2>3, GotoCourse DEF Course, Quits, Ensuring
  <2>4. ASSUME NEW code \in {OK, Cluster, Node}, NEW msg \in Messages, Stop(c, code, msg)
        PROVE  Course(c) /\ Beside(c)
    BY <1>0, <2>1, <2>4, OtherCodes, StopCourse DEF Course
  <2>. QED
    BY <2>2, <2>3, <2>4
<1>. QED
  BY <1>1, <1>2

LEMMA CommandCourse ==
  ASSUME TypeOK, NEW c \in Clients, CleanupStep(c) \/ FaultStep(c) \/ Interrupted(c)
  PROVE  Course(c) /\ Beside(c)
<1>1. ASSUME NEW code \in {OK, User, Cluster, Sigint}, NEW msg, Stop(c, code, msg),
             UNCHANGED <<attempt, polls>>
      PROVE  Course(c) /\ Beside(c)
  BY <1>1, OtherCodes, StopCourse DEF Course
<1>2. CASE CleanupDecline(c)
  BY <1>1, <1>2 DEF CleanupDecline
<1>3. CASE CleanupList(c)
  <2>1. Goto(c, "sweep") /\ UNCHANGED <<result, attempt, polls>>
    BY <1>3 DEF CleanupList, ensure
  <2>. QED
    BY <2>1, GotoCourse DEF Course, Quits, Ensuring
<1>4. CASE CleanupItem(c)
  BY <1>4 DEF CleanupItem, ensure, Course, Beside, Rests
<1>5. ASSUME pc[c] \in {"start", "sweep"}, Goto(c, "get"), UNCHANGED <<result, attempt, polls>>
      PROVE  Course(c) /\ Beside(c)
  BY <1>5, GotoCourse DEF Course, Advances, Ensuring
<1>6. CASE CleanupReturn(c)
  <2>1. UNCHANGED <<attempt, polls>> /\ pc[c] = "sweep"
    BY <1>6 DEF CleanupReturn, At
  <2>2. (Goto(c, "get") /\ result' = result) \/ Stop(c, OK, "")
    BY <1>6 DEF CleanupReturn
  <2>. QED
    BY <1>1, <1>5, <2>1, <2>2
<1>7. CASE ApiError(c)
  <2>1. \/ pc[c] \in {"start", "sweep"} /\ Goto(c, "get") /\ UNCHANGED <<result, attempt, polls>>
        \/ pc[c] = "poll" /\ PollAgain(c)
        \/ Stop(c, Cluster, "exec stream") /\ UNCHANGED <<attempt, polls>>
        \/ Stop(c, Cluster, "api error") /\ UNCHANGED <<attempt, polls>>
    BY <1>7 DEF ApiError
  <2>. QED
    BY <1>1, <1>5, <2>1, AgainCourse DEF Course
<1>8. CASE Interrupt(c) \/ WatchEnds(c)
  BY <1>8 DEF Interrupt, WatchEnds, ensure, Course, Beside, Rests
<1>9. CASE Kill(c)
  <2>1. Goto(c, "killed") /\ UNCHANGED <<result, attempt, polls>>
    BY <1>9 DEF Kill
  <2>. QED
    BY <2>1, GotoCourse DEF Course, Quits, Ensuring
<1>10. CASE Interrupted(c)
  BY <1>1, <1>10 DEF Interrupted
<1>. QED
  BY <1>2, <1>3, <1>4, <1>6, <1>7, <1>8, <1>9, <1>10 DEF CleanupStep, FaultStep

LEMMA CourseOfStep ==
  ASSUME TypeOK, [Next]_vars, NEW d \in Sessions
  PROVE  Course(d)
<1>0. d \in Clients
  BY DEF Clients
<1>1. ASSUME NEW c \in Clients, Course(c) /\ Beside(c) PROVE Course(d)
  BY <1>0, <1>1 DEF Beside, Course
<1>2. ASSUME NEW c \in Clients, CleanupStep(c) \/ Interrupted(c) \/ FaultStep(c) PROVE Course(d)
  BY <1>1, <1>2, CommandCourse
<1>3. ASSUME NEW c \in Sessions, EnsureStep(c) \/ WatcherStep(c) \/ StreamStep(c) PROVE Course(d)
  BY <1>1, <1>3, EnsureCourse, HandleCourse DEF Clients
<1>4. CASE Outside
  <2>1. UNCHANGED <<pc, polls, attempt, result>>
    BY <1>4 DEF Outside, Tick, AllStopped, Kubelet, ForeignDelete, vars, ensure
  <2>. QED
    BY <2>1 DEF Course, Rests
<1>. QED
  BY <1>2, <1>3, <1>4 DEF Next, Outside

-----------------------------------------------------------------------------
(* Ensure comes to an end.                                                 *)

LEMMA WorkDone ==
  ASSUME TypeInv, TypeInv', NEW d \in Sessions, pc[d] \in Ensuring, Course(d), ~Rests(d)
  PROVE  Work(d)' < Work(d)
<1>. DEFINE M == MaxPolls
            a == attempt[d]
            b == attempt'[d]
            p == polls[d]
            q == polls'[d]
            here == Work(d)
            next == Work(d)'
<1>0. /\ M \in Nat \ {0} /\ a \in {1, 2, 3} /\ b \in {1, 2, 3} /\ Attempts = 3
      /\ p \in 0 .. M /\ q \in 0 .. M
  BY BoundsAssumption DEF TypeInv, TypeOK, Attempts, Clients
<1>1. pc[d] = "poll" => p < M
  BY DEF TypeInv, PollBound, Clients
<1>2. /\ pc[d] = "get" => here = (Attempts - a) * (M + 5) + (M + 4)
      /\ pc[d] = "delete" => here = (Attempts - a) * (M + 5) + (M + 3)
      /\ pc[d] = "poll" => here = (Attempts - a) * (M + 5) + (M + 2 - p)
      /\ pc[d] = "create" => here = (Attempts - a) * (M + 5) + 3
      /\ pc[d] \in {"wait", "refresh"} => here = (Attempts - a) * (M + 5) + 2
      /\ pc[d] = "watch" => here = (Attempts - a) * (M + 5) + 1
  BY DEF Work, Ensuring
<1>3. /\ pc'[d] = "get" => next = (Attempts - b) * (M + 5) + (M + 4)
      /\ pc'[d] = "delete" => next = (Attempts - b) * (M + 5) + (M + 3)
      /\ pc'[d] = "poll" => next = (Attempts - b) * (M + 5) + (M + 2 - q)
      /\ pc'[d] = "create" => next = (Attempts - b) * (M + 5) + 3
      /\ pc'[d] \in {"wait", "refresh"} => next = (Attempts - b) * (M + 5) + 2
      /\ pc'[d] = "watch" => next = (Attempts - b) * (M + 5) + 1
      /\ pc'[d] \notin Ensuring => next = 0
  BY DEF Work, Ensuring
<1>. SUFFICES next < here
  OBVIOUS
<1>. HIDE DEF here, next
<1>4. /\ \A x \in {1, 2, 3} : (Attempts - x) * (M + 5) \in Nat
      /\ \A x \in {1, 2} : (Attempts - x) * (M + 5) = (Attempts - (x + 1)) * (M + 5) + (M + 5)
  BY <1>0
<1>. DEFINE A == (Attempts - a) * (M + 5)
            B == (Attempts - b) * (M + 5)
<1>5. A \in Nat /\ B \in Nat /\ (b = a => B = A) /\ (b = a + 1 => A = B + (M + 5))
  BY <1>0, <1>4
<1>6. /\ pc[d] = "get" => here = A + (M + 4)
      /\ pc[d] = "delete" => here = A + (M + 3)
      /\ pc[d] = "poll" => here = A + (M + 2 - p)
      /\ pc[d] = "create" => here = A + 3
      /\ pc[d] \in {"wait", "refresh"} => here = A + 2
      /\ pc[d] = "watch" => here = A + 1
      /\ pc'[d] = "get" => next = B + (M + 4)
      /\ pc'[d] = "delete" => next = B + (M + 3)
      /\ pc'[d] = "poll" => next = B + (M + 2 - q)
      /\ pc'[d] = "create" => next = B + 3
      /\ pc'[d] \in {"wait", "refresh"} => next = B + 2
      /\ pc'[d] = "watch" => next = B + 1
      /\ pc'[d] \notin Ensuring => next = 0
  BY <1>2, <1>3
<1>. HIDE DEF A, B, M, p, q
<1>7. CASE Quits(d) \/ pc'[d] = "done"
  BY <1>0, <1>1, <1>5, <1>6, <1>7 DEF Quits, Ensuring
<1>8. CASE Advances(d)
  <2>1. b = a
    BY <1>8 DEF Advances
  <2>2. CASE pc[d] = "get" /\ pc'[d] = Branch(pods[NameOf(d)])
    <3>1. pc'[d] \in {"create", "wait", "refresh", "delete"}
      <4>1. pods[NameOf(d)] \in Pod \cup {NoPod}
        BY NameOfType DEF TypeInv, TypeOK
      <4>. QED
        BY <2>2, <4>1, NullsAssumption DEF Branch, Pod, Terminal
    <3>. QED
      BY <1>0, <1>5, <1>6, <2>1, <2>2, <3>1
  <2>3. CASE \/ pc[d] = "create" /\ pc'[d] = "wait"
             \/ pc[d] \in {"refresh", "wait"} /\ pc'[d] = "watch"
    BY <1>5, <1>6, <2>1, <2>3
  <2>4. CASE pc[d] = "delete" /\ pc'[d] = "poll" /\ polls'[d] = 0
    BY <1>0, <1>5, <1>6, <2>1, <2>4 DEF q
  <2>5. CASE pc[d] = "poll" /\ pc'[d] = "poll" /\ polls'[d] = polls[d] + 1
    BY <1>0, <1>5, <1>6, <2>1, <2>5 DEF p, q
  <2>. QED
    BY <1>8, <2>2, <2>3, <2>4, <2>5 DEF Advances
<1>9. CASE Loses(d) /\ pc'[d] = "get"
  BY <1>0, <1>1, <1>5, <1>6, <1>9 DEF Loses
<1>. QED
  BY <1>7, <1>8, <1>9 DEF Course, Loses

\* The work that Ensure has left shrinks with each of its calls, whatever the
\* others do between them, so that it returns after 3 * (MaxPolls + 5) of them
\* at most (lifecycle.go:55-126, 163-186).
THEOREM EnsureEnds == Spec => EnsureBounded
<1>. DEFINE Shrinks == \A c \in Sessions :
       /\ pc[c] \in Ensuring
       /\ pc'[c] # pc[c] \/ polls'[c] # polls[c] \/ attempt'[c] # attempt[c]
       => Work(c)' < Work(c)
<1>1. ASSUME TypeInv, [Next]_vars PROVE Shrinks
  <2>. SUFFICES ASSUME NEW c \in Sessions, pc[c] \in Ensuring,
                       pc'[c] # pc[c] \/ polls'[c] # polls[c] \/ attempt'[c] # attempt[c]
                PROVE  Work(c)' < Work(c)
    OBVIOUS
  <2>1. TypeInv' /\ Course(c) /\ ~Rests(c)
    BY <1>1, TypeInvStep, CourseOfStep DEF TypeInv, Rests
  <2>. QED
    BY <1>1, <2>1, WorkDone
<1>2. TypeInv /\ [Next]_vars => [Shrinks]_vars
  BY <1>1
<1>. QED
  BY <1>2, TypeInvariant, PTL DEF Spec, EnsureBounded

-----------------------------------------------------------------------------
(* The lost races of Ensure.  An attempt is lost to a pod of the name, and *)
(* after one that was deleted, or found to be in the way, the next has a   *)
(* higher number.                                                          *)

\* A pod that has the name now is not the first one.
Reborn(n) == lastUid[n] >= 1 /\ (pods[n] # NoPod => lastUid[n] >= 2)

Raced(d) ==
  LET n == NameOf(d)
  IN  /\ attempt[d] >= 2 \/ pc[d] \in {"delete", "poll"} => lastUid[n] >= 1
      /\ attempt[d] = 3 \/ (attempt[d] = 2 /\ pc[d] = "create") => Reborn(n)
      /\ attempt[d] = 3 /\ pc[d] \in {"delete", "poll"} => lastUid[n] >= 2
      /\ pc[d] = "done" /\ result[d].code = Internal => lastUid[n] >= 2

RaceInv == TypeInv /\ Counted /\ \A d \in Sessions : Raced(d)

LEMMA RacedStep ==
  ASSUME RaceInv, [Next]_vars, NEW d \in Sessions PROVE Raced(d)'
<1>. DEFINE n == NameOf(d)
            a == attempt[d]
            l == lastUid[n]
            m == lastUid'[n]
            b == attempt'[d]
<1>0. /\ n \in Names /\ d \in Clients /\ TypeOK /\ Counted /\ Raced(d)
      /\ a \in {1, 2, 3} /\ Attempts = 3 /\ pods[n] \in Pod \cup {NoPod}
  BY NameOfType DEF RaceInv, TypeInv, TypeOK, Clients, Attempts
<1>1. Course(d)
  BY <1>0, CourseOfStep
<1>2. l \in Nat /\ m \in {l, l + 1} /\ m \in Nat /\ m >= l
  BY <1>0, CountedStep
<1>3. pods[n] # NoPod => l >= 1
  BY <1>0 DEF Counted
<1>4. Reborn(n) => m >= 1 /\ (pods'[n] # NoPod => m >= 2)
  BY <1>0, <1>2, PodOfStep DEF Reborn, Kept, Gone, Moved, Born
<1>5. l >= 1 /\ pods'[n] = NoPod => m >= 1 /\ (pods'[n] # NoPod => m >= 2)
  BY <1>2
<1>6. l >= 2 => m >= 1 /\ (pods'[n] # NoPod => m >= 2)
  BY <1>2
<1>7. SUFFICES /\ b >= 2 \/ pc'[d] \in {"delete", "poll"} => m >= 1
               /\ b = 3 \/ (b = 2 /\ pc'[d] = "create")
                    => m >= 1 /\ (pods'[n] # NoPod => m >= 2)
               /\ b = 3 /\ pc'[d] \in {"delete", "poll"} => m >= 2
               /\ pc'[d] = "done" /\ result'[d].code = Internal => m >= 2
  BY DEF Raced, Reborn
<1>8. /\ a >= 2 \/ pc[d] \in {"delete", "poll"} => l >= 1
      /\ a = 3 \/ (a = 2 /\ pc[d] = "create") => Reborn(n)
      /\ a = 3 /\ pc[d] \in {"delete", "poll"} => l >= 2
      /\ pc[d] = "done" /\ result[d].code = Internal => l >= 2
  BY <1>0 DEF Raced
<1>9. Reborn(n) /\ pods[n] # NoPod => l >= 2
  BY DEF Reborn
<1>10. CASE Rests(d)
  BY <1>2, <1>4, <1>8, <1>10 DEF Rests
<1>11. CASE Quits(d)
  BY <1>2, <1>4, <1>8, <1>11 DEF Quits, Ensuring
<1>12. CASE Advances(d)
  <2>1. b = a
    BY <1>12 DEF Advances
  <2>2. CASE pc[d] = "get" /\ pc'[d] = Branch(pods[n]) /\ Kept(n)
    <3>1. /\ pc'[d] \in {"create", "wait", "refresh", "delete"}
          /\ pc'[d] = "create" => pods[n] = NoPod
          /\ pc'[d] = "delete" => pods[n] # NoPod
      BY <1>0, <2>2, NullsAssumption DEF Branch, Pod, Terminal
    <3>2. m = l /\ pods'[n] = pods[n]
      BY <2>2 DEF Kept
    <3>. QED
      BY <1>2, <1>3, <1>4, <1>8, <1>9, <2>1, <3>1, <3>2
  <2>3. CASE pc'[d] \in {"get", "wait", "watch"}
    BY <1>2, <1>4, <1>8, <2>1, <2>3
  <2>4. CASE pc[d] \in {"delete", "poll"} /\ pc'[d] = "poll"
    BY <1>2, <1>4, <1>8, <2>1, <2>4
  <2>. QED
    BY <1>12, <2>2, <2>3, <2>4 DEF Advances
<1>13. CASE Loses(d)
  <2>1. m = l /\ pods'[n] = pods[n] /\ l >= 1
    BY <1>3, <1>8, <1>13 DEF Loses, Kept
  <2>2. a >= 2 => Reborn(n)
    <3>1. CASE pc[d] = "create"
      BY <1>0, <1>8, <3>1
    <3>2. CASE pc[d] = "poll" /\ pods[n] = NoPod
      BY <1>8, <3>2 DEF Reborn
    <3>. QED
      BY <1>13, <3>1, <3>2 DEF Loses
  <2>3. a = 3 => l >= 2
    BY <1>8, <1>9, <1>13 DEF Loses
  <2>4. CASE a < 3 /\ b = a + 1 /\ pc'[d] = "get"
    BY <1>0, <1>4, <2>1, <2>2, <2>4
  <2>5. CASE a = 3 /\ b = a /\ pc'[d] = "done"
    BY <1>4, <1>8, <2>1, <2>3, <2>5
  <2>. QED
    BY <1>0, <1>13, <2>4, <2>5 DEF Loses
<1>. QED
  BY <1>1, <1>10, <1>11, <1>12, <1>13 DEF Course

LEMMA RaceInit == Init => RaceInv
<1>. SUFFICES ASSUME Init PROVE RaceInv
  OBVIOUS
<1>1. \A n \in Names : pods[n] # NoPod => pods[n].uid = 1 /\ lastUid[n] = 1
  BY DEF Init, Leftover
<1>2. \A d \in Sessions : attempt[d] = 1 /\ pc[d] = "start"
  BY DEF Init, Clients
<1>3. \A d \in Sessions : Raced(d)
  BY <1>2 DEF Raced
<1>. QED
  BY <1>1, <1>3, InitTypeInv DEF RaceInv, Counted

\* lifecycle.go:125: "too many race retries" is true.  Three attempts are lost
\* only if the name had a second pod, which was none of the session's own.
THEOREM RetriesAreRaced == Spec => []InternalOnlyRaced
<1>1. RaceInv /\ [Next]_vars => RaceInv'
  <2>. SUFFICES ASSUME RaceInv, [Next]_vars PROVE RaceInv'
    OBVIOUS
  <2>1. TypeInv' /\ Counted'
    BY TypeInvStep, CountedStep DEF RaceInv, TypeInv
  <2>2. \A d \in Sessions : Raced(d)'
    BY RacedStep
  <2>. QED
    BY <2>1, <2>2 DEF RaceInv
<1>2. RaceInv => InternalOnlyRaced
  BY DEF RaceInv, Raced, InternalOnlyRaced
<1>. QED
  BY <1>1, <1>2, RaceInit, PTL DEF Spec
=============================================================================
