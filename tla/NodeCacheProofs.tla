--------------------------- MODULE NodeCacheProofs --------------------------
(***************************************************************************)
(* Proofs about NodeCache, for any calls and nodes.                        *)
(***************************************************************************)
EXTENDS NodeCache, TLAPS

-----------------------------------------------------------------------------
(* The inductive invariant.                                                *)

Holding  == {"lookup", "insert", "unlock"}
HasEntry == {"unlock", "do", "fetch", "finish", "read", "returned"}
Running  == {"fetch", "finish"}

\* Who is inside entry holds the mutex.
Mutex == \A c \in Calls : pc[c] \in Holding <=> mu = c

\* The map has one entry per node, and whoever is past entry has that one.
Entries ==
  /\ \A n \in Nodes : cre[n] # Nobody => NodeOf[cre[n]] = n
  /\ \A c \in Calls :
       /\ pc[c] = "insert" => cre[NodeOf[c]] = Nobody
       /\ pc[c] \in HasEntry => mine[c] \in Calls /\ mine[c] = cre[NodeOf[c]]

\* The Once of an entry: only entries of the map are used, one call runs it,
\* and it is done once the value is there.
Onces ==
  /\ \A e \in Calls :
       /\ once[e] # "new" => /\ cre[NodeOf[e]] = e
                             /\ runner[e] \in Calls /\ NodeOf[runner[e]] = NodeOf[e]
       /\ once[e] = "running" => pc[runner[e]] \in Running
       /\ once[e] = "new" => value[e] = Unset
       /\ once[e] = "done" => value[e] \in Results
       /\ value[e].err = "canceled" => runner[e] \in cancelled
  /\ \A c \in Calls :
       /\ pc[c] \in Running => once[mine[c]] = "running" /\ runner[mine[c]] = c
       /\ pc[c] = "finish" => value[mine[c]] \in Results
       /\ pc[c] \in {"read", "returned"} => once[mine[c]] = "done"

\* What a call returns is the value of the entry, and nothing before that.
Answers ==
  \A c \in Calls : answer[c] = IF pc[c] = "returned" THEN value[mine[c]] ELSE Unset

Begun(n) == cre[n] # Nobody /\ once[cre[n]] # "new"

\* A fetch is counted when the Once of the node's entry begins to run.
Counts == \A n \in Nodes : fetches[n] = IF Begun(n) THEN 1 ELSE 0

CacheInv == TypeOK /\ Mutex /\ Entries /\ Onces /\ Answers /\ Counts

LEMMA UnsetFacts == Unset \notin Results /\ Unset.err # "canceled"
  BY DEF Unset, Results, Failures

LEMMA InitCache == Init => CacheInv
<1> SUFFICES ASSUME Init PROVE CacheInv
  OBVIOUS
<1> USE CallsAssumption DEF Init
<1>1. TypeOK
  BY DEF TypeOK
<1>2. Mutex
  BY DEF Mutex, Holding
<1>3. Entries
  BY DEF Entries, HasEntry
<1>4. Onces
  BY UnsetFacts DEF Onces, Running
<1>5. Answers
  BY DEF Answers
<1>6. Counts
  BY DEF Counts, Begun
<1> QED
  BY <1>1, <1>2, <1>3, <1>4, <1>5, <1>6 DEF CacheInv

LEMMA LockCache == ASSUME CacheInv, NEW c \in Calls, Lock(c) PROVE CacheInv'
<1> USE CallsAssumption, UnsetFacts DEF CacheInv, Lock, Goto
<1>1. TypeOK'
  BY DEF TypeOK, Entries, HasEntry
<1>2. Mutex'
  BY DEF TypeOK, Mutex, Holding
<1>3. Entries'
  BY DEF TypeOK, Mutex, Holding, Entries, HasEntry
<1>4. Onces'
  BY DEF TypeOK, Entries, HasEntry, Onces, Running
<1>5. Answers'
  BY DEF TypeOK, Answers, Entries, HasEntry, Onces, Running
<1>6. Counts'
  BY DEF TypeOK, Counts, Begun, Entries, HasEntry, Onces, Running
<1> QED
  BY <1>1, <1>2, <1>3, <1>4, <1>5, <1>6 DEF CacheInv

LEMMA LookupCache == ASSUME CacheInv, NEW c \in Calls, Lookup(c) PROVE CacheInv'
<1> USE CallsAssumption, UnsetFacts DEF CacheInv, Lookup, Goto
<1>1. TypeOK'
  BY DEF TypeOK, Entries, HasEntry
<1>2. Mutex'
  BY DEF TypeOK, Mutex, Holding
<1>3. Entries'
  <2>1. \A n \in Nodes : (cre[n] # Nobody => NodeOf[cre[n]] = n)'
    BY DEF Entries
  <2>2. ASSUME NEW d \in Calls
        PROVE  (/\ pc[d] = "insert" => cre[NodeOf[d]] = Nobody
                /\ pc[d] \in HasEntry => mine[d] \in Calls /\ mine[d] = cre[NodeOf[d]])'
    <3>1. CASE d = c
      BY <3>1 DEF TypeOK, HasEntry
    <3>2. CASE d # c
      BY <3>2 DEF TypeOK, Entries, HasEntry
    <3> QED
      BY <3>1, <3>2
  <2> QED
    BY <2>1, <2>2 DEF Entries
<1>4. Onces'
  BY DEF TypeOK, Entries, HasEntry, Onces, Running
<1>5. Answers'
  BY DEF TypeOK, Answers, Entries, HasEntry, Onces, Running
<1>6. Counts'
  BY DEF TypeOK, Counts, Begun, Entries, HasEntry, Onces, Running
<1> QED
  BY <1>1, <1>2, <1>3, <1>4, <1>5, <1>6 DEF CacheInv

LEMMA InsertCache == ASSUME CacheInv, NEW c \in Calls, Insert(c) PROVE CacheInv'
<1> USE CallsAssumption, UnsetFacts DEF CacheInv, Insert, Goto
<1>1. TypeOK'
  BY DEF TypeOK, Entries, HasEntry
<1>2. Mutex'
  BY DEF TypeOK, Mutex, Holding
<1>3. Entries'
  <2>1. \A n \in Nodes : (cre[n] # Nobody => NodeOf[cre[n]] = n)'
    BY DEF TypeOK, Entries
  <2>2. ASSUME NEW d \in Calls, d # c
        PROVE  (/\ pc[d] = "insert" => cre[NodeOf[d]] = Nobody
                /\ pc[d] \in HasEntry => mine[d] \in Calls /\ mine[d] = cre[NodeOf[d]])'
    <3>1. pc[d] # "insert" /\ pc'[d] = pc[d] /\ mine'[d] = mine[d]
      BY <2>2 DEF TypeOK, Mutex, Holding
    <3>2. pc[d] \in HasEntry => cre[NodeOf[d]] # Nobody /\ cre[NodeOf[c]] = Nobody
      BY DEF Entries
    <3> QED
      BY <3>1, <3>2 DEF TypeOK, Entries
  <2>3. pc'[c] = "unlock" /\ mine'[c] = c /\ cre'[NodeOf[c]] = c
    BY DEF TypeOK
  <2> QED
    BY <2>1, <2>2, <2>3 DEF Entries, HasEntry
<1>4. Onces'
  BY DEF TypeOK, Entries, HasEntry, Onces, Running
<1>5. Answers'
  BY DEF TypeOK, Answers, Entries, HasEntry, Onces, Running
<1>6. Counts'
  BY DEF TypeOK, Counts, Begun, Entries, HasEntry, Onces, Running
<1> QED
  BY <1>1, <1>2, <1>3, <1>4, <1>5, <1>6 DEF CacheInv

LEMMA UnlockCache == ASSUME CacheInv, NEW c \in Calls, Unlock(c) PROVE CacheInv'
<1> USE CallsAssumption, UnsetFacts DEF CacheInv, Unlock, Goto
<1>1. TypeOK'
  BY DEF TypeOK, Entries, HasEntry
<1>2. Mutex'
  BY DEF TypeOK, Mutex, Holding
<1>3. Entries'
  BY DEF TypeOK, Mutex, Holding, Entries, HasEntry
<1>4. Onces'
  BY DEF TypeOK, Entries, HasEntry, Onces, Running
<1>5. Answers'
  BY DEF TypeOK, Answers, Entries, HasEntry, Onces, Running
<1>6. Counts'
  BY DEF TypeOK, Counts, Begun, Entries, HasEntry, Onces, Running
<1> QED
  BY <1>1, <1>2, <1>3, <1>4, <1>5, <1>6 DEF CacheInv

LEMMA DoCache == ASSUME CacheInv, NEW c \in Calls, Do(c) PROVE CacheInv'
<1> USE CallsAssumption, UnsetFacts DEF CacheInv, Do, Goto
<1>1. TypeOK'
  BY DEF TypeOK, Entries, HasEntry
<1>2. Mutex'
  BY DEF TypeOK, Mutex, Holding
<1>3. Entries'
  BY DEF TypeOK, Mutex, Holding, Entries, HasEntry
<1>4. Onces'
  BY DEF TypeOK, Entries, HasEntry, Onces, Running
<1>5. Answers'
  BY DEF TypeOK, Answers, Entries, HasEntry, Onces, Running
<1>6. Counts'
  BY DEF TypeOK, Counts, Begun, Entries, HasEntry, Onces, Running
<1> QED
  BY <1>1, <1>2, <1>3, <1>4, <1>5, <1>6 DEF CacheInv

LEMMA FetchCache == ASSUME CacheInv, NEW c \in Calls, Fetch(c) PROVE CacheInv'
<1> USE CallsAssumption, UnsetFacts DEF CacheInv, Fetch, Goto
<1>1. TypeOK'
  BY DEF TypeOK, Entries, HasEntry
<1>2. Mutex'
  BY DEF TypeOK, Mutex, Holding
<1>3. Entries'
  BY DEF TypeOK, Mutex, Holding, Entries, HasEntry
<1>4. Onces'
  BY DEF TypeOK, Entries, HasEntry, Onces, Running
<1>5. Answers'
  BY DEF TypeOK, Answers, Entries, HasEntry, Onces, Running
<1>6. Counts'
  BY DEF TypeOK, Counts, Begun, Entries, HasEntry, Onces, Running
<1> QED
  BY <1>1, <1>2, <1>3, <1>4, <1>5, <1>6 DEF CacheInv

LEMMA FinishCache == ASSUME CacheInv, NEW c \in Calls, Finish(c) PROVE CacheInv'
<1> USE CallsAssumption, UnsetFacts DEF CacheInv, Finish, Goto
<1>1. TypeOK'
  BY DEF TypeOK, Entries, HasEntry
<1>2. Mutex'
  BY DEF TypeOK, Mutex, Holding
<1>3. Entries'
  BY DEF TypeOK, Mutex, Holding, Entries, HasEntry
<1>4. Onces'
  BY DEF TypeOK, Entries, HasEntry, Onces, Running
<1>5. Answers'
  BY DEF TypeOK, Answers, Entries, HasEntry, Onces, Running
<1>6. Counts'
  BY DEF TypeOK, Counts, Begun, Entries, HasEntry, Onces, Running
<1> QED
  BY <1>1, <1>2, <1>3, <1>4, <1>5, <1>6 DEF CacheInv

LEMMA ReturnCache == ASSUME CacheInv, NEW c \in Calls, Return(c) PROVE CacheInv'
<1> USE CallsAssumption, UnsetFacts DEF CacheInv, Return, Goto
<1>1. TypeOK'
  BY DEF TypeOK, Entries, HasEntry
<1>2. Mutex'
  BY DEF TypeOK, Mutex, Holding
<1>3. Entries'
  BY DEF TypeOK, Mutex, Holding, Entries, HasEntry
<1>4. Onces'
  BY DEF TypeOK, Entries, HasEntry, Onces, Running
<1>5. Answers'
  BY DEF TypeOK, Answers, Entries, HasEntry, Onces, Running
<1>6. Counts'
  BY DEF TypeOK, Counts, Begun, Entries, HasEntry, Onces, Running
<1> QED
  BY <1>1, <1>2, <1>3, <1>4, <1>5, <1>6 DEF CacheInv

LEMMA CancelCache == ASSUME CacheInv, NEW c \in Calls, Cancel(c) PROVE CacheInv'
<1> USE CallsAssumption, UnsetFacts DEF CacheInv, Cancel, Goto
<1>1. TypeOK'
  BY DEF TypeOK, Entries, HasEntry
<1>2. Mutex'
  BY DEF TypeOK, Mutex, Holding
<1>3. Entries'
  BY DEF TypeOK, Mutex, Holding, Entries, HasEntry
<1>4. Onces'
  BY DEF TypeOK, Entries, HasEntry, Onces, Running
<1>5. Answers'
  BY DEF TypeOK, Answers, Entries, HasEntry, Onces, Running
<1>6. Counts'
  BY DEF TypeOK, Counts, Begun, Entries, HasEntry, Onces, Running
<1> QED
  BY <1>1, <1>2, <1>3, <1>4, <1>5, <1>6 DEF CacheInv

LEMMA StutterCache == ASSUME CacheInv, UNCHANGED vars PROVE CacheInv'
  BY DEF CacheInv, vars, TypeOK, Mutex, Entries, Onces, Answers, Counts, Begun

LEMMA NextCache == ASSUME CacheInv, [Next]_vars PROVE CacheInv'
<1>1. ASSUME NEW c \in Calls, Step(c) \/ Cancel(c) PROVE CacheInv'
  BY <1>1, LockCache, LookupCache, InsertCache, UnlockCache, DoCache, FetchCache,
     FinishCache, ReturnCache, CancelCache DEF Step
<1>2. CASE UNCHANGED vars \/ AllReturned
  BY <1>2, StutterCache DEF AllReturned
<1> QED
  BY <1>1, <1>2 DEF Next

\* The invariant holds in every behaviour of the cache.
THEOREM CacheInvariant == Spec => []CacheInv
<1>1. Init => CacheInv
  BY InitCache
<1>2. CacheInv /\ [Next]_vars => CacheInv'
  BY NextCache
<1> QED
  BY <1>1, <1>2, PTL DEF Spec

-----------------------------------------------------------------------------
(* The promises. *)

\* The variables keep their types.
THEOREM TypeCorrect == Spec => []TypeOK
<1>1. CacheInv => TypeOK
  BY DEF CacheInv
<1> QED
  BY <1>1, CacheInvariant, PTL

\* However many calls meet in the cache, the kubelet of a node is asked at
\* most once.
THEOREM FetchedOnce == Spec => []OneFetch
<1>1. CacheInv => OneFetch
  BY DEF CacheInv, Counts, OneFetch
<1> QED
  BY <1>1, CacheInvariant, PTL

\* All the calls for a node return the same, filled in, path and error.
THEOREM AnswersAgree == Spec => []SameAnswer
<1>1. CacheInv => SameAnswer
  <2> SUFFICES ASSUME CacheInv, NEW c \in Calls, NEW d \in Calls,
                      pc[c] = "returned", pc[d] = "returned", NodeOf[c] = NodeOf[d]
               PROVE  answer[c] = answer[d] /\ answer[c] # Unset
    BY DEF SameAnswer
  <2>1. mine[c] = mine[d] /\ mine[c] \in Calls
    BY DEF CacheInv, Entries, HasEntry
  <2>2. value[mine[c]] \in Results
    BY <2>1 DEF CacheInv, Onces
  <2> QED
    BY <2>1, <2>2, UnsetFacts DEF CacheInv, Answers
<1> QED
  BY <1>1, CacheInvariant, PTL

\* Whoever waits, at the mutex or at a Once, waits for a call that does not.
THEOREM WaitersAreServed == Spec => []WaitersServed
<1>1. CacheInv => WaitersServed
  <2> SUFFICES ASSUME CacheInv, NEW c \in Calls
               PROVE  /\ pc[c] = "call" /\ mu # Nobody => pc[mu] \in Holding
                      /\ pc[c] = "do" /\ once[mine[c]] = "running"
                           => pc[runner[mine[c]]] \in Running
    BY DEF WaitersServed, Holding, Running
  <2>1. ASSUME mu # Nobody PROVE pc[mu] \in Holding
    BY <2>1 DEF CacheInv, TypeOK, Mutex
  <2>2. ASSUME pc[c] = "do", once[mine[c]] = "running" PROVE pc[runner[mine[c]]] \in Running
    BY <2>2 DEF CacheInv, Entries, HasEntry, Onces
  <2> QED
    BY <2>1, <2>2
<1> QED
  BY <1>1, CacheInvariant, PTL

\* A call is told "canceled" only if the call that fetched was cancelled.
THEOREM CanceledHonest == Spec => []CanceledByFetcher
<1>1. CacheInv => CanceledByFetcher
  <2> SUFFICES ASSUME CacheInv, NEW c \in Calls, answer[c].err = "canceled"
               PROVE  \E d \in cancelled : NodeOf[d] = NodeOf[c] /\ runner[mine[c]] = d
    BY DEF CanceledByFetcher
  <2>1. pc[c] = "returned" /\ value[mine[c]].err = "canceled"
    BY UnsetFacts DEF CacheInv, Answers
  <2>2. /\ mine[c] \in Calls /\ once[mine[c]] = "done"
        /\ mine[c] = cre[NodeOf[c]] /\ cre[NodeOf[c]] # Nobody
    BY <2>1, CallsAssumption DEF CacheInv, Entries, HasEntry, Onces
  <2>3. runner[mine[c]] \in cancelled /\ NodeOf[runner[mine[c]]] = NodeOf[mine[c]]
    BY <2>1, <2>2 DEF CacheInv, Onces
  <2>4. NodeOf[mine[c]] = NodeOf[c]
    BY <2>2, CallsAssumption DEF CacheInv, Entries
  <2> QED
    BY <2>3, <2>4
<1> QED
  BY <1>1, CacheInvariant, PTL

-----------------------------------------------------------------------------
(* The refinement.  Only Do, Finish and Return show in OnceCell.           *)

LEMMA HiddenStep ==
  ASSUME CacheInv, CacheInv', NEW c \in Calls,
         Lock(c) \/ Lookup(c) \/ Insert(c) \/ Unlock(c) \/ Fetch(c) \/ Cancel(c)
  PROVE  UNCHANGED Cells!ovars
<1>1. answer' = answer /\ once' = once
  BY DEF Lock, Lookup, Insert, Unlock, Fetch, Cancel
<1>2. CASE ~Insert(c) /\ ~Fetch(c)
  BY <1>1, <1>2 DEF Lock, Lookup, Unlock, Cancel, Cells!ovars, Asked, CellOf
<1>3. CASE Insert(c)
  <2>1. cre[NodeOf[c]] = Nobody /\ cre' = [cre EXCEPT ![NodeOf[c]] = c] /\ value' = value
    BY <1>3 DEF CacheInv, Entries, Insert, Goto
  <2>2. once[c] = "new"
    BY <2>1, CallsAssumption DEF CacheInv, Onces
  <2>3. \A n \in Nodes : cre'[n] = IF n = NodeOf[c] THEN c ELSE cre[n]
    BY <2>1 DEF CacheInv, TypeOK
  <2>4. Asked' = Asked
    BY <1>1, <2>1, <2>2, <2>3 DEF Asked
  <2>5. CellOf' = CellOf
    BY <1>1, <2>1, <2>2, <2>3 DEF CellOf
  <2> QED
    BY <1>1, <2>4, <2>5 DEF Cells!ovars
<1>4. CASE Fetch(c)
  <2>1. cre' = cre /\ mine[c] \in Calls /\ once[mine[c]] = "running"
    BY <1>4 DEF CacheInv, Entries, Onces, HasEntry, Running, Fetch, Goto
  <2>2. \A e \in Calls : once[e] = "done" => value'[e] = value[e]
    BY <1>4, <2>1 DEF CacheInv, TypeOK, Fetch
  <2>3. \A n \in Nodes : cre[n] \in Calls \cup {Nobody}
    BY DEF CacheInv, TypeOK
  <2>4. CellOf' = CellOf
    BY <1>1, <2>1, <2>2, <2>3 DEF CellOf
  <2>5. Asked' = Asked
    BY <1>1, <2>1 DEF Asked
  <2> QED
    BY <1>1, <2>4, <2>5 DEF Cells!ovars
<1> QED
  BY <1>2, <1>3, <1>4

LEMMA DoAsks ==
  ASSUME CacheInv, CacheInv', NEW c \in Calls, Do(c)
  PROVE  Cells!Ask(NodeOf[c]) \/ UNCHANGED Cells!ovars
<1>1. cre' = cre /\ value' = value /\ answer' = answer
  BY DEF Do
<1>2. CASE once[mine[c]] # "new"
  BY <1>1, <1>2 DEF Do, Cells!ovars, Asked, CellOf
<1>3. CASE once[mine[c]] = "new"
  <2>1. /\ mine[c] \in Calls /\ mine[c] = cre[NodeOf[c]] /\ NodeOf[c] \in Nodes
        /\ once' = [once EXCEPT ![mine[c]] = "running"]
    BY <1>3, CallsAssumption DEF CacheInv, Entries, HasEntry, Do
  <2>2. /\ \A e \in Calls : once'[e] = IF e = mine[c] THEN "running" ELSE once[e]
        /\ \A n \in Nodes : cre[n] \in Calls \cup {Nobody}
        /\ \A n \in Nodes : cre[n] = mine[c] => n = NodeOf[c]
    BY <2>1, CallsAssumption DEF CacheInv, TypeOK, Entries
  <2>3. NodeOf[c] \notin Asked
    BY <1>3, <2>1 DEF Asked
  <2>4. Asked' = Asked \cup {NodeOf[c]}
    BY <1>1, <2>1, <2>2, CallsAssumption DEF Asked
  <2>5. CellOf' = CellOf
    BY <1>1, <1>3, <2>1, <2>2 DEF CellOf
  <2> QED
    BY <1>1, <2>3, <2>4, <2>5 DEF Cells!Ask
<1> QED
  BY <1>2, <1>3

LEMMA FinishDecides ==
  ASSUME CacheInv, CacheInv', NEW c \in Calls, Finish(c)
  PROVE  Cells!Decide(NodeOf[c])
<1>1. /\ cre' = cre /\ value' = value /\ answer' = answer
      /\ once' = [once EXCEPT ![mine[c]] = "done"]
  BY DEF Finish
<1>2. /\ mine[c] \in Calls /\ mine[c] = cre[NodeOf[c]] /\ NodeOf[c] \in Nodes
      /\ once[mine[c]] = "running" /\ value[mine[c]] \in Results
  BY CallsAssumption DEF CacheInv, Entries, Onces, HasEntry, Running, Finish, Goto
<1>3. /\ \A e \in Calls : once'[e] = IF e = mine[c] THEN "done" ELSE once[e]
      /\ \A n \in Nodes : cre[n] \in Calls \cup {Nobody}
      /\ \A n \in Nodes : cre[n] = mine[c] => n = NodeOf[c]
  BY <1>1, <1>2, CallsAssumption DEF CacheInv, TypeOK, Entries
<1>4. mine[c] # Nobody
  BY <1>2, CallsAssumption
<1>5. NodeOf[c] \in Asked /\ CellOf[NodeOf[c]] = Unset
  BY <1>2, <1>4 DEF Asked, CellOf
<1>6. Asked' = Asked
  BY <1>1, <1>2, <1>3 DEF Asked
<1>7. CellOf' = [CellOf EXCEPT ![NodeOf[c]] = value[mine[c]]]
  <2>1. \A n \in Nodes : CellOf'[n] = IF n = NodeOf[c] THEN value[mine[c]] ELSE CellOf[n]
    BY <1>1, <1>2, <1>3, <1>4 DEF CellOf
  <2>2. CellOf' = [n \in Nodes |-> CellOf'[n]] /\ DOMAIN CellOf = Nodes
    BY DEF CellOf
  <2> QED
    BY <2>1, <2>2, <1>2
<1> QED
  BY <1>1, <1>2, <1>5, <1>6, <1>7 DEF Cells!Decide

LEMMA ReturnAnswers ==
  ASSUME CacheInv, CacheInv', NEW c \in Calls, Return(c)
  PROVE  Cells!Answer(c)
<1>1. /\ mine[c] \in Calls /\ mine[c] = cre[NodeOf[c]] /\ NodeOf[c] \in Nodes
      /\ once[mine[c]] = "done" /\ answer[c] = Unset
  BY CallsAssumption DEF CacheInv, Entries, Onces, Answers, HasEntry, Return, Goto
<1>2. value[mine[c]] # Unset
  BY <1>1, UnsetFacts DEF CacheInv, Onces
<1>3. CellOf[NodeOf[c]] = value[mine[c]]
  BY <1>1, CallsAssumption DEF CellOf
<1>4. /\ Asked' = Asked /\ CellOf' = CellOf
      /\ answer' = [answer EXCEPT ![c] = value[mine[c]]]
  BY DEF Return, Asked, CellOf
<1> QED
  BY <1>1, <1>2, <1>3, <1>4 DEF Cells!Answer, KeyOf

\* The cache implements OnceCell.
THEOREM CacheImplementsCell == Spec => CellSpec
<1>1. Init => Cells!Init
  BY CallsAssumption DEF Init, Cells!Init, Asked, CellOf
<1>2. CacheInv /\ CacheInv' /\ [Next]_vars => [Cells!Next]_(Cells!ovars)
  <2> SUFFICES ASSUME CacheInv, CacheInv', [Next]_vars
               PROVE  [Cells!Next]_(Cells!ovars)
    OBVIOUS
  <2>1. CASE UNCHANGED vars \/ AllReturned
    BY <2>1 DEF AllReturned, vars, Cells!ovars, Asked, CellOf
  <2>2. ASSUME NEW c \in Calls, Step(c) \/ Cancel(c) PROVE [Cells!Next]_(Cells!ovars)
    <3>1. NodeOf[c] \in Nodes
      BY CallsAssumption
    <3>2. CASE Do(c)
      BY <3>1, <3>2, DoAsks DEF Cells!Next
    <3>3. CASE Finish(c)
      BY <3>1, <3>3, FinishDecides DEF Cells!Next
    <3>4. CASE Return(c)
      BY <3>4, ReturnAnswers DEF Cells!Next
    <3> QED
      BY <2>2, <3>2, <3>3, <3>4, HiddenStep DEF Step
  <2> QED
    BY <2>1, <2>2 DEF Next
<1> QED
  BY <1>1, <1>2, CacheInvariant, PTL DEF Spec, CellSpec, Cells!Spec

=============================================================================
