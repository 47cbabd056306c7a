------------------------------ MODULE NodeCache -----------------------------
(***************************************************************************)
(* kube.NodeCache: the runtime endpoint of a node, fetched from the        *)
(* kubelet's configz by the first call that needs it and shared with every *)
(* other.  A mutex guards the map of entries and each entry has a          *)
(* sync.Once; the calls may come from any number of goroutines, each with  *)
(* a context of its own.                                                   *)
(***************************************************************************)
EXTENDS Integers

CONSTANTS
  Calls,      \* calls of ContainerRuntimeEndpoint
  Nodes,      \* node names
  NodeOf,     \* [Calls -> Nodes], the node each call asks for
  Nobody      \* no call, and no entry

ASSUME CallsAssumption == NodeOf \in [Calls -> Nodes] /\ Nobody \notin Calls

VARIABLES
  pc,         \* where each call is
  cancelled,  \* calls whose context is cancelled
  mu,         \* the call that holds n.mu, or Nobody
  cre,        \* the map: node -> entry, which has the name of the call that made it
  mine,       \* the entry each call has in hand
  once,       \* the sync.Once of each entry: "new", "running" or "done"
  runner,     \* the call that runs the function of an entry's Once
  value,      \* value and err of each entry
  answer,     \* what each call has returned
  fetches     \* how often configz of each node has been asked for

vars == <<pc, cancelled, mu, cre, mine, once, runner, value, answer, fetches>>

\* A configured path; the default because the kubelet has none set; or the
\* default with the error that made it necessary.
Unset    == [path |-> "", err |-> "nil"]
Failures == {[path |-> "default", err |-> e] : e \in {"canceled", "fetch", "parse"}}
Results  == {[path |-> p, err |-> "nil"] : p \in {"configured", "default"}} \cup Failures

TypeOK ==
  /\ pc \in [Calls -> {"call", "lookup", "insert", "unlock", "do", "fetch", "finish",
                       "read", "returned"}]
  /\ cancelled \subseteq Calls
  /\ mu \in Calls \cup {Nobody}
  /\ cre \in [Nodes -> Calls \cup {Nobody}]
  /\ mine \in [Calls -> Calls \cup {Nobody}]
  /\ once \in [Calls -> {"new", "running", "done"}]
  /\ runner \in [Calls -> Calls \cup {Nobody}]
  /\ value \in [Calls -> Results \cup {Unset}]
  /\ answer \in [Calls -> Results \cup {Unset}]
  /\ fetches \in [Nodes -> Nat]

Goto(c, from, to) == pc[c] = from /\ pc' = [pc EXCEPT ![c] = to]

-----------------------------------------------------------------------------
(* entry. *)

LockSkipped(c) ==                                                    \* mutant
  /\ Goto(c, "call", "lookup")
  /\ UNCHANGED <<cancelled, mu, cre, mine, once, runner, value, answer, fetches>>

Lock(c) ==
  /\ Goto(c, "call", "lookup")
  /\ mu = Nobody /\ mu' = c
  /\ UNCHANGED <<cancelled, cre, mine, once, runner, value, answer, fetches>>

Lookup(c) ==
  /\ Goto(c, "lookup", IF cre[NodeOf[c]] = Nobody THEN "insert" ELSE "unlock")
  /\ mine' = [mine EXCEPT ![c] = cre[NodeOf[c]]]
  /\ UNCHANGED <<cancelled, mu, cre, once, runner, value, answer, fetches>>

Insert(c) ==
  /\ Goto(c, "insert", "unlock")
  /\ mine' = [mine EXCEPT ![c] = c]
  /\ cre' = [cre EXCEPT ![NodeOf[c]] = c]
  /\ UNCHANGED <<cancelled, mu, once, runner, value, answer, fetches>>

Unlock(c) ==
  /\ Goto(c, "unlock", "do")
  /\ mu' = Nobody
  /\ UNCHANGED <<cancelled, cre, mine, once, runner, value, answer, fetches>>

-----------------------------------------------------------------------------
(* once.Do(fetchCRE), and the return. *)

DoEager(c) ==                                                        \* mutant
  /\ pc[c] = "do"
  /\ IF once[mine[c]] = "new"
       THEN /\ Goto(c, "do", "fetch")
            /\ once' = [once EXCEPT ![mine[c]] = "running"]
            /\ runner' = [runner EXCEPT ![mine[c]] = c]
            /\ fetches' = [fetches EXCEPT ![NodeOf[c]] = @ + 1]
       ELSE Goto(c, "do", "read") /\ UNCHANGED <<once, runner, fetches>>
  /\ UNCHANGED <<cancelled, mu, cre, mine, value, answer>>

\* The first call runs the function; while it runs every other one waits,
\* whatever its own context says.
Do(c) ==
  /\ pc[c] = "do" /\ once[mine[c]] # "running"
  /\ IF once[mine[c]] = "new"
       THEN /\ Goto(c, "do", "fetch")
            /\ once' = [once EXCEPT ![mine[c]] = "running"]
            /\ runner' = [runner EXCEPT ![mine[c]] = c]
            /\ fetches' = [fetches EXCEPT ![NodeOf[c]] = @ + 1]
       ELSE Goto(c, "do", "read") /\ UNCHANGED <<once, runner, fetches>>
  /\ UNCHANGED <<cancelled, mu, cre, mine, value, answer>>

FetchNoDefault(c) ==                                                 \* mutant
  /\ Goto(c, "fetch", "finish")
  /\ \E r \in Results :
       /\ r.err = "canceled" => c \in cancelled
       /\ value' = [value EXCEPT ![mine[c]] =
                      IF r \in Failures THEN [r EXCEPT !.path = ""] ELSE r]
  /\ UNCHANGED <<cancelled, mu, cre, mine, once, runner, answer, fetches>>

FetchRetry(c) ==                                                     \* mutant
  /\ pc[c] = "fetch"
  /\ \E r \in Results :
       /\ r.err = "canceled" => c \in cancelled
       /\ value' = [value EXCEPT ![mine[c]] = r]
       /\ Goto(c, "fetch", IF r.err \in {"fetch", "parse"} THEN "fetch" ELSE "finish")
  /\ UNCHANGED <<cancelled, mu, cre, mine, once, runner, answer, fetches>>

\* fetchCRE under the context of the call that runs it.
Fetch(c) ==
  /\ Goto(c, "fetch", "finish")
  /\ \E r \in Results :
       /\ r.err = "canceled" => c \in cancelled
       /\ value' = [value EXCEPT ![mine[c]] = r]
  /\ UNCHANGED <<cancelled, mu, cre, mine, once, runner, answer, fetches>>

FinishReset(c) ==                                                    \* mutant
  /\ Goto(c, "finish", "read")
  /\ once' = [once EXCEPT ![mine[c]] = IF value[mine[c]] \in Failures THEN "new" ELSE "done"]
  /\ UNCHANGED <<cancelled, mu, cre, mine, runner, value, answer, fetches>>

Finish(c) ==
  /\ Goto(c, "finish", "read")
  /\ once' = [once EXCEPT ![mine[c]] = "done"]
  /\ UNCHANGED <<cancelled, mu, cre, mine, runner, value, answer, fetches>>

ReturnOwn(c) ==                                                      \* mutant
  /\ Goto(c, "read", "returned")
  /\ answer' = [answer EXCEPT ![c] = IF c \in cancelled
                                      THEN [path |-> "default", err |-> "canceled"]
                                      ELSE value[mine[c]]]
  /\ UNCHANGED <<cancelled, mu, cre, mine, once, runner, value, fetches>>

Return(c) ==
  /\ Goto(c, "read", "returned")
  /\ answer' = [answer EXCEPT ![c] = value[mine[c]]]
  /\ UNCHANGED <<cancelled, mu, cre, mine, once, runner, value, fetches>>

-----------------------------------------------------------------------------
Cancel(c) ==
  /\ pc[c] # "returned" /\ c \notin cancelled
  /\ cancelled' = cancelled \cup {c}
  /\ UNCHANGED <<pc, mu, cre, mine, once, runner, value, answer, fetches>>

AllReturned == (\A c \in Calls : pc[c] = "returned") /\ UNCHANGED vars

Init ==
  /\ pc = [c \in Calls |-> "call"]
  /\ cancelled = {}
  /\ mu = Nobody
  /\ cre = [n \in Nodes |-> Nobody]
  /\ mine = [c \in Calls |-> Nobody]
  /\ once = [c \in Calls |-> "new"]
  /\ runner = [c \in Calls |-> Nobody]
  /\ value = [c \in Calls |-> Unset]
  /\ answer = [c \in Calls |-> Unset]
  /\ fetches = [n \in Nodes |-> 0]

Step(c) ==
  \/ Lock(c) \/ Lookup(c) \/ Insert(c) \/ Unlock(c)
  \/ Do(c) \/ Fetch(c) \/ Finish(c) \/ Return(c)

Next == (\E c \in Calls : Step(c) \/ Cancel(c)) \/ AllReturned

Spec == Init /\ [][Next]_vars

\* Go schedules every goroutine, mutexes are fair, and a request returns.
FairSpec == Spec /\ \A c \in Calls : WF_vars(Step(c))

-----------------------------------------------------------------------------
\* nodecache.go:50: "the first caller fetches, subsequent callers receive the
\* cached value".  However the calls meet in entry and in Do, the kubelet of a
\* node is asked at most once.
OneFetch == \A n \in Nodes : fetches[n] <= 1

\* Every call for a node returns the same path and error, and never the empty
\* values of an entry that is still being filled.
SameAnswer ==
  \A c, d \in Calls :
    pc[c] = "returned" /\ pc[d] = "returned" /\ NodeOf[c] = NodeOf[d]
      => answer[c] = answer[d] /\ answer[c] # Unset

\* A failure names its cause: a call is told "canceled" only if the call that
\* fetched was cancelled, which need not be itself (the error of the first
\* caller is everybody's).
CanceledByFetcher ==
  \A c \in Calls :
    answer[c].err = "canceled"
      => \E d \in cancelled : NodeOf[d] = NodeOf[c] /\ runner[mine[c]] = d

\* No call waits for one that waits itself, so there is no deadlock: the mutex is
\* in the hands of a call that is on its way to unlock it, and a Once that runs
\* is run by another call, which is in its fetch (nodecache.go:36, 50).
WaitersServed ==
  \A c \in Calls :
    /\ pc[c] = "call" /\ mu # Nobody => pc[mu] \in {"lookup", "insert", "unlock"}
    /\ pc[c] = "do" /\ once[mine[c]] = "running"
         => pc[runner[mine[c]]] \in {"fetch", "finish"}

\* Nobody waits for ever: mutex and Once are always released.
CallsReturn == \A c \in Calls : <>(pc[c] = "returned")

\* The cache implements OnceCell: a lookup is asked for when the Once begins
\* to run and decided when it is done.
Asked  == {n \in Nodes : cre[n] # Nobody /\ once[cre[n]] # "new"}
CellOf == [n \in Nodes |-> IF cre[n] # Nobody /\ once[cre[n]] = "done"
                           THEN value[cre[n]] ELSE Unset]
KeyOf(c) == NodeOf[c]

Cells == INSTANCE OnceCell WITH
  Requests <- Calls, Keys <- Nodes, Values <- Results, Undecided <- Unset,
  asked <- Asked, cell <- CellOf

\* Whatever the goroutines do together is a lookup asked for, a result decided
\* once, or a call answered with it (nodecache.go:49).
CellSpec == Cells!Spec
=============================================================================
