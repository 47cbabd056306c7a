# autoscope: specification and verification

`auto` (autoscope) debugs EKS Auto Mode nodes. Each invocation of the command
line is a short-lived process; the processes share nothing but the Kubernetes
API server. A command bootstraps a namespace, sweeps expired debug pods,
creates or joins the one privileged debug pod of a node, opens exec streams
into it and ends. This directory models what the invocations do to each other,
to the pods and to themselves: TLA+ modules, TLC configurations and
TLAPS proofs.

## Inventory

| Component | Source | State | Operations | Hard behaviour | What makes it correct |
|---|---|---|---|---|---|
| Debug pod lifecycle | `internal/debugpod/lifecycle.go`, `manifest.go` | pod object in the API; per session: attempt counter, the pod read, the watch, `Terminated` | `Ensure` = Get, then Create / refreshTTL / deleteAndWait / waitRunning, then startWatcher; `Handle.Close` | races of several sessions between any two API calls, lost watches, timeouts, SIGINT, kills | a handle never misses the end of its pod; Ensure always returns; leases stay bounded |
| Sweep and cleanup | `internal/debugpod/cleanup.go`, `internal/cli/cleanup.go` | the listed pods, the deleted names | `Cleanup` with a filter, `SweepExpired`, the prompt | list-then-delete by name, abort at the first error | deletes what it reports, spares fresh pods except by a race, collects stale pods |
| Namespace bootstrap | `internal/debugpod/namespace.go`, `internal/cli/install.go` | the namespace object | Get, then Create / Patch / refuse | concurrent callers, other users | success means privileged, nothing is labelled without consent |
| Exec stream | `internal/debugpod/exec.go`, `internal/cli/exec.go` | the connection | open by pod name, end, break, cancel | the name may belong to another incarnation; error classification under a cancelled context or a deadline | a stream into the wrong incarnation is denounced by `Terminated`; the exit code blames who is at fault |
| Packet capture | `internal/tcpdump/*.go`, `internal/cli/observe.go` | target watch, fan-out goroutine, errgroup, pcap file | `Capture`, `WatchTargetPod`, PID resolution | three goroutines and two streams ending in any order; PIDs and pods change under the capture | stops on every stop condition, records the target and nothing else, settles the file |
| nsenter argv and parsing | `internal/nsenter/*.go` | none | builders, `FindPID` | none (pure) | the PID of exactly the container asked for |
| Logs | `internal/cli/logs.go` | grepWriter's buffer | resolve source, probe, stream, filter | error swallowing in the probe, its own deadline; lines cut by chunks | the probe ends, and denies only what is absent; every complete matching line is written, once |
| Metrics | `internal/cli/metrics.go` | the ticker's channel | resolve endpoint, fetch, ticker | a new Ensure per tick, interrupted at any point | the documented resolution; no handle left behind by a tick; exit 0 only for what arrived |
| Catalog | `internal/catalog/agents.go` | constant table | lookups by alias or unit | entries that could hide each other | a name means what is documented, and one thing |
| Node cache | `internal/kube/nodecache.go` | mutex, `sync.Once` per node | `ContainerRuntimeEndpoint` | concurrent first calls; the first caller's context decides for all | one fetch per node, one answer for all, no call waits for ever |
| Kube client, flags, completion, version | `internal/kube/client.go`, `internal/cli/*.go` | configuration | loading, guardrails | none | I/O only |
| Exit codes, main | `internal/exitcode`, `cmd/auto/main.go` | none | `Wrap`, `CodeOf`, SIGINT precedence | wrapping hides or keeps the context error | the documented code for every outcome |

The components meet in three places. Every command calls `Ensure`, and through
it the sweep and the namespace bootstrap, before anything else; what it gets is
a `Handle` with a pod name and a channel `Terminated`. `exec`, `logs` and
`metrics` use the name only (none of them looks at `Terminated`). `observe tcpdump` uses the channel too: its fan-out
goroutine turns the end of the debug pod or of the target into the end of the
streams. Two invocations never talk to each other: whatever one knows of another
it has read from the API server, one call at a time, and the other may act
between any two calls.

## Modules

| Module | What it is |
|---|---|
| `DebugPod` | sessions (`Ensure` and the streams), cleanup commands, the API server, the kubelet, faults, time |
| `PodClaim` | the abstract specification: a holder claims an incarnation of a pod and gets a notice of its end |
| `DebugPodClaim` | the refinement mapping from `DebugPod` to `PodClaim` |
| `Namespace` | `EnsureNamespace` under concurrent callers and other users of the namespace |
| `Capture` | one `observe tcpdump`: its goroutines, contexts and streams, the target pod and the processes of its node |
| `NodeCache` | `kube.NodeCache`: the mutex, the map, the `sync.Once` of each node, concurrent calls and their contexts |
| `OnceCell` | the abstract specification of it: a lookup is asked for once, decided once, and answers every request |
| `Catalog` | the table of agents in the code and the lookups in it |
| `Manual` | the tables of agents in `docs/TOOL.md` and its rules for arguments, transcribed from the document: what `Catalog` and `Commands` are compared with |
| `GrepWriter` | the line filter of `logs --grep` |
| `ExitCode` | the exit codes, and an error's way through `Wrap` and `CodeOf` to `main` |
| `Commands` | one `auto exec`, `auto logs` or `auto metrics` from the command line to the exit code; extends `Manual` (and through it `Catalog`), `GrepWriter`, `ExitCode` |
| `MC...` | the instances for TLC: values of the constants and symmetry sets; one `.cfg` per run |
| `DebugPodProofs`, `DebugPodHandleProofs`, `DebugPodCleanupProofs`, `DebugPodClaimProofs`, `NamespaceProofs`, `CaptureProofs`, `NodeCacheProofs`, `CommandsProofs` | theorems and their proofs |

Definitions marked `\* mutant` are variants of the definition below them with a
plausible bug, kept to see that a property can fail. Nothing in a specification
uses them.

### DebugPod

State and code correspond as follows.

| Variable | Code |
|---|---|
| `pods`, `lastUid` | the pod objects in the API server, by name; the UID is a number per name |
| `now`, `stamp` | `time.Now()`; the value of it that a lease under way was computed from |
| `pc` | where the goroutine of a command is: between which two API calls |
| `attempt`, `polls` | the loop counters of `Ensure` and `deleteAndWait` |
| `got` | the pod object last taken from the API, which has the version watches start from |
| `events` | the part of the API server's history behind that version: what a watch opened now or later delivers |
| `watcher` | the goroutine of `startWatcher`; `"closed"` is the closed channel `Terminated` |
| `stream` | the incarnation an exec stream is attached to |
| `filter`, `todo`, `deleted` | the `CleanupFilter`, the rest of the list, the report of the command |
| `interrupted`, `faults` | SIGINT received; how many faults have been injected |

Each API call of `Ensure`, `Cleanup` and `ExecStream` is one action together
with the local computation behind it, up to the next call: `EnsureGet` reads the
pod and takes the branch, `EnsureRefresh` is the Patch, and so on. The time
stamp of a lease is taken with the reply to Get, as early as the code can; the
Patch may come any time later, which is the widest window the code allows. A
call whose reply is lost is the call followed by `ApiError`. Timeouts are
nondeterministic: `WaitTimeout` may happen whenever the session waits, and the
deadline of `deleteAndWait` is `MaxPolls` polls.

The order of the list in `Cleanup` is left open. The pod phase `Unknown` and pods
whose lease label is missing or no number are left out: `Ensure` would recycle
the first, as it does a terminal pod, and would take the lease of the second never
to end. The deletions of `autoscope` have grace
period 0 and take effect at once; the graceful deletion of somebody else is
seen as the `DELETED` event at its end. An answer of the server that a version
is too old ends the watch, which is `WatchEnds`. The answer to the prompt of
`cleanup` is free. The clocks of all machines are one clock.

### PodClaim

A claim is what a `Handle` stands for: an incarnation that is running, or whose
end is on its way as a notice. `Claims` in `DebugPodClaim` maps `claim` to the
incarnation a watcher was started for and `due` to a terminating event that its
watch has still to deliver. `ClaimSafe` says that every step of `DebugPod` is a
step of `PodClaim` or a stutter; that every notice is taken is `TerminationDelivered`.

`PodClaim` is the seam between `DebugPod` and `Capture`: the one provides what the
other uses. `Capture` does not repeat the races of `Ensure`; it has a debug pod that
is up, and later down, and a watcher that learns of it. That this is all a command
needs to know is what `ClaimSafe` and `HandlesAreClaims` say of `DebugPod`.

### Namespace

Get, Create and Patch are one action each, and a caller's decision is taken with
Get. `seen` is a history variable: what the namespace has been since the caller
began. Other users create, label, unlabel and delete the namespace; a namespace
under deletion can still be read and labelled until it is gone.

### Capture

The main goroutine walks through `pc`: `locate` (the Get in `observe.go`),
`ensure`, `target` and `watch` (the Get and the Watch of `WatchTargetPod`),
`resolve` (`ctr tasks list` and `FindPID`), `open`, `run` (`g.Wait`), `join`
(`<-fanDone`), `close` (the deferred Sync and Close). Beside it run
`TargetWatcher`, `HandleWatcher`, `FanOut` and one goroutine for each stream
(`start` while it connects, `run`, `returned` when the remote side or the
context has ended it but ExecStream has not looked at the context yet, `ended`
when the errgroup has its error). `CaptureDone` and `GroupDone` are the three
nested contexts: root, `captureCtx`, errgroup.

`procs` says which container owns each process number on each node; it moves
ahead of `target`, the status in the API, which is what the code can see.
`Ensure` is replaced by what `DebugPod` shows of it: a handle on a pod of the
node, whose end reaches the handle. Events behind the first one that ends a
capture are not kept: nothing would read them. Which container is selected and
whether the selection is ambiguous are choices. `TouchTarget` is every write to the
target that ends nothing, which its watch delivers too. That client-go may still be
copying when a cancelled stream has returned is not modelled: `FileSettled` is about
the return of `ExecStream`.

### NodeCache and OnceCell

| Variable | Code |
|---|---|
| `pc` | where a call of `ContainerRuntimeEndpoint` is: before the lock, between lookup, insert and unlock of `entry`, before `Do`, in `fetchCRE`, at the end of `Do`, at the return |
| `mu`, `cre` | `n.mu` and the map it guards; an entry has the name of the call that made it |
| `mine`, `once`, `runner` | the `*creEntry` a call holds, the `sync.Once` in it, the call that runs its function |
| `value`, `answer` | path and error of an entry, and what a call has returned |
| `cancelled` | the contexts that are cancelled |
| `fetches` | history: how often the kubelet of a node has been asked |

The map is read and written in two actions, so that the mutex has something to
do. `fetchCRE` is one action: the GET of configz and the reading of its reply,
with the outcomes the code tells apart (configured, not configured, cancelled,
failed, unreadable). `CellSpec` is the refinement: `Asked` are the nodes whose
`Once` has begun, `CellOf` the values of those whose `Once` is done.

### Commands

| Variable | Code |
|---|---|
| `req` | the arguments and flags |
| `host` | the node: where the unit or file is, the architecture, whether the unit has logged |
| `pc` | the call the command is in: `session` (LoadSession), `resolve`, `namespace` and `ensure` (`ensureDebugPod`), `probe`, `uname`, `find` (the probe of `logs` and its fallback), `compile` (the pattern), `stream`, `curl` and `proxy` (one fetch of `metrics`), `wait` (the select of `--tail`), `main`, `done` |
| `task` | the `LogSource` or `Endpoint` resolved |
| `arch` | what `uname -m` has said, or the default |
| `err`, `code` | what RunE returns; the exit code |
| `handles` | the handles that have not been closed |
| `interrupted`, `probeCtx` | the root context; its child with the probe's deadline |
| `tick` | whether the ticker's channel is full |
| `received`, `buf`, `printed`, `writing` | the stream given to `grepWriter`, its buffer, its output, whether it is inside `Write` |
| `ended` | history: how each kind of call and stream ended, the last time there was one; nothing else is recorded, and whose fault that is is decided by the property |

What `DebugPod`, `Namespace` and `NodeCache` show in detail is here a call that
returns or fails (`Bootstrap`, `EnsurePod`); the errors of the sweep and of the
runtime endpoint are ignored by the code, so the calls are not there. A stream ends
in one of five ways: the remote command succeeds, exits with a status, the
connection breaks, the deadline passes, the context is cancelled. `ExecStream`
looks at its context after the failure, so that a stream that broke may still be
reported as interrupted; the order is kept. `Return` runs the deferred `Close`.

In `Catalog` a unit name is a base and the number of `.service` suffixes on it,
which is what the code adds, tests and compares. In `GrepWriter` a byte is a
newline, a byte that makes its line match, or another one: the pattern is any
that tells lines apart. Errors of writing to standard output are left out, and
so is the regular expression.

## Runs

| Run | Instance | What it shows |
|---|---|---|
| `safety` | 2 sessions, 1 node, a leftover pod in any phase with any lease or none, 2 ticks, 1 fault, 2 polls | `TypeOK`; `NoLostTermination`, `StreamOnHandlePod`: no handle misses the end of its pod; `LeaseBounded`; `FreshDeletedOnlyIfRaced`; `EnsureBounded`: `Ensure` has always less to do; `ClaimSafe` |
| `cleanup` | 1 session and 1 cleanup command with every filter, 3 nodes of which 2 share a pod name, no ticks, 1 fault | `DeletedAreGone`: what cleanup reports is gone for good; `HandleOnNode`: only a shared name gets a session the pod of another node |
| `live` | 2 sessions, 1 node, 1 fault, fairness | `EnsureReturns`, `TerminationDelivered`; `SweepCollects`: a session that starts collects what is stale, also what a killed session or an aborted sweep has left |
| `namespace` | 3 callers, each with or without `--auto-label`, 3 steps of others | `ReadyWasPrivileged`, `Consent` |
| `capture` | 2 nodes, 2 incarnations of the target, 1 process number per node, 1 fault | `CapturesTarget`, `TargetOnNode`, `FileSettled`, `NoSilentFailure`; `SigintCodeHasCause`: without Ctrl-C a capture exits 130 only when one of its watches has stopped it |
| `capture_live` | 1 node, 1 incarnation with 2 container instances, 1 fault, fairness | `NoStopLost`, across a restart too: no stop condition falls between the goroutines; `StopsWhenToldTo`, `ReturnsAfterStreams`; `FalseAlarmOnlyByServer`: an event that stops a capture is true of the target, however late it comes |
| `nodecache` | 3 calls on 2 nodes, any of them cancelled at any time, fairness | `OneFetch`, `SameAnswer`, `CanceledByFetcher`; `CallsReturn`; `CellSpec` |
| `commands` | every kind of command line, every alias and unit of `TOOL.md`, every kind of node, 2 failures, SIGINT at any time, streams of 4 bytes in chunks of up to 3, fairness | `ErrorsBlamed`, `SuccessEarned`, `HandlesClosed`, `GrepExact`, `ResolvedAsDocumented`, `InterruptWindsDown`; `ProbeReturns`, `InterruptStops` |
| `converge`, `sigint`, `sigintcode`, `quietunit` | small instances | the disagreements below |

Why the bounds are enough to be worth something:

- Sessions for different nodes share no pod, so what one can do to another shows
  with two sessions on one node; the third party of a race (another user, the
  kubelet) is there as well. Two sessions with three attempts each go through
  every branch of `Ensure` more than once, and an incarnation can be replaced
  several times.
- `DefaultTTL = 1` with two ticks lets a lease be fresh, end, be written again
  and end again. In `live` the clock stands still (`MaxTime = 0`): leases that
  have ended are in the initial state, and fairness properties do not depend on
  how long a lease is. `MaxPolls` is 1 or 2: a poll that finds the name taken,
  and one after it.
- `MaxFaults` bounds API errors, ended watches, SIGINT, SIGKILL and deletions by
  others together. One fault beside a race of two sessions is the case the
  tests do not reach; the theorems below hold for any number.
- One process number per node makes its reuse by another process as likely as it
  can be; a second number only adds processes nobody looks at. `capture` has
  pods that move, `capture_live` has containers that restart; both at once
  differ in nothing the code looks at together.
- Two calls for one node in `nodecache` are the race of `entry` and of `Do`; the
  third, for another node, shares the mutex and the map only.
- `cleanup` needs no clock: pods with every kind of lease, ended ones too, are there
  from the start. Its third node has the pod name of the first, so that a session
  meets the pod of a node it did not ask for.
- Two failures in `commands` are one that is decisive and one before or after it,
  which must not be taken for the cause.
- The command lines of `commands` are those that differ in what the code does:
  every agent of `TOOL.md`, by alias and by unit, and an unknown one
  with and without the suffix; every source and endpoint name of interest; every
  combination of the flags of `metrics`; each kind of log source with each kind of
  pattern. A stream of four bytes has up to two whole lines and a third begun,
  cut into chunks in every way.

Fairness. `DebugPod!Fairness` and `Capture!Fairness` are weak: Go runs every
goroutine that can run, every API call returns or fails, the timer of
`waitRunning` fires and a cancelled context is noticed. `EnsureReturns` needs no
fairness of the kubelet, because `WaitTimeout` stays possible. In
`NodeCache` each call has weak fairness of its own: a goroutine that can go on does
so, a mutex that is free again and again goes to each waiter in the end (Go's
mutexes are fair to waiters, and here each call takes the lock once), and a
request returns. In `Commands` it is the process and the timer of the probe; the
ticker is not needed. Nothing is assumed
of remote commands, the kubelet, other users, SIGINT or the connection:
`ProbeReturns` therefore holds for a node that never answers, `InterruptStops` for a
stream that never ends, and `StopsWhenToldTo` holds for a capture with `--duration 0` and a
tcpdump that never ends.

Four safety properties are what a liveness property rests on, without its
fairness: `EnsureBounded` is the variant of `EnsureReturns`, `WaitersServed` the
absence of deadlock behind `CallsReturn`, `InterruptWindsDown` the bound behind
`InterruptStops`, and `NoStopLost` the news that `StopsWhenToldTo` waits for. They
say more to a reader than that something happens in the end, and unlike it they
can be proved. Two invariants are in no run, because a theorem has them for every
instance: `WaitersServed`, and `InternalOnlyRaced`, that `Ensure` gives up with exit
code 4 only because others gave the name to a second pod.

`ErrorsBlamed` compares the exit code with `ended` alone, by what `TOOL.md:55-62` says
of the codes. It names the two places where the code is known to blame the wrong one,
`WaitCut` (the disagreement `sigint`) and `FallbackCut` (the probe's fallback that got
no answer), and they excuse nothing else. `ResolvedAsDocumented` compares with
`Manual` and leaves out what `Disputed` names, below.

## Disagreements between the code and what is said of it

Each is a run that ends in a counterexample.

- `sigint`: Ctrl-C while `Ensure` waits for `Running` closes the watch;
  `waitRunning` reports "watch closed unexpectedly" with code 2 and does not wrap
  the context's error, so `main` exits 2, not 130.
- `sigintcode`: when the debug pod ends under a capture, the broken stream and the
  cancellation race in `ExecStream`; if the context is cancelled by the time it
  looks, the error gets code 130 and the command exits as if by Ctrl-C.
- `converge`: of two sessions that read the same expired pod, the slower deletes
  by name the fresh pod the faster has created. `FreshDeletedOnlyIfRaced` says
  that such a race is the only way a fresh pod is deleted, and
  `NoLostTermination` that its victim is told. The same lack of a UID in
  `cleanup.go` lets `cleanup --ttl-only` delete a fresh pod.
- `quietunit`: every unit the probe of `logs` can be asked about ends in
  `.service`, and `FindSystemdUnitFile` appends the suffix again. The fallback "for
  units that haven't logged anything yet" therefore looks for
  `<unit>.service.service`, and a unit that is installed and quiet is reported absent
  with exit code 3.

Smaller ones that have no run, of the debug pod and the capture: a session that
joins a Pending pod returns a handle without refreshing the lease
(`lifecycle.go:102`), which `docs/SECURITY.md:87` has "refreshed on every `Ensure`"; an unreachable API server in the lookups of the target exits
1, where the table of exit codes says 2 (`observe.go`); two refreshes under way at
once can be applied in the opposite order of their clocks, so that the lease
shrinks (`lifecycle.go:141`); `--duration` below one second becomes 0, which means
no limit (`observe.go:65`); two captures with one `--out` truncate each other's
file (`capture.go:83`); of two callers that find the namespace absent the
slower exits 2 (`namespace.go:42`); `Terminated` also closes when the server ends
the watch of a pod that still runs (`lifecycle.go:244`); the end of the target's watch stops a
capture with exit code 0 although the target is there (`podwatch.go:52`); of two nodes
with one pod name the second gets the first one's pod (`manifest.go:38`); a session can fail with
"refresh TTL" or a timeout only because of another session (`lifecycle.go:147`,
`172`); `docs/DESIGN.md:88` says that a Pending pod is deleted and created again,
where the code waits for it.

Of the commands: the health endpoint of coredns is `healthz` in `docs/TOOL.md:255` and
`health` in the catalog (`agents.go:178`) and in `docs/DESIGN.md:334`, so that
`--endpoint healthz` is refused; an error of cobra about arguments or flags has no code and exits 4,
where `docs/TOOL.md:58` says 1; `exec` exits 3 and not with the remote command's code
(`docs/TOOL.md:91`); with `--port` and `--path` an invalid `--via` is ignored
(`metrics.go:88`); `--via apiserver` for an endpoint of an agent asks the kubelet for the
agent's path; a final line without a newline is lost under `--grep`
(`logs.go:233`); an invalid `--grep` is noticed when the pod is there and the probe
is over; the probe drops the errors of `uname` and `find`, so that a broken
connection or Ctrl-C there exits 3 (`logs.go:202`), and the architecture is asked
for each time, where `docs/DESIGN.md:207` caches it; Ctrl-C between two fetches of
`metrics --tail` exits 0; `exec`, `logs` and `metrics` do not look at `Terminated`;
unknown names in `--ns` are dropped.

## Proofs

The theorems hold for every value of the constants that satisfies the
assumptions next to them: any number of sessions, cleanups, nodes, names, faults,
ticks and incarnations.

| Theorem | Property | Rests on |
|---|---|---|
| `DebugPodProofs!TypeCorrect` | `TypeOK` | `TypeInv`, by induction |
| `DebugPodHandleProofs!TerminationNeverLost` | `NoLostTermination` | `HandleInv` |
| `DebugPodHandleProofs!StreamsAreDenounced` | `StreamOnHandlePod` | `HandleInv` |
| `DebugPodHandleProofs!HandlesStayOnNode` | `HandleOnNode` | `HandleInv`; nothing is assumed of `PodNameFor` |
| `DebugPodCleanupProofs!LeasesBounded` | `LeaseBounded` | `LeaseInv` |
| `DebugPodCleanupProofs!DeletedStayGone` | `DeletedAreGone` | `DeletionInv` |
| `DebugPodCleanupProofs!FreshPodsSpared` | `FreshDeletedOnlyIfRaced` | `SweepInv` |
| `DebugPodClaimProofs!HandlesAreClaims` | `ClaimSafe` | `ClaimInv`, and a step simulation |
| `DebugPodClaimProofs!ClaimsAreSound` | `PodClaim!ClaimSound` | `ClaimInv` |
| `DebugPodClaimProofs!EnsureEnds` | `EnsureBounded` | `TypeInv`, and the `Course` of a step |
| `DebugPodClaimProofs!RetriesAreRaced` | `InternalOnlyRaced` | `RaceInv` |
| `NamespaceProofs!TypeCorrect` | `TypeOK` | itself, by induction |
| `NamespaceProofs!ReadyIsPrivileged` | `ReadyWasPrivileged` | `NInv` |
| `NamespaceProofs!NoConsentNoLabel` | `Consent` | `NInv` |
| `CaptureProofs!CaptureTypeCorrect` | `TypeOK` | `TypeInv` |
| `CaptureProofs!FileIsSettled` | `FileSettled` | `FileInv` |
| `CaptureProofs!CaptureStaysOnNode` | `TargetOnNode` | `NodeInv` |
| `CaptureProofs!TargetIsCaptured` | `CapturesTarget` | `TargetInv`, `NodeInv` |
| `CaptureProofs!SuccessIsEarned` | `NoSilentFailure` | `OutcomeInv` |
| `CaptureProofs!StopsAreKept` | `NoStopLost` | `TargetInv`, `HandleInv`, `FanInv` |
| `CaptureProofs!SigintIsCaused` | `SigintCodeHasCause` | `OutcomeInv`, `EarlySigint` |
| `CaptureProofs!AlarmsAreTrue` | `FalseAlarmOnlyByServer` | `TruthInv` |
| `NodeCacheProofs!TypeCorrect` | `TypeOK` | `CacheInv` |
| `NodeCacheProofs!FetchedOnce` | `OneFetch` | `CacheInv` |
| `NodeCacheProofs!AnswersAgree` | `SameAnswer` | `CacheInv` |
| `NodeCacheProofs!CanceledHonest` | `CanceledByFetcher` | `CacheInv` |
| `NodeCacheProofs!WaitersAreServed` | `WaitersServed` | `CacheInv` |
| `NodeCacheProofs!CacheImplementsCell` | `CellSpec` | `CacheInv`, and a step simulation |
| `CommandsProofs!TypeCorrect` | `TypeOK` | `CommandInv` |
| `CommandsProofs!HandlesReleased` | `HandlesClosed` | `CommandInv` |
| `CommandsProofs!BlameHonest` | `ErrorsBlamed` | `ErrInv`, `CtxInv` and `PathInv` in `CommandInv` |
| `CommandsProofs!SuccessHonest` | `SuccessEarned` | `FetchInv` in `CommandInv` |
| `CommandsProofs!FilterExact` | `GrepExact` | `GrepInv` |
| `CommandsProofs!InterruptWinds` | `InterruptWindsDown` | `CommandInv`, and `Moved` |
| `CommandsProofs!ArgumentsMeanWhatIsDocumented` | `ResolvedAsDocumented` | `EntriesApart`, `RowsMatch`, `LogsDocumented`, `EndpointsDocumented` |

`NoLostTermination` is not inductive. It speaks of sessions that hold a version;
whether the version is any good was decided earlier. `HandleInv` adds, for each
session: the `Discipline` of its variables (a watcher lives from the return of
`Ensure` to the end of the command; without a version there is nothing to
receive); `Attached`, for streams; `Named`, that everything it receives is about
its pod; and `Awaited`, the heart of it, which says of a session inside
`waitRunning` that a `Running` event in its queue is about the pod that runs or is
followed by the news of its end, and that a `DELETED` event which still carries the
phase Running never comes first. This is why it does no harm that `waitRunning`
looks at the phase of an event and not at its type. The step proof takes one
session at a time: its own steps, and the steps of everybody else, which leave
its variables alone and, if they change its pod, append the event to its queue.

In `DebugPodCleanupProofs`, `LeaseInv` adds that no lease was computed from a later
clock than the present one (`Stamped`); `DeletionInv` that a pod and a listed pod
have a number that was given out (`Numbered`, `Listed`), so that whatever is
created later has a higher one; `SweepInv` that what a client is about to delete
was stale when it read it (`Tidy`), and that a list has one pod to a name. All
three use one lemma, `StepOfPods`, on what any step does to the pods.

The refinement `ClaimSafe` needs more than that no notice is lost: a notice that is
due must also be true, because `PodClaim` lets a claim come with a notice only if
the incarnation has ended. `ClaimInv` adds to `HandleInv` that numbers in a session's
events have been given out (`Dated`), that a version held is the version of a pod
(`Based`), and that the news of an end is never ahead of the end, for the incarnation
a handle is about to be built on (`Fixed`) and for each one that `waitRunning` may
still find Running (`Ordered`). `OnceRan` is what makes the last two inductive: an
incarnation that has run does not start again. The simulation classifies a step for
one session at a time: it honours the claim, makes one, or gives one up
(`ClaimsOfStep`), and `PodsOfStep` says what it does to the pods meanwhile.

`EnsureBounded` is an action property, and its proof one lemma: every step is for every
session one of the four cases of `Course` (it leaves the session where it is, takes it
out of `Ensure`, takes it from one call to the next within an attempt, or loses the
attempt), and `Work` shrinks in each but the first. `InternalOnlyRaced` follows the same four cases.
`RaceInv` says how many incarnations a session that is at a given point of a given
attempt must have seen: one for an attempt that was lost, and for a pod that is there
again after one that was not, a second (`Reborn`).

In `Namespace` the strengthening is `Witnessed` (a caller under way has seen the
namespace as it is now) and `Patchers` (only a caller with `--auto-label` gets to
Patch).

In `Capture`, `TypeOK` needs `Placed`: a stream uses a node and a process number
that the main goroutine has found before. `NodeInv` says that the processes of an
incarnation all run on one node, that of the target and that of `initial` if they
are the same incarnation; a process of `initial` found on the debug pod's node is
then the proof that the two nodes are one. The proofs need at least one
incarnation and one instance (`BoundsAssumption`), which the initial state has.

`CapturesTarget` needs `TargetInv`: what a capture that goes on has not been told
yet is still in its watch (`Noticed`), the incarnation it resolved is not younger
than the one in the API (`Aged`), a process chosen belonged to the container the
target had then (`Chosen`), and without a watcher no stream runs (`Unwatched`).
`NoSilentFailure` needs `OutcomeInv`: an errgroup keeps the first error, so a capture
whose group was first cancelled must show a cause from outside for it, and a stream
cut for such a cause has been reported, caught or is about to be.

`NoStopLost` joins three invariants of different goroutines: `TargetInv` for the
target's watch; `HandleInv`, that there is no debug pod without a handle and none
before `Ensure`; `FanInv`, that the fan-out leaves a running capture only cancelled, and
that the main goroutine, which waits for the fan-out after the streams, has cancelled
it by then.

`SigintCodeHasCause` follows from `OutcomeInv` once there is a file, and before that
from `EarlySigint`: until then only Ctrl-C makes the code 130. For
`FalseAlarmOnlyByServer`, `TruthInv` says that an event which ends a capture and is
still queued is true of the target now, because a pod that has run is not Pending
again, restarts are only counted up, and an incarnation that is gone does not return.

In `NodeCache`, `CacheInv` says that the holder of the mutex is the one call
inside `entry`, that an entry was made by a call for the node it is filed under,
that every call past the insert holds the entry of the map, and that an entry's
`Once`, its runner and its value agree; then at most one call ever runs a fetch of a
node, and what it stored is what everybody reads.

In `Commands`, `ErrInv` says of every error on its way to `main` that the calls and
streams show whoever its code blames at fault, and that there is no error before
something is returned; `CtxInv` that the probe's context is cancelled only by an
interrupt; `PathInv` how the command has come to where it is, so that the fallback of
the probe runs only after an answer of the journal; `FetchInv` that the loop of
`--tail` goes round, and a command returns without an error, only after a fetch that
arrived. Every step of a command is one of two (`Onward`, `Out`), and each is shown
once to keep `CommandInv`.

`GrepExact` says what `grepWriter` has printed, for streams of any length cut in any
way. `GrepInv` relates the buffer to the stream: what has left the buffer (`Cut`) ends
at the end of a line, the buffer is the rest of the stream, and the output is the
bytes of the matching lines before the cut, in order. The order is said without
recursion: the output's length is the number of the places wanted, and the byte of a
place is at the number of wanted places up to it (`Shows`, `Nth`). Two things then
need proof: that the lines before a cut at a line's end do not depend on what comes
after it (`KeptPrefix`), and that a matching line is appended whole.

`ResolvedAsDocumented` speaks of the table in `agents.go` and of the tables in
`TOOL.md`. The lemmas go through the twelve entries of the first: units, aliases,
sources and endpoints are well named (`EntriesApart`), so that the first match of a
search is the only one; and each entry matches the row of `Manual` with its alias
(`Matches`, `EveryRow`), so that a search in the one finds what a search in the other
does (`RowsMatch`, `RowsFound`). `LogsDocumented` and `EndpointsDocumented` then
compare the order of the code's checks with the rules of the document. `Moved` says
where a step can go at all, which is all that `InterruptWindsDown` needs.

Only model-checked is what the prover cannot reach: liveness (`EnsureReturns`,
`TerminationDelivered`, `SweepCollects`, `StopsWhenToldTo`, `ReturnsAfterStreams`,
`CallsReturn`, `ProbeReturns`, `InterruptStops`). Every invariant and every other action or
refinement property that a run checks is a theorem.

## Not modelled

- The smoke test command: a sequence of manual steps against a cluster.
- Configuration, flags, completion, version, printing: no state that changes. An
  error in the flags is in the list of disagreements.
- `HostExec` of `nsenter`, which the program does not call; the manifest beyond name,
  node and lease; the argv of the remote commands, the namespaces they join included;
  the bytes of a stream other than those `grepWriter` looks at.
- The copier of client-go, which may outlive a cancelled stream; and standard
  output, which may fail or be closed.

## Plan

`DebugPod`, `PodClaim`, `Namespace`, `Capture`, `NodeCache`, `OnceCell`, `Commands` with
`Catalog`, `GrepWriter` and `ExitCode`, the refinements and the proofs above: done.
What is left:

1. The theorems that `OnceCell` and `PodClaim` deserve by themselves, so that an
   implementation inherits them instead of proving them again.
2. What the disagreements leave true: `130` without Ctrl-C is done
   (`SigintCodeHasCause`); that a lost lease needs a join of a Pending pod is not.
