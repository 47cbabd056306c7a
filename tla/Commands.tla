------------------------------ MODULE Commands ------------------------------
(***************************************************************************)
(* One invocation of auto exec, auto logs or auto metrics, from the command*)
(* line to the exit code: what the catalog makes of the arguments, the     *)
(* debug pod, the streams into it and what each failure turns into.        *)
(*                                                                         *)
(* EnsureNamespace, the sweep and Ensure are what Namespace and DebugPod   *)
(* show of them, the runtime endpoint what NodeCache shows; here they      *)
(* return or fail.  The errors of the sweep and of the endpoint are        *)
(* ignored.                                                                *)
(***************************************************************************)
EXTENDS Manual, ExitCode, GrepWriter

CONSTANTS
  Requests,    \* command lines
  MaxFaults    \* bound of failing calls and lost connections

ExecRequest    == [cmd: {"exec"}]
LogsRequest    == [cmd: {"logs"}, agent: STRING \X Nat, source: STRING, probe: BOOLEAN,
                   grep: {"", "regex", "bad"}]
MetricsRequest == [cmd: {"metrics"}, agent: STRING \X Nat, endpoint: STRING, port: Nat,
                   path: STRING, via: STRING, tail: BOOLEAN]

ASSUME RequestsAssumption == Requests \subseteq ExecRequest \cup LogsRequest \cup MetricsRequest
ASSUME FaultsAssumption   == MaxFaults \in Nat

NoTask == [name |-> ""]

VARIABLES
  req,          \* the command line
  host,         \* the node: where the unit or file is, its architecture, whether it has logged
  pc,
  task,         \* the log source or endpoint resolved
  arch,         \* what the probe takes for the node's architecture
  err,          \* what RunE returns
  code,         \* the exit code
  handles,      \* debug pod handles that are open
  interrupted,  \* SIGINT or SIGTERM received
  probeCtx,     \* the context of the probe: "live", "deadline" or "canceled"
  tick,         \* the ticker's channel holds a tick
  faults,
  ended         \* history: how the calls and streams ended, each the last time

vars == <<req, host, pc, task, arch, err, code, handles, interrupted, probeCtx, tick,
          faults, ended, gvars>>

Probing   == {"probe", "uname", "find"}
Streaming == Probing \cup {"stream", "curl"}
Labels    == Streaming \cup {"session", "resolve", "namespace", "ensure", "compile",
                             "proxy", "wait", "main", "done"}
Calls     == Streaming \cup {"session", "namespace", "ensure", "proxy"}
Outcomes  == {"ok", "status", "refused", "raced", "broken", "deadline", "canceled"}

TypeOK ==
  /\ req \in Requests
  /\ pc \in Labels
  /\ err \in Chain
  /\ code \in Codes
  /\ handles \in Nat
  /\ interrupted \in BOOLEAN /\ tick \in BOOLEAN
  /\ probeCtx \in {"live", "deadline", "canceled"}
  /\ faults \in 0..MaxFaults
  /\ ended \in [Calls -> Outcomes \cup {""}]

Logs    == req.cmd = "logs"
Metrics == req.cmd = "metrics"

Fault == faults < MaxFaults /\ faults' = faults + 1

\* The call or stream that the command is in ends.
Ended(how) == ended' = [ended EXCEPT ![pc] = how]

-----------------------------------------------------------------------------
(* Ways on and ways out.  The deferred Close of a handle runs on every way *)
(* out of the function that called ensureDebugPod.                         *)

Continue(to) == pc' = to /\ UNCHANGED <<err, handles>>

ReturnTwice(e) == pc' = "main" /\ err' = e /\ handles' = handles - 1   \* mutant

Return(e) ==
  /\ pc' = "main" /\ err' = e
  /\ handles' = IF pc \in Streaming \cup {"compile"} THEN handles - 1 ELSE handles

FetchLeaks(e) ==                                                     \* mutant
  /\ IF e # Nil \/ ~req.tail
       THEN pc' = "main" /\ err' = e
       ELSE pc' = "wait" /\ UNCHANGED err
  /\ UNCHANGED handles

FetchUnchecked(e) ==                                                 \* mutant
  IF ~req.tail THEN Return(e)
               ELSE /\ pc' = "wait" /\ UNCHANGED err
                    /\ handles' = IF pc = "curl" THEN handles - 1 ELSE handles

\* A fetch of metrics returns: the end without --tail or with an error.
FetchReturns(e) ==
  IF e # Nil \/ ~req.tail
    THEN Return(e)
    ELSE /\ pc' = "wait" /\ UNCHANGED err
         /\ handles' = IF pc = "curl" THEN handles - 1 ELSE handles

\* A call under the root context: one of a cancelled context fails.
CallEnds(how) ==
  /\ how = "ok" => ~interrupted
  /\ how = "canceled" => interrupted
  /\ IF how = "broken" THEN Fault ELSE UNCHANGED faults
  /\ Ended(how)

CallErr(how) ==
  CASE how = "ok"       -> Nil
    [] how = "refused"  -> Wrap(User, Plain)
    [] how = "raced"    -> Wrap(Internal, Plain)
    [] how = "broken"   -> Wrap(Cluster, Plain)
    [] how = "canceled" -> Wrap(Cluster, Canceled)

-----------------------------------------------------------------------------
(* Arguments. *)

\* LoadSession: the kubeconfig, which may be broken, then the guard on the
\* context's name, which may refuse it.
Load ==
  /\ pc = "session"
  /\ \E how \in {"ok", "broken", "refused"} :
       /\ Ended(how)
       /\ IF how = "ok" THEN Continue(IF req.cmd = "exec" THEN "namespace" ELSE "resolve")
                        ELSE Return(CallErr(how))
  /\ UNCHANGED <<req, host, task, arch, code, interrupted, probeCtx, tick, faults, gvars>>

\* resolveLogSource
LogSource(a, source) ==
  IF source = "" THEN DefaultLog(a)
  ELSE IF HasNamed(a.logs, source) THEN Named(a.logs, source)
  ELSE IF source = "journal" THEN Journal(a.unit)
  ELSE NoTask

\* resolveEndpoint.  With a port and a path whatever is wrong with --via is
\* ignored.
Via(e, via) == IF via \in {"apiserver", "node"} THEN [e EXCEPT !.transport = via] ELSE e

FoundEndpoint(r) ==
  LET a    == Lookup(r.agent)
      n    == IF r.endpoint = "" THEN "metrics" ELSE r.endpoint
  IN  IF HasNamed(a.endpoints, n) /\ r.via \in {"", "apiserver", "node"}
        THEN Via(Named(a.endpoints, n), r.via) ELSE NoTask

Endpoint(r) ==
  IF r.port # 0 /\ r.path # "" THEN Via(Local("custom", r.port, r.path), r.via)
  ELSE IF (r.port # 0) # (r.path # "") THEN NoTask
  ELSE FoundEndpoint(r)

FetchStart(t) == IF t.transport = "node" THEN "namespace" ELSE "proxy"

Resolve ==
  /\ pc = "resolve"
  /\ task' = IF Metrics THEN Endpoint(req)
             ELSE IF req.source = "list" THEN NoTask
             ELSE LogSource(Lookup(req.agent), req.source)
  /\ IF Logs /\ req.source = "list" THEN Return(Nil)
     ELSE IF task' = NoTask THEN Return(Wrap(User, Plain))
     ELSE Continue(IF Metrics THEN FetchStart(task') ELSE "namespace")
  /\ UNCHANGED <<req, host, arch, code, interrupted, probeCtx, tick, faults, ended, gvars>>

-----------------------------------------------------------------------------
(* ensureDebugPod.  EnsureNamespace refuses a namespace without the label. *)

Bootstrap ==
  /\ pc = "namespace"
  /\ \E how \in {"ok", "refused", "broken", "canceled"} :
       /\ CallEnds(how)
       /\ IF how = "ok" THEN Continue("ensure") ELSE Return(CallErr(how))
  /\ UNCHANGED <<req, host, task, arch, code, interrupted, probeCtx, tick, gvars>>

EnsurePodDeaf ==                                                     \* mutant
  /\ pc = "ensure"
  /\ pc' = IF Metrics THEN "curl" ELSE IF Logs /\ req.probe THEN "probe" ELSE "stream"
  /\ handles' = handles + 1
  /\ Ended("ok")
  /\ UNCHANGED <<req, host, task, arch, err, code, interrupted, probeCtx, tick, faults, gvars>>

HaveHandle ==
  /\ pc' = CASE Metrics          -> "curl"
             [] Logs             -> IF req.probe THEN "probe" ELSE "compile"
             [] req.cmd = "exec" -> "stream"
  /\ handles' = handles + 1
  /\ UNCHANGED err

\* Ensure.  An interrupted waitRunning may report its closed watch instead of
\* the context's error.
EnsurePod ==
  /\ pc = "ensure"
  /\ \E how \in {"ok", "raced", "broken", "canceled"} :
       /\ CallEnds(how)
       /\ \/ how = "ok" /\ HaveHandle
          \/ how # "ok" /\ Return(CallErr(how))
          \/ how = "canceled" /\ Return(Wrap(Cluster, Plain))
  /\ UNCHANGED <<req, host, task, arch, code, interrupted, probeCtx, tick, gvars>>

-----------------------------------------------------------------------------
(* Streams. *)

CtxErrRoot == IF interrupted THEN "canceled" ELSE "live"             \* mutant

\* The error of the context a stream runs under.
CtxErr == IF pc \in Probing THEN probeCtx ELSE IF interrupted THEN "canceled" ELSE "live"

\* ExecStream looks at the context after the stream has failed.
StreamErr(o) ==
  IF o = "ok" THEN Nil
  ELSE IF o = "canceled" \/ CtxErr = "canceled"
    THEN [code |-> Sigint, canceled |-> o = "canceled"]
  ELSE Wrap(IF o = "status" THEN Node ELSE Cluster, Plain)

\* test -f on the file.
FileProbeEnds(o) ==
  /\ pc = "probe" /\ task.kind = "file"
  /\ o = "ok" => host.where # "absent"
  /\ IF o = "ok" THEN Continue("compile")
     ELSE Return(IF StreamErr(o).code = Node THEN Wrap(Node, Plain) ELSE StreamErr(o))
  /\ UNCHANGED arch

JournalProbeDeaf(o) ==                                               \* mutant
  /\ pc = "probe" /\ task.kind = "journal"
  /\ UNCHANGED arch
  /\ \E output \in BOOLEAN :
       /\ output => host.logged
       /\ o = "ok" => output = host.logged
       /\ Continue(IF output THEN "compile" ELSE "uname")

\* journalctl -n 1: output means that the unit is there.
JournalProbeEnds(o) ==
  /\ pc = "probe" /\ task.kind = "journal"
  /\ UNCHANGED arch
  /\ \E output \in BOOLEAN :
       /\ output => host.logged
       /\ o = "ok" => output = host.logged
       /\ IF StreamErr(o).code \notin {OK, Node} THEN Return(StreamErr(o))
          ELSE Continue(IF output THEN "compile" ELSE "uname")

UnameEnds(o) ==
  /\ pc = "uname"
  /\ arch' \in {host.arch, "x86_64"} /\ (o = "ok" => arch' = host.arch)
  /\ Continue("find")

\* find looks for the unit's name with ".service" after it.
UnitFileListed ==
  /\ Suffixed(task.of) = task.of
  /\ host.where = "etc" \/ (host.where = "sysroot" /\ arch = host.arch)

FindEnds(o) ==
  /\ pc = "find"
  /\ \E output \in BOOLEAN :
       /\ output => UnitFileListed
       /\ o \in {"ok", "status"} => output = UnitFileListed
       /\ IF output THEN Continue("compile") ELSE Return(Wrap(Node, Plain))
  /\ UNCHANGED arch

StreamEnds(o) ==
  /\ pc = "stream"
  /\ Return(StreamErr(o))
  /\ UNCHANGED arch

CurlEnds(o) ==
  /\ pc = "curl"
  /\ FetchReturns(StreamErr(o))
  /\ UNCHANGED arch

Ends(o) ==
  /\ \/ FileProbeEnds(o) \/ JournalProbeEnds(o) \/ UnameEnds(o) \/ FindEnds(o)
     \/ StreamEnds(o) \/ CurlEnds(o)
  /\ Ended(o)
  /\ UNCHANGED <<req, host, task, code, interrupted, probeCtx, tick, gvars>>

RemoteEnds  == ~writing /\ UNCHANGED faults /\ \E o \in {"ok", "status"} : Ends(o)
Breaks      == Fault /\ Ends("broken")
ContextEnds == CtxErr # "live" /\ UNCHANGED faults /\ Ends(CtxErr)

\* Ten seconds for all the streams of the probe.
Deadline ==
  /\ pc \in Probing /\ probeCtx = "live" /\ probeCtx' = "deadline"
  /\ UNCHANGED <<req, host, pc, task, arch, err, code, handles, interrupted, tick, faults,
                 ended, gvars>>

\* The pattern of --grep is looked at when the pod is up and the probe is over.
Compile ==
  /\ pc = "compile"
  /\ IF req.grep = "bad" THEN Return(Wrap(User, Plain)) ELSE Continue("stream")
  /\ UNCHANGED <<req, host, task, arch, code, interrupted, probeCtx, tick, faults, ended, gvars>>

noFilter == <<req, host, pc, task, arch, err, code, handles, interrupted, probeCtx, tick,
              faults, ended>>

Chunk == /\ pc = "stream" /\ Logs /\ req.grep = "regex"
         /\ \E p \in Chunks : Write(p)
         /\ UNCHANGED noFilter

Filter == pc # "done" /\ CutLine /\ UNCHANGED noFilter

-----------------------------------------------------------------------------
(* metrics: the API server's proxy, and the loop of --tail. *)

Proxy ==
  /\ pc = "proxy"
  /\ \E how \in {"ok", "broken", "canceled"} : CallEnds(how) /\ FetchReturns(CallErr(how))
  /\ UNCHANGED <<req, host, task, arch, code, interrupted, probeCtx, tick, gvars>>

\* The channel of the ticker holds one tick; more are dropped.
Tick ==
  /\ Metrics /\ req.tail /\ task # NoTask /\ pc \notin {"main", "done"}
  /\ ~tick /\ tick' = TRUE
  /\ UNCHANGED <<req, host, pc, task, arch, err, code, handles, interrupted, probeCtx,
                 faults, ended, gvars>>

SelectTicks ==                                                       \* mutant
  /\ pc = "wait"
  /\ tick /\ tick' = FALSE /\ Continue(FetchStart(task))
  /\ UNCHANGED <<req, host, task, arch, code, interrupted, probeCtx, faults, ended, gvars>>

Select ==
  /\ pc = "wait"
  /\ \/ interrupted /\ Return(Nil) /\ UNCHANGED tick
     \/ tick /\ tick' = FALSE /\ Continue(FetchStart(task))
  /\ UNCHANGED <<req, host, task, arch, code, interrupted, probeCtx, faults, ended, gvars>>

-----------------------------------------------------------------------------
Main ==
  /\ pc = "main" /\ pc' = "done"
  /\ code' = Exit(err, interrupted)
  /\ UNCHANGED <<req, host, task, arch, err, handles, interrupted, probeCtx, tick, faults,
                 ended, gvars>>

\* signal.NotifyContext; the context of the probe is a child.
Interrupt ==
  /\ pc # "done" /\ ~interrupted /\ interrupted' = TRUE
  /\ probeCtx' = IF probeCtx = "live" THEN "canceled" ELSE probeCtx
  /\ UNCHANGED <<req, host, pc, task, arch, err, code, handles, tick, faults, ended, gvars>>

Stopped == pc = "done" /\ UNCHANGED vars

Init ==
  /\ req \in Requests
  /\ host \in [where: {"absent", "etc", "sysroot"}, arch: {"x86_64", "aarch64"},
               logged: BOOLEAN]
  /\ ~(Logs /\ req.probe) => host = [where |-> "etc", arch |-> "x86_64", logged |-> TRUE]
  /\ pc = "session" /\ task = NoTask /\ arch = ""
  /\ err = Nil /\ code = OK /\ handles = 0
  /\ interrupted = FALSE /\ probeCtx = "live" /\ tick = FALSE
  /\ faults = 0 /\ ended = [c \in Calls |-> ""]
  /\ GInit

Progress ==
  \/ Load \/ Resolve \/ Bootstrap \/ EnsurePod \/ ContextEnds \/ Compile
  \/ Proxy \/ Select \/ Main

Next ==
  \/ Progress \/ RemoteEnds \/ Breaks \/ Deadline \/ Chunk \/ Filter \/ Tick
  \/ Interrupt \/ Stopped

Spec == Init /\ [][Next]_vars

\* The process runs, calls return (see DebugPod), timers fire.  Nothing is
\* assumed of the remote commands, the connection or the ticker.
FairSpec == Spec /\ WF_vars(Progress) /\ WF_vars(Deadline)

-----------------------------------------------------------------------------
(* Properties. *)

\* Whose fault a failure is, by TOOL.md:55-62 and by how the calls and streams
\* have ended.
Answered(c) == ended[c] \in {"ok", "status"}
Mains       == {"stream", "curl", "proxy"}

UserErred ==
  \/ "refused" \in {ended["session"], ended["namespace"]}
  \/ req.cmd # "exec" /\ task = NoTask /\ ended["session"] = "ok"
  \/ Logs /\ req.grep = "bad" /\ ended["ensure"] = "ok"

ClusterErred == \E c \in Calls \ {"uname", "find"} : ended[c] \in {"broken", "deadline"}

\* The node has said so itself: the program it was asked to run failed, it has no
\* such file, or it has answered all three questions about the unit.
NodeErred ==
  \/ "status" \in {ended["stream"], ended["curl"]}
  \/ ended["probe"] = "status" /\ task.kind = "file"
  \/ \A c \in Probing : Answered(c)

\* The two places where the code is known to blame the wrong one: an interrupted
\* waitRunning that reports its closed watch (lifecycle.go:209), and a fallback of
\* the probe that takes no answer for the answer no (logs.go:202).
WaitCut     == interrupted /\ ended["ensure"] = "canceled"
FallbackCut == Answered("probe") /\ ended["find"] # "" /\ ~(Answered("uname") /\ Answered("find"))

\* Whoever the exit code blames is at fault.  Of every error on every way out the
\* code keeps who caused it, whatever else went wrong before, while or after it
\* did: a broken connection or a deadline is never taken for an answer of the
\* node, a Ctrl-C never for a failure of the cluster, nor the other way round, but
\* in the two places named above.
ErrorsBlamed ==
  pc = "done" =>
    /\ code = User     => UserErred
    /\ code = Cluster  => ClusterErred \/ WaitCut
    /\ code = Node     => NodeErred \/ FallbackCut
    /\ code = Internal => ended["ensure"] = "raced"
    /\ code = Sigint   => interrupted

\* Exit code 0 is earned: what was asked for did arrive to its end, in the last
\* round of metrics --tail too.
Delivered ==
  /\ \A c \in Mains : ended[c] \in {"", "ok"}
  /\ \E c \in Mains : ended[c] = "ok"
SuccessEarned == pc = "done" /\ code = OK => Delivered \/ (Logs /\ req.source = "list")

\* The steps of a command in an order that only a tick of --tail turns back.
Rank(label) ==
  CASE label = "session"                -> 11
    [] label = "resolve"                -> 10
    [] label = "probe"                  -> 9
    [] label = "uname"                  -> 8
    [] label = "find"                   -> 7
    [] label = "compile"                -> 6
    [] label \in {"stream", "curl"}     -> 5
    [] label = "wait"                   -> 4
    [] label \in {"namespace", "proxy"} -> 3
    [] label = "ensure"                 -> 2
    [] label = "main"                   -> 1
    [] label = "done"                   -> 0

\* Ctrl-C cannot be outrun: after it a command only winds down, in at most eleven
\* steps.  A tick that lies ready may win the select of --tail once more
\* (metrics.go:63), but the round it starts fails before it has a new pod.
InterruptWindsDown ==
  [][interrupted /\ pc' # pc => Rank(pc') < Rank(pc)]_vars

\* A handle is open exactly as long as its command or its fetch: --tail, which
\* takes a new one for each tick, does not collect watchers (metrics.go:179).
HandlesClosed == handles = IF pc \in Streaming \cup {"compile"} THEN 1 ELSE 0

\* Arguments mean what TOOL.md says, and exactly one thing: the catalog of the
\* code has what the tables of the document have, none of its entries hides
\* another of the same name, alias or unit, "--source list" lists and stops, and
\* what is not documented is refused as the user's error.
ResolvedAsDocumented ==
  [][pc = "resolve" /\ pc' # "resolve" /\ ~Disputed(req)
     => \/ Documented(req) = {task'} /\ pc' # "main"
        \/ /\ Documented(req) = {} /\ task' = NoTask /\ pc' = "main"
           /\ err'.code = IF Logs /\ req.source = "list" THEN OK ELSE User]_vars

\* A remote side that hangs cannot hold up the probe (logs.go:174).
ProbeReturns == pc \in Probing ~> pc \notin Probing

\* Ctrl-C ends every command, whatever it is in.
InterruptStops == interrupted ~> pc = "done"

\* logs.go:171: "with filesystem-find fallback for units that haven't logged
\* anything yet".  The probe does not deny a unit that is there, as long as the
\* node answers it.
QuietUnitFound ==
  pc = "done" /\ code = Node /\ (\A c \in Probing : Answered(c)) /\ ended["stream"] = ""
    => host.where = "absent"
=============================================================================
