--------------------------- MODULE CommandsProofs ---------------------------
(***************************************************************************)
(* Proofs about Commands, for any set of command lines, streams of any     *)
(* length and any number of faults.                                        *)
(***************************************************************************)
EXTENDS Commands, FiniteSetTheorems, SequenceTheorems, TLAPS

USE DEF OK, User, Cluster, Node, Internal, Sigint, Uncoded

-----------------------------------------------------------------------------
(* The inductive invariant.                                                *)

Open == Streaming \cup {"compile"}
Over == {"main", "done"}

\* An error that RunE returns is coded, and blames who is at fault.
Justified(e, user, cluster, node, raced, stopped) ==
  /\ e.code # Uncoded
  /\ e.canceled => stopped
  /\ e.code = OK => e = Nil
  /\ e.code = User => user
  /\ e.code = Cluster => cluster \/ e.canceled
  /\ e.code = Node => node
  /\ e.code = Internal => raced
  /\ e.code = Sigint => stopped

ClusterBlamed == ClusterErred \/ WaitCut
NodeBlamed    == NodeErred \/ FallbackCut
Raced         == ended["ensure"] = "raced"

ErrInv ==
  /\ Justified(err, UserErred, ClusterBlamed, NodeBlamed, Raced, interrupted)
  /\ pc \notin Over => err = Nil

\* The context of the probe is cancelled by its parent only.
CtxInv == probeCtx = "canceled" => interrupted

\* What has been fetched when the command waits or returns without an error.
Clean     == \A c \in Mains : ended[c] \in {"", "ok"}
Fetched   == Delivered \/ (Logs /\ req.source = "list")
FetchInv ==
  /\ err = Nil => Clean
  /\ pc = "wait" => Delivered
  /\ pc = "main" /\ err = Nil => Fetched

\* How a command has come to where it is.
PathInv ==
  /\ pc \in {"uname", "find"} => Answered("probe")
  /\ pc = "resolve" => ended["session"] = "ok" /\ req.cmd # "exec"
  /\ pc = "compile" => Logs /\ ended["ensure"] = "ok"
  /\ pc \in Probing => Logs /\ ended["ensure"] = "ok"

CommandInv ==
  /\ TypeOK /\ HandlesClosed /\ ErrInv /\ CtxInv /\ FetchInv /\ PathInv
  /\ ErrorsBlamed /\ SuccessEarned

-----------------------------------------------------------------------------
(* The ways out.                                                           *)

LEMMA Kinds ==
  /\ Nil \in Chain /\ Plain \in Chain /\ Canceled \in Chain /\ Nil.code = OK
  /\ ~Plain.canceled /\ Canceled.canceled
  /\ \A c \in Codes, e \in Chain : /\ Wrap(c, e) \in Chain /\ Wrap(c, e).code = c
                                   /\ Wrap(c, e).canceled = e.canceled
                                   /\ c # OK => Wrap(c, e) # Nil
  BY DEF Nil, Plain, Canceled, Chain, Codes, Wrap

\* What the steps of the command itself have in common.
Rest ==
  /\ UNCHANGED <<req, code, interrupted, probeCtx>>
  /\ pc \notin Over
  /\ tick' \in BOOLEAN /\ faults' \in 0..MaxFaults
  /\ ended' \in [Calls -> Outcomes \cup {""}]

\* It goes on ...
Onward ==
  /\ Rest
  /\ err' = err
  /\ pc' \in Labels \ Over
  /\ handles' = IF pc' \in Open THEN 1 ELSE 0
  /\ Clean'
  /\ pc' = "wait" => Delivered'
  /\ PathInv'

JustifiedNext(e) ==
  Justified(e, UserErred', ClusterBlamed', NodeBlamed', Raced', interrupted)

\* ... or RunE returns.
Out(e) ==
  /\ Rest
  /\ Return(e)
  /\ JustifiedNext(e)
  /\ e = Nil => Clean' /\ Fetched'

LEMMA NilJustified ==
  \A user, cluster, node, raced, stopped :
    Justified(Nil, user, cluster, node, raced, stopped)
<1>1. Nil.code = OK /\ Nil.canceled = FALSE
  BY DEF Nil
<1> QED
  BY <1>1 DEF Justified

LEMMA OnwardKeeps == ASSUME CommandInv, Onward PROVE CommandInv'
<1> USE DEF Onward, Rest, CommandInv, Over
<1>1. pc' \notin Over /\ err' = Nil
  BY DEF ErrInv
<1>2. TypeOK' /\ HandlesClosed'
  BY DEF TypeOK, HandlesClosed, Labels, Streaming, Probing, Open
<1>3. ErrInv'
  BY <1>1, NilJustified DEF ErrInv
<1>4. CtxInv' /\ PathInv'
  BY DEF CtxInv
<1>5. FetchInv'
  BY <1>1 DEF FetchInv
<1>6. ErrorsBlamed' /\ SuccessEarned'
  BY <1>1 DEF ErrorsBlamed, SuccessEarned
<1> QED
  BY <1>2, <1>3, <1>4, <1>5, <1>6

LEMMA OutKeeps == ASSUME CommandInv, NEW e \in Chain, Out(e) PROVE CommandInv'
<1>1. /\ pc' = "main" /\ err' = e
      /\ handles' = IF pc \in Streaming \cup {"compile"} THEN handles - 1 ELSE handles
      /\ pc \notin Over
  BY DEF Out, Rest, Return
<1>2. handles' = 0
  BY <1>1 DEF CommandInv, HandlesClosed
<1>3. TypeOK'
  <2>1. pc' \in Labels
    BY <1>1 DEF Labels
  <2>2. tick' \in BOOLEAN /\ interrupted' \in BOOLEAN
    BY Zenon DEF Out, Rest, CommandInv, TypeOK
  <2>3. req' \in Requests /\ code' \in Codes
    BY DEF Out, Rest, CommandInv, TypeOK
  <2>4. err' \in Chain /\ handles' \in Nat
    BY <1>1, <1>2
  <2>5. /\ probeCtx' \in {"live", "deadline", "canceled"}
        /\ faults' \in 0..MaxFaults /\ ended' \in [Calls -> Outcomes \cup {""}]
    BY DEF Out, Rest, CommandInv, TypeOK
  <2> QED
    BY <2>1, <2>2, <2>3, <2>4, <2>5 DEF TypeOK
<1>4. HandlesClosed'
  BY <1>1, <1>2 DEF HandlesClosed, Streaming, Probing
<1>5. ErrInv'
  BY <1>1 DEF ErrInv, Out, Rest, JustifiedNext, Over
<1>6. CtxInv' /\ FetchInv' /\ PathInv'
  BY <1>1 DEF CtxInv, FetchInv, PathInv, Out, Rest, CommandInv, Probing
<1>7. ErrorsBlamed' /\ SuccessEarned'
  BY <1>1 DEF ErrorsBlamed, SuccessEarned
<1> QED
  BY <1>3, <1>4, <1>5, <1>6, <1>7 DEF CommandInv

\* A coded error with a culprit of its kind is a way out.
LEMMA BlamedOut ==
  ASSUME CommandInv, Rest, NEW c \in {User, Cluster, Node, Internal}, Return(Wrap(c, Plain)),
         c = User => UserErred', c = Cluster => ClusterBlamed',
         c = Node => NodeBlamed', c = Internal => Raced'
  PROVE  CommandInv'
<1>1. c \in Codes /\ c # OK
  BY DEF Codes
<1>2. /\ Wrap(c, Plain) \in Chain /\ Wrap(c, Plain).code = c
      /\ ~Wrap(c, Plain).canceled /\ Wrap(c, Plain) # Nil
  BY <1>1, Kinds
<1>3. JustifiedNext(Wrap(c, Plain))
  BY <1>2 DEF Justified, JustifiedNext
<1> QED
  BY <1>2, <1>3, OutKeeps DEF Out

LEMMA FaultCounted ==
  ASSUME NEW n \in 0..MaxFaults, n < MaxFaults PROVE n + 1 \in 0..MaxFaults
  BY FaultsAssumption

\* The error of a call whose context is cancelled.
LEMMA CanceledCall ==
  /\ Wrap(Cluster, Canceled) \in Chain /\ Wrap(Cluster, Canceled).code = Cluster
  /\ Wrap(Cluster, Canceled).canceled = TRUE /\ Wrap(Cluster, Canceled) # Nil
<1>1. Cluster \in Codes /\ Cluster # OK
  BY DEF Codes
<1>2. Canceled.canceled = TRUE
  BY DEF Canceled
<1>3. /\ Wrap(Cluster, Canceled) \in Chain /\ Wrap(Cluster, Canceled).code = Cluster
      /\ Wrap(Cluster, Canceled).canceled = Canceled.canceled
  BY <1>1, Kinds
<1>4. Wrap(Cluster, Canceled) # Nil
  BY <1>1, Kinds
<1> QED
  BY <1>2, <1>3, <1>4

LEMMA CanceledJustified == ASSUME interrupted PROVE JustifiedNext(Wrap(Cluster, Canceled))
<1> DEFINE e == Wrap(Cluster, Canceled)
<1>1. e.code = Cluster
  BY CanceledCall
<1>2. e.canceled = TRUE
  BY CanceledCall
<1> HIDE DEF e
<1>3. e.code # Uncoded
  BY <1>1
<1>4. e.code \notin {OK, User, Node, Internal, Sigint}
  BY <1>1
<1>5. e.code = Cluster => ClusterBlamed' \/ e.canceled
  BY <1>2, Zenon
<1>6. JustifiedNext(e)
  BY <1>3, <1>4, <1>5 DEF Justified, JustifiedNext
<1> QED
  BY <1>6 DEF e

\* The history after a call has ended.
LEMMA EndedHow ==
  ASSUME TypeOK, pc \in Calls, NEW how \in Outcomes, Ended(how)
  PROVE  /\ ended' \in [Calls -> Outcomes \cup {""}] /\ ended'[pc] = how
         /\ \A c \in Calls : c # pc => ended'[c] = ended[c]
  BY DEF TypeOK, Ended

LEMMA CallsNamed ==
  /\ Calls = {"probe", "uname", "find", "stream", "curl", "session", "namespace", "ensure",
              "proxy"}
  /\ Mains \subseteq Calls /\ Probing \subseteq Calls
  BY DEF Calls, Streaming, Probing, Mains

\* A call that does not stream leaves what has been fetched alone.
LEMMA StillClean ==
  ASSUME CommandInv, pc \in Calls \ Mains, NEW how \in Outcomes, Ended(how), pc \notin Over
  PROVE  Clean'
<1>1. Clean
  BY DEF CommandInv, ErrInv, FetchInv
<1>2. \A c \in Mains : ended'[c] = ended[c]
  <2>1. TypeOK /\ pc \in Calls
    BY DEF CommandInv
  <2>2. \A c \in Calls : c # pc => ended'[c] = ended[c]
    BY <2>1, EndedHow
  <2> QED
    BY <2>2, CallsNamed
<1> QED
  BY <1>1, <1>2 DEF Clean

\* A call fails.
LEMMA CallFailsKeeps ==
  ASSUME CommandInv, pc \in {"namespace", "ensure", "proxy"},
         NEW how \in {"refused", "raced", "broken", "canceled"}, CallEnds(how),
         Return(CallErr(how)),
         how = "refused" => pc = "namespace", how = "raced" => pc = "ensure",
         UNCHANGED <<req, code, interrupted, probeCtx, tick>>
  PROVE  CommandInv'
<1>0. how \in Outcomes /\ pc \in Calls /\ pc \notin Over /\ Ended(how) /\ TypeOK
  BY CallsNamed DEF Outcomes, Over, CallEnds, CommandInv
<1>1. /\ ended' \in [Calls -> Outcomes \cup {""}] /\ ended'[pc] = how
  BY <1>0, EndedHow
<1>2. faults' \in 0..MaxFaults
  <2>1. faults \in 0..MaxFaults
    BY <1>0 DEF TypeOK
  <2>2. CASE how = "broken"
    BY <2>1, <2>2, FaultCounted DEF CallEnds, Fault
  <2>3. CASE how # "broken"
    BY <2>1, <2>3 DEF CallEnds
  <2> QED
    BY <2>2, <2>3
<1>3. Rest
  <2>1. tick' \in BOOLEAN
    BY <1>0, Zenon DEF TypeOK
  <2> QED
    BY <1>0, <1>1, <1>2, <2>1 DEF Rest
<1>4. CASE how = "refused"
  <2>1. UserErred' /\ CallErr(how) = Wrap(User, Plain)
    BY <1>1, <1>4 DEF UserErred, CallErr
  <2> QED
    BY <1>3, <2>1, BlamedOut
<1>5. CASE how = "raced"
  <2>1. Raced' /\ CallErr(how) = Wrap(Internal, Plain)
    BY <1>1, <1>5 DEF Raced, CallErr
  <2> QED
    BY <1>3, <2>1, BlamedOut
<1>6. CASE how = "broken"
  <2>1. ClusterErred'
    BY <1>0, <1>1, <1>6 DEF ClusterErred
  <2>2. ClusterBlamed' /\ CallErr(how) = Wrap(Cluster, Plain)
    BY <1>6, <2>1 DEF ClusterBlamed, CallErr
  <2> QED
    BY <1>3, <2>2, BlamedOut
<1>7. CASE how = "canceled"
  <2>1. interrupted /\ CallErr(how) = Wrap(Cluster, Canceled)
    BY <1>7 DEF CallEnds, CallErr
  <2>2. JustifiedNext(Wrap(Cluster, Canceled))
    BY <2>1, CanceledJustified
  <2> QED
    BY <1>3, <2>1, <2>2, CanceledCall, OutKeeps DEF Out
<1> QED
  BY <1>4, <1>5, <1>6, <1>7

\* A fetch of metrics that ends with a justified error, or with what it wanted.
LEMMA FetchKeeps ==
  ASSUME CommandInv, Rest, NEW e \in Chain, FetchReturns(e), pc \in {"curl", "proxy"},
         JustifiedNext(e), e = Nil => Delivered'
  PROVE  CommandInv'
<1>1. CASE e # Nil \/ ~req.tail
  BY <1>1, OutKeeps DEF FetchReturns, Out, Fetched, Delivered, Clean
<1>2. CASE ~(e # Nil \/ ~req.tail)
  <2>1. handles = IF pc = "curl" THEN 1 ELSE 0
    BY DEF CommandInv, HandlesClosed, Streaming, Probing
  <2>2. handles' = 0 /\ pc' = "wait" /\ err' = err
    BY <1>2, <2>1 DEF FetchReturns
  <2>3. PathInv' /\ Clean'
    BY <1>2, <2>2 DEF PathInv, Probing, Delivered, Clean
  <2> QED
    BY <1>2, <2>2, <2>3, OnwardKeeps DEF Onward, Labels, Over, Open, Streaming, Probing
<1> QED
  BY <1>1, <1>2

-----------------------------------------------------------------------------
(* The steps before the streams.                                           *)

LEMMA LoadKeeps == ASSUME CommandInv, Load PROVE CommandInv'
<1>1. PICK how \in {"ok", "broken", "refused"} :
        /\ Ended(how)
        /\ IF how = "ok" THEN Continue(IF req.cmd = "exec" THEN "namespace" ELSE "resolve")
                         ELSE Return(CallErr(how))
  BY DEF Load
<1>2. /\ pc = "session" /\ pc \in Calls \ Mains /\ pc \notin Over /\ how \in Outcomes
      /\ UNCHANGED <<req, code, interrupted, probeCtx, tick, faults>>
  BY CallsNamed DEF Load, Mains, Over, Outcomes
<1>3. /\ ended' \in [Calls -> Outcomes \cup {""}] /\ ended'["session"] = how
  BY <1>1, <1>2, EndedHow DEF CommandInv
<1>4. Rest
  <2>1. tick' \in BOOLEAN /\ faults' \in 0..MaxFaults
    BY <1>2, Zenon DEF CommandInv, TypeOK
  <2> QED
    BY <1>2, <1>3, <2>1 DEF Rest
<1>5. CASE how = "ok"
  <2>1. Clean'
    BY <1>1, <1>2, StillClean
  <2>2. /\ pc' = IF req.cmd = "exec" THEN "namespace" ELSE "resolve"
        /\ UNCHANGED <<err, handles>>
    BY <1>1, <1>5 DEF Continue
  <2>3. PathInv'
    <3>1. req' = req /\ ended'["session"] = "ok"
      BY <1>2, <1>3, <1>5
    <3>2. pc' = "namespace" \/ (pc' = "resolve" /\ req.cmd # "exec")
      BY <2>2
    <3> QED
      BY <3>1, <3>2 DEF PathInv, Probing
  <2>4. handles = 0
    BY <1>2 DEF CommandInv, HandlesClosed, Streaming, Probing
  <2> QED
    BY <1>4, <2>1, <2>2, <2>3, <2>4, OnwardKeeps DEF Onward, Labels, Open, Streaming,
       Probing, Over
<1>6. CASE how = "broken"
  <2>1. ClusterErred'
    BY <1>2, <1>3, <1>6 DEF ClusterErred
  <2> QED
    BY <1>1, <1>4, <1>6, <2>1, BlamedOut DEF CallErr, ClusterBlamed
<1>7. CASE how = "refused"
  <2>1. UserErred'
    BY <1>3, <1>7 DEF UserErred
  <2>2. Return(Wrap(User, Plain))
    BY <1>1, <1>7 DEF CallErr
  <2> QED
    BY <1>4, <2>1, <2>2, BlamedOut
<1> QED
  BY <1>5, <1>6, <1>7

\* A step that ends no call and is none of the probe's.
LEMMA QuietStep ==
  ASSUME CommandInv, pc \notin Over,
         UNCHANGED <<req, code, interrupted, probeCtx, tick, faults, ended>>
  PROVE  Rest /\ Clean'
<1>1. Clean
  BY DEF CommandInv, ErrInv, FetchInv
<1>2. tick' \in BOOLEAN /\ faults' \in 0..MaxFaults
  BY Zenon DEF CommandInv, TypeOK
<1> QED
  BY <1>1, <1>2 DEF Rest, Clean, CommandInv, TypeOK

LEMMA ResolveKeeps == ASSUME CommandInv, Resolve PROVE CommandInv'
<1>1. /\ pc = "resolve" /\ ended["session"] = "ok" /\ req.cmd # "exec"
      /\ UNCHANGED <<req, code, interrupted, probeCtx, tick, faults, ended>>
  BY DEF Resolve, CommandInv, PathInv
<1>2. Rest /\ Clean'
  BY <1>1, QuietStep DEF Over
<1>3. CASE Logs /\ req.source = "list"
  <2>1. JustifiedNext(Nil)
    BY NilJustified DEF JustifiedNext
  <2> QED
    BY <1>1, <1>2, <1>3, <2>1, OutKeeps, Kinds DEF Resolve, Out, Fetched, Logs
<1>4. CASE ~(Logs /\ req.source = "list") /\ task' = NoTask
  <2>1. UserErred'
    BY <1>1, <1>4 DEF UserErred
  <2>2. Return(Wrap(User, Plain))
    BY <1>4 DEF Resolve
  <2> QED
    BY <1>2, <2>1, <2>2, BlamedOut
<1>5. CASE Continue(IF Metrics THEN FetchStart(task') ELSE "namespace")
  <2>1. pc' \in {"namespace", "proxy"} /\ UNCHANGED <<err, handles>>
    BY <1>5 DEF Continue, FetchStart
  <2>2. PathInv'
    BY <2>1 DEF PathInv, Probing
  <2>3. handles = 0
    BY <1>1 DEF CommandInv, HandlesClosed, Streaming, Probing
  <2> QED
    BY <1>2, <2>1, <2>2, <2>3, OnwardKeeps DEF Onward, Labels, Open, Streaming, Probing, Over
<1> QED
  BY <1>3, <1>4, <1>5 DEF Resolve

\* A call that succeeds.
LEMMA CallDone ==
  ASSUME CommandInv, pc \in {"namespace", "ensure"}, CallEnds("ok"),
         UNCHANGED <<req, code, interrupted, probeCtx, tick>>
  PROVE  Rest /\ Clean' /\ ended'[pc] = "ok" /\ ~interrupted
<1>1. /\ pc \in Calls \ Mains /\ pc \notin Over /\ "ok" \in Outcomes /\ Ended("ok")
      /\ faults' = faults /\ ~interrupted
  BY CallsNamed DEF CallEnds, Mains, Over, Outcomes
<1>2. ended' \in [Calls -> Outcomes \cup {""}] /\ ended'[pc] = "ok"
  BY <1>1, EndedHow DEF CommandInv
<1>3. tick' \in BOOLEAN /\ faults' \in 0..MaxFaults
  BY <1>1, Zenon DEF CommandInv, TypeOK
<1>4. Clean'
  BY <1>1, StillClean
<1> QED
  BY <1>1, <1>2, <1>3, <1>4 DEF Rest

LEMMA BootstrapKeeps == ASSUME CommandInv, Bootstrap PROVE CommandInv'
<1>1. PICK how \in {"ok", "refused", "broken", "canceled"} :
        /\ CallEnds(how)
        /\ IF how = "ok" THEN Continue("ensure") ELSE Return(CallErr(how))
  BY DEF Bootstrap
<1>2. pc = "namespace" /\ UNCHANGED <<req, code, interrupted, probeCtx, tick>>
  BY DEF Bootstrap
<1>3. CASE how = "ok"
  <2>1. Rest /\ Clean'
    BY <1>1, <1>2, <1>3, CallDone
  <2>2. pc' = "ensure" /\ UNCHANGED <<err, handles>>
    BY <1>1, <1>3 DEF Continue
  <2>3. PathInv'
    BY <2>2 DEF PathInv, Probing
  <2>4. handles = 0
    BY <1>2 DEF CommandInv, HandlesClosed, Streaming, Probing
  <2> QED
    BY <2>1, <2>2, <2>3, <2>4, OnwardKeeps DEF Onward, Labels, Open, Streaming, Probing, Over
<1>4. CASE how # "ok"
  BY <1>1, <1>2, <1>4, CallFailsKeeps
<1> QED
  BY <1>3, <1>4

LEMMA EnsurePodKeeps == ASSUME CommandInv, EnsurePod PROVE CommandInv'
<1>1. PICK how \in {"ok", "raced", "broken", "canceled"} :
        /\ CallEnds(how)
        /\ \/ how = "ok" /\ HaveHandle
           \/ how # "ok" /\ Return(CallErr(how))
           \/ how = "canceled" /\ Return(Wrap(Cluster, Plain))
  BY DEF EnsurePod
<1>2. pc = "ensure" /\ UNCHANGED <<req, code, interrupted, probeCtx, tick>>
  BY DEF EnsurePod
<1>3. CASE how = "ok" /\ HaveHandle
  <2>1. Rest /\ Clean' /\ ended'["ensure"] = "ok"
    BY <1>1, <1>2, <1>3, CallDone
  <2>2. req.cmd \in {"exec", "logs", "metrics"}
    BY RequestsAssumption DEF CommandInv, TypeOK, ExecRequest, LogsRequest, MetricsRequest
  <2>3. \/ pc' = "curl" \/ pc' = "stream"
        \/ pc' \in {"probe", "compile"} /\ Logs
    BY <1>3, <2>2 DEF HaveHandle, Metrics, Logs
  <2>4. handles' = 1 /\ err' = err
    BY <1>2, <1>3 DEF HaveHandle, CommandInv, HandlesClosed, Streaming, Probing
  <2>5. PathInv'
    BY <1>2, <2>1, <2>3 DEF PathInv, Probing, Logs
  <2> QED
    BY <2>1, <2>3, <2>4, <2>5, OnwardKeeps DEF Onward, Labels, Over, Open, Streaming, Probing
<1>4. CASE how # "ok" /\ Return(CallErr(how))
  BY <1>1, <1>2, <1>4, CallFailsKeeps
<1>5. CASE how = "canceled" /\ Return(Wrap(Cluster, Plain))
  <2>1. /\ pc \in Calls /\ how \in Outcomes /\ Ended(how) /\ interrupted
        /\ faults' = faults /\ pc \notin Over
    BY <1>1, <1>2, <1>5, CallsNamed DEF CallEnds, Outcomes, Over
  <2>2. ended' \in [Calls -> Outcomes \cup {""}] /\ ended'["ensure"] = how
    BY <1>2, <2>1, EndedHow DEF CommandInv
  <2>3. Rest
    <3>1. tick' \in BOOLEAN /\ faults' \in 0..MaxFaults
      BY <1>2, <2>1, Zenon DEF CommandInv, TypeOK
    <3> QED
      BY <1>2, <2>1, <2>2, <3>1 DEF Rest
  <2>4. ClusterBlamed'
    BY <1>2, <1>5, <2>1, <2>2 DEF ClusterBlamed, WaitCut
  <2> QED
    BY <1>5, <2>3, <2>4, BlamedOut
<1> QED
  BY <1>1, <1>3, <1>4, <1>5

-----------------------------------------------------------------------------
(* The streams.                                                            *)

\* Whose fault the end of a stream is, when it is an error.
Faulted(o) ==
  /\ o = "status" => NodeBlamed'
  /\ o \in {"broken", "deadline"} => ClusterBlamed'
StreamOutcomes == {"ok", "status", "broken", "deadline", "canceled"}

LEMMA StreamErrs ==
  ASSUME CommandInv, NEW o \in StreamOutcomes, o = "canceled" => CtxErr = "canceled"
  PROVE  /\ StreamErr(o) \in Chain
         /\ Faulted(o) => JustifiedNext(StreamErr(o))
         /\ StreamErr(o) = Nil <=> o = "ok"
         /\ StreamErr(o).code = OK <=> o = "ok"
         /\ StreamErr(o).code = Node => o = "status"
<1>1. CASE o = "ok"
  <2>1. StreamErr(o) = Nil /\ Nil.code = OK
    BY <1>1, Kinds DEF StreamErr
  <2> QED
    BY <1>1, <2>1, Kinds, NilJustified DEF JustifiedNext
<1>2. CASE o # "ok" /\ (o = "canceled" \/ CtxErr = "canceled")
  <2>1. interrupted
    BY <1>2 DEF CtxErr, CommandInv, CtxInv
  <2> DEFINE e == [code |-> Sigint, canceled |-> o = "canceled"]
  <2>2. StreamErr(o) = e
    BY <1>2 DEF StreamErr
  <2>3. e \in Chain /\ e.code = Sigint
    BY DEF Chain, Codes
  <2> HIDE DEF e
  <2>4. e # Nil /\ e.code \notin {OK, User, Cluster, Node, Internal, Uncoded}
    BY <2>3 DEF Nil
  <2>5. JustifiedNext(e)
    BY <2>1, <2>4 DEF Justified, JustifiedNext
  <2> QED
    BY <1>2, <2>2, <2>3, <2>4, <2>5
<1>3. CASE o \notin {"ok", "canceled"} /\ CtxErr # "canceled"
  <2> DEFINE c == IF o = "status" THEN Node ELSE Cluster
  <2>1. StreamErr(o) = Wrap(c, Plain)
    BY <1>3 DEF StreamErr
  <2>2. c \in Codes /\ c \in {Node, Cluster} /\ (c = Node <=> o = "status")
    BY DEF Codes
  <2>3. Faulted(o) => (c = Node => NodeBlamed') /\ (c = Cluster => ClusterBlamed')
    BY <1>3 DEF Faulted, StreamOutcomes
  <2> HIDE DEF c
  <2>4. /\ Wrap(c, Plain) \in Chain /\ Wrap(c, Plain).code = c /\ Wrap(c, Plain) # Nil
        /\ ~Wrap(c, Plain).canceled
    BY <2>2, Kinds
  <2>5. Faulted(o) => JustifiedNext(Wrap(c, Plain))
    BY <2>2, <2>3, <2>4 DEF Justified, JustifiedNext
  <2> QED
    BY <1>3, <2>1, <2>2, <2>4, <2>5
<1> QED
  BY <1>1, <1>2, <1>3

\* The streams of the probe go on to the next one or end the command.
LEMMA ProbeOnward ==
  ASSUME CommandInv, Rest, Clean', pc \in Probing, NEW to \in {"compile", "uname", "find"},
         Continue(to), to # "compile" => Answered("probe")', ended'["ensure"] = "ok"
  PROVE  CommandInv'
<1>1. handles = 1 /\ Logs
  BY DEF CommandInv, HandlesClosed, Streaming, PathInv
<1>2. pc' = to /\ UNCHANGED <<err, handles, req>>
  BY DEF Continue, Rest
<1>3. PathInv'
  BY <1>1, <1>2 DEF PathInv, Probing, Logs
<1> QED
  BY <1>1, <1>2, <1>3, OnwardKeeps DEF Onward, Labels, Over, Open, Streaming, Probing

\* What the end of a stream leaves behind.
LEMMA StreamEnded ==
  ASSUME CommandInv, NEW o \in StreamOutcomes, faults' \in 0..MaxFaults, Ends(o)
  PROVE  /\ Rest /\ pc \in Streaming
         /\ ended'[pc] = o /\ (\A c \in Calls : c # pc => ended'[c] = ended[c])
         /\ pc \in Probing => Clean' /\ ended'["ensure"] = "ok"
         /\ pc \notin Probing => Faulted(o) /\ (o = "ok" => Delivered')
         /\ pc = "probe" /\ o \in {"broken", "deadline"} => ClusterBlamed'
         /\ pc = "probe" /\ task.kind = "file" /\ o = "status" => NodeBlamed'
         /\ pc = "find" => NodeBlamed'
<1>1. /\ pc \in Streaming /\ Ended(o) /\ o \in Outcomes
      /\ UNCHANGED <<req, task, code, interrupted, probeCtx, tick>>
  BY DEF Ends, FileProbeEnds, JournalProbeEnds, UnameEnds, FindEnds, StreamEnds, CurlEnds,
     Streaming, Probing, Outcomes, StreamOutcomes
<1>2. pc \in Calls /\ pc \notin Over /\ TypeOK
  BY <1>1 DEF Calls, Streaming, Probing, Over, CommandInv
<1>3. /\ ended' \in [Calls -> Outcomes \cup {""}] /\ ended'[pc] = o
      /\ \A c \in Calls : c # pc => ended'[c] = ended[c]
  BY <1>1, <1>2, EndedHow
<1>4. Rest
  <2>1. tick' \in BOOLEAN
    BY <1>1, <1>2, Zenon DEF TypeOK
  <2> QED
    BY <1>1, <1>2, <1>3, <2>1 DEF Rest
<1>5. ASSUME pc \in Probing PROVE Clean' /\ ended'["ensure"] = "ok"
  <2>1. pc \in Calls \ Mains
    BY <1>2, <1>5 DEF Mains, Probing
  <2>2. ended["ensure"] = "ok"
    BY <1>5 DEF CommandInv, PathInv
  <2> QED
    BY <1>1, <1>2, <1>3, <1>5, <2>1, <2>2, StillClean, CallsNamed DEF Probing
<1>6. ASSUME pc \notin {"uname", "find"}, o \in {"broken", "deadline"} PROVE ClusterBlamed'
  BY <1>2, <1>3, <1>6 DEF ClusterBlamed, ClusterErred
<1>7. ASSUME pc \notin Probing, o = "status" PROVE NodeBlamed'
  <2>1. pc \in {"stream", "curl"}
    BY <1>1, <1>7 DEF Streaming
  <2> QED
    BY <1>3, <1>7, <2>1 DEF NodeBlamed, NodeErred
<1>8. ASSUME pc \notin Probing, o = "ok" PROVE Delivered'
  <2>1. pc \in Mains
    BY <1>1, <1>8 DEF Streaming, Mains
  <2>2. \A c \in Mains : c # pc => ended'[c] = ended[c]
    BY <1>3, CallsNamed
  <2>3. Clean
    BY <1>2 DEF CommandInv, ErrInv, FetchInv
  <2> QED
    BY <1>3, <1>8, <2>1, <2>2, <2>3 DEF Delivered, Clean
<1>9. ASSUME pc = "find" PROVE NodeBlamed'
  <2>1. /\ ended'["find"] = o /\ ended'["probe"] = ended["probe"]
        /\ Answered("probe")
    BY <1>3, <1>9, CallsNamed DEF CommandInv, PathInv
  <2>2. Answered("probe")' /\ ended'["find"] # ""
    BY <2>1 DEF Answered, StreamOutcomes
  <2> QED
    BY <2>2 DEF NodeBlamed, NodeErred, FallbackCut, Probing
<1>10. ASSUME pc = "probe", task.kind = "file", o = "status" PROVE NodeBlamed'
  BY <1>1, <1>3, <1>10 DEF NodeBlamed, NodeErred
<1> QED
  BY <1>1, <1>3, <1>4, <1>5, <1>6, <1>7, <1>8, <1>9, <1>10 DEF Faulted, Probing

LEMMA EndsKeeps ==
  ASSUME CommandInv, NEW o \in StreamOutcomes, o = "canceled" => CtxErr = "canceled",
         faults' \in 0..MaxFaults, Ends(o)
  PROVE  CommandInv'
<1>1. Rest
  BY StreamEnded
<1>2. /\ StreamErr(o) \in Chain
      /\ Faulted(o) => JustifiedNext(StreamErr(o))
      /\ StreamErr(o) = Nil <=> o = "ok"
      /\ StreamErr(o).code = OK <=> o = "ok"
      /\ StreamErr(o).code = Node => o = "status"
  BY StreamErrs
<1>3. CASE FileProbeEnds(o)
  <2>1. pc = "probe" /\ pc \in Probing /\ task.kind = "file"
    BY <1>3 DEF FileProbeEnds, Probing
  <2>2. Faulted(o) /\ Clean' /\ ended'["ensure"] = "ok" /\ (o = "status" => NodeBlamed')
    BY <2>1, StreamEnded DEF Faulted
  <2>3. CASE o = "ok"
    BY <1>1, <1>3, <2>1, <2>2, <2>3, ProbeOnward DEF FileProbeEnds
  <2>4. CASE o # "ok" /\ StreamErr(o).code = Node
    BY <1>1, <1>2, <1>3, <2>2, <2>4, BlamedOut DEF FileProbeEnds
  <2>5. CASE o # "ok" /\ StreamErr(o).code # Node
    BY <1>1, <1>2, <1>3, <2>2, <2>5, OutKeeps DEF FileProbeEnds, Out
  <2> QED
    BY <2>3, <2>4, <2>5
<1>4. CASE JournalProbeEnds(o)
  <2>1. pc = "probe" /\ pc \in Probing
    BY <1>4 DEF JournalProbeEnds, Probing
  <2>2. /\ Clean' /\ ended'["ensure"] = "ok" /\ ended'["probe"] = o
        /\ o \in {"broken", "deadline"} => ClusterBlamed'
    BY <2>1, StreamEnded
  <2>3. CASE StreamErr(o).code \notin {OK, Node} /\ Return(StreamErr(o))
    <3>1. o # "status" => Faulted(o)
      BY <2>2 DEF Faulted
    <3>2. CASE o # "status"
      BY <1>1, <1>2, <2>3, <3>1, <3>2, OutKeeps, Kinds DEF Out
    <3>3. CASE o = "status"
      <4>1. StreamErr(o) = [code |-> Sigint, canceled |-> FALSE] /\ CtxErr = "canceled"
        <5>1. CtxErr # "canceled" => StreamErr(o) = Wrap(Node, Plain)
          BY <3>3 DEF StreamErr
        <5>2. Wrap(Node, Plain).code = Node
          BY DEF Wrap, Plain
        <5>3. CtxErr = "canceled"
          BY <2>3, <5>1, <5>2
        <5>4. (o = "canceled") = FALSE
          BY <3>3
        <5> QED
          BY <3>3, <5>3, <5>4 DEF StreamErr
      <4>2. interrupted
        BY <2>1, <4>1 DEF CtxErr, CommandInv, CtxInv
      <4> DEFINE e == StreamErr(o)
      <4>3. e.code = Sigint /\ e.canceled = FALSE /\ e # Nil
        BY <1>2, <3>3, <4>1
      <4> HIDE DEF e
      <4>4. JustifiedNext(e)
        BY <4>2, <4>3 DEF Justified, JustifiedNext
      <4> QED
        BY <1>1, <1>2, <2>3, <4>3, <4>4, OutKeeps DEF Out, e
    <3> QED
      BY <3>2, <3>3
  <2>4. CASE StreamErr(o).code \in {OK, Node} /\ \E to \in {"compile", "uname"} : Continue(to)
    <3>1. Answered("probe")'
      BY <1>2, <2>2, <2>4 DEF Answered
    <3> QED
      BY <1>1, <2>1, <2>2, <2>4, <3>1, ProbeOnward
  <2> QED
    BY <1>4, <2>3, <2>4 DEF JournalProbeEnds
<1>5. CASE UnameEnds(o)
  <2>1. pc = "uname" /\ pc \in Probing /\ Continue("find")
    BY <1>5 DEF UnameEnds, Probing
  <2>2. Clean' /\ ended'["ensure"] = "ok" /\ ended'["probe"] = ended["probe"]
    BY <2>1, StreamEnded, CallsNamed
  <2>3. Answered("probe")'
    BY <2>1, <2>2 DEF CommandInv, PathInv, Answered
  <2> QED
    BY <1>1, <2>1, <2>2, <2>3, ProbeOnward
<1>6. CASE FindEnds(o)
  <2>1. pc = "find" /\ pc \in Probing
    BY <1>6 DEF FindEnds, Probing
  <2>2. Clean' /\ ended'["ensure"] = "ok" /\ NodeBlamed'
    BY <2>1, StreamEnded
  <2>3. CASE Continue("compile")
    BY <1>1, <2>1, <2>2, <2>3, ProbeOnward
  <2>4. CASE Return(Wrap(Node, Plain))
    BY <1>1, <2>2, <2>4, BlamedOut
  <2> QED
    BY <1>6, <2>3, <2>4 DEF FindEnds
<1>7. CASE StreamEnds(o)
  <2>1. pc \notin Probing
    BY <1>7 DEF StreamEnds, Probing
  <2>2. Faulted(o) /\ (o = "ok" => Delivered')
    BY <2>1, StreamEnded
  <2>3. StreamErr(o) = Nil => Clean' /\ Fetched'
    BY <1>2, <2>2 DEF Fetched, Delivered, Clean
  <2> QED
    BY <1>1, <1>2, <1>7, <2>2, <2>3, OutKeeps DEF StreamEnds, Out
<1>8. CASE CurlEnds(o)
  <2>1. pc \notin Probing
    BY <1>8 DEF CurlEnds, Probing
  <2>2. Faulted(o) /\ (o = "ok" => Delivered')
    BY <2>1, StreamEnded
  <2> QED
    BY <1>1, <1>2, <1>8, <2>2, FetchKeeps DEF CurlEnds
<1> QED
  BY <1>3, <1>4, <1>5, <1>6, <1>7, <1>8 DEF Ends

LEMMA StreamsKeep == ASSUME CommandInv, RemoteEnds \/ Breaks \/ ContextEnds PROVE CommandInv'
<1>1. faults \in 0..MaxFaults
  BY DEF CommandInv, TypeOK
<1>2. CASE RemoteEnds
  BY <1>1, <1>2, EndsKeeps DEF RemoteEnds, StreamOutcomes
<1>3. CASE Breaks
  <2>1. faults' \in 0..MaxFaults
    BY <1>1, <1>3, FaultCounted DEF Breaks, Fault
  <2> QED
    BY <1>3, <2>1, EndsKeeps DEF Breaks, StreamOutcomes
<1>4. CASE ContextEnds
  <2>1. CtxErr \in {"deadline", "canceled"}
    BY <1>4 DEF ContextEnds, CtxErr, CommandInv, TypeOK
  <2> QED
    BY <1>1, <1>4, <2>1, EndsKeeps DEF ContextEnds, StreamOutcomes
<1> QED
  BY <1>2, <1>3, <1>4

-----------------------------------------------------------------------------
(* The rest.                                                               *)

LEMMA CompileKeeps == ASSUME CommandInv, Compile PROVE CommandInv'
<1>1. /\ pc = "compile" /\ Logs /\ ended["ensure"] = "ok"
      /\ UNCHANGED <<req, code, interrupted, probeCtx, tick, faults, ended>>
  BY DEF Compile, CommandInv, PathInv
<1>2. Rest /\ Clean'
  BY <1>1, QuietStep DEF Over
<1>3. CASE req.grep = "bad"
  <2>1. UserErred'
    BY <1>1, <1>3 DEF UserErred, Logs
  <2> QED
    BY <1>2, <1>3, <2>1, BlamedOut DEF Compile
<1>4. CASE req.grep # "bad"
  <2>1. pc' = "stream" /\ UNCHANGED <<err, handles>>
    BY <1>4 DEF Compile, Continue
  <2>2. PathInv'
    BY <2>1 DEF PathInv, Probing
  <2>3. handles = 1
    BY <1>1 DEF CommandInv, HandlesClosed
  <2> QED
    BY <1>2, <2>1, <2>2, <2>3, OnwardKeeps DEF Onward, Labels, Open, Streaming, Probing, Over
<1> QED
  BY <1>3, <1>4

LEMMA ProxyKeeps == ASSUME CommandInv, Proxy PROVE CommandInv'
<1>1. PICK how \in {"ok", "broken", "canceled"} : CallEnds(how) /\ FetchReturns(CallErr(how))
  BY DEF Proxy
<1>2. pc = "proxy" /\ UNCHANGED <<req, code, interrupted, probeCtx, tick>>
  BY DEF Proxy
<1>3. CASE how = "ok"
  <2>1. /\ pc \in Calls /\ pc \in Mains /\ "ok" \in Outcomes /\ Ended("ok") /\ pc \notin Over
        /\ faults' = faults /\ CallErr(how) = Nil
    BY <1>1, <1>2, <1>3, CallsNamed DEF CallEnds, CallErr, Mains, Outcomes, Over
  <2>2. /\ ended' \in [Calls -> Outcomes \cup {""}] /\ ended'[pc] = "ok"
        /\ \A c \in Mains : c # pc => ended'[c] = ended[c]
    BY <2>1, EndedHow, CallsNamed DEF CommandInv
  <2>3. Clean
    BY <2>1 DEF CommandInv, ErrInv, FetchInv
  <2>4. Delivered'
    BY <2>1, <2>2, <2>3 DEF Delivered, Clean
  <2>5. Rest
    <3>1. tick' \in BOOLEAN /\ faults' \in 0..MaxFaults
      BY <1>2, <2>1, Zenon DEF CommandInv, TypeOK
    <3> QED
      BY <1>2, <2>1, <2>2, <3>1 DEF Rest
  <2>6. JustifiedNext(Nil)
    BY NilJustified DEF JustifiedNext
  <2> QED
    BY <1>1, <1>2, <2>1, <2>4, <2>5, <2>6, Kinds, FetchKeeps
<1>4. CASE how # "ok"
  <2>1. CallErr(how) # Nil
    <3>1. Wrap(Cluster, Plain) # Nil
      BY DEF Wrap, Plain, Nil
    <3> QED
      BY <1>4, <3>1, CanceledCall DEF CallErr
  <2>2. Return(CallErr(how))
    BY <1>1, <2>1 DEF FetchReturns
  <2> QED
    BY <1>1, <1>2, <1>4, <2>2, CallFailsKeeps
<1> QED
  BY <1>3, <1>4

LEMMA SelectKeeps == ASSUME CommandInv, Select PROVE CommandInv'
<1>1. /\ pc = "wait" /\ Delivered /\ pc \notin Over
      /\ UNCHANGED <<req, code, interrupted, probeCtx, faults, ended>>
  BY DEF Select, CommandInv, FetchInv, Over
<1>2. Delivered' /\ Clean' /\ Fetched'
  BY <1>1 DEF Delivered, Clean, Fetched
<1>3. Rest
  <2>1. tick' \in BOOLEAN
    BY Zenon DEF Select, CommandInv, TypeOK
  <2>2. ended' \in [Calls -> Outcomes \cup {""}] /\ faults' \in 0..MaxFaults
    BY <1>1 DEF CommandInv, TypeOK
  <2> QED
    BY <1>1, <2>1, <2>2 DEF Rest
<1>4. CASE Return(Nil)
  <2>1. JustifiedNext(Nil)
    BY NilJustified DEF JustifiedNext
  <2> QED
    BY <1>2, <1>3, <1>4, <2>1, Kinds, OutKeeps DEF Out
<1>5. CASE Continue(FetchStart(task))
  <2>1. pc' \in {"namespace", "proxy"} /\ UNCHANGED <<err, handles>>
    BY <1>5 DEF Continue, FetchStart
  <2>2. PathInv'
    BY <2>1 DEF PathInv, Probing
  <2>3. handles = 0
    BY <1>1 DEF CommandInv, HandlesClosed, Streaming, Probing
  <2> QED
    BY <1>2, <1>3, <2>1, <2>2, <2>3, OnwardKeeps DEF Onward, Labels, Open, Streaming,
       Probing, Over
<1> QED
  BY <1>4, <1>5 DEF Select

\* The steps that are not the command's leave the invariant to what they change.
LEMMA AsideKeeps ==
  ASSUME CommandInv, UNCHANGED <<req, pc, task, err, code, handles, faults, ended>>,
         interrupted' \in BOOLEAN, tick' \in BOOLEAN, interrupted => interrupted',
         probeCtx' \in {"live", "deadline", "canceled"}, CtxInv'
  PROVE  CommandInv'
<1>1. TypeOK'
  BY DEF TypeOK, CommandInv
<1>2. HandlesClosed' /\ PathInv' /\ FetchInv'
  BY DEF CommandInv, HandlesClosed, FetchInv, PathInv, Answered, Clean, Delivered, Fetched, Logs
<1>3. /\ UserErred => UserErred'
      /\ ClusterBlamed => ClusterBlamed'
      /\ NodeBlamed => NodeBlamed'
      /\ Raced => Raced'
  BY DEF UserErred, ClusterBlamed, ClusterErred, WaitCut, NodeBlamed, NodeErred, FallbackCut,
     Answered, Raced, Logs
<1>4. ErrInv'
  <2>1. Justified(err, UserErred, ClusterBlamed, NodeBlamed, Raced, interrupted)
    BY DEF CommandInv, ErrInv
  <2>2. Justified(err, UserErred', ClusterBlamed', NodeBlamed', Raced', interrupted')
    BY <1>3, <2>1 DEF Justified
  <2> QED
    BY <2>2 DEF CommandInv, ErrInv
<1>5. ErrorsBlamed'
  <2>1. ASSUME pc = "done"
        PROVE  /\ code = User => UserErred'
               /\ code = Cluster => ClusterBlamed'
               /\ code = Node => NodeBlamed'
               /\ code = Internal => Raced'
               /\ code = Sigint => interrupted'
    <3>1. /\ code = User => UserErred
          /\ code = Cluster => ClusterBlamed
          /\ code = Node => NodeBlamed
          /\ code = Internal => Raced
          /\ code = Sigint => interrupted
      BY <2>1 DEF CommandInv, ErrorsBlamed, ClusterBlamed, NodeBlamed, Raced
    <3> QED
      BY <1>3, <3>1
  <2> QED
    BY <2>1 DEF ErrorsBlamed, ClusterBlamed, NodeBlamed, Raced
<1>6. SuccessEarned'
  BY DEF CommandInv, SuccessEarned, Delivered, Logs
<1> QED
  BY <1>1, <1>2, <1>4, <1>5, <1>6 DEF CommandInv

LEMMA TickKeeps == ASSUME CommandInv, Tick PROVE CommandInv'
<1>1. /\ UNCHANGED <<req, pc, task, err, code, handles, faults, ended, interrupted, probeCtx>>
      /\ tick' = TRUE
  BY DEF Tick
<1>2. interrupted' \in BOOLEAN /\ probeCtx' \in {"live", "deadline", "canceled"} /\ CtxInv'
  BY <1>1, Zenon DEF CommandInv, TypeOK, CtxInv
<1> QED
  BY <1>1, <1>2, AsideKeeps

LEMMA MainKeeps == ASSUME CommandInv, Main PROVE CommandInv'
<1>1. /\ pc = "main" /\ pc' = "done" /\ code' = Exit(err, interrupted)
      /\ UNCHANGED <<req, task, err, handles, interrupted, probeCtx, tick, faults, ended>>
  BY DEF Main
<1>2. /\ err \in Chain
      /\ Justified(err, UserErred, ClusterBlamed, NodeBlamed, Raced, interrupted)
  BY DEF CommandInv, TypeOK, ErrInv
<1>3. code' = IF err.canceled /\ interrupted THEN Sigint ELSE err.code
  BY <1>1, <1>2 DEF Exit, CodeOf, Justified
<1>4. code' \in Codes
  BY <1>2, <1>3 DEF Justified, Chain, Codes
<1>5. TypeOK'
  BY <1>1, <1>4 DEF TypeOK, CommandInv, Labels
<1>6. HandlesClosed' /\ CtxInv' /\ FetchInv' /\ PathInv'
  BY <1>1 DEF CommandInv, HandlesClosed, CtxInv, FetchInv, PathInv, Clean, Streaming, Probing
<1>7. /\ UserErred' = UserErred /\ ClusterBlamed' = ClusterBlamed
      /\ NodeBlamed' = NodeBlamed /\ Raced' = Raced
  BY <1>1 DEF UserErred, ClusterBlamed, ClusterErred, WaitCut, NodeBlamed, NodeErred,
     FallbackCut, Answered, Raced, Logs
<1>8. ErrInv'
  BY <1>1, <1>2, <1>7 DEF ErrInv, Over
<1>9. ErrorsBlamed'
  <2>1. /\ code' = User => UserErred
        /\ code' = Cluster => ClusterBlamed
        /\ code' = Node => NodeBlamed
        /\ code' = Internal => Raced
        /\ code' = Sigint => interrupted
    BY <1>2, <1>3 DEF Justified
  <2>2. interrupted' = interrupted
    BY <1>1
  <2> QED
    BY <1>7, <2>1, <2>2 DEF ErrorsBlamed, ClusterBlamed, NodeBlamed, Raced
<1>10. SuccessEarned'
  <2>1. code' = OK => err = Nil
    BY <1>2, <1>3 DEF Justified
  <2>2. err = Nil => Fetched
    BY <1>1 DEF CommandInv, FetchInv
  <2> QED
    BY <1>1, <2>1, <2>2 DEF SuccessEarned, Fetched, Delivered, Logs
<1> QED
  BY <1>5, <1>6, <1>8, <1>9, <1>10 DEF CommandInv

LEMMA InterruptKeeps == ASSUME CommandInv, Interrupt PROVE CommandInv'
<1>1. /\ interrupted' = TRUE /\ probeCtx' \in {probeCtx, "canceled"}
      /\ UNCHANGED <<req, pc, task, err, code, handles, tick, faults, ended>>
  BY DEF Interrupt
<1>2. /\ tick' \in BOOLEAN /\ probeCtx' \in {"live", "deadline", "canceled"}
      /\ interrupted' \in BOOLEAN /\ CtxInv' /\ (interrupted => interrupted')
  BY <1>1, Zenon DEF CommandInv, TypeOK, CtxInv
<1> QED
  BY <1>1, <1>2, AsideKeeps

LEMMA DeadlineKeeps == ASSUME CommandInv, Deadline PROVE CommandInv'
<1>1. /\ probeCtx' = "deadline"
      /\ UNCHANGED <<req, pc, task, err, code, handles, interrupted, tick, faults, ended>>
  BY DEF Deadline
<1>2. tick' \in BOOLEAN /\ interrupted' \in BOOLEAN /\ CtxInv'
  BY <1>1, Zenon DEF CommandInv, TypeOK, CtxInv
<1> QED
  BY <1>1, <1>2, AsideKeeps

\* The filter touches nothing of the command, and a stopped program nothing.
LEMMA StutterKeeps == ASSUME CommandInv, UNCHANGED noFilter PROVE CommandInv'
<1>1. UNCHANGED <<req, pc, task, err, code, handles, interrupted, probeCtx, tick, faults, ended>>
  BY DEF noFilter
<1>2. /\ tick' \in BOOLEAN /\ interrupted' \in BOOLEAN /\ CtxInv'
      /\ probeCtx' \in {"live", "deadline", "canceled"}
  BY <1>1, Zenon DEF CommandInv, TypeOK, CtxInv
<1> QED
  BY <1>1, <1>2, AsideKeeps

-----------------------------------------------------------------------------
(* The theorems.                                                           *)

LEMMA InitInv == Init => CommandInv
<1> SUFFICES ASSUME Init PROVE CommandInv
  OBVIOUS
<1>0. /\ req \in Requests /\ pc = "session" /\ err = Nil /\ code = OK /\ handles = 0
      /\ interrupted = FALSE /\ probeCtx = "live" /\ tick = FALSE
      /\ faults = 0 /\ ended = [c \in Calls |-> ""]
  BY DEF Init
<1>1. TypeOK
  <2>1. 0 \in 0..MaxFaults /\ OK \in Codes
    BY FaultsAssumption DEF Codes
  <2> QED
    BY <1>0, <2>1, Kinds DEF TypeOK, Labels
<1>2. HandlesClosed /\ CtxInv /\ PathInv
  BY <1>0 DEF HandlesClosed, CtxInv, PathInv, Streaming, Probing
<1>3. FetchInv
  BY <1>0, CallsNamed DEF FetchInv, Clean
<1>4. ErrInv
  BY <1>0, NilJustified DEF ErrInv
<1>5. ErrorsBlamed /\ SuccessEarned
  BY <1>0 DEF ErrorsBlamed, SuccessEarned
<1> QED
  BY <1>1, <1>2, <1>3, <1>4, <1>5 DEF CommandInv

LEMMA NextInv == CommandInv /\ [Next]_vars => CommandInv'
<1> SUFFICES ASSUME CommandInv, [Next]_vars PROVE CommandInv'
  OBVIOUS
<1>1. CASE Progress
  BY <1>1, LoadKeeps, ResolveKeeps, BootstrapKeeps, EnsurePodKeeps, StreamsKeep, CompileKeeps,
     ProxyKeeps, SelectKeeps, MainKeeps DEF Progress
<1>2. CASE RemoteEnds \/ Breaks
  BY <1>2, StreamsKeep
<1>3. CASE Deadline \/ Tick \/ Interrupt
  BY <1>3, DeadlineKeeps, TickKeeps, InterruptKeeps
<1>4. CASE Chunk \/ Filter \/ Stopped \/ UNCHANGED vars
  BY <1>4, StutterKeeps DEF Chunk, Filter, Stopped, vars, noFilter
<1> QED
  BY <1>1, <1>2, <1>3, <1>4 DEF Next

\* The inductive invariant holds of every invocation.
THEOREM CommandInvariant == Spec => []CommandInv
  BY InitInv, NextInv, PTL DEF Spec

\* The variables keep to their types.
THEOREM TypeCorrect == Spec => []TypeOK
<1>1. CommandInv => TypeOK
  BY DEF CommandInv
<1> QED
  BY <1>1, CommandInvariant, PTL

\* A debug pod handle is open exactly while the command or the fetch that took
\* it streams (cli/exec.go:50, logs.go:76, metrics.go:179).
THEOREM HandlesReleased == Spec => []HandlesClosed
<1>1. CommandInv => HandlesClosed
  BY DEF CommandInv
<1> QED
  BY <1>1, CommandInvariant, PTL

\* The exit code blames whom the calls and streams show to be at fault, but for
\* the two places that WaitCut and FallbackCut name (debugpod/exec.go:58-80,
\* cmd/auto/main.go:19).
THEOREM BlameHonest == Spec => []ErrorsBlamed
<1>1. CommandInv => ErrorsBlamed
  BY DEF CommandInv
<1> QED
  BY <1>1, CommandInvariant, PTL

\* Exit code 0 only for a command that got what it asked for (metrics.go:50-74).
THEOREM SuccessHonest == Spec => []SuccessEarned
<1>1. CommandInv => SuccessEarned
  BY DEF CommandInv
<1> QED
  BY <1>1, CommandInvariant, PTL

-----------------------------------------------------------------------------
(* The line filter.  The bytes of the stream that have left the buffer are *)
(* whole lines, and their matching lines are what has been printed.        *)

Cut          == Len(received) - Len(buf)
Kept(s, n)   == {i \in Wanted(s) : i <= n}
Nth(W, i)    == Cardinality({k \in W : k <= i})
LineEnd(s, n) == n = 0 \/ s[n] = "newline"

\* out has the bytes of s at the places W, in order.
Shows(out, s, W) ==
  /\ IsFiniteSet(W) /\ Len(out) = Cardinality(W)
  /\ \A i \in W : out[Nth(W, i)] = s[i]

GrepInv ==
  /\ received \in Seq(Bytes) /\ buf \in Seq(Bytes) /\ printed \in Seq(Bytes)
  /\ writing \in BOOLEAN
  /\ Cut \in 0..Len(received) /\ LineEnd(received, Cut)
  /\ \A i \in 1..Len(buf) : buf[i] = received[Cut + i]
  /\ ~writing => \A i \in 1..Len(buf) : buf[i] # "newline"
  /\ Shows(printed, received, Kept(received, Cut))

\* Between the end of a line and a later byte there is no way on one line.
LEMMA KeptPrefix ==
  ASSUME NEW s \in Seq(Bytes), NEW t \in Seq(Bytes), NEW n \in Nat,
         n <= Len(s), n <= Len(t), \A i \in 1..n : s[i] = t[i], LineEnd(s, n)
  PROVE  Kept(s, n) \subseteq Kept(t, n)
<1> SUFFICES ASSUME NEW i \in Kept(s, n) PROVE i \in Kept(t, n)
  OBVIOUS
<1>0. DOMAIN s = 1..Len(s) /\ DOMAIN t = 1..Len(t) /\ Len(s) \in Nat /\ Len(t) \in Nat
  BY LenProperties
<1>1. i \in 1..n /\ n # 0 /\ s[n] = "newline" /\ t[n] = "newline"
  BY <1>0 DEF Kept, Wanted, LineEnd
<1>2. PICK k \in DOMAIN s : SameLine(s, i, k) /\ s[k] = "m"
  BY DEF Kept, Wanted
<1>3. k \in 1..n
  BY <1>0, <1>1, <1>2 DEF SameLine
<1>4. SameLine(t, i, k)
  BY <1>0, <1>1, <1>2, <1>3 DEF SameLine
<1>5. t[k] = "m" /\ k \in DOMAIN t /\ i \in DOMAIN t /\ n \in DOMAIN t /\ i <= n
  BY <1>0, <1>1, <1>2, <1>3
<1> QED
  BY <1>1, <1>4, <1>5 DEF Kept, Wanted

LEMMA KeptOfPrefix ==
  ASSUME NEW s \in Seq(Bytes), NEW t \in Seq(Bytes), NEW n \in Nat,
         n <= Len(s), n <= Len(t), \A i \in 1..n : s[i] = t[i], LineEnd(s, n)
  PROVE  Kept(s, n) = Kept(t, n)
<1>1. LineEnd(t, n)
  BY DEF LineEnd
<1> QED
  BY <1>1, KeptPrefix

\* The first newline of the buffer.
Newlines(s) == {i \in 1..Len(s) : s[i] = "newline"}
FirstNewline(s, m) ==
  /\ m \in 1..Len(s) /\ s[m] = "newline"
  /\ \A j \in 1..(m - 1) : s[j] # "newline"

LEMMA LeastNewline ==
  ASSUME NEW s \in Seq(Bytes), Newlines(s) # {} PROVE \E m : FirstNewline(s, m)
<1>0. Len(s) \in Nat
  BY LenProperties
<1>1. Newlines(s) \subseteq Nat
  BY <1>0 DEF Newlines
<1>2. PICK m \in Newlines(s) : \A j \in Newlines(s) : <<j, m>> \notin OpToRel(<, Nat)
  BY <1>1, NatLessThanWellFounded, WFMin
<1>3. \A j \in Newlines(s) : ~(j < m)
  BY <1>1, <1>2 DEF OpToRel
<1>4. \A j \in 1..(m - 1) : s[j] # "newline"
  BY <1>0, <1>3 DEF Newlines
<1> QED
  BY <1>4 DEF Newlines, FirstNewline

\* The next line of the stream: all of it is wanted or nothing.
LEMMA KeptLine ==
  ASSUME NEW s \in Seq(Bytes), NEW n \in Nat, LineEnd(s, n), NEW m \in Nat \ {0},
         n + m <= Len(s), s[n + m] = "newline",
         \A j \in (n + 1)..(n + m - 1) : s[j] # "newline"
  PROVE  Kept(s, n + m) = IF \E k \in (n + 1)..(n + m - 1) : s[k] = "m"
                            THEN Kept(s, n) \cup ((n + 1)..(n + m)) ELSE Kept(s, n)
<1>0. DOMAIN s = 1..Len(s) /\ Len(s) \in Nat
  BY LenProperties
<1>1. Kept(s, n) \subseteq Kept(s, n + m) /\ Kept(s, n) \subseteq 1..n
  BY <1>0 DEF Kept, Wanted
<1>2. ASSUME NEW i \in Kept(s, n + m), i > n
      PROVE  \E k \in (n + 1)..(n + m - 1) : s[k] = "m"
  <2>1. i \in (n + 1)..(n + m)
    BY <1>0, <1>2 DEF Kept, Wanted
  <2>2. PICK k \in 1..Len(s) : SameLine(s, i, k) /\ s[k] = "m"
    BY <1>0 DEF Kept, Wanted
  <2>3. k > n
    BY <1>0, <2>1, <2>2 DEF SameLine, LineEnd
  <2>4. ~(k > n + m)
    BY <1>0, <2>1, <2>2 DEF SameLine
  <2>5. k # n + m
    BY <2>2
  <2> QED
    BY <2>2, <2>3, <2>4, <2>5
<1>3. ASSUME NEW k \in (n + 1)..(n + m - 1), s[k] = "m", NEW i \in (n + 1)..(n + m)
      PROVE  i \in Kept(s, n + m)
  <2>1. SameLine(s, i, k)
    BY <1>0, <1>3 DEF SameLine
  <2>2. k \in DOMAIN s /\ i \in DOMAIN s /\ n + m \in DOMAIN s /\ i <= n + m
    BY <1>0
  <2> QED
    BY <1>3, <2>1, <2>2 DEF Kept, Wanted
<1>4. \A i \in Kept(s, n + m) : i <= n => i \in Kept(s, n)
  BY DEF Kept
<1>5. Kept(s, n + m) \subseteq 1..(n + m)
  BY <1>0 DEF Kept, Wanted
<1>6. CASE \E k \in (n + 1)..(n + m - 1) : s[k] = "m"
  <2>1. (n + 1)..(n + m) \subseteq Kept(s, n + m)
    BY <1>3, <1>6
  <2>2. \A i \in Kept(s, n + m) : i <= n \/ i \in (n + 1)..(n + m)
    BY <1>5
  <2>3. Kept(s, n + m) = Kept(s, n) \cup ((n + 1)..(n + m))
    BY <1>1, <1>4, <2>1, <2>2
  <2> QED
    BY <1>6, <2>3
<1>7. CASE ~\E k \in (n + 1)..(n + m - 1) : s[k] = "m"
  <2>1. \A i \in Kept(s, n + m) : i <= n
    BY <1>2, <1>5, <1>7
  <2> QED
    BY <1>1, <1>4, <1>7, <2>1
<1> QED
  BY <1>6, <1>7

\* One more line of output.
LEMMA ShowsLine ==
  ASSUME NEW out \in Seq(Bytes), NEW s \in Seq(Bytes), NEW line \in Seq(Bytes),
         NEW n \in Nat, NEW W, W \subseteq 1..n, Shows(out, s, W), Len(line) \in Nat,
         n + Len(line) <= Len(s),
         \A j \in 1..Len(line) : line[j] = s[n + j]
  PROVE  Shows(out \o line, s, W \cup ((n + 1)..(n + Len(line))))
<1> DEFINE m == Len(line)
           L == (n + 1)..(n + m)
           V == W \cup L
<1>1. Len(out) \in Nat /\ Len(out) = Cardinality(W) /\ IsFiniteSet(W)
  BY LenProperties DEF Shows
<1>2. \A i \in n..(n + m) : /\ IsFiniteSet((n + 1)..i) /\ Cardinality((n + 1)..i) = i - n
                            /\ W \cap ((n + 1)..i) = {}
  <2> SUFFICES ASSUME NEW i \in n..(n + m)
               PROVE  /\ IsFiniteSet((n + 1)..i) /\ Cardinality((n + 1)..i) = i - n
                      /\ W \cap ((n + 1)..i) = {}
    OBVIOUS
  <2>1. n + 1 \in Int /\ i \in Int
    OBVIOUS
  <2>2. IsFiniteSet((n + 1)..i) /\ Cardinality((n + 1)..i) = IF n + 1 > i THEN 0 ELSE i - (n + 1) + 1
    BY <2>1, FS_Interval
  <2> QED
    BY <2>2
<1>3. \A i \in n..(n + m) : /\ IsFiniteSet(W \cup ((n + 1)..i))
                            /\ Cardinality(W \cup ((n + 1)..i)) = Len(out) + (i - n)
  <2> SUFFICES ASSUME NEW i \in n..(n + m)
               PROVE  /\ IsFiniteSet(W \cup ((n + 1)..i))
                      /\ Cardinality(W \cup ((n + 1)..i)) = Len(out) + (i - n)
    OBVIOUS
  <2>1. /\ IsFiniteSet(W \cup ((n + 1)..i))
        /\ Cardinality(W \cup ((n + 1)..i))
             = Cardinality(W) + Cardinality((n + 1)..i) - Cardinality(W \cap ((n + 1)..i))
    BY <1>1, <1>2, FS_Union
  <2>2. Cardinality(W \cap ((n + 1)..i)) = 0 /\ Cardinality((n + 1)..i) = i - n
    BY <1>2, FS_EmptySet
  <2> QED
    BY <1>1, <2>1, <2>2
<1>4. IsFiniteSet(V) /\ Len(out \o line) = Cardinality(V)
  <2>1. n + m \in n..(n + m) /\ m = (n + m) - n
    OBVIOUS
  <2>2. IsFiniteSet(V) /\ Cardinality(V) = Len(out) + m
    BY <1>3, <2>1
  <2> QED
    BY <2>2, ConcatProperties
<1>5. ASSUME NEW i \in L PROVE (out \o line)[Nth(V, i)] = s[i]
  <2>1. {k \in V : k <= i} = W \cup ((n + 1)..i)
    <3>1. \A k \in W : k \in Int /\ k <= n
      OBVIOUS
    <3>2. {k \in L : k <= i} = (n + 1)..i
      OBVIOUS
    <3>3. {k \in W : k <= i} = W
      <4>1. \A k \in W : k <= i
        BY <3>1
      <4> HIDE DEF L
      <4> QED
        BY <4>1
    <3>4. {k \in V : k <= i} = {k \in W : k <= i} \cup {k \in L : k <= i}
      BY Zenon
    <3> QED
      BY <3>2, <3>3, <3>4
  <2>2. Nth(V, i) = Len(out) + (i - n)
    <3>1. i \in n..(n + m)
      OBVIOUS
    <3> QED
      BY <1>3, <2>1, <3>1 DEF Nth
  <2>3. (out \o line)[Len(out) + (i - n)] = line[i - n]
    BY <1>1
  <2>4. i - n \in 1..m /\ n + (i - n) = i
    OBVIOUS
  <2>5. line[i - n] = s[i]
    BY <2>4
  <2> QED
    BY <2>2, <2>3, <2>5
<1>6. ASSUME NEW i \in W PROVE (out \o line)[Nth(V, i)] = s[i]
  <2>1. {k \in V : k <= i} = {k \in W : k <= i}
    OBVIOUS
  <2>2. /\ IsFiniteSet({k \in W : k <= i}) /\ Nth(W, i) <= Len(out)
        /\ Nth(W, i) \in Nat
    <3>1. {k \in W : k <= i} \in SUBSET W
      OBVIOUS
    <3> QED
      BY <1>1, <3>1, FS_Subset, FS_CardinalityType DEF Nth
  <2>3. Nth(W, i) # 0
    <3>1. i \in {k \in W : k <= i}
      <4>1. i \in Int /\ i <= i
        OBVIOUS
      <4> QED
        BY <4>1
    <3>2. {k \in W : k <= i} # {}
      BY <3>1
    <3> QED
      BY <2>2, <3>2, FS_EmptySet DEF Nth
  <2>4. (out \o line)[Nth(W, i)] = out[Nth(W, i)]
    BY <1>1, <2>2, <2>3
  <2> QED
    BY <2>1, <2>4 DEF Nth, Shows
<1> QED
  BY <1>4, <1>5, <1>6 DEF Shows

LEMMA ShowsSame ==
  ASSUME NEW out, NEW s \in Seq(Bytes), NEW t \in Seq(Bytes), NEW W, W \subseteq 1..Len(s),
         \A i \in 1..Len(s) : s[i] = t[i], Shows(out, s, W)
  PROVE  Shows(out, t, W)
  BY DEF Shows

LEMMA WriteFilters == ASSUME GrepInv, NEW p \in Chunks, Write(p) PROVE GrepInv'
<1>1. p \in Seq(Bytes) /\ Len(p) \in Nat
  BY DEF Chunks
<1>2. /\ received' = received \o p /\ buf' = buf \o p /\ printed' = printed /\ writing' = TRUE
      /\ received \in Seq(Bytes) /\ buf \in Seq(Bytes) /\ printed \in Seq(Bytes)
      /\ Len(received) \in Nat /\ Len(buf) \in Nat
  BY LenProperties DEF Write, GrepInv
<1>3. /\ received' \in Seq(Bytes) /\ Len(received') = Len(received) + Len(p)
      /\ \A i \in 1..Len(received) : received'[i] = received[i]
      /\ \A i \in 1..Len(p) : received'[Len(received) + i] = p[i]
  BY <1>1, <1>2
<1>4. /\ buf' \in Seq(Bytes) /\ Len(buf') = Len(buf) + Len(p)
      /\ \A i \in 1..Len(buf) : buf'[i] = buf[i]
      /\ \A i \in 1..Len(p) : buf'[Len(buf) + i] = p[i]
  BY <1>1, <1>2
<1>5. Cut' = Cut /\ Cut \in 0..Len(received) /\ Cut \in 0..Len(received')
  BY <1>1, <1>2, <1>3, <1>4 DEF Cut, GrepInv
<1>6. LineEnd(received', Cut')
  BY <1>3, <1>5 DEF GrepInv, LineEnd
<1>7. \A i \in 1..Len(buf') : buf'[i] = received'[Cut' + i]
  <2> SUFFICES ASSUME NEW i \in 1..Len(buf') PROVE buf'[i] = received'[Cut' + i]
    OBVIOUS
  <2>0. Cut + Len(buf) = Len(received) /\ Cut \in Int /\ Len(buf) \in Int
    BY <1>2 DEF Cut
  <2>i. i \in Int
    BY <1>1, <1>4
  <2>1. CASE i <= Len(buf)
    BY <1>2, <1>3, <1>4, <1>5, <2>0, <2>1 DEF GrepInv
  <2>2. CASE i > Len(buf)
    <3>1. i - Len(buf) \in 1..Len(p) /\ Len(buf) + (i - Len(buf)) = i
      BY <1>1, <1>2, <1>4, <2>2
    <3>2. Cut + i = Len(received) + (i - Len(buf))
      BY <2>0, <2>i
    <3> QED
      BY <1>3, <1>4, <1>5, <3>1, <3>2
  <2> QED
    BY <2>0, <2>1, <2>2, <2>i
<1>8. Shows(printed', received', Kept(received', Cut'))
  <2>1. Kept(received, Cut) = Kept(received', Cut)
    <3>1. Cut \in Nat /\ Cut <= Len(received) /\ Cut <= Len(received')
      BY <1>1, <1>2, <1>3, <1>5
    <3>2. \A i \in 1..Cut : received[i] = received'[i]
      BY <1>2, <1>3, <3>1
    <3>3. LineEnd(received, Cut)
      BY DEF GrepInv
    <3> QED
      BY <1>2, <1>3, <3>1, <3>2, <3>3, KeptOfPrefix
  <2>2. Kept(received, Cut) \subseteq 1..Len(received)
    BY <1>2, LenProperties DEF Kept, Wanted
  <2> QED
    BY <1>2, <1>3, <1>5, <2>1, <2>2, ShowsSame DEF GrepInv
<1> QED
  BY <1>2, <1>3, <1>4, <1>5, <1>6, <1>7, <1>8 DEF GrepInv

LEMMA CutLineFilters == ASSUME GrepInv, CutLine PROVE GrepInv'
<1>0. /\ received' = received /\ writing /\ received \in Seq(Bytes) /\ buf \in Seq(Bytes)
      /\ printed \in Seq(Bytes) /\ DOMAIN buf = 1..Len(buf) /\ Len(buf) \in Nat
      /\ Len(received) \in Nat /\ Cut \in Nat /\ Cut + Len(buf) = Len(received)
      /\ \A i \in 1..Len(buf) : buf[i] = received[Cut + i]
      /\ LineEnd(received, Cut) /\ Shows(printed, received, Kept(received, Cut))
  BY LenProperties DEF CutLine, GrepInv, Cut
<1>1. CASE Newlines(buf) = {}
  <2>1. ~\E i \in DOMAIN buf : buf[i] = "newline"
    BY <1>0, <1>1 DEF Newlines
  <2>2. UNCHANGED <<buf, printed>> /\ writing' = FALSE
    BY <2>1 DEF CutLine
  <2> QED
    BY <1>0, <2>1, <2>2 DEF GrepInv, Cut
<1>2. CASE Newlines(buf) # {}
  <2>1. \E m : FirstNewline(buf, m)
    BY <1>0, <1>2, LeastNewline
  <2>2. \E i \in DOMAIN buf : buf[i] = "newline"
    BY <1>0, <1>2 DEF Newlines
  <2> DEFINE idx  == CHOOSE i \in DOMAIN buf : /\ buf[i] = "newline"
                                               /\ \A j \in 1..(i - 1) : buf[j] # "newline"
             line == SubSeq(buf, 1, idx - 1)
             cut  == line \o <<"newline">>
  <2>3. FirstNewline(buf, idx)
    BY <1>0, <2>1 DEF FirstNewline
  <2>4. /\ buf' = SubSeq(buf, idx + 1, Len(buf)) /\ writing' = writing
        /\ printed' = IF \E i \in DOMAIN line : line[i] = "m"
                        THEN printed \o line \o <<"newline">> ELSE printed
    BY <2>2, Zenon DEF CutLine
  <2> HIDE DEF idx
  <2>5. /\ idx \in 1..Len(buf) /\ buf[idx] = "newline"
        /\ \A j \in 1..(idx - 1) : buf[j] # "newline"
    BY <2>3 DEF FirstNewline
  <2>6. /\ line \in Seq(Bytes) /\ Len(line) = idx - 1 /\ DOMAIN line = 1..(idx - 1)
        /\ \A j \in 1..(idx - 1) : line[j] = buf[j]
    BY <1>0, <2>5
  <2>7. /\ cut \in Seq(Bytes) /\ Len(cut) = idx /\ \A j \in 1..idx : cut[j] = buf[j]
        /\ printed \o line \o <<"newline">> = printed \o cut
    <3>1. <<"newline">> \in Seq(Bytes) /\ Len(<<"newline">>) = 1
      BY DEF Bytes
    <3>2. printed \o line \o <<"newline">> = printed \o cut
      <4>1. printed \in Seq(Bytes) /\ line \in Seq(Bytes) /\ <<"newline">> \in Seq(Bytes)
        BY <1>0, <2>6, <3>1
      <4> HIDE DEF line
      <4> QED
        BY <4>1, ConcatAssociative
    <3>3. cut \in Seq(Bytes) /\ Len(cut) = idx
      BY <1>0, <2>5, <2>6, <3>1
    <3>4. \A j \in 1..idx : cut[j] = buf[j]
      <4> SUFFICES ASSUME NEW j \in 1..idx PROVE cut[j] = buf[j]
        OBVIOUS
      <4> HIDE DEF line
      <4>1. CASE j = idx
        BY <1>0, <2>5, <2>6, <4>1
      <4>2. CASE j # idx
        <5>1. j \in 1..(idx - 1)
          BY <1>0, <2>5, <4>2
        <5>2. cut[j] = line[j]
          BY <2>6, <3>1, <5>1
        <5> QED
          BY <2>6, <5>1, <5>2
      <4> QED
        BY <4>1, <4>2
    <3> QED
      BY <3>2, <3>3, <3>4
  <2>8. /\ buf' \in Seq(Bytes) /\ Len(buf') = Len(buf) - idx
        /\ \A j \in 1..(Len(buf) - idx) : buf'[j] = buf[idx + j]
    <3>1. idx + 1 \in 1..(Len(buf) + 1) /\ Len(buf) \in (idx + 1 - 1)..Len(buf)
          /\ Len(buf) - idx \in Nat
      BY <1>0, <2>5
    <3>2. idx + 1 \in Int /\ Len(buf) \in Int /\ \A i \in (idx + 1)..Len(buf) : buf[i] \in Bytes
      BY <1>0, <3>1
    <3>3. /\ buf' \in Seq(Bytes)
          /\ Len(buf') = IF idx + 1 <= Len(buf) THEN Len(buf) - (idx + 1) + 1 ELSE 0
          /\ \A j \in 1..(Len(buf) - (idx + 1) + 1) : buf'[j] = buf[(idx + 1) + j - 1]
      BY <2>4, <3>2, SubSeqProperties
    <3>4. Len(buf') = Len(buf) - idx /\ Len(buf) - (idx + 1) + 1 = Len(buf) - idx
      <4>1. idx \in Int /\ Len(buf) \in Int /\ idx <= Len(buf)
        BY <1>0, <2>5
      <4>2. Len(buf') = IF idx + 1 <= Len(buf) THEN Len(buf) - (idx + 1) + 1 ELSE 0
        BY <3>3
      <4> QED
        BY <4>1, <4>2
    <3>5. ASSUME NEW j \in 1..(Len(buf) - idx) PROVE buf'[j] = buf[idx + j]
      <4>1. (idx + 1) + j - 1 = idx + j
        BY <1>0, <2>5
      <4> QED
        BY <3>3, <3>4, <4>1
    <3> QED
      BY <3>3, <3>4, <3>5
  <2>9. Cut' = Cut + idx /\ Cut' \in 0..Len(received)
    BY <1>0, <2>5, <2>8 DEF Cut
  <2>10. LineEnd(received', Cut')
    BY <1>0, <2>5, <2>9 DEF LineEnd
  <2>11. \A i \in 1..Len(buf') : buf'[i] = received'[Cut' + i]
    <3> SUFFICES ASSUME NEW i \in 1..Len(buf') PROVE buf'[i] = received'[Cut' + i]
      OBVIOUS
    <3>1. idx + i \in 1..Len(buf) /\ Cut + (idx + i) = Cut' + i
      BY <1>0, <2>5, <2>8, <2>9
    <3> QED
      BY <1>0, <2>8, <3>1
  <2>12. Shows(printed', received', Kept(received', Cut'))
    <3>1. \A j \in (Cut + 1)..(Cut + idx) : j - Cut \in 1..idx /\ received[j] = buf[j - Cut]
      <4> SUFFICES ASSUME NEW j \in (Cut + 1)..(Cut + idx)
                   PROVE  j - Cut \in 1..idx /\ received[j] = buf[j - Cut]
        OBVIOUS
      <4>1. j - Cut \in 1..idx /\ j - Cut \in 1..Len(buf) /\ Cut + (j - Cut) = j
        BY <1>0, <2>5
      <4> QED
        BY <1>0, <4>1
    <3>2. /\ received[Cut + idx] = "newline"
          /\ \A j \in (Cut + 1)..(Cut + idx - 1) : received[j] # "newline"
      BY <1>0, <2>5, <3>1
    <3>3. Cut + idx <= Len(received) /\ idx \in Nat \ {0}
      BY <1>0, <2>5
    <3>4. Kept(received, Cut + idx)
            = IF \E k \in (Cut + 1)..(Cut + idx - 1) : received[k] = "m"
                THEN Kept(received, Cut) \cup ((Cut + 1)..(Cut + idx)) ELSE Kept(received, Cut)
      BY <1>0, <3>2, <3>3, KeptLine
    <3>5. (\E i \in DOMAIN line : line[i] = "m")
            <=> \E k \in (Cut + 1)..(Cut + idx - 1) : received[k] = "m"
      <4>1. ASSUME NEW i \in DOMAIN line, line[i] = "m"
            PROVE  \E k \in (Cut + 1)..(Cut + idx - 1) : received[k] = "m"
        <5>1. Cut + i \in (Cut + 1)..(Cut + idx - 1) /\ i \in 1..Len(buf)
          BY <1>0, <2>5, <2>6
        <5>2. received[Cut + i] = "m"
          BY <1>0, <2>6, <4>1, <5>1
        <5> QED
          BY <5>1, <5>2
      <4>2. ASSUME NEW k \in (Cut + 1)..(Cut + idx - 1), received[k] = "m"
            PROVE  \E i \in DOMAIN line : line[i] = "m"
        <5>1. k - Cut \in DOMAIN line /\ k \in (Cut + 1)..(Cut + idx)
          BY <1>0, <2>5, <2>6
        <5>2. line[k - Cut] = "m"
          BY <2>6, <3>1, <4>2, <5>1
        <5> QED
          BY <5>1, <5>2
      <4> QED
        BY <4>1, <4>2
    <3>6. Kept(received, Cut) \subseteq 1..Cut
      BY <1>0, LenProperties DEF Kept, Wanted
    <3>7. \A j \in 1..Len(cut) : cut[j] = received[Cut + j]
      BY <1>0, <2>5, <2>7
    <3>8. Shows(printed \o cut, received, Kept(received, Cut) \cup ((Cut + 1)..(Cut + idx)))
      BY <1>0, <2>7, <3>3, <3>6, <3>7, ShowsLine
    <3> HIDE DEF line, cut
    <3> QED
      BY <1>0, <2>4, <2>7, <2>9, <3>4, <3>5, <3>8
  <2>13. printed' \in Seq(Bytes)
    BY <1>0, <2>4, <2>7, ConcatProperties
  <2>14. writing' \in BOOLEAN /\ writing'
    BY <1>0, <2>4 DEF GrepInv
  <2> QED
    BY <1>0, <2>8, <2>9, <2>10, <2>11, <2>12, <2>13, <2>14 DEF GrepInv
<1> QED
  BY <1>1, <1>2

LEMMA GrepInit == GInit => GrepInv
<1> SUFFICES ASSUME GInit PROVE GrepInv
  OBVIOUS
<1>1. Kept(<<>>, 0) = {}
  BY DEF Kept, Wanted
<1>2. Cut = 0
  BY DEF GInit, Cut
<1>3. Shows(printed, received, Kept(received, Cut))
  BY <1>1, <1>2, FS_EmptySet DEF GInit, Shows
<1>4. /\ received = <<>> /\ buf = <<>> /\ printed = <<>> /\ writing = FALSE
      /\ <<>> \in Seq(Bytes) /\ Len(<<>>) = 0
  BY DEF GInit
<1>5. Cut \in 0..Len(received) /\ LineEnd(received, Cut)
  BY <1>2, <1>4 DEF LineEnd
<1>6. /\ \A i \in 1..Len(buf) : buf[i] = received[Cut + i]
      /\ \A i \in 1..Len(buf) : buf[i] # "newline"
  BY <1>4
<1> QED
  BY <1>3, <1>4, <1>5, <1>6 DEF GrepInv

\* What the filter has printed when no call of Write is under way.
LEMMA GrepInvExact == GrepInv => GrepExact
<1> SUFFICES ASSUME GrepInv, ~writing
             PROVE  Shows(printed, received, Wanted(received))
  BY DEF Shows, GrepExact, Nth
<1>0. /\ received \in Seq(Bytes) /\ buf \in Seq(Bytes) /\ Len(buf) \in Nat
      /\ Len(received) \in Nat /\ DOMAIN received = 1..Len(received)
      /\ Cut \in Nat /\ Cut + Len(buf) = Len(received)
  BY LenProperties DEF GrepInv, Cut
<1>1. ASSUME NEW i \in Wanted(received) PROVE i <= Cut
  <2>1. PICK j \in 1..Len(received) : i <= j /\ received[j] = "newline"
    BY <1>0 DEF Wanted
  <2>2. SUFFICES ASSUME i > Cut PROVE FALSE
    BY <1>0 DEF Wanted
  <2>3. j - Cut \in 1..Len(buf) /\ Cut + (j - Cut) = j
    BY <1>0, <2>1, <2>2 DEF Wanted
  <2> QED
    BY <2>1, <2>3 DEF GrepInv
<1>2. Kept(received, Cut) = Wanted(received)
  BY <1>1 DEF Kept
<1> QED
  BY <1>2 DEF GrepInv

LEMMA FilterStep == GrepInv /\ [Next]_vars => GrepInv'
<1> SUFFICES ASSUME GrepInv, [Next]_vars PROVE GrepInv'
  OBVIOUS
<1>1. CASE Chunk \/ Filter
  BY <1>1, WriteFilters, CutLineFilters DEF Chunk, Filter
<1>2. CASE UNCHANGED gvars
  BY <1>2 DEF gvars, GrepInv, Cut
<1>3. CASE Progress \/ RemoteEnds \/ Breaks \/ Deadline \/ Tick \/ Interrupt \/ Stopped
           \/ UNCHANGED vars
  <2>1. UNCHANGED gvars
    BY <1>3, Zenon DEF Progress, Load, Resolve, Bootstrap, EnsurePod, ContextEnds, Compile,
       Proxy, Select, Main, RemoteEnds, Breaks, Ends, Deadline, Tick, Interrupt, Stopped, vars
  <2> QED
    BY <1>2, <2>1
<1> QED
  BY <1>1, <1>3 DEF Next

\* However the stream is cut into chunks, the filter has printed exactly the
\* complete matching lines of it between two calls of Write (logs.go:225-255).
THEOREM FilterExact == Spec => []GrepExact
<1>1. Init => GrepInv
  BY GrepInit DEF Init
<1>2. GrepInv /\ [Next]_vars => GrepInv'
  BY FilterStep
<1>3. GrepInv => GrepExact
  BY GrepInvExact
<1> QED
  BY <1>1, <1>2, <1>3, PTL DEF Spec
-----------------------------------------------------------------------------
(* The catalog: no entry hides another, nor a source or endpoint of it.    *)

Indices == {1, 2, 3, 4, 5, 6, 7, 8, 9, 10, 11, 12}

LEMMA TwelveEntries == DOMAIN Builtin = Indices
<1>1. DOMAIN Builtin = 1..12
  BY DEF Builtin
<1>2. 1..12 = Indices
  BY DEF Indices
<1> QED
  BY <1>1, <1>2

LEMMA EntryAliases ==
  /\ Builtin[1].alias = <<"kubelet", 0>>
  /\ Builtin[2].alias = <<"containerd", 0>>
  /\ Builtin[3].alias = <<"kube-proxy", 0>>
  /\ Builtin[4].alias = <<"ipamd", 0>>
  /\ Builtin[5].alias = <<"network-policy", 0>>
  /\ Builtin[6].alias = <<"node-monitor", 0>>
  /\ Builtin[7].alias = <<"pod-identity", 0>>
  /\ Builtin[8].alias = <<"coredns", 0>>
  /\ Builtin[9].alias = <<"healthchecker", 0>>
  /\ Builtin[10].alias = <<"ebs-csi", 0>>
  /\ Builtin[11].alias = <<"ebs-csi-registrar", 0>>
  /\ Builtin[12].alias = <<"efa", 0>>
  BY DEF Builtin, Agent, Bare

LEMMA EntryUnits ==
  /\ Builtin[1].unit = <<"kubelet", 1>>
  /\ Builtin[2].unit = <<"containerd", 1>>
  /\ Builtin[3].unit = <<"kube-proxy", 1>>
  /\ Builtin[4].unit = <<"ipamd", 1>>
  /\ Builtin[5].unit = <<"aws-network-policy-agent", 1>>
  /\ Builtin[6].unit = <<"eks-node-monitoring-agent", 1>>
  /\ Builtin[7].unit = <<"eks-pod-identity-agent", 1>>
  /\ Builtin[8].unit = <<"coredns", 1>>
  /\ Builtin[9].unit = <<"eks-healthchecker", 1>>
  /\ Builtin[10].unit = <<"eks-ebs-csi-driver", 1>>
  /\ Builtin[11].unit = <<"eks-ebs-csi-driver-registrar", 1>>
  /\ Builtin[12].unit = <<"efa-k8s-device-plugin", 1>>
  BY DEF Builtin, Agent, Service

\* Where an alias and a unit are in the catalog.
AliasIndex(s) ==
  IF s = "kubelet" THEN 1
  ELSE IF s = "containerd" THEN 2
  ELSE IF s = "kube-proxy" THEN 3
  ELSE IF s = "ipamd" THEN 4
  ELSE IF s = "network-policy" THEN 5
  ELSE IF s = "node-monitor" THEN 6
  ELSE IF s = "pod-identity" THEN 7
  ELSE IF s = "coredns" THEN 8
  ELSE IF s = "healthchecker" THEN 9
  ELSE IF s = "ebs-csi" THEN 10
  ELSE IF s = "ebs-csi-registrar" THEN 11
  ELSE 12

UnitIndex(s) ==
  IF s = "kubelet" THEN 1
  ELSE IF s = "containerd" THEN 2
  ELSE IF s = "kube-proxy" THEN 3
  ELSE IF s = "ipamd" THEN 4
  ELSE IF s = "aws-network-policy-agent" THEN 5
  ELSE IF s = "eks-node-monitoring-agent" THEN 6
  ELSE IF s = "eks-pod-identity-agent" THEN 7
  ELSE IF s = "coredns" THEN 8
  ELSE IF s = "eks-healthchecker" THEN 9
  ELSE IF s = "eks-ebs-csi-driver" THEN 10
  ELSE IF s = "eks-ebs-csi-driver-registrar" THEN 11
  ELSE 12

LEMMA EntriesIndexed ==
  \A i \in Indices : i = AliasIndex(Builtin[i].alias[1]) /\ i = UnitIndex(Builtin[i].unit[1])
<1>1. \A i \in Indices : i = AliasIndex(Builtin[i].alias[1])
  BY EntryAliases DEF Indices, AliasIndex
<1>2. \A i \in Indices : i = UnitIndex(Builtin[i].unit[1])
  BY EntryUnits DEF Indices, UnitIndex
<1> QED
  BY <1>1, <1>2

LEMMA EntrySuffixes == \A i \in Indices : Builtin[i].alias[2] = 0 /\ Builtin[i].unit[2] = 1
<1>1. \A i \in Indices : Builtin[i].alias[2] = 0
  BY EntryAliases DEF Indices
<1>2. \A i \in Indices : Builtin[i].unit[2] = 1
  BY EntryUnits DEF Indices
<1> QED
  BY <1>1, <1>2

\* No two entries share a name, of whatever kind.
LEMMA EntriesApart ==
  ASSUME NEW i \in Indices, NEW j \in Indices, NEW name,
         name \in {Builtin[i].alias, Builtin[i].unit}, name \in {Builtin[j].alias, Builtin[j].unit}
  PROVE  i = j
<1>1. CASE name = Builtin[i].alias /\ name = Builtin[j].alias
  BY <1>1, EntriesIndexed
<1>2. CASE name = Builtin[i].unit /\ name = Builtin[j].unit
  BY <1>2, EntriesIndexed
<1>3. name[2] = 0 => name # Builtin[i].unit /\ name # Builtin[j].unit
  BY EntrySuffixes
<1>4. name[2] = 1 => name # Builtin[i].alias /\ name # Builtin[j].alias
  BY EntrySuffixes
<1>5. name[2] \in {0, 1}
  BY EntrySuffixes
<1> QED
  BY <1>1, <1>2, <1>3, <1>4, <1>5

\* Sources or endpoints under distinct names.
WellNamed(seq) == /\ Len(seq) \in Nat /\ DOMAIN seq = 1..Len(seq)
                  /\ \A i, j \in DOMAIN seq : seq[i].name = seq[j].name => i = j
                  /\ \A i \in DOMAIN seq : seq[i].name # ""

\* What a catalog lookup by name finds.
LEMMA FoundByName ==
  ASSUME NEW seq, WellNamed(seq), NEW n
  PROVE  /\ HasNamed(seq, n) <=> \E i \in DOMAIN seq : seq[i].name = n
         /\ \A i \in DOMAIN seq : seq[i].name = n => Named(seq, n) = seq[i]
<1>1. HasNamed(seq, n) <=> \E i \in DOMAIN seq : seq[i].name = n
  BY DEF HasNamed, Holds
<1>2. ASSUME NEW i \in DOMAIN seq, seq[i].name = n PROVE Named(seq, n) = seq[i]
  <2> DEFINE P(k) == seq[k].name = n /\ \A j \in 1..(k - 1) : ~(seq[j].name = n)
  <2>1. Named(seq, n) = seq[CHOOSE k \in DOMAIN seq : P(k)]
    BY DEF Named, First
  <2>2. Len(seq) \in Nat /\ DOMAIN seq = 1..Len(seq)
    BY DEF WellNamed
  <2>3. P(i)
    <3>1. \A j \in 1..(i - 1) : j \in DOMAIN seq /\ j # i
      BY <2>2
    <3> QED
      BY <1>2, <3>1 DEF WellNamed
  <2>4. \A k \in DOMAIN seq : P(k) => k = i
    BY <1>2 DEF WellNamed
  <2> HIDE DEF P
  <2>5. (CHOOSE k \in DOMAIN seq : P(k)) = i
    BY <2>3, <2>4
  <2> QED
    BY <2>1, <2>5
<1> QED
  BY <1>1, <1>2

\* An agent is looked up by its alias or unit, and found only under those.
LEMMA FoundAgent ==
  ASSUME NEW name
  PROVE  \/ \E i \in Indices : /\ name \in {Builtin[i].alias, Builtin[i].unit}
                               /\ Lookup(name) = Builtin[i]
         \/ /\ \A i \in Indices : name \notin {Builtin[i].alias, Builtin[i].unit}
            /\ Lookup(name) = PassThrough(name)
<1> DEFINE Is(i) == Builtin[i].alias = name \/ Builtin[i].unit = name
           P(k)  == Is(k) /\ \A j \in 1..(k - 1) : ~Is(j)
<1>1. Lookup(name) = IF \E i \in DOMAIN Builtin : Is(i)
                       THEN Builtin[CHOOSE k \in DOMAIN Builtin : P(k)] ELSE PassThrough(name)
  BY DEF Lookup, Holds, First
<1>2. ASSUME NEW i \in Indices, Is(i)
      PROVE  /\ name \in {Builtin[i].alias, Builtin[i].unit}
             /\ Lookup(name) = Builtin[i]
  <2>1. \A j \in Indices : Is(j) => j = i
    BY <1>2, EntriesApart
  <2>2. \A j \in 1..(i - 1) : j \in Indices /\ j # i
    BY TwelveEntries DEF Indices
  <2>3. P(i)
    BY <1>2, <2>1, <2>2
  <2>4. \A k \in Indices : P(k) => k = i
    BY <2>1
  <2>5. (CHOOSE k \in Indices : P(k)) = i
    <3> HIDE DEF P
    <3> QED
      BY <2>3, <2>4
  <2>6. Lookup(name) = Builtin[i]
    <3> HIDE DEF P
    <3> QED
      BY <1>1, <1>2, <2>5, TwelveEntries
  <2> QED
    BY <1>2, <2>6
<1>3. CASE \A i \in Indices : ~Is(i)
  <2>1. Lookup(name) = PassThrough(name)
    BY <1>1, <1>3, TwelveEntries
  <2> QED
    BY <1>3, <2>1
<1> QED
  BY <1>2, <1>3

-----------------------------------------------------------------------------
(* What the arguments mean.                                                *)

IsEndpoint(e)  == /\ e.name # "" /\ e.transport \in {"apiserver", "node"}
                  /\ "transport" \in DOMAIN e /\ "name" \in DOMAIN e
Reachable(eps) == WellNamed(eps) /\ \A i \in DOMAIN eps : IsEndpoint(eps[i])

LEMMA AllReachable ==
  ASSUME NEW s, NEW n \in Nat, Len(s) = n, DOMAIN s = 1..n, \A i \in 1..n : IsEndpoint(s[i]),
         \A i, j \in 1..n : s[i].name = s[j].name => i = j
  PROVE  Reachable(s)
<1>1. Len(s) \in Nat /\ DOMAIN s = 1..Len(s)
  OBVIOUS
<1>2. \A i \in DOMAIN s : s[i].name # ""
  BY DEF IsEndpoint
<1>3. WellNamed(s)
  BY <1>1, <1>2 DEF WellNamed
<1> QED
  BY <1>3 DEF Reachable

LEMMA LocalTyped ==
  \A n, port, path : n # "" => /\ IsEndpoint(Local(n, port, path))
                               /\ Local(n, port, path).name = n
  BY DEF Local, IsEndpoint

LEMMA ProxiedTyped ==
  \A n, path : n # "" => IsEndpoint(Proxied(n, path)) /\ Proxied(n, path).name = n
  BY DEF Proxied, IsEndpoint

LEMMA NoEndpoint == Reachable(<<>>)
  BY DEF Reachable, WellNamed

LEMMA OneEndpoint ==
  ASSUME NEW a, IsEndpoint(a)
  PROVE  Reachable(<<a>>)
<1> DEFINE s == <<a>>
<1>1. Len(s) = 1 /\ DOMAIN s = 1..1 /\ s[1] = a
  OBVIOUS
<1>2. \A i \in 1..1 : i \in {1}
  OBVIOUS
<1> HIDE DEF s
<1>3. \A i \in 1..1 : IsEndpoint(s[i])
  BY <1>1, <1>2
<1>4. \A i, j \in 1..1 : s[i].name = s[j].name => i = j
  BY <1>1, <1>2
<1>5. Reachable(s)
  BY <1>1, <1>3, <1>4, AllReachable
<1> QED
  BY <1>5 DEF s

LEMMA TwoEndpoints ==
  ASSUME NEW a, IsEndpoint(a), NEW b, IsEndpoint(b),
         a.name # b.name
  PROVE  Reachable(<<a, b>>)
<1> DEFINE s == <<a, b>>
<1>1. Len(s) = 2 /\ DOMAIN s = 1..2 /\ s[1] = a /\ s[2] = b
  OBVIOUS
<1>2. \A i \in 1..2 : i \in {1, 2}
  OBVIOUS
<1> HIDE DEF s
<1>3. \A i \in 1..2 : IsEndpoint(s[i])
  BY <1>1, <1>2
<1>4. \A i, j \in 1..2 : s[i].name = s[j].name => i = j
  BY <1>1, <1>2
<1>5. Reachable(s)
  BY <1>1, <1>3, <1>4, AllReachable
<1> QED
  BY <1>5 DEF s

LEMMA ThreeEndpoints ==
  ASSUME NEW a, IsEndpoint(a), NEW b, IsEndpoint(b), NEW c, IsEndpoint(c),
         a.name # b.name, a.name # c.name, b.name # c.name
  PROVE  Reachable(<<a, b, c>>)
<1> DEFINE s == <<a, b, c>>
<1>1. Len(s) = 3 /\ DOMAIN s = 1..3 /\ s[1] = a /\ s[2] = b /\ s[3] = c
  OBVIOUS
<1>2. \A i \in 1..3 : i \in {1, 2, 3}
  OBVIOUS
<1> HIDE DEF s
<1>3. \A i \in 1..3 : IsEndpoint(s[i])
  BY <1>1, <1>2
<1>4. \A i, j \in 1..3 : s[i].name = s[j].name => i = j
  BY <1>1, <1>2
<1>5. Reachable(s)
  BY <1>1, <1>3, <1>4, AllReachable
<1> QED
  BY <1>5 DEF s

LEMMA FourEndpoints ==
  ASSUME NEW a, IsEndpoint(a), NEW b, IsEndpoint(b), NEW c, IsEndpoint(c), NEW d, IsEndpoint(d),
         a.name # b.name, a.name # c.name, a.name # d.name, b.name # c.name, b.name # d.name, c.name # d.name
  PROVE  Reachable(<<a, b, c, d>>)
<1> DEFINE s == <<a, b, c, d>>
<1>1. Len(s) = 4 /\ DOMAIN s = 1..4 /\ s[1] = a /\ s[2] = b /\ s[3] = c /\ s[4] = d
  OBVIOUS
<1>2. \A i \in 1..4 : i \in {1, 2, 3, 4}
  OBVIOUS
<1> HIDE DEF s
<1>3. \A i \in 1..4 : IsEndpoint(s[i])
  BY <1>1, <1>2
<1>4. \A i, j \in 1..4 : s[i].name = s[j].name => i = j
  BY <1>1, <1>2
<1>5. Reachable(s)
  BY <1>1, <1>3, <1>4, AllReachable
<1> QED
  BY <1>5 DEF s

LEMMA LocalPair ==
  ASSUME NEW n \in {"healthz", "introspect"}, NEW p, NEW q, NEW x, NEW y
  PROVE  Reachable(<<Local("metrics", p, x), Local(n, q, y)>>)
<1> DEFINE a == Local("metrics", p, x)
           b == Local(n, q, y)
<1>0. n # "" /\ n # "metrics"
  OBVIOUS
<1>1. IsEndpoint(a) /\ a.name = "metrics"
  BY LocalTyped
<1>b. IsEndpoint(b) /\ b.name = n
  BY <1>0, LocalTyped
<1> HIDE DEF a, b
<1>2. Reachable(<<a, b>>)
  BY <1>0, <1>1, <1>b, TwoEndpoints
<1> QED
  BY <1>2 DEF a, b

LEMMA EntryEndpoints == \A i \in Indices : Reachable(Builtin[i].endpoints)
<1>1. /\ Builtin[1].endpoints
           = <<Proxied("metrics", "/metrics"), Proxied("cadvisor", "/metrics/cadvisor"),
               Proxied("resource", "/metrics/resource"), Local("healthz", 10248, "/healthz")>>
      /\ Builtin[3].endpoints
           = <<Local("metrics", 10249, "/metrics"), Local("healthz", 10256, "/healthz")>>
      /\ Builtin[4].endpoints
           = <<Local("metrics", 61678, "/metrics"), Local("introspect", 61679, "/v1/enis")>>
      /\ Builtin[5].endpoints
           = <<Local("metrics", 8900, "/metrics"), Local("healthz", 8901, "/healthz")>>
      /\ Builtin[6].endpoints
           = <<Local("metrics", 8801, "/metrics"), Local("healthz", 8800, "/healthz")>>
      /\ Builtin[7].endpoints = <<Local("healthz", 2703, "/healthz")>>
      /\ Builtin[8].endpoints
           = <<Local("metrics", 9153, "/metrics"), Local("health", 8080, "/health"),
               Local("ready", 8181, "/ready")>>
  BY DEF Builtin, Agent
<1>2. Reachable(Builtin[1].endpoints)
  <2> DEFINE a == Proxied("metrics", "/metrics")
             b == Proxied("cadvisor", "/metrics/cadvisor")
             c == Proxied("resource", "/metrics/resource")
             d == Local("healthz", 10248, "/healthz")
  <2>a. IsEndpoint(a) /\ a.name = "metrics"
    BY ProxiedTyped
  <2>b. IsEndpoint(b) /\ b.name = "cadvisor"
    BY ProxiedTyped
  <2>c. IsEndpoint(c) /\ c.name = "resource"
    BY ProxiedTyped
  <2>d. IsEndpoint(d) /\ d.name = "healthz"
    BY DEF Local, IsEndpoint
  <2>2. Builtin[1].endpoints = <<a, b, c, d>>
    BY <1>1
  <2> HIDE DEF a, b, c, d
  <2>3. Reachable(<<a, b, c, d>>)
    BY <2>a, <2>b, <2>c, <2>d, FourEndpoints
  <2> QED
    BY <2>2, <2>3
<1>3. \A n \in {"healthz", "introspect"} : \A p, q, x, y :
        Reachable(<<Local("metrics", p, x), Local(n, q, y)>>)
  BY LocalPair
<1>a. Reachable(Builtin[3].endpoints)
  BY <1>1, <1>3
<1>b. Reachable(Builtin[4].endpoints)
  BY <1>1, <1>3
<1>c. Reachable(Builtin[5].endpoints)
  BY <1>1, <1>3
<1>d. Reachable(Builtin[6].endpoints)
  BY <1>1, <1>3
<1>4. Reachable(Builtin[7].endpoints)
  <2> DEFINE a == Local("healthz", 2703, "/healthz")
  <2>1. IsEndpoint(a)
    BY DEF Local, IsEndpoint
  <2>2. Builtin[7].endpoints = <<a>>
    BY <1>1
  <2> HIDE DEF a
  <2> QED
    BY <2>1, <2>2, OneEndpoint
<1>5. Reachable(Builtin[8].endpoints)
  <2> DEFINE a == Local("metrics", 9153, "/metrics")
             b == Local("health", 8080, "/health")
             c == Local("ready", 8181, "/ready")
  <2>a. IsEndpoint(a) /\ a.name = "metrics"
    BY DEF Local, IsEndpoint
  <2>b. IsEndpoint(b) /\ b.name = "health"
    BY DEF Local, IsEndpoint
  <2>c. IsEndpoint(c) /\ c.name = "ready"
    BY DEF Local, IsEndpoint
  <2>2. Builtin[8].endpoints = <<a, b, c>>
    BY <1>1
  <2> HIDE DEF a, b, c
  <2>3. Reachable(<<a, b, c>>)
    BY <2>a, <2>b, <2>c, ThreeEndpoints
  <2> QED
    BY <2>2, <2>3
<1>6. \A i \in {2, 9, 10, 11, 12} : Reachable(Builtin[i].endpoints)
  <2>1. /\ Builtin[2].endpoints = <<>> /\ Builtin[9].endpoints = <<>>
        /\ Builtin[10].endpoints = <<>> /\ Builtin[11].endpoints = <<>>
        /\ Builtin[12].endpoints = <<>>
    BY DEF Builtin, Agent
  <2> QED
    BY <2>1, NoEndpoint
<1> QED
  BY <1>2, <1>a, <1>b, <1>c, <1>d, <1>4, <1>5, <1>6 DEF Indices

\* The log sources of an agent: its files, then the journal of its unit.
IsFile(l)  == l.name \notin {"", "journal", "list"}
Sourced(logs) ==
  /\ WellNamed(logs) /\ 1 \in DOMAIN logs
  /\ \E i \in DOMAIN logs : logs[i].name = "journal"
  /\ \A i \in DOMAIN logs : logs[i].name # "list"

LEMMA JournalLast ==
  ASSUME NEW s, NEW n \in Nat, Len(s) = n + 1, DOMAIN s = 1..(n + 1),
         s[n + 1].name = "journal", \A i \in 1..n : IsFile(s[i]),
         \A i, j \in 1..n : s[i].name = s[j].name => i = j
  PROVE  Sourced(s)
<1>1. \A i \in 1..(n + 1) : i \in 1..n \/ i = n + 1
  OBVIOUS
<1>2. WellNamed(s)
  <2>1. \A i, j \in 1..(n + 1) : s[i].name = s[j].name => i = j
    BY <1>1 DEF IsFile
  <2>2. \A i \in 1..(n + 1) : s[i].name # ""
    BY <1>1 DEF IsFile
  <2>3. Len(s) \in Nat /\ DOMAIN s = 1..Len(s)
    OBVIOUS
  <2> QED
    BY <2>1, <2>2, <2>3 DEF WellNamed
<1>3. 1 \in DOMAIN s /\ n + 1 \in DOMAIN s
  OBVIOUS
<1>4. \A i \in 1..(n + 1) : s[i].name # "list"
  BY <1>1 DEF IsFile
<1> QED
  BY <1>2, <1>3, <1>4 DEF Sourced

LEMMA Appended ==
  ASSUME NEW S, NEW s \in Seq(S), NEW w \in S
  PROVE  /\ Len(s \o <<w>>) = Len(s) + 1 /\ DOMAIN (s \o <<w>>) = 1..(Len(s) + 1)
         /\ Len(s) \in Nat /\ \A i \in 1..Len(s) : (s \o <<w>>)[i] = s[i]
         /\ (s \o <<w>>)[Len(s) + 1] = w
  OBVIOUS

LEMMA FilesThenJournal ==
  ASSUME NEW S, NEW s \in Seq(S), NEW w \in S, w.name = "journal",
         \A i \in 1..Len(s) : IsFile(s[i]),
         \A i, j \in 1..Len(s) : s[i].name = s[j].name => i = j
  PROVE  Sourced(s \o <<w>>)
<1> DEFINE t == s \o <<w>>
           n == Len(s)
<1>1. /\ Len(t) = n + 1 /\ DOMAIN t = 1..(n + 1) /\ n \in Nat
      /\ \A i \in 1..n : t[i] = s[i]
      /\ t[n + 1] = w
  BY Appended
<1>2. /\ \A i \in 1..n : IsFile(t[i])
      /\ \A i, j \in 1..n : t[i].name = t[j].name => i = j
  BY <1>1
<1> HIDE DEF t, n
<1>3. Sourced(t)
  BY <1>1, <1>2, JournalLast
<1> QED
  BY <1>3 DEF t

LEMMA EntryLogs == \A i \in Indices : Sourced(Builtin[i].logs)
<1>1. \A unit : Journal(unit).name = "journal"
  BY DEF Journal
<1>2. /\ Builtin[1].logs = <<>> \o <<Journal(Service("kubelet"))>>
      /\ Builtin[2].logs = <<>> \o <<Journal(Service("containerd"))>>
      /\ Builtin[3].logs = <<>> \o <<Journal(Service("kube-proxy"))>>
      /\ Builtin[6].logs = <<>> \o <<Journal(Service("eks-node-monitoring-agent"))>>
      /\ Builtin[7].logs = <<>> \o <<Journal(Service("eks-pod-identity-agent"))>>
      /\ Builtin[8].logs = <<>> \o <<Journal(Service("coredns"))>>
      /\ Builtin[9].logs = <<>> \o <<Journal(Service("eks-healthchecker"))>>
      /\ Builtin[10].logs = <<>> \o <<Journal(Service("eks-ebs-csi-driver"))>>
      /\ Builtin[11].logs = <<>> \o <<Journal(Service("eks-ebs-csi-driver-registrar"))>>
      /\ Builtin[12].logs = <<>> \o <<Journal(Service("efa-k8s-device-plugin"))>>
  BY DEF Builtin, Agent
<1>3. \A unit : Sourced(<<>> \o <<Journal(unit)>>)
  <2> SUFFICES ASSUME NEW unit PROVE Sourced(<<>> \o <<Journal(unit)>>)
    OBVIOUS
  <2> DEFINE w == Journal(unit)
             s == <<>>
  <2>1. w.name = "journal"
    BY <1>1
  <2> HIDE DEF w
  <2>2. s \in Seq({w}) /\ w \in {w} /\ \A i \in 1..Len(s) : FALSE
    OBVIOUS
  <2> HIDE DEF s
  <2>3. Sourced(s \o <<w>>)
    BY <2>1, <2>2, FilesThenJournal
  <2> QED
    BY <2>3 DEF s, w
<1>4. Sourced(Builtin[4].logs)
  <2> DEFINE a == LogFile("ipamd", "ipamd.log")
             b == LogFile("plugin", "plugin.log")
             c == LogFile("egress-v6", "egress-v6-plugin.log")
             w == Journal(Service("ipamd"))
             s == <<a, b, c>>
             S == {a, b, c, w}
  <2>1. /\ IsFile(a) /\ IsFile(b) /\ IsFile(c)
        /\ a.name = "ipamd" /\ b.name = "plugin" /\ c.name = "egress-v6" /\ w.name = "journal"
    BY DEF LogFile, IsFile, Journal
  <2>2. Builtin[4].logs = s \o <<w>>
    BY DEF Builtin, Agent
  <2> HIDE DEF a, b, c, w
  <2>3. /\ s \in Seq(S) /\ w \in S /\ Len(s) = 3
        /\ s[1] = a /\ s[2] = b /\ s[3] = c
    OBVIOUS
  <2>4. \A i \in 1..3 : i \in {1, 2, 3}
    OBVIOUS
  <2> HIDE DEF s, S
  <2>5. \A i \in 1..3 : IsFile(s[i])
    BY <2>1, <2>3, <2>4
  <2>6. \A i, j \in 1..3 : s[i].name = s[j].name => i = j
    BY <2>1, <2>3, <2>4
  <2>7. w.name = "journal"
    BY <2>1
  <2>8. Sourced(s \o <<w>>)
    BY <2>3, <2>5, <2>6, <2>7, FilesThenJournal
  <2> QED
    BY <2>2, <2>8
<1>5. Sourced(Builtin[5].logs)
  <2> DEFINE a == LogFile("policy", "network-policy-agent.log")
             b == LogFile("bpf", "ebpf-sdk.log")
             w == Journal(Service("aws-network-policy-agent"))
             s == <<a, b>>
  <2>1. IsFile(a) /\ IsFile(b) /\ a.name = "policy" /\ b.name = "bpf" /\ w.name = "journal"
    BY DEF LogFile, IsFile, Journal
  <2>2. Builtin[5].logs = s \o <<w>>
    BY DEF Builtin, Agent
  <2> HIDE DEF a, b, w
  <2>3. s \in Seq({a, b, w}) /\ w \in {a, b, w} /\ Len(s) = 2 /\ s[1] = a /\ s[2] = b
    OBVIOUS
  <2>4. \A i \in 1..2 : i \in {1, 2}
    OBVIOUS
  <2> HIDE DEF s
  <2>5. \A i \in 1..2 : IsFile(s[i])
    BY <2>1, <2>3, <2>4
  <2>6. \A i, j \in 1..2 : s[i].name = s[j].name => i = j
    BY <2>1, <2>3, <2>4
  <2> QED
    BY <2>1, <2>2, <2>3, <2>5, <2>6, FilesThenJournal
<1> QED
  BY <1>2, <1>3, <1>4, <1>5 DEF Indices

\* Elements of a list under one name.
Elements(seq) == {seq[i] : i \in DOMAIN seq}

LEMMA UnderName ==
  ASSUME NEW seq, WellNamed(seq), NEW n
  PROVE  {l \in Elements(seq) : l.name = n} = IF HasNamed(seq, n) THEN {Named(seq, n)} ELSE {}
<1>1. CASE HasNamed(seq, n)
  <2>1. PICK k \in DOMAIN seq : seq[k].name = n
    BY <1>1, FoundByName
  <2>2. Named(seq, n) = seq[k]
    BY <2>1, FoundByName
  <2>3. \A j \in DOMAIN seq : seq[j].name = n => j = k
    BY <2>1 DEF WellNamed
  <2> QED
    BY <1>1, <2>1, <2>2, <2>3 DEF Elements
<1>2. CASE ~HasNamed(seq, n)
  <2>1. \A i \in DOMAIN seq : seq[i].name # n
    BY <1>2, FoundByName
  <2> QED
    BY <1>2, <2>1 DEF Elements
<1> QED
  BY <1>1, <1>2

LEMMA PassedThrough ==
  ASSUME NEW name \in STRING \X Nat
  PROVE  LET k == IF name[2] > 0 THEN name[2] ELSE 1
         IN  /\ PassThrough(name).unit = <<name[1], k>> /\ PassThrough(name).endpoints = <<>>
             /\ PassThrough(name).logs = <<Journal(<<name[1], k>>)>>
<1>1. name = <<name[1], name[2]>> /\ name[2] \in Nat
  OBVIOUS
<1>2. ~(name[2] > 0) => Suffixed(name) = <<name[1], 1>>
  BY <1>1 DEF Suffixed
<1> QED
  BY <1>1, <1>2 DEF PassThrough, HasDotService

-----------------------------------------------------------------------------
(* The tables of TOOL.md have what the catalog has, row by entry, but for  *)
(* the name of one endpoint of coredns.                                    *)

Under(S, n) == {e \in S : e.name = n}

Matches(w, i) ==
  /\ w.alias = Builtin[i].alias /\ w.unit = Builtin[i].unit
  /\ w.default = Builtin[i].logs[1]
  /\ {w.default} \cup w.others = Elements(Builtin[i].logs)
  /\ \A n : i # 8 \/ n \notin {"health", "healthz"}
              => Under(w.endpoints, n) = Under(Elements(Builtin[i].endpoints), n)

LEMMA ElementsListed ==
  /\ Elements(<<>>) = {}
  /\ \A a : Elements(<<a>>) = {a}
  /\ \A a, b : Elements(<<a, b>>) = {a, b}
  /\ \A a, b, c : Elements(<<a, b, c>>) = {a, b, c}
  /\ \A a, b, c, d : Elements(<<a, b, c, d>>) = {a, b, c, d}
<1>1. /\ 1..1 = {1} /\ 1..2 = {1, 2} /\ 1..3 = {1, 2, 3} /\ 1..4 = {1, 2, 3, 4}
  OBVIOUS
<1>2. Elements(<<>>) = {}
  BY DEF Elements
<1>3. \A a : Elements(<<a>>) = {a}
  BY <1>1 DEF Elements
<1>4. \A a, b : Elements(<<a, b>>) = {a, b}
  BY <1>1 DEF Elements
<1>5. \A a, b, c : Elements(<<a, b, c>>) = {a, b, c}
  BY <1>1 DEF Elements
<1>6. \A a, b, c, d : Elements(<<a, b, c, d>>) = {a, b, c, d}
  BY <1>1 DEF Elements
<1> QED
  BY <1>2, <1>3, <1>4, <1>5, <1>6

LEMMA ElementsAppended ==
  ASSUME NEW S, NEW s \in Seq(S), NEW w \in S
  PROVE  /\ Elements(s \o <<w>>) = Elements(s) \cup {w}
         /\ Len(s) > 0 => (s \o <<w>>)[1] = s[1]
<1> DEFINE t == s \o <<w>>
           n == Len(s)
<1>1. /\ DOMAIN t = 1..(n + 1) /\ n \in Nat /\ t[n + 1] = w
      /\ \A i \in 1..n : t[i] = s[i]
  BY Appended
<1>2. DOMAIN s = 1..n
  BY LenProperties
<1> HIDE DEF t, n
<1>3. \A i \in 1..(n + 1) : i \in 1..n \/ i = n + 1
  BY <1>1
<1>4. n + 1 \in 1..(n + 1) /\ \A i \in 1..n : i \in 1..(n + 1)
  BY <1>1
<1>5. Elements(t) = Elements(s) \cup {w}
  BY <1>1, <1>2, <1>3, <1>4 DEF Elements
<1>6. n > 0 => t[1] = s[1]
  BY <1>1
<1> QED
  BY <1>5, <1>6 DEF t, n

\* Any agent: its logs are a default, other files and the journal of its unit.
LEMMA RowMatches ==
  ASSUME NEW i \in Indices, NEW alias, NEW unit, NEW eps,
         Builtin[i].alias = Bare(alias), Builtin[i].unit = Service(unit),
         Elements(Builtin[i].logs) = {Journal(Service(unit))},
         Builtin[i].logs[1] = Journal(Service(unit)),
         \A n : i # 8 \/ n \notin {"health", "healthz"}
                  => Under(eps, n) = Under(Elements(Builtin[i].endpoints), n)
  PROVE  Matches(Row(alias, unit, eps), i)
  BY DEF Row, Matches

LEMMA FilesMatch ==
  ASSUME NEW i \in Indices, NEW alias, NEW unit, NEW eps, NEW default, NEW others,
         Builtin[i].alias = Bare(alias), Builtin[i].unit = Service(unit),
         Elements(Builtin[i].logs) = {default} \cup others \cup {Journal(Service(unit))},
         Builtin[i].logs[1] = default, i # 8, eps = Elements(Builtin[i].endpoints)
  PROVE  Matches(WithFiles(Row(alias, unit, eps), default, others), i)
<1> DEFINE w == WithFiles(Row(alias, unit, eps), default, others)
<1>1. /\ w.alias = Bare(alias) /\ w.unit = Service(unit) /\ w.endpoints = eps
      /\ w.default = default /\ w.others = others \cup {Journal(Service(unit))}
  BY DEF WithFiles, Row
<1> HIDE DEF w
<1>2. Matches(w, i)
  BY <1>1 DEF Matches
<1> QED
  BY <1>2 DEF w

\* The names, endpoints and sources of the entries.
LEMMA EntryNames ==
  /\ Builtin[1].alias = Bare("kubelet")
  /\ Builtin[1].unit = Service("kubelet")
  /\ Builtin[2].alias = Bare("containerd")
  /\ Builtin[2].unit = Service("containerd")
  /\ Builtin[3].alias = Bare("kube-proxy")
  /\ Builtin[3].unit = Service("kube-proxy")
  /\ Builtin[4].alias = Bare("ipamd")
  /\ Builtin[4].unit = Service("ipamd")
  /\ Builtin[5].alias = Bare("network-policy")
  /\ Builtin[5].unit = Service("aws-network-policy-agent")
  /\ Builtin[6].alias = Bare("node-monitor")
  /\ Builtin[6].unit = Service("eks-node-monitoring-agent")
  /\ Builtin[7].alias = Bare("pod-identity")
  /\ Builtin[7].unit = Service("eks-pod-identity-agent")
  /\ Builtin[8].alias = Bare("coredns")
  /\ Builtin[8].unit = Service("coredns")
  /\ Builtin[9].alias = Bare("healthchecker")
  /\ Builtin[9].unit = Service("eks-healthchecker")
  /\ Builtin[10].alias = Bare("ebs-csi")
  /\ Builtin[10].unit = Service("eks-ebs-csi-driver")
  /\ Builtin[11].alias = Bare("ebs-csi-registrar")
  /\ Builtin[11].unit = Service("eks-ebs-csi-driver-registrar")
  /\ Builtin[12].alias = Bare("efa")
  /\ Builtin[12].unit = Service("efa-k8s-device-plugin")
<1>1. \A s : Bare(s) = <<s, 0>> /\ Service(s) = <<s, 1>>
  BY DEF Bare, Service
<1> QED
  BY <1>1, EntryAliases, EntryUnits

LEMMA EntryEndpointSets ==
  /\ Elements(Builtin[1].endpoints)
       = {Proxied("metrics", "/metrics"), Local("healthz", 10248, "/healthz"),
         Proxied("cadvisor", "/metrics/cadvisor"), Proxied("resource", "/metrics/resource")}
  /\ Elements(Builtin[3].endpoints)
       = {Local("metrics", 10249, "/metrics"), Local("healthz", 10256, "/healthz")}
  /\ Elements(Builtin[4].endpoints)
       = {Local("metrics", 61678, "/metrics"), Local("introspect", 61679, "/v1/enis")}
  /\ Elements(Builtin[5].endpoints)
       = {Local("metrics", 8900, "/metrics"), Local("healthz", 8901, "/healthz")}
  /\ Elements(Builtin[6].endpoints)
       = {Local("metrics", 8801, "/metrics"), Local("healthz", 8800, "/healthz")}
  /\ Elements(Builtin[7].endpoints)
       = {Local("healthz", 2703, "/healthz")}
  /\ Elements(Builtin[8].endpoints)
       = {Local("metrics", 9153, "/metrics"), Local("health", 8080, "/health"),
         Local("ready", 8181, "/ready")}
  /\ \A i \in {2, 9, 10, 11, 12} : Elements(Builtin[i].endpoints) = {}
<1>1. /\ Builtin[1].endpoints
           = <<Proxied("metrics", "/metrics"), Proxied("cadvisor", "/metrics/cadvisor"),
               Proxied("resource", "/metrics/resource"), Local("healthz", 10248, "/healthz")>>
      /\ Builtin[3].endpoints
           = <<Local("metrics", 10249, "/metrics"), Local("healthz", 10256, "/healthz")>>
      /\ Builtin[4].endpoints
           = <<Local("metrics", 61678, "/metrics"), Local("introspect", 61679, "/v1/enis")>>
      /\ Builtin[5].endpoints
           = <<Local("metrics", 8900, "/metrics"), Local("healthz", 8901, "/healthz")>>
      /\ Builtin[6].endpoints
           = <<Local("metrics", 8801, "/metrics"), Local("healthz", 8800, "/healthz")>>
      /\ Builtin[7].endpoints = <<Local("healthz", 2703, "/healthz")>>
      /\ Builtin[8].endpoints
           = <<Local("metrics", 9153, "/metrics"), Local("health", 8080, "/health"),
               Local("ready", 8181, "/ready")>>
  BY DEF Builtin, Agent
<1>2. \A i \in {2, 9, 10, 11, 12} : Builtin[i].endpoints = <<>>
  <2>1. /\ Builtin[2].endpoints = <<>> /\ Builtin[9].endpoints = <<>>
        /\ Builtin[10].endpoints = <<>> /\ Builtin[11].endpoints = <<>>
        /\ Builtin[12].endpoints = <<>>
    BY DEF Builtin, Agent
  <2> QED
    BY <2>1
<1>3. Elements(Builtin[1].endpoints)
      = {Proxied("metrics", "/metrics"), Local("healthz", 10248, "/healthz"),
      Proxied("cadvisor", "/metrics/cadvisor"), Proxied("resource", "/metrics/resource")}
  BY <1>1, <1>2, ElementsListed
<1>4. Elements(Builtin[3].endpoints)
      = {Local("metrics", 10249, "/metrics"), Local("healthz", 10256, "/healthz")}
  BY <1>1, <1>2, ElementsListed
<1>5. Elements(Builtin[4].endpoints)
      = {Local("metrics", 61678, "/metrics"), Local("introspect", 61679, "/v1/enis")}
  BY <1>1, <1>2, ElementsListed
<1>6. Elements(Builtin[5].endpoints)
      = {Local("metrics", 8900, "/metrics"), Local("healthz", 8901, "/healthz")}
  BY <1>1, <1>2, ElementsListed
<1>7. Elements(Builtin[6].endpoints)
      = {Local("metrics", 8801, "/metrics"), Local("healthz", 8800, "/healthz")}
  BY <1>1, <1>2, ElementsListed
<1>8. Elements(Builtin[7].endpoints)
      = {Local("healthz", 2703, "/healthz")}
  BY <1>1, <1>2, ElementsListed
<1>9. Elements(Builtin[8].endpoints)
      = {Local("metrics", 9153, "/metrics"), Local("health", 8080, "/health"),
      Local("ready", 8181, "/ready")}
  BY <1>1, <1>2, ElementsListed
<1>10. \A i \in {2, 9, 10, 11, 12} : Elements(Builtin[i].endpoints) = {}
  <2>1. Elements(<<>>) = {}
    BY ElementsListed
  <2> QED
    BY <1>2, <2>1
<1> QED
  BY <1>3, <1>4, <1>5, <1>6, <1>7, <1>8, <1>9, <1>10

LEMMA EntryJournals ==
  \A i \in Indices \ {4, 5} : /\ Elements(Builtin[i].logs) = {Journal(Builtin[i].unit)}
                             /\ Builtin[i].logs[1] = Journal(Builtin[i].unit)
<1>1. /\ Builtin[1].logs = <<>> \o <<Journal(Service("kubelet"))>>
      /\ Builtin[2].logs = <<>> \o <<Journal(Service("containerd"))>>
      /\ Builtin[3].logs = <<>> \o <<Journal(Service("kube-proxy"))>>
      /\ Builtin[6].logs = <<>> \o <<Journal(Service("eks-node-monitoring-agent"))>>
      /\ Builtin[7].logs = <<>> \o <<Journal(Service("eks-pod-identity-agent"))>>
      /\ Builtin[8].logs = <<>> \o <<Journal(Service("coredns"))>>
      /\ Builtin[9].logs = <<>> \o <<Journal(Service("eks-healthchecker"))>>
      /\ Builtin[10].logs = <<>> \o <<Journal(Service("eks-ebs-csi-driver"))>>
      /\ Builtin[11].logs = <<>> \o <<Journal(Service("eks-ebs-csi-driver-registrar"))>>
      /\ Builtin[12].logs = <<>> \o <<Journal(Service("efa-k8s-device-plugin"))>>
  BY DEF Builtin, Agent
<1>2. \A l : <<>> \o <<l>> = <<l>>
  OBVIOUS
<1>3. \A l : <<l>>[1] = l
  OBVIOUS
<1>4. \A i \in Indices \ {4, 5} : Builtin[i].logs = <<Journal(Builtin[i].unit)>>
  BY <1>1, <1>2, EntryNames DEF Indices
<1> QED
  BY <1>3, <1>4, ElementsListed

LEMMA ThreeFiles ==
  ASSUME NEW a, NEW b, NEW c, NEW d
  PROVE  /\ Elements(<<a, b, c>> \o <<d>>) = {a} \cup {b, c} \cup {d}
         /\ (<<a, b, c>> \o <<d>>)[1] = a
<1> DEFINE s == <<a, b, c>>
           S == {a, b, c, d}
<1>1. s \in Seq(S) /\ d \in S /\ Len(s) > 0 /\ s[1] = a
  OBVIOUS
<1>2. Elements(s) = {a, b, c}
  BY ElementsListed
<1> HIDE DEF s, S
<1>3. Elements(s \o <<d>>) = Elements(s) \cup {d} /\ (s \o <<d>>)[1] = s[1]
  BY <1>1, ElementsAppended
<1>4. Elements(s \o <<d>>) = {a} \cup {b, c} \cup {d} /\ (s \o <<d>>)[1] = a
  BY <1>1, <1>2, <1>3
<1> QED
  BY <1>4 DEF s

LEMMA TwoFiles ==
  ASSUME NEW a, NEW b, NEW d
  PROVE  /\ Elements(<<a, b>> \o <<d>>) = {a} \cup {b} \cup {d}
         /\ (<<a, b>> \o <<d>>)[1] = a
<1> DEFINE s == <<a, b>>
           S == {a, b, d}
<1>1. s \in Seq(S) /\ d \in S /\ Len(s) > 0 /\ s[1] = a
  OBVIOUS
<1>2. Elements(s) = {a, b}
  BY ElementsListed
<1> HIDE DEF s, S
<1>3. Elements(s \o <<d>>) = Elements(s) \cup {d} /\ (s \o <<d>>)[1] = s[1]
  BY <1>1, ElementsAppended
<1>4. Elements(s \o <<d>>) = {a} \cup {b} \cup {d} /\ (s \o <<d>>)[1] = a
  BY <1>1, <1>2, <1>3
<1> QED
  BY <1>4 DEF s

LEMMA EntryFiles ==
  /\ Elements(Builtin[4].logs)
       = {LogFile("ipamd", "ipamd.log")}
         \cup {LogFile("plugin", "plugin.log"), LogFile("egress-v6", "egress-v6-plugin.log")}
         \cup {Journal(Service("ipamd"))}
  /\ Builtin[4].logs[1] = LogFile("ipamd", "ipamd.log")
  /\ Elements(Builtin[5].logs)
       = {LogFile("policy", "network-policy-agent.log")} \cup {LogFile("bpf", "ebpf-sdk.log")}
         \cup {Journal(Service("aws-network-policy-agent"))}
  /\ Builtin[5].logs[1] = LogFile("policy", "network-policy-agent.log")
<1>1. Builtin[4].logs = <<LogFile("ipamd", "ipamd.log"), LogFile("plugin", "plugin.log"),
                          LogFile("egress-v6", "egress-v6-plugin.log")>>
                        \o <<Journal(Service("ipamd"))>>
  BY DEF Builtin, Agent
<1>2. Builtin[5].logs = <<LogFile("policy", "network-policy-agent.log"),
                          LogFile("bpf", "ebpf-sdk.log")>>
                        \o <<Journal(Service("aws-network-policy-agent"))>>
  BY DEF Builtin, Agent
<1>3. Elements(Builtin[4].logs)
        = {LogFile("ipamd", "ipamd.log")}
          \cup {LogFile("plugin", "plugin.log"), LogFile("egress-v6", "egress-v6-plugin.log")}
          \cup {Journal(Service("ipamd"))}
      /\ Builtin[4].logs[1] = LogFile("ipamd", "ipamd.log")
  BY <1>1, ThreeFiles
<1>4. Elements(Builtin[5].logs)
        = {LogFile("policy", "network-policy-agent.log")} \cup {LogFile("bpf", "ebpf-sdk.log")}
          \cup {Journal(Service("aws-network-policy-agent"))}
      /\ Builtin[5].logs[1] = LogFile("policy", "network-policy-agent.log")
  BY <1>2, TwoFiles
<1> QED
  BY <1>3, <1>4

\* An agent that has its journal only.
LEMMA JournalRow ==
  ASSUME NEW i \in Indices \ {4, 5, 8}, NEW alias, NEW unit,
         Builtin[i].alias = Bare(alias), Builtin[i].unit = Service(unit)
  PROVE  Matches(Row(alias, unit, Elements(Builtin[i].endpoints)), i)
<1>1. /\ i \in Indices
      /\ Elements(Builtin[i].logs) = {Journal(Service(unit))}
      /\ Builtin[i].logs[1] = Journal(Service(unit))
  BY EntryJournals
<1>2. \A n : Under(Elements(Builtin[i].endpoints), n) = Under(Elements(Builtin[i].endpoints), n)
  OBVIOUS
<1> QED
  BY <1>1, <1>2, RowMatches

LEMMA EveryRow ==
  /\ Matches(Row("kubelet", "kubelet",
               {Proxied("metrics", "/metrics"), Local("healthz", 10248, "/healthz"),
                Proxied("cadvisor", "/metrics/cadvisor"), Proxied("resource", "/metrics/resource")}), 1)
  /\ Matches(Row("containerd", "containerd", {}), 2)
  /\ Matches(Row("kube-proxy", "kube-proxy",
               {Local("metrics", 10249, "/metrics"), Local("healthz", 10256, "/healthz")}), 3)
  /\ Matches(WithFiles(Row("ipamd", "ipamd",
               {Local("metrics", 61678, "/metrics"), Local("introspect", 61679, "/v1/enis")}),
               LogFile("ipamd", "ipamd.log"),
               {LogFile("plugin", "plugin.log"), LogFile("egress-v6", "egress-v6-plugin.log")}), 4)
  /\ Matches(WithFiles(Row("network-policy", "aws-network-policy-agent",
               {Local("metrics", 8900, "/metrics"), Local("healthz", 8901, "/healthz")}),
               LogFile("policy", "network-policy-agent.log"),
               {LogFile("bpf", "ebpf-sdk.log")}), 5)
  /\ Matches(Row("node-monitor", "eks-node-monitoring-agent",
               {Local("metrics", 8801, "/metrics"), Local("healthz", 8800, "/healthz")}), 6)
  /\ Matches(Row("pod-identity", "eks-pod-identity-agent",
               {Local("healthz", 2703, "/healthz")}), 7)
  /\ Matches(Row("coredns", "coredns",
               {Local("metrics", 9153, "/metrics"), Local("healthz", 8080, "/health"),
                Local("ready", 8181, "/ready")}), 8)
  /\ Matches(Row("healthchecker", "eks-healthchecker", {}), 9)
  /\ Matches(Row("ebs-csi", "eks-ebs-csi-driver", {}), 10)
  /\ Matches(Row("ebs-csi-registrar", "eks-ebs-csi-driver-registrar", {}), 11)
  /\ Matches(Row("efa", "efa-k8s-device-plugin", {}), 12)
<1>1. Matches(Row("coredns", "coredns",
               {Local("metrics", 9153, "/metrics"), Local("healthz", 8080, "/health"),
                Local("ready", 8181, "/ready")}), 8)
  <2> DEFINE eps == {Local("metrics", 9153, "/metrics"), Local("healthz", 8080, "/health"),
                     Local("ready", 8181, "/ready")}
             has == Elements(Builtin[8].endpoints)
  <2>1. /\ Local("metrics", 9153, "/metrics").name = "metrics"
        /\ Local("healthz", 8080, "/health").name = "healthz"
        /\ Local("health", 8080, "/health").name = "health"
        /\ Local("ready", 8181, "/ready").name = "ready"
    BY DEF Local
  <2>2. has = {Local("metrics", 9153, "/metrics"), Local("health", 8080, "/health"),
               Local("ready", 8181, "/ready")}
    BY EntryEndpointSets
  <2> HIDE DEF has
  <2>3. ASSUME NEW n, n \notin {"health", "healthz"} PROVE Under(eps, n) = Under(has, n)
    BY <2>1, <2>2, <2>3 DEF Under
  <2> HIDE DEF eps
  <2>4. /\ 8 \in Indices /\ Elements(Builtin[8].logs) = {Journal(Service("coredns"))}
        /\ Builtin[8].logs[1] = Journal(Service("coredns"))
        /\ Builtin[8].alias = Bare("coredns") /\ Builtin[8].unit = Service("coredns")
    <3>1. 8 \in Indices \ {4, 5}
      BY DEF Indices
    <3>2. Builtin[8].alias = Bare("coredns") /\ Builtin[8].unit = Service("coredns")
      BY EntryNames
    <3> QED
      BY <3>1, <3>2, EntryJournals
  <2>5. \A n : n \notin {"health", "healthz"}
                => Under(eps, n) = Under(Elements(Builtin[8].endpoints), n)
    BY <2>3 DEF has
  <2>6. Matches(Row("coredns", "coredns", eps), 8)
    BY <2>4, <2>5, RowMatches
  <2> QED
    BY <2>6 DEF eps
<1>2. Matches(Row("kubelet", "kubelet",
               {Proxied("metrics", "/metrics"), Local("healthz", 10248, "/healthz"),
                Proxied("cadvisor", "/metrics/cadvisor"), Proxied("resource", "/metrics/resource")}), 1)
  <2>1. Builtin[1].alias = Bare("kubelet") /\ Builtin[1].unit = Service("kubelet")
    BY EntryNames
  <2>2. Elements(Builtin[1].endpoints)
       = {Proxied("metrics", "/metrics"), Local("healthz", 10248, "/healthz"),
          Proxied("cadvisor", "/metrics/cadvisor"), Proxied("resource", "/metrics/resource")}
    BY EntryEndpointSets
  <2> QED
    BY <2>1, <2>2, JournalRow DEF Indices
<1>3. Matches(Row("containerd", "containerd", {}), 2)
  <2>1. Builtin[2].alias = Bare("containerd") /\ Builtin[2].unit = Service("containerd")
    BY EntryNames
  <2>2. Elements(Builtin[2].endpoints)
       = {}
    BY EntryEndpointSets
  <2> QED
    BY <2>1, <2>2, JournalRow DEF Indices
<1>4. Matches(Row("kube-proxy", "kube-proxy",
               {Local("metrics", 10249, "/metrics"), Local("healthz", 10256, "/healthz")}), 3)
  <2>1. Builtin[3].alias = Bare("kube-proxy") /\ Builtin[3].unit = Service("kube-proxy")
    BY EntryNames
  <2>2. Elements(Builtin[3].endpoints)
       = {Local("metrics", 10249, "/metrics"), Local("healthz", 10256, "/healthz")}
    BY EntryEndpointSets
  <2> QED
    BY <2>1, <2>2, JournalRow DEF Indices
<1>5. Matches(WithFiles(Row("ipamd", "ipamd",
               {Local("metrics", 61678, "/metrics"), Local("introspect", 61679, "/v1/enis")}),
               LogFile("ipamd", "ipamd.log"),
               {LogFile("plugin", "plugin.log"), LogFile("egress-v6", "egress-v6-plugin.log")}), 4)
  <2>1. Builtin[4].alias = Bare("ipamd") /\ Builtin[4].unit = Service("ipamd")
    BY EntryNames
  <2>2. Elements(Builtin[4].endpoints)
       = {Local("metrics", 61678, "/metrics"), Local("introspect", 61679, "/v1/enis")}
    BY EntryEndpointSets
  <2> QED
    <3>1. /\ Elements(Builtin[4].logs)
               = {LogFile("ipamd", "ipamd.log")}
                 \cup {LogFile("plugin", "plugin.log"), LogFile("egress-v6", "egress-v6-plugin.log")}
                 \cup {Journal(Service("ipamd"))}
          /\ Builtin[4].logs[1] = LogFile("ipamd", "ipamd.log")
      BY EntryFiles
    <3>2. 4 \in Indices /\ 4 # 8
      BY DEF Indices
    <3> QED
      BY <2>1, <2>2, <3>1, <3>2, FilesMatch
<1>6. Matches(WithFiles(Row("network-policy", "aws-network-policy-agent",
               {Local("metrics", 8900, "/metrics"), Local("healthz", 8901, "/healthz")}),
               LogFile("policy", "network-policy-agent.log"),
               {LogFile("bpf", "ebpf-sdk.log")}), 5)
  <2>1. Builtin[5].alias = Bare("network-policy") /\ Builtin[5].unit = Service("aws-network-policy-agent")
    BY EntryNames
  <2>2. Elements(Builtin[5].endpoints)
       = {Local("metrics", 8900, "/metrics"), Local("healthz", 8901, "/healthz")}
    BY EntryEndpointSets
  <2> QED
    <3>1. /\ Elements(Builtin[5].logs)
               = {LogFile("policy", "network-policy-agent.log")}
                 \cup {LogFile("bpf", "ebpf-sdk.log")}
                 \cup {Journal(Service("aws-network-policy-agent"))}
          /\ Builtin[5].logs[1] = LogFile("policy", "network-policy-agent.log")
      BY EntryFiles
    <3>2. 5 \in Indices /\ 5 # 8
      BY DEF Indices
    <3> QED
      BY <2>1, <2>2, <3>1, <3>2, FilesMatch
<1>7. Matches(Row("node-monitor", "eks-node-monitoring-agent",
               {Local("metrics", 8801, "/metrics"), Local("healthz", 8800, "/healthz")}), 6)
  <2>1. Builtin[6].alias = Bare("node-monitor") /\ Builtin[6].unit = Service("eks-node-monitoring-agent")
    BY EntryNames
  <2>2. Elements(Builtin[6].endpoints)
       = {Local("metrics", 8801, "/metrics"), Local("healthz", 8800, "/healthz")}
    BY EntryEndpointSets
  <2> QED
    BY <2>1, <2>2, JournalRow DEF Indices
<1>8. Matches(Row("pod-identity", "eks-pod-identity-agent",
               {Local("healthz", 2703, "/healthz")}), 7)
  <2>1. Builtin[7].alias = Bare("pod-identity") /\ Builtin[7].unit = Service("eks-pod-identity-agent")
    BY EntryNames
  <2>2. Elements(Builtin[7].endpoints)
       = {Local("healthz", 2703, "/healthz")}
    BY EntryEndpointSets
  <2> QED
    BY <2>1, <2>2, JournalRow DEF Indices
<1>9. Matches(Row("healthchecker", "eks-healthchecker", {}), 9)
  <2>1. Builtin[9].alias = Bare("healthchecker") /\ Builtin[9].unit = Service("eks-healthchecker")
    BY EntryNames
  <2>2. Elements(Builtin[9].endpoints)
       = {}
    BY EntryEndpointSets
  <2> QED
    BY <2>1, <2>2, JournalRow DEF Indices
<1>10. Matches(Row("ebs-csi", "eks-ebs-csi-driver", {}), 10)
  <2>1. Builtin[10].alias = Bare("ebs-csi") /\ Builtin[10].unit = Service("eks-ebs-csi-driver")
    BY EntryNames
  <2>2. Elements(Builtin[10].endpoints)
       = {}
    BY EntryEndpointSets
  <2> QED
    BY <2>1, <2>2, JournalRow DEF Indices
<1>11. Matches(Row("ebs-csi-registrar", "eks-ebs-csi-driver-registrar", {}), 11)
  <2>1. Builtin[11].alias = Bare("ebs-csi-registrar") /\ Builtin[11].unit = Service("eks-ebs-csi-driver-registrar")
    BY EntryNames
  <2>2. Elements(Builtin[11].endpoints)
       = {}
    BY EntryEndpointSets
  <2> QED
    BY <2>1, <2>2, JournalRow DEF Indices
<1>12. Matches(Row("efa", "efa-k8s-device-plugin", {}), 12)
  <2>1. Builtin[12].alias = Bare("efa") /\ Builtin[12].unit = Service("efa-k8s-device-plugin")
    BY EntryNames
  <2>2. Elements(Builtin[12].endpoints)
       = {}
    BY EntryEndpointSets
  <2> QED
    BY <2>1, <2>2, JournalRow DEF Indices
<1> QED
  BY <1>1, <1>2, <1>3, <1>4, <1>5, <1>6, <1>7, <1>8, <1>9, <1>10, <1>11, <1>12

LEMMA RowsMatch ==
  /\ \A w \in Manual : \E i \in Indices : Matches(w, i)
  /\ \A i \in Indices : \E w \in Manual : Matches(w, i)
<1>1. \A w \in Manual : \E i \in Indices : Matches(w, i)
  BY EveryRow DEF Manual, Indices
<1>2. \A i \in Indices : \E w \in Manual : Matches(w, i)
  BY EveryRow DEF Manual, Indices
<1> QED
  BY <1>1, <1>2

\* An agent of the catalog has its row and no other, and any other name none.
LEMMA RowsFound ==
  ASSUME NEW name
  PROVE  \/ \E i \in Indices : /\ name \in {Builtin[i].alias, Builtin[i].unit}
                               /\ Lookup(name) = Builtin[i]
                               /\ RowsOf(name) # {} /\ \A w \in RowsOf(name) : Matches(w, i)
         \/ Lookup(name) = PassThrough(name) /\ RowsOf(name) = {}
<1>1. ASSUME NEW w \in RowsOf(name)
      PROVE  \E j \in Indices : Matches(w, j) /\ name \in {Builtin[j].alias, Builtin[j].unit}
  <2>1. PICK j \in Indices : Matches(w, j)
    BY RowsMatch DEF RowsOf
  <2> QED
    BY <2>1 DEF RowsOf, Matches
<1>2. ASSUME NEW i \in Indices, name \in {Builtin[i].alias, Builtin[i].unit}
      PROVE  RowsOf(name) # {} /\ \A w \in RowsOf(name) : Matches(w, i)
  <2>1. PICK w \in Manual : Matches(w, i)
    BY RowsMatch
  <2>2. w \in RowsOf(name)
    BY <1>2, <2>1 DEF RowsOf, Matches
  <2>3. \A v \in RowsOf(name) : Matches(v, i)
    BY <1>1, <1>2, EntriesApart
  <2> QED
    BY <2>2, <2>3
<1>3. CASE \E i \in Indices : /\ name \in {Builtin[i].alias, Builtin[i].unit}
                              /\ Lookup(name) = Builtin[i]
  BY <1>2, <1>3
<1>4. CASE /\ \A i \in Indices : name \notin {Builtin[i].alias, Builtin[i].unit}
           /\ Lookup(name) = PassThrough(name)
  <2>1. RowsOf(name) = {}
    BY <1>1, <1>4
  <2> QED
    BY <1>4, <2>1
<1> QED
  BY <1>3, <1>4, FoundAgent

-----------------------------------------------------------------------------
(* The arguments mean what the tables say.                                 *)

LEMMA UnlistedJournal ==
  ASSUME NEW name \in STRING \X Nat
  PROVE  Unlisted(name) = {Journal(<<name[1], IF name[2] > 0 THEN name[2] ELSE 1>>)}
<1> DEFINE p == name[2]
<1>1. p \in Nat
  OBVIOUS
<1> HIDE DEF p
<1>2. {k \in {1, p} : k > 0 /\ k >= p} = {IF p > 0 THEN p ELSE 1}
  BY <1>1
<1>3. Unlisted(name) = {Journal(<<name[1], n>>) : n \in {k \in {1, p} : k > 0 /\ k >= p}}
  BY DEF Unlisted, p
<1>4. Unlisted(name) = {Journal(<<name[1], IF p > 0 THEN p ELSE 1>>)}
  BY <1>2, <1>3
<1> QED
  BY <1>4 DEF p

LEMMA LogsDocumented ==
  ASSUME NEW r \in LogsRequest
  PROVE  LET t == LogSource(Lookup(r.agent), r.source)
         IN  \/ DocumentedLogs(r) = {t} /\ t # NoTask /\ r.source # "list"
             \/ DocumentedLogs(r) = {} /\ t = NoTask
<1> DEFINE a == Lookup(r.agent)
           t == LogSource(a, r.source)
           Agree == \/ DocumentedLogs(r) = {t} /\ t # NoTask /\ r.source # "list"
                    \/ DocumentedLogs(r) = {} /\ t = NoTask
<1>0. r.agent \in STRING \X Nat
  BY DEF LogsRequest
<1>n. NoTask.name = ""
  BY DEF NoTask
<1>1. ASSUME NEW i \in Indices, a = Builtin[i], RowsOf(r.agent) # {},
             \A w \in RowsOf(r.agent) : Matches(w, i)
      PROVE  Agree
  <2>1. Sourced(a.logs)
    BY <1>1, EntryLogs
  <2>2. DocumentedLogs(r) = {l \in Elements(a.logs) :
                               l.name = r.source \/ (r.source = "" /\ l = a.logs[1])}
    <3>1. \A w \in RowsOf(r.agent) : /\ {w.default} \cup w.others = Elements(a.logs)
                                     /\ w.default = a.logs[1]
      BY <1>1 DEF Matches
    <3> DEFINE rows == RowsOf(r.agent)
    <3> HIDE DEF a, rows
    <3>2. UNION {{w.default} \cup w.others : w \in rows} = Elements(a.logs)
      BY <1>1, <3>1 DEF rows
    <3>3. \A l : (\E w \in rows : l = w.default) <=> l = a.logs[1]
      BY <1>1, <3>1 DEF rows
    <3>4. {l \in Unlisted(r.agent) : rows = {} /\ r.source \in {"", "journal"}} = {}
      BY <1>1 DEF rows
    <3>5. DocumentedLogs(r)
            = {l \in UNION {{w.default} \cup w.others : w \in rows} :
                 l.name = r.source \/ (r.source = "" /\ \E w \in rows : l = w.default)}
              \cup {l \in Unlisted(r.agent) : rows = {} /\ r.source \in {"", "journal"}}
      BY DEF DocumentedLogs, rows
    <3> QED
      BY <3>2, <3>3, <3>4, <3>5
  <2> HIDE DEF a
  <2>3. CASE r.source = ""
    <3>0. a.logs # <<>>
      BY <2>1 DEF Sourced
    <3>1. t = a.logs[1]
      BY <2>3, <3>0 DEF LogSource, DefaultLog
    <3>2. a.logs[1] \in Elements(a.logs) /\ \A l \in Elements(a.logs) : l.name # ""
      BY <2>1 DEF Sourced, WellNamed, Elements
    <3> QED
      BY <1>n, <2>2, <2>3, <3>1, <3>2
  <2>4. CASE r.source # ""
    <3>1. DocumentedLogs(r) = IF HasNamed(a.logs, r.source) THEN {Named(a.logs, r.source)} ELSE {}
      <4>1. DocumentedLogs(r) = {l \in Elements(a.logs) : l.name = r.source}
        BY <2>2, <2>4
      <4> QED
        BY <2>1, <4>1, UnderName DEF Sourced
    <3>2. r.source = "journal" => HasNamed(a.logs, r.source)
      BY <2>1, FoundByName DEF Sourced
    <3>3. HasNamed(a.logs, r.source) => /\ Named(a.logs, r.source).name = r.source
                                        /\ r.source # "list"
      <4>1. ASSUME HasNamed(a.logs, r.source)
            PROVE  Named(a.logs, r.source).name = r.source /\ r.source # "list"
        <5>1. PICK k \in DOMAIN a.logs : a.logs[k].name = r.source
          BY <2>1, <4>1, FoundByName DEF Sourced
        <5> QED
          BY <2>1, <5>1, FoundByName DEF Sourced
      <4> QED
        BY <4>1
    <3> QED
      BY <1>n, <2>4, <3>1, <3>2, <3>3 DEF LogSource
  <2> QED
    BY <2>3, <2>4
<1>2. ASSUME a = PassThrough(r.agent), RowsOf(r.agent) = {} PROVE Agree
  <2> DEFINE k == IF r.agent[2] > 0 THEN r.agent[2] ELSE 1
             j == Journal(<<r.agent[1], k>>)
  <2>1. a.logs = <<j>> /\ a.unit = <<r.agent[1], k>>
    BY <1>0, <1>2, PassedThrough
  <2>2. DocumentedLogs(r) = {l \in Unlisted(r.agent) : r.source \in {"", "journal"}}
    BY <1>2 DEF DocumentedLogs
  <2>3. Unlisted(r.agent) = {j}
    BY <1>0, UnlistedJournal
  <2>4. DocumentedLogs(r) = IF r.source \in {"", "journal"} THEN {j} ELSE {}
    BY <2>2, <2>3
  <2>5. j.name = "journal"
    BY DEF Journal
  <2> HIDE DEF a, j, k
  <2>6. WellNamed(<<j>>)
    <3> DEFINE s == <<j>>
    <3>1. Len(s) = 1 /\ DOMAIN s = 1..1 /\ s[1] = j
      OBVIOUS
    <3>2. \A i \in 1..1 : i = 1
      OBVIOUS
    <3> HIDE DEF s
    <3>3. \A i, m \in DOMAIN s : s[i].name = s[m].name => i = m
      BY <3>1, <3>2
    <3>a. \A i \in DOMAIN s : s[i].name # ""
      BY <2>5, <3>1, <3>2
    <3>b. Len(s) \in Nat /\ DOMAIN s = 1..Len(s)
      BY <3>1
    <3>4. WellNamed(s)
      BY <3>3, <3>a, <3>b DEF WellNamed
    <3> QED
      BY <3>4 DEF s
  <2>7. /\ r.source = "journal" => HasNamed(a.logs, r.source) /\ Named(a.logs, r.source) = j
        /\ r.source # "journal" => ~HasNamed(a.logs, r.source)
    BY <2>1, <2>5, <2>6, FoundByName
  <2>8. DefaultLog(a) = j
    BY <2>1 DEF DefaultLog
  <2>9. t = IF r.source \in {"", "journal"} THEN j ELSE NoTask
    BY <2>7, <2>8 DEF LogSource
  <2> QED
    BY <1>n, <2>4, <2>5, <2>9
<1> QED
  BY <1>1, <1>2, RowsFound

LEMMA ViaKept ==
  ASSUME NEW e, IsEndpoint(e), NEW via
  PROVE  /\ IsEndpoint(Via(e, via)) /\ Via(e, via) # NoTask
         /\ ValidVia(via) => Via(e, via) = Overridden(e, via)
<1>1. IsEndpoint(Via(e, via))
  BY DEF Via, IsEndpoint
<1>2. Via(e, via) # NoTask
  <2>1. Via(e, via).name # ""
    BY <1>1 DEF IsEndpoint
  <2>2. NoTask.name = ""
    BY DEF NoTask
  <2> QED
    BY <2>1, <2>2
<1>3. ValidVia(via) => Via(e, via) = Overridden(e, via)
  BY DEF ValidVia, Via, Overridden
<1> QED
  BY <1>1, <1>2, <1>3

\* An endpoint of an agent, as asked for.
LEMMA EndpointsDocumented ==
  ASSUME NEW r \in MetricsRequest, ~Disputed(r)
  PROVE  LET t == Endpoint(r)
         IN  \/ DocumentedEndpoints(r) = {t} /\ t # NoTask
             \/ DocumentedEndpoints(r) = {} /\ t = NoTask
<1> DEFINE a == Lookup(r.agent)
           n == IF r.endpoint = "" THEN "metrics" ELSE r.endpoint
           t == Endpoint(r)
           custom == {e \in {Local("custom", r.port, r.path)} :
                        r.port # 0 /\ r.path # "" /\ ValidVia(r.via)}
           found == {e \in UNION {w.endpoints : w \in RowsOf(r.agent)} :
                       r.port = 0 /\ r.path = "" /\ ValidVia(r.via) /\ e.name = n}
           Agree == \/ DocumentedEndpoints(r) = {t} /\ t # NoTask
                    \/ DocumentedEndpoints(r) = {} /\ t = NoTask
<1>0. r.cmd = "metrics"
  BY DEF MetricsRequest
<1>d. DocumentedEndpoints(r) = {Overridden(e, r.via) : e \in custom \cup found}
  BY DEF DocumentedEndpoints
<1>1. ASSUME r.port # 0, r.path # "" PROVE Agree
  <2> DEFINE e == Local("custom", r.port, r.path)
  <2>1. IsEndpoint(e)
    BY LocalTyped
  <2>2. ValidVia(r.via)
    BY <1>0, <1>1 DEF Disputed, AnyVia, Bypass
  <2>3. custom = {e} /\ found = {}
    BY <1>1, <2>2
  <2>4. t = Via(e, r.via)
    BY <1>1 DEF Endpoint
  <2> HIDE DEF e, custom, found, t
  <2>5. DocumentedEndpoints(r) = {Overridden(e, r.via)}
    BY <1>d, <2>3
  <2> QED
    BY <2>1, <2>2, <2>4, <2>5, ViaKept
<1>2. CASE (r.port # 0) # (r.path # "")
  <2>1. t = NoTask
    BY <1>2 DEF Endpoint
  <2>2. custom = {} /\ found = {}
    BY <1>2
  <2> QED
    BY <1>d, <2>1, <2>2
<1>3. CASE r.port = 0 /\ r.path = "" /\ ~ValidVia(r.via)
  <2>1. t = NoTask
    BY <1>3 DEF Endpoint, FoundEndpoint, ValidVia
  <2>2. custom = {} /\ found = {}
    BY <1>3
  <2> QED
    BY <1>d, <2>1, <2>2
<1>4. CASE r.port = 0 /\ r.path = "" /\ ValidVia(r.via)
  <2>1. t = IF HasNamed(a.endpoints, n) THEN Via(Named(a.endpoints, n), r.via) ELSE NoTask
    BY <1>4 DEF Endpoint, FoundEndpoint, ValidVia
  <2>2. custom = {} /\ found = Under(UNION {w.endpoints : w \in RowsOf(r.agent)}, n)
    BY <1>4 DEF Under
  <2>3. ASSUME NEW i \in Indices, r.agent \in {Builtin[i].alias, Builtin[i].unit}, a = Builtin[i],
               RowsOf(r.agent) # {}, \A w \in RowsOf(r.agent) : Matches(w, i)
        PROVE  Agree
    <3>1. Reachable(a.endpoints)
      BY <2>3, EntryEndpoints
    <3>2. i # 8 \/ n \notin {"health", "healthz"}
      <4>1. i = 8 => r.agent \in {Bare("coredns"), Service("coredns")}
        BY <2>3, EntryNames
      <4>2. i = 8 => r.endpoint \notin {"health", "healthz"}
        BY <1>0, <1>4, <4>1 DEF Disputed, CoreDNSHealth, Bypass
      <4> QED
        BY <4>2
    <3>3. \A w \in RowsOf(r.agent) : Under(w.endpoints, n) = Under(Elements(a.endpoints), n)
      BY <2>3, <3>2 DEF Matches
    <3> DEFINE rows == RowsOf(r.agent)
    <3> HIDE DEF a, n, t, rows, custom, found
    <3>4. Under(UNION {w.endpoints : w \in rows}, n) = Under(Elements(a.endpoints), n)
      BY <2>3, <3>3 DEF Under, rows
    <3>5. Under(Elements(a.endpoints), n)
            = IF HasNamed(a.endpoints, n) THEN {Named(a.endpoints, n)} ELSE {}
      BY <3>1, UnderName DEF Reachable, Under
    <3>6. DocumentedEndpoints(r)
            = {Overridden(e, r.via) :
                 e \in IF HasNamed(a.endpoints, n) THEN {Named(a.endpoints, n)} ELSE {}}
      BY <1>d, <2>2, <3>4, <3>5 DEF rows
    <3>7. HasNamed(a.endpoints, n) => IsEndpoint(Named(a.endpoints, n))
      BY <3>1, FoundByName DEF Reachable
    <3>8. CASE HasNamed(a.endpoints, n)
      BY <1>4, <2>1, <3>6, <3>7, <3>8, ViaKept
    <3>9. CASE ~HasNamed(a.endpoints, n)
      BY <2>1, <3>6, <3>9
    <3> QED
      BY <3>8, <3>9
  <2>4. ASSUME a = PassThrough(r.agent), RowsOf(r.agent) = {} PROVE Agree
    <3>1. a.endpoints = <<>>
      BY <2>4 DEF PassThrough
    <3>2. ~HasNamed(a.endpoints, n)
      BY <3>1 DEF HasNamed, Holds
    <3>3. found = {}
      BY <2>2, <2>4 DEF Under
    <3> QED
      BY <1>d, <2>1, <2>2, <3>2, <3>3
  <2> QED
    BY <2>3, <2>4, RowsFound
<1> QED
  BY <1>1, <1>2, <1>3, <1>4
-----------------------------------------------------------------------------
(* From step to step.                                                      *)

\* Where a command goes from where it is, and on which conditions.
Moved ==
  \/ pc' = "main" /\ pc \notin {"main", "done"}
  \/ pc = "session" /\ pc' = IF req.cmd = "exec" THEN "namespace" ELSE "resolve"
  \/ pc = "resolve" /\ task' # NoTask /\ pc' = IF Metrics THEN FetchStart(task') ELSE "namespace"
  \/ pc = "namespace" /\ pc' = "ensure" /\ ~interrupted
  \/ pc = "ensure" /\ ~interrupted /\ Metrics /\ pc' = "curl"
  \/ pc = "ensure" /\ ~interrupted /\ ~Metrics /\ pc' \in {"probe", "compile", "stream"}
  \/ pc = "probe" /\ pc' \in {"uname", "compile"}
  \/ pc = "uname" /\ pc' = "find"
  \/ pc = "find" /\ pc' = "compile"
  \/ pc = "compile" /\ pc' = "stream"
  \/ pc = "curl" /\ pc' = "wait"
  \/ pc = "proxy" /\ pc' = "wait" /\ ~interrupted
  \/ pc = "wait" /\ pc' = FetchStart(task)
  \/ pc = "main" /\ pc' = "done"

LEMMA FetchMoves == \A e : FetchReturns(e) => pc' \in {"main", "wait"}
  BY DEF FetchReturns, Return

LEMMA EndsMove == \A o : Ends(o) => Moved
<1> SUFFICES ASSUME NEW o, Ends(o) PROVE Moved
  OBVIOUS
<1>1. CASE FileProbeEnds(o)
  <2>1. pc = "probe" /\ pc' \in {"main", "compile"}
    BY <1>1 DEF FileProbeEnds, Continue, Return
  <2> QED
    BY <2>1 DEF Moved
<1>2. CASE JournalProbeEnds(o)
  <2>1. pc = "probe" /\ pc' \in {"main", "compile", "uname"}
    BY <1>2 DEF JournalProbeEnds, Continue, Return
  <2> QED
    BY <2>1 DEF Moved
<1>3. CASE UnameEnds(o)
  BY <1>3 DEF UnameEnds, Continue, Moved
<1>4. CASE FindEnds(o)
  <2>1. pc = "find" /\ pc' \in {"main", "compile"}
    BY <1>4 DEF FindEnds, Continue, Return
  <2> QED
    BY <2>1 DEF Moved
<1>5. CASE StreamEnds(o)
  BY <1>5 DEF StreamEnds, Return, Moved
<1>6. CASE CurlEnds(o)
  BY <1>6, FetchMoves DEF CurlEnds, Moved
<1> QED
  BY <1>1, <1>2, <1>3, <1>4, <1>5, <1>6 DEF Ends

LEMMA CallMoves ==
  /\ CallEnds("ok") => ~interrupted
  /\ \A e : Return(e) => pc' = "main"
  BY DEF CallEnds, Return

LEMMA EnsureMoves == ASSUME TypeOK, EnsurePod PROVE Moved
<1>1. req.cmd \in {"exec", "logs", "metrics"}
  BY RequestsAssumption DEF TypeOK, ExecRequest, LogsRequest, MetricsRequest
<1>2. pc = "ensure" /\ ((~interrupted /\ HaveHandle) \/ pc' = "main")
  BY CallMoves DEF EnsurePod
<1>3. CASE pc = "ensure" /\ ~interrupted /\ HaveHandle
  <2>1. CASE Metrics
    <3>1. pc' = "curl"
      <4>1. ~Logs /\ req.cmd # "exec"
        BY <2>1 DEF Metrics, Logs
      <4> QED
        BY <1>3, <2>1, <4>1 DEF HaveHandle
    <3> QED
      BY <1>3, <2>1, <3>1 DEF Moved
  <2>2. CASE ~Metrics
    <3>1. pc' \in {"probe", "compile", "stream"}
      BY <1>1, <1>3, <2>2 DEF HaveHandle, Metrics, Logs
    <3> QED
      BY <1>3, <2>2, <3>1 DEF Moved
  <2> QED
    BY <2>1, <2>2
<1>4. CASE pc = "ensure" /\ pc' = "main"
  BY <1>4 DEF Moved
<1> QED
  BY <1>2, <1>3, <1>4

LEMMA BootstrapMoves == ASSUME Bootstrap PROVE Moved
<1>1. pc = "namespace" /\ ((~interrupted /\ pc' = "ensure") \/ pc' = "main")
  BY CallMoves DEF Bootstrap, Continue
<1> QED
  BY <1>1 DEF Moved

LEMMA ProxyMoves == ASSUME Proxy PROVE Moved
<1>1. PICK how \in {"ok", "broken", "canceled"} : CallEnds(how) /\ FetchReturns(CallErr(how))
  BY DEF Proxy
<1>2. pc = "proxy" /\ pc' \in {"main", "wait"}
  BY <1>1, FetchMoves DEF Proxy
<1>3. how # "ok" => pc' = "main"
  <2>1. how # "ok" => CallErr(how) # Nil
    BY <1>1, Kinds DEF CallErr, Codes
  <2> QED
    BY <1>1, <2>1 DEF FetchReturns, Return
<1>4. pc' = "wait" => ~interrupted
  BY <1>1, <1>3, CallMoves
<1> QED
  BY <1>2, <1>4 DEF Moved

\* Every step of the command moves on; every other one leaves it where it is.
LEMMA StepMoves ==
  ASSUME TypeOK, [Next]_vars
  PROVE  /\ req' = req /\ (pc # "resolve" => task' = task)
         /\ (Moved \/ (pc' = pc /\ task' = task))
         /\ (pc = "resolve" => Resolve \/ (pc' = pc /\ task' = task))
<1>1. CASE Load
  BY <1>1, Zenon DEF Load, Continue, Return, Moved
<1>2. CASE Resolve
  BY <1>2 DEF Resolve, Continue, Return, Moved
<1>3. CASE Bootstrap
  BY <1>3, BootstrapMoves DEF Bootstrap
<1>4. CASE EnsurePod
  BY <1>4, EnsureMoves DEF EnsurePod
<1>5. CASE \E o : Ends(o)
  <2>1. pc # "resolve"
    BY <1>5 DEF Ends, FileProbeEnds, JournalProbeEnds, UnameEnds, FindEnds, StreamEnds, CurlEnds
  <2> QED
    BY <1>5, <2>1, EndsMove DEF Ends
<1>6. CASE RemoteEnds \/ Breaks \/ ContextEnds
  BY <1>5, <1>6 DEF RemoteEnds, Breaks, ContextEnds
<1>7. CASE Compile
  BY <1>7 DEF Compile, Continue, Return, Moved
<1>8. CASE Proxy
  BY <1>8, ProxyMoves DEF Proxy
<1>9. CASE Select
  BY <1>9 DEF Select, Continue, Return, Moved
<1>10. CASE Main
  BY <1>10 DEF Main, Moved
<1>11. CASE Deadline \/ Tick \/ Interrupt \/ Chunk \/ Filter \/ Stopped \/ UNCHANGED vars
  BY <1>11 DEF Deadline, Tick, Interrupt, Chunk, Filter, Stopped, noFilter, vars
<1> QED
  BY <1>1, <1>2, <1>3, <1>4, <1>6, <1>7, <1>8, <1>9, <1>10, <1>11 DEF Next, Progress

\* After Ctrl-C every step of a command leads nearer to its end, at any place
\* (cmd/auto/main.go:16; the loop of metrics.go:56 is left at the latest by the
\* bootstrap of the next fetch).
THEOREM InterruptWinds == Spec => InterruptWindsDown
<1>1. TypeOK /\ [Next]_vars
        => [interrupted /\ pc' # pc => Rank(pc') < Rank(pc)]_vars
  <2> SUFFICES ASSUME TypeOK, [Next]_vars, interrupted, pc' # pc
               PROVE  Rank(pc') < Rank(pc)
    OBVIOUS
  <2>1. Moved
    BY StepMoves
  <2>2. /\ Rank("session") = 11 /\ Rank("resolve") = 10 /\ Rank("probe") = 9
        /\ Rank("uname") = 8 /\ Rank("find") = 7 /\ Rank("compile") = 6
        /\ Rank("stream") = 5 /\ Rank("curl") = 5 /\ Rank("wait") = 4
        /\ Rank("namespace") = 3 /\ Rank("proxy") = 3 /\ Rank("ensure") = 2
        /\ Rank("main") = 1 /\ Rank("done") = 0
    BY DEF Rank
  <2>3. \A e : FetchStart(e) \in {"namespace", "proxy"}
    BY DEF FetchStart
  <2>4. CASE pc' = "main" /\ pc \notin {"main", "done"}
    <3>1. pc \in {"probe", "uname", "find", "stream", "curl", "session", "resolve", "namespace",
                   "ensure", "compile", "proxy", "wait"}
      BY <2>4 DEF TypeOK, Labels, Streaming, Probing
    <3>2. Rank(pc) > 1
      BY <2>2, <3>1
    <3> QED
      BY <2>2, <2>4, <3>2
  <2>5. CASE \/ pc = "session" /\ pc' \in {"namespace", "resolve"}
             \/ pc = "resolve" /\ pc' \in {"namespace", "proxy"}
             \/ pc = "probe" /\ pc' \in {"uname", "compile"}
             \/ pc = "uname" /\ pc' = "find"
             \/ pc = "find" /\ pc' = "compile"
             \/ pc = "compile" /\ pc' = "stream"
             \/ pc = "wait" /\ pc' \in {"namespace", "proxy"}
             \/ pc = "main" /\ pc' = "done"
    BY <2>2, <2>5
  <2>6. CASE pc = "curl" /\ pc' = "wait"
    BY <2>2, <2>6
  <2> QED
    BY <2>1, <2>3, <2>4, <2>5, <2>6 DEF Moved
<1> QED
  BY <1>1, TypeCorrect, PTL DEF Spec, InterruptWindsDown

\* Arguments mean exactly one thing, which is what the tables and the rules of
\* TOOL.md say, or are refused; all but the ones that Disputed names
\* (cli/logs.go:120, metrics.go:85, catalog/agents.go).
THEOREM ArgumentsMeanWhatIsDocumented == Spec => ResolvedAsDocumented
<1> DEFINE Sound ==
      pc = "resolve" /\ pc' # "resolve" /\ ~Disputed(req)
      => \/ Documented(req) = {task'} /\ pc' # "main"
         \/ /\ Documented(req) = {} /\ task' = NoTask /\ pc' = "main"
            /\ err'.code = IF Logs /\ req.source = "list" THEN OK ELSE User
<1>1. ASSUME CommandInv, [Next]_vars PROVE Sound
  <2> SUFFICES ASSUME pc = "resolve", pc' # "resolve", ~Disputed(req)
               PROVE  \/ Documented(req) = {task'} /\ pc' # "main"
                      \/ /\ Documented(req) = {} /\ task' = NoTask /\ pc' = "main"
                         /\ err'.code = IF Logs /\ req.source = "list" THEN OK ELSE User
    OBVIOUS
  <2>0. TypeOK /\ req.cmd # "exec"
    BY <1>1 DEF CommandInv, PathInv
  <2>1. Resolve
    BY <1>1, <2>0, StepMoves
  <2>2. /\ Wrap(User, Plain).code = User /\ Nil.code = OK
        /\ \A e : Return(e) => pc' = "main" /\ err' = e
    BY DEF Wrap, Plain, Nil, Return
  <2>3. req \in LogsRequest \cup MetricsRequest
    BY <2>0, RequestsAssumption DEF TypeOK, ExecRequest
  <2>4. CASE req \in LogsRequest
    <3>1. req.cmd = "logs" /\ Logs /\ ~Metrics
      BY <2>4 DEF LogsRequest, Logs, Metrics
    <3> DEFINE t == LogSource(Lookup(req.agent), req.source)
    <3>2. \/ Documented(req) = {t} /\ t # NoTask /\ req.source # "list"
          \/ Documented(req) = {} /\ t = NoTask
      BY <2>4, <3>1, LogsDocumented DEF Documented
    <3>3. task' = IF req.source = "list" THEN NoTask ELSE t
      BY <2>1, <3>1 DEF Resolve
    <3> HIDE DEF t
    <3>4. CASE Documented(req) = {t} /\ t # NoTask /\ req.source # "list"
      <4>1. pc' = "namespace"
        BY <2>1, <3>1, <3>3, <3>4 DEF Resolve, Continue
      <4> QED
        BY <3>3, <3>4, <4>1
    <3>5. CASE Documented(req) = {} /\ t = NoTask
      <4>1. task' = NoTask
        BY <3>3, <3>5
      <4>2. CASE req.source = "list"
        BY <2>1, <2>2, <3>1, <3>5, <4>1, <4>2 DEF Resolve
      <4>3. CASE req.source # "list"
        BY <2>1, <2>2, <3>1, <3>5, <4>1, <4>3 DEF Resolve
      <4> QED
        BY <4>2, <4>3
    <3> QED
      BY <3>2, <3>4, <3>5
  <2>5. CASE req \in MetricsRequest
    <3>1. req.cmd = "metrics" /\ Metrics /\ ~Logs
      BY <2>5 DEF MetricsRequest, Metrics, Logs
    <3>2. task' = Endpoint(req)
      BY <2>1, <3>1 DEF Resolve
    <3>3. \/ Documented(req) = {task'} /\ task' # NoTask
          \/ Documented(req) = {} /\ task' = NoTask
      BY <2>5, <3>1, <3>2, EndpointsDocumented DEF Documented
    <3>4. CASE task' # NoTask
      <4>1. pc' = FetchStart(task')
        BY <2>1, <3>1, <3>4 DEF Resolve, Continue
      <4>2. pc' # "main"
        BY <4>1 DEF FetchStart
      <4> QED
        BY <3>3, <3>4, <4>2
    <3>5. CASE task' = NoTask
      <4>1. Return(Wrap(User, Plain))
        BY <2>1, <3>1, <3>5 DEF Resolve
      <4> QED
        BY <2>2, <3>1, <3>3, <3>5, <4>1
    <3> QED
      BY <3>4, <3>5
  <2> QED
    BY <2>3, <2>4, <2>5
<1>2. CommandInv /\ [Next]_vars => [Sound]_vars
  BY <1>1
<1> QED
  BY <1>2, CommandInvariant, PTL DEF Spec, ResolvedAsDocumented
=============================================================================
