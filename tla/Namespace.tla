----------------------------- MODULE Namespace ------------------------------
(***************************************************************************)
(* debugpod.EnsureNamespace, run by any number of clients at once: auto    *)
(* install with or without --auto-label, and every command that needs a    *)
(* debug pod (which never labels).  The namespace is shared with other     *)
(* users of the cluster, who create, label, unlabel and delete it.         *)
(***************************************************************************)
EXTENDS Integers, ExitCode

CONSTANTS
  Callers,    \* invocations that call EnsureNamespace
  MaxFaults   \* bound of API errors, kills and steps of other users

ASSUME FaultsAssumption == MaxFaults \in Nat

VARIABLES
  ns,         \* "absent", "plain" or "privileged": the enforce label
  ending,     \* the namespace is being deleted: it can be read, not created
  autoLabel,  \* callers with --auto-label
  pc,         \* where each caller is
  code,       \* exit code of a caller that is done
  seen,       \* what ns has been since each caller started
  faults

vars == <<ns, ending, autoLabel, pc, code, seen, faults>>

States == {"absent", "plain", "privileged"}

TypeOK ==
  /\ ns \in States
  /\ ending \in BOOLEAN /\ (ending => ns # "absent")
  /\ autoLabel \subseteq Callers
  /\ pc \in [Callers -> {"get", "create", "patch", "done"}]
  /\ code \in [Callers -> {OK, User, Cluster, Sigint}]
  /\ seen \in [Callers -> SUBSET States]
  /\ faults \in 0 .. MaxFaults

\* The namespace becomes s, and every caller under way has been through it.
Becomes(s) ==
  /\ ns' = s
  /\ seen' = [c \in Callers |-> IF pc[c] = "done" THEN seen[c] ELSE seen[c] \cup {s}]

Goto(c, l) == pc' = [pc EXCEPT ![c] = l] /\ UNCHANGED code

Return(c, x) == pc' = [pc EXCEPT ![c] = "done"] /\ code' = [code EXCEPT ![c] = x]

-----------------------------------------------------------------------------
(* EnsureNamespace. *)

GetLabelsAny(c) ==                                                   \* mutant
  /\ pc[c] = "get"
  /\ CASE ns = "absent"     -> Goto(c, "create")
       [] ns = "privileged" -> Return(c, OK)
       [] ns = "plain"      -> Goto(c, "patch")
  /\ UNCHANGED <<ns, ending, autoLabel, seen, faults>>

\* Get, and the decision taken on what it returned.
Get(c) ==
  /\ pc[c] = "get"
  /\ CASE ns = "absent"     -> Goto(c, "create")
       [] ns = "privileged" -> Return(c, OK)
       [] ns = "plain"      -> IF c \in autoLabel THEN Goto(c, "patch") ELSE Return(c, User)
  /\ UNCHANGED <<ns, ending, autoLabel, seen, faults>>

CreateTolerant(c) ==                                                 \* mutant
  /\ pc[c] = "create"
  /\ IF ns = "absent" THEN Becomes("privileged") ELSE UNCHANGED <<ns, seen>>
  /\ Return(c, OK)
  /\ UNCHANGED <<ending, autoLabel, faults>>

\* Create with the label; a namespace that has appeared meanwhile is an error.
Create(c) ==
  /\ pc[c] = "create"
  /\ IF ns = "absent"
       THEN Becomes("privileged") /\ Return(c, OK)
       ELSE UNCHANGED <<ns, seen>> /\ Return(c, Cluster)
  /\ UNCHANGED <<ending, autoLabel, faults>>

Patch(c) ==
  /\ pc[c] = "patch"
  /\ IF ns = "absent"
       THEN UNCHANGED <<ns, seen>> /\ Return(c, Cluster)
       ELSE Becomes("privileged") /\ Return(c, OK)
  /\ UNCHANGED <<ending, autoLabel, faults>>

FailUncoded(c) ==                                                    \* mutant
  /\ pc[c] # "done"
  /\ faults < MaxFaults /\ faults' = faults + 1
  /\ Return(c, 4)
  /\ UNCHANGED <<ns, ending, autoLabel, seen>>

\* Any call fails; main turns the error of a cancelled context into 130.
Fail(c) ==
  /\ pc[c] # "done"
  /\ faults < MaxFaults /\ faults' = faults + 1
  /\ \E x \in {Cluster, Sigint} : Return(c, x)
  /\ UNCHANGED <<ns, ending, autoLabel, seen>>

-----------------------------------------------------------------------------
(* Other users of the cluster. *)

OtherWrites(s) ==
  /\ faults < MaxFaults /\ faults' = faults + 1
  /\ s \notin {"absent", ns}
  /\ Becomes(s)
  /\ UNCHANGED <<ending, autoLabel, pc, code>>

DeleteBegins ==
  /\ faults < MaxFaults /\ faults' = faults + 1
  /\ ns # "absent" /\ ~ending
  /\ ending' = TRUE
  /\ UNCHANGED <<ns, autoLabel, pc, code, seen>>

DeleteEnds ==
  /\ ending
  /\ ending' = FALSE
  /\ Becomes("absent")
  /\ UNCHANGED <<autoLabel, pc, code, faults>>

AllDone == (\A c \in Callers : pc[c] = "done") /\ UNCHANGED vars

Init ==
  /\ ns \in States
  /\ ending = FALSE
  /\ autoLabel \in SUBSET Callers
  /\ pc = [c \in Callers |-> "get"]
  /\ code = [c \in Callers |-> OK]
  /\ seen = [c \in Callers |-> {ns}]
  /\ faults = 0

Next ==
  \/ \E c \in Callers : Get(c) \/ Create(c) \/ Patch(c) \/ Fail(c)
  \/ \E s \in States : OtherWrites(s)
  \/ DeleteBegins \/ DeleteEnds
  \/ AllDone

Spec == Init /\ [][Next]_vars

-----------------------------------------------------------------------------
\* A caller that reports the namespace ready has not just assumed so: the
\* namespace was privileged at some moment of the call.
ReadyWasPrivileged ==
  \A c \in Callers : pc[c] = "done" /\ code[c] = OK => "privileged" \in seen[c]

\* The refusal that protects shared namespaces (docs/TOOL.md:35): whatever the
\* races, a namespace somebody made without the label never gets it from a
\* caller without --auto-label.
Consent ==
  [][\A c \in Callers :
       /\ ns = "plain" /\ ns' = "privileged" /\ pc[c] # "done" /\ pc'[c] = "done"
       => c \in autoLabel]_vars
=============================================================================
