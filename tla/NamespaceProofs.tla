--------------------------- MODULE NamespaceProofs --------------------------
(* What EnsureNamespace guarantees, for any callers and any number of steps *)
(* of other users.                                                          *)
EXTENDS Namespace, TLAPS

\* A caller under way has seen the namespace as it is now, and only a caller
\* with --auto-label is about to patch.
Witnessed == \A c \in Callers : pc[c] # "done" => ns \in seen[c]
Patchers  == \A c \in Callers : pc[c] = "patch" => c \in autoLabel

NInv == TypeOK /\ Witnessed /\ Patchers /\ ReadyWasPrivileged

USE DEF OK, User, Cluster, Sigint, States

\* The initial states satisfy the invariant: every caller has seen ns.
LEMMA NInit == Init => NInv
<1> SUFFICES ASSUME Init PROVE NInv
    OBVIOUS
<1>1. ns \in States /\ {ns} \subseteq States
  BY DEF Init
<1>2. \A c \in Callers : pc[c] = "get" /\ seen[c] = {ns}
  BY DEF Init
<1>3. seen \in [Callers -> SUBSET States]
  BY <1>1 DEF Init
<1>4. /\ ending = FALSE /\ autoLabel \subseteq Callers
      /\ pc \in [Callers -> {"get", "create", "patch", "done"}]
      /\ code \in [Callers -> {0, 1, 2, 130}]
      /\ faults \in 0 .. MaxFaults
  BY FaultsAssumption DEF Init
<1>5. TypeOK
  BY <1>1, <1>3, <1>4 DEF TypeOK
<1> QED BY <1>1, <1>2, <1>5 DEF NInv, Witnessed, Patchers, ReadyWasPrivileged

\* The step of one caller that returns code x keeps the invariant, when the
\* namespace is as it was and x = OK only if it is privileged.
LEMMA ReturnStep ==
  ASSUME NInv, NEW c \in Callers, pc[c] # "done", NEW x \in {OK, User, Cluster, Sigint},
         Return(c, x), x = OK => ns = "privileged",
         UNCHANGED <<ns, ending, autoLabel, seen>>, faults' \in 0 .. MaxFaults
  PROVE  NInv'
BY DEF NInv, TypeOK, Witnessed, Patchers, ReadyWasPrivileged, Return

\* A step of other users that turns the namespace into s keeps the invariant.
LEMMA BecomesStep ==
  ASSUME NInv, NEW s \in States, Becomes(s), UNCHANGED <<autoLabel, pc, code>>,
         ending' \in BOOLEAN, ending' => s # "absent", faults' \in 0 .. MaxFaults
  PROVE  NInv'
BY DEF NInv, TypeOK, Witnessed, Patchers, ReadyWasPrivileged, Becomes

\* Making the namespace privileged and returning OK keeps the invariant.
LEMMA LabelStep ==
  ASSUME NInv, NEW c \in Callers, pc[c] # "done", Becomes("privileged"),
         Return(c, OK), UNCHANGED <<ending, autoLabel, faults>>,
         ending => ns # "absent"
  PROVE  NInv'
BY DEF NInv, TypeOK, Witnessed, Patchers, ReadyWasPrivileged, Becomes, Return

\* Every step keeps the invariant.
LEMMA NStep == NInv /\ [Next]_vars => NInv'
<1> SUFFICES ASSUME NInv, [Next]_vars PROVE NInv'
    OBVIOUS
<1> USE FaultsAssumption
<1>t. faults \in 0 .. MaxFaults /\ (ending => ns # "absent") /\ ns \in States
      /\ ending \in BOOLEAN
  BY DEF NInv, TypeOK
<1>1. ASSUME NEW c \in Callers, Get(c) PROVE NInv'
  <2>1. CASE ns = "absent"
    BY <1>1, <2>1 DEF Get, Goto, NInv, TypeOK, Witnessed, Patchers, ReadyWasPrivileged
  <2>2. CASE ns = "privileged"
    <3>1. Return(c, OK) /\ UNCHANGED <<ns, ending, autoLabel, seen, faults>> /\ pc[c] # "done"
      BY <1>1, <2>2 DEF Get
    <3> QED BY <3>1, <2>2, <1>t, ReturnStep
  <2>3. CASE ns = "plain" /\ c \in autoLabel
    BY <1>1, <2>3 DEF Get, Goto, NInv, TypeOK, Witnessed, Patchers, ReadyWasPrivileged
  <2>4. CASE ns = "plain" /\ c \notin autoLabel
    <3>1. Return(c, User) /\ UNCHANGED <<ns, ending, autoLabel, seen, faults>> /\ pc[c] # "done"
      BY <1>1, <2>4 DEF Get
    <3> QED BY <3>1, <1>t, ReturnStep
  <2> QED BY <2>1, <2>2, <2>3, <2>4, <1>t
<1>2. ASSUME NEW c \in Callers, Create(c) PROVE NInv'
  <2>1. CASE ns = "absent"
    BY <1>2, <2>1, <1>t, LabelStep DEF Create
  <2>2. CASE ns # "absent"
    BY <1>2, <2>2, <1>t, ReturnStep DEF Create
  <2> QED BY <2>1, <2>2
<1>3. ASSUME NEW c \in Callers, Patch(c) PROVE NInv'
  <2>1. CASE ns # "absent"
    BY <1>3, <2>1, <1>t, LabelStep DEF Patch
  <2>2. CASE ns = "absent"
    BY <1>3, <2>2, <1>t, ReturnStep DEF Patch
  <2> QED BY <2>1, <2>2
<1>4. ASSUME NEW c \in Callers, Fail(c) PROVE NInv'
  <2>1. faults' \in 0 .. MaxFaults /\ UNCHANGED <<ns, ending, autoLabel, seen>> /\ pc[c] # "done"
    BY <1>4, <1>t DEF Fail
  <2>2. PICK x \in {Cluster, Sigint} : Return(c, x)
    BY <1>4 DEF Fail
  <2> QED BY <2>1, <2>2, ReturnStep
<1>5. ASSUME NEW s \in States, OtherWrites(s) PROVE NInv'
  <2>1. faults' \in 0 .. MaxFaults /\ ending' \in BOOLEAN /\ s # "absent"
    BY <1>5, <1>t DEF OtherWrites
  <2> QED BY <1>5, <2>1, BecomesStep DEF OtherWrites
<1>6. CASE DeleteBegins
  BY <1>6, <1>t DEF DeleteBegins, NInv, TypeOK, Witnessed, Patchers, ReadyWasPrivileged
<1>7. CASE DeleteEnds
  <2>1. Becomes("absent") /\ UNCHANGED <<autoLabel, pc, code, faults>> /\ ending' = FALSE
    BY <1>7 DEF DeleteEnds
  <2> QED BY <2>1, <1>t, BecomesStep
<1>8. CASE AllDone \/ UNCHANGED vars
  BY <1>8 DEF AllDone, vars, NInv, TypeOK, Witnessed, Patchers, ReadyWasPrivileged
<1> QED BY <1>1, <1>2, <1>3, <1>4, <1>5, <1>6, <1>7, <1>8 DEF Next

\* The variables keep to their types.
THEOREM TypeCorrect == Spec => []TypeOK
<1>1. NInv => TypeOK
  BY DEF NInv
<1> QED BY NInit, NStep, <1>1, PTL DEF Spec

\* A caller that returns success has met the namespace privileged, whatever
\* the other callers and the other users of the cluster do (namespace.go:26).
THEOREM ReadyIsPrivileged == Spec => []ReadyWasPrivileged
<1>1. NInv => ReadyWasPrivileged
  BY DEF NInv
<1> QED BY NInit, NStep, <1>1, PTL DEF Spec

\* No caller without --auto-label ever labels a namespace that others made:
\* the refusal of namespace.go:53 has no way around it (docs/TOOL.md:35).
THEOREM NoConsentNoLabel == Spec => Consent
<1>1. ASSUME NInv, [Next]_vars
      PROVE  [\A c \in Callers :
                /\ ns = "plain" /\ ns' = "privileged" /\ pc[c] # "done" /\ pc'[c] = "done"
                => c \in autoLabel]_vars
  <2> SUFFICES ASSUME Next, NEW c \in Callers, ns = "plain", ns' = "privileged",
                      pc[c] # "done", pc'[c] = "done"
               PROVE  c \in autoLabel
    BY <1>1
  <2>1. ASSUME NEW d \in Callers, Get(d) \/ Create(d) \/ Patch(d) \/ Fail(d)
        PROVE  c \in autoLabel
    <3>1. Patch(d)
      BY <2>1 DEF Get, Create, Fail
    <3>2. c = d
      BY <3>1, <1>1 DEF Patch, Return, NInv, TypeOK
    <3> QED BY <3>1, <3>2, <1>1 DEF Patch, NInv, Patchers
  <2>2. ~(\E s \in States : OtherWrites(s)) /\ ~DeleteBegins /\ ~DeleteEnds /\ ~AllDone
    BY DEF OtherWrites, DeleteBegins, DeleteEnds, AllDone, vars
  <2> QED BY <2>1, <2>2 DEF Next
<1> QED BY NInit, NStep, <1>1, PTL DEF Spec, Consent
=============================================================================
