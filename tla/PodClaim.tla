------------------------------ MODULE PodClaim ------------------------------
(***************************************************************************)
(* What debugpod.Ensure promises, without an API server: each holder may   *)
(* claim an incarnation of the one pod it cares about, and learns of the   *)
(* end of that incarnation.  A name has one incarnation at a time; age[n]  *)
(* numbers the latest and state[n] says how it is.                         *)
(***************************************************************************)
EXTENDS Integers

CONSTANTS Holders, Names, NameFor(_)

VARIABLES
  age,     \* incarnations each name has had
  state,   \* state of the latest one, "over" once it can never run again
  claim,   \* the incarnation each holder has claimed, 0 = none
  due      \* whether the holder has a notice of its end coming

cvars == <<age, state, claim, due>>

Init ==
  /\ age \in [Names -> {0, 1}]
  /\ state \in [Names -> {"starting", "running", "over"}]
  /\ \A n \in Names : age[n] = 0 => state[n] = "over"
  /\ claim = [h \in Holders |-> 0]
  /\ due = [h \in Holders |-> FALSE]

Begin(n) ==
  /\ state[n] = "over"
  /\ age' = [age EXCEPT ![n] = @ + 1]
  /\ state' = [state EXCEPT ![n] = "starting"]
  /\ UNCHANGED <<claim, due>>

Run(n) ==
  /\ state[n] = "starting"
  /\ state' = [state EXCEPT ![n] = "running"]
  /\ UNCHANGED <<age, claim, due>>

\* The end of an incarnation gives every one of its holders a notice.
End(n) ==
  /\ state[n] # "over"
  /\ state' = [state EXCEPT ![n] = "over"]
  /\ due' = [h \in Holders |->
               due[h] \/ (NameFor(h) = n /\ claim[h] = age[n])]
  /\ UNCHANGED <<age, claim>>

\* A claim is on the running incarnation, or comes with the notice that the
\* incarnation claimed has ended meanwhile.
Claim(h) ==
  LET n == NameFor(h) IN
  /\ claim[h] = 0
  /\ \E u \in 1 .. age[n], notice \in BOOLEAN :
       /\ notice <=> ~(u = age[n] /\ state[n] = "running")
       /\ claim' = [claim EXCEPT ![h] = u]
       /\ due' = [due EXCEPT ![h] = notice]
  /\ UNCHANGED <<age, state>>

\* The notice arrives, or the holder is through with the pod.
Release(h) ==
  /\ claim[h] # 0
  /\ claim' = [claim EXCEPT ![h] = 0]
  /\ due' = [due EXCEPT ![h] = FALSE]
  /\ UNCHANGED <<age, state>>

Next ==
  \/ \E n \in Names : Begin(n) \/ Run(n) \/ End(n)
  \/ \E h \in Holders : Claim(h) \/ Release(h)

Spec == Init /\ [][Next]_cvars

\* A claim without a notice coming is a claim on a running pod.
ClaimSound ==
  \A h \in Holders :
    claim[h] # 0 => due[h] \/ (claim[h] = age[NameFor(h)] /\ state[NameFor(h)] = "running")
=============================================================================
