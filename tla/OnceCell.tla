------------------------------ MODULE OnceCell ------------------------------
(***************************************************************************)
(* What a cache of lookups promises, without locks or goroutines: a key is *)
(* looked up at most once, the result is decided once, and every request   *)
(* is answered with it.                                                    *)
(***************************************************************************)
CONSTANTS
  Requests,     \* requests, each for one key
  Keys,
  KeyOf(_),     \* the key of a request
  Values,       \* results of a lookup, failures included
  Undecided     \* no result yet

VARIABLES
  asked,        \* keys whose lookup has begun
  cell,         \* the result for each key, or Undecided
  answer        \* what each request has been told, or Undecided

ovars == <<asked, cell, answer>>

Init ==
  /\ asked = {}
  /\ cell = [k \in Keys |-> Undecided]
  /\ answer = [r \in Requests |-> Undecided]

Ask(k) ==
  /\ k \notin asked
  /\ asked' = asked \cup {k}
  /\ UNCHANGED <<cell, answer>>

Decide(k) ==
  /\ k \in asked /\ cell[k] = Undecided
  /\ \E v \in Values : cell' = [cell EXCEPT ![k] = v]
  /\ UNCHANGED <<asked, answer>>

Answer(r) ==
  /\ answer[r] = Undecided /\ cell[KeyOf(r)] # Undecided
  /\ answer' = [answer EXCEPT ![r] = cell[KeyOf(r)]]
  /\ UNCHANGED <<asked, cell>>

Next ==
  \/ \E k \in Keys : Ask(k) \/ Decide(k)
  \/ \E r \in Requests : Answer(r)

Spec == Init /\ [][Next]_ovars
=============================================================================
