----------------------------- MODULE GrepWriter -----------------------------
(***************************************************************************)
(* The line filter of auto logs --grep: an io.Writer that is given the     *)
(* stream in chunks of any size, keeps an unfinished line in a buffer and  *)
(* writes the lines that match.  A line matches if it has a byte "m".      *)
(***************************************************************************)
EXTENDS Integers, Sequences, FiniteSets

CONSTANTS MaxBytes, MaxChunk    \* bounds of the stream and of one Write

VARIABLES
  received,   \* the stream so far
  buf,        \* g.buf
  printed,    \* what has been written to g.dst
  writing     \* inside Write

gvars == <<received, buf, printed, writing>>

Bytes  == {"m", "x", "newline"}
Chunks == UNION {[1..n -> Bytes] : n \in 1..MaxChunk}

GInit == received = <<>> /\ buf = <<>> /\ printed = <<>> /\ writing = FALSE

WriteOver(p) ==                                                      \* mutant
  /\ ~writing /\ writing' = TRUE
  /\ Len(received) + Len(p) <= MaxBytes
  /\ received' = received \o p
  /\ buf' = p
  /\ UNCHANGED printed

Write(p) ==
  /\ ~writing /\ writing' = TRUE
  /\ Len(received) + Len(p) <= MaxBytes
  /\ received' = received \o p
  /\ buf' = buf \o p
  /\ UNCHANGED printed

\* One round of the loop: the first complete line of the buffer, if any.
CutLine ==
  /\ writing
  /\ IF \E i \in DOMAIN buf : buf[i] = "newline"
       THEN LET idx  == CHOOSE i \in DOMAIN buf : /\ buf[i] = "newline"
                                                  /\ \A j \in 1..(i - 1) : buf[j] # "newline"
                line == SubSeq(buf, 1, idx - 1)
            IN  /\ buf' = SubSeq(buf, idx + 1, Len(buf))
                /\ printed' = IF \E i \in DOMAIN line : line[i] = "m"
                                THEN printed \o line \o <<"newline">> ELSE printed
                /\ UNCHANGED writing
       ELSE writing' = FALSE /\ UNCHANGED <<buf, printed>>
  /\ UNCHANGED received

-----------------------------------------------------------------------------
\* The bytes of a stream that belong to complete, matching lines.
SameLine(s, i, k) == \A j \in DOMAIN s : (i <= j /\ j < k) \/ (k <= j /\ j < i)
                                           => s[j] # "newline"
Wanted(s) ==
  {i \in DOMAIN s : /\ \E j \in DOMAIN s : i <= j /\ s[j] = "newline"
                    /\ \E k \in DOMAIN s : SameLine(s, i, k) /\ s[k] = "m"}

\* However the stream is cut into chunks, what has been printed between two
\* calls of Write is exactly the complete matching lines, in order
\* (logs.go:225: the partial trailing line is buffered across calls).
GrepExact ==
  ~writing =>
    LET W == Wanted(received)
    IN  /\ Len(printed) = Cardinality(W)
        /\ \A i \in W : printed[Cardinality({k \in W : k <= i})] = received[i]
=============================================================================
