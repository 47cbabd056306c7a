------------------------------ MODULE ExitCode ------------------------------
(***************************************************************************)
(* The exit codes of the auto command line, and what becomes of an error   *)
(* on its way from a failing call to main.  Of the chain of an error only  *)
(* the outermost code and the presence of context.Canceled matter.         *)
(***************************************************************************)
EXTENDS Integers

OK       == 0
User     == 1
Cluster  == 2
Node     == 3
Internal == 4
Sigint   == 130
Codes    == {OK, User, Cluster, Node, Internal, Sigint}

Uncoded == -1
Chain   == [code: Codes \cup {Uncoded}, canceled: BOOLEAN]
Nil     == [code |-> OK, canceled |-> FALSE]

\* An error without a code: context.Canceled itself, or anything else.
Plain    == [code |-> Uncoded, canceled |-> FALSE]
Canceled == [code |-> Uncoded, canceled |-> TRUE]

Wrap(code, err) == [err EXCEPT !.code = code]

CodeOf(err) == IF err.code = Uncoded THEN Internal ELSE err.code

\* main: the context's error preempts the code the error carries.
Exit(err, interrupted) ==
  IF err.canceled /\ interrupted THEN Sigint ELSE CodeOf(err)
=============================================================================
