---------------------------- MODULE LongestMatch ----------------------------
(***************************************************************************)
(* What nfa_run_from and dfa_run_from both promise their caller: of all    *)
(* the positions at which a match that begins at `start' can end, the      *)
(* longest; no match if there is none; or no answer because an allocation  *)
(* failed.  One step makes the call, one step answers it.  *end_out is     *)
(* written on success only: it keeps the 0 its caller put there otherwise. *)
(***************************************************************************)
EXTENDS Automaton

VARIABLES
  re,     \* the expression
  text,   \* the text
  start,  \* where the match must begin
  rc,     \* "IDLE", "RUN" until the call has returned, then its status
  end     \* what *end_out points to

vars == <<re, text, start, rc, end>>

-----------------------------------------------------------------------------
Init ==
  /\ re \in Regex
  /\ text = <<>> /\ start = 0
  /\ rc = "IDLE"
  /\ end = 0

Call ==
  /\ rc = "IDLE" /\ rc' = "RUN"
  /\ UNCHANGED <<re, end>>
  /\ text' \in Texts
  /\ start' \in 0 .. Len(text')

\* rc' comes first in each action: it tells cheaply which one a step may be.
Succeed ==
  /\ rc = "RUN" /\ rc' = "OK"
  /\ UNCHANGED <<re, text, start>>
  /\ end' \in Ends(re, text, start)
  /\ \A p \in Ends(re, text, start) : p <= end'

Fail ==
  /\ rc = "RUN" /\ rc' = "NOMATCH"
  /\ UNCHANGED <<re, text, start, end>>
  /\ Ends(re, text, start) = {}

OutOfMemory ==
  /\ rc = "RUN" /\ rc' = "ESPACE"
  /\ UNCHANGED <<re, text, start, end>>

Next == Call \/ Succeed \/ Fail \/ OutOfMemory

Spec == Init /\ [][Next]_vars
=============================================================================
