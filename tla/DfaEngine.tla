------------------------------ MODULE DfaEngine ------------------------------
(***************************************************************************)
(* An expression compiled with RX_FLAG_DFA and then run: the part of       *)
(* regex_compile_ex that calls dfa_build and dfa_minimize, and one call of *)
(* regex_run_from on what they leave.                                      *)
(***************************************************************************)
EXTENDS DfaBuild, Minimize, DfaRun

vars == <<buildVars, minimizeVars, runVars>>

Init == BuildInit /\ MinimizeInit /\ RunInit

Build == BuildNext /\ UNCHANGED <<minimizeVars, runVars>>

Reduce ==
  /\ MinimizeNext
  /\ UNCHANGED <<table, context, current, class, last, runVars>>

\* dfa_minimize has returned: regex_compile_ex hands out the expression.
Publish ==
  /\ pc = "minimized" /\ pc' = "ready"
  /\ rc' = "OK"
  /\ UNCHANGED <<re, dfa, table, context, current, class, last,
                 minimizeVars, runVars>>

Run ==
  /\ RunNext
  /\ UNCHANGED <<table, context, current, class, last, minimizeVars>>

\* The call has returned, or there is nothing to call.
Finished ==
  /\ at = "done" \/ pc = "failed"
  /\ UNCHANGED vars

Next == Build \/ Reduce \/ Publish \/ Run \/ Finished

\* A call is carried out to its end; that an allocation fails is never due.
Fairness == WF_vars(Next /\ rc' # "ESPACE")

Spec == Init /\ [][Next]_vars /\ Fairness

-----------------------------------------------------------------------------
\* The types: a finished automaton has all its start states and no transition
\* out of range, so that dfa_run_from may index without a check.
TypeOK ==
  /\ re \in Regex /\ rc \in {"RUN", "OK", "ESPACE", "EUNSUPPORTED"}
  /\ pc \in {"minimize", "refine", "split", "rebuild", "minimized", "ready"} =>
       IsDfa(dfa)
  /\ at \in {"call", "loop", "done"}
  /\ state \in None .. dfa.len - 1
  /\ pos \in start .. Len(text) /\ best \in start .. pos

\* Compilation and call come to an end: the worklist of the minimization
\* drains, the construction runs out of new sets or into its limit.
Returns == <>(at = "done" \/ pc = "failed")
=============================================================================
