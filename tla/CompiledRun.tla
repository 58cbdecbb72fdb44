----------------------------- MODULE CompiledRun -----------------------------
(***************************************************************************)
(* nfa_run_from on the automata that nfa_compile_ast makes of syntax trees *)
(* and regex_compile_ex hands to it: construction and simulation together, *)
(* against what the trees denote.                                          *)
(***************************************************************************)
EXTENDS NfaRun, Thompson

CONSTANT Tree   \* the syntax tree of each expression

ASSUME TreeAssumption ==
  /\ DOMAIN Tree = Regex
  /\ \A r \in Regex : IsTree(Tree[r]) /\ Nfa[r] = Compile(Tree[r])

\* The answer is the one the expression denotes: automaton construction
\* (nfa_compile_ast) and simulation (nfa_run_from) together lose no match,
\* invent none, and report the longest.
AnswerIsDenoted ==
  LET ends == EndsDenoted(text, Tree[re], start) IN
  /\ rc = "OK" => end \in ends /\ \A p \in ends : p <= end
  /\ rc = "NOMATCH" => ends = {}
=============================================================================
