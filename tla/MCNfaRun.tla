------------------------------ MODULE MCNfaRun ------------------------------
(***************************************************************************)
(* nfa_run_from on the automata that nfa_compile_ast builds for a          *)
(* collection of small expressions: every operator, the anchors in every   *)
(* position, loops around expressions that match the empty text, and every *)
(* form of repetition.                                                     *)
(***************************************************************************)
EXTENDS CompiledRun, Syntax, TLC

A == Class({0})
B == Class({1})

\* The syntax trees, by the pattern they come from.
MCTree ==
  "(a|ab)*"   :> Star(Alt(A, Concat(A, B))) @@
  "^a+$"      :> Concat(Concat(Bol, Plus(A)), Eol) @@
  "(a*)*"     :> Star(Group(1, Star(A))) @@
  "(^)*b?"    :> Concat(Star(Group(1, Bol)), Question(B)) @@
  "$.*"       :> Concat(Eol, Star(Dot)) @@
  "a($|b^)"   :> Concat(A, Group(1, Alt(Eol, Concat(B, Bol)))) @@
  "[ab]{2,3}" :> Repeat(Class({0, 1}), 2, 3, FALSE) @@
  "(a|$){1,}" :> Repeat(Alt(A, Eol), 1, 1, TRUE) @@
  "a{0}"      :> Repeat(A, 0, 0, FALSE) @@
  "(|b$)+"    :> Plus(Group(1, Alt(Empty, Concat(B, Eol))))

MCNodes == [r \in DOMAIN MCTree |-> Nodes(MCTree[r])]
MCCompiled == [r \in DOMAIN MCTree |-> [nfa |-> Compile(Nodes(MCTree[r]))]]
=============================================================================
