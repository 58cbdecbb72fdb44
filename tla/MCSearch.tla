------------------------------- MODULE MCSearch -------------------------------
(***************************************************************************)
(* The three calls on small expressions: matches that are empty, adjacent, *)
(* or contained in longer ones, and anchors, which match in one place of   *)
(* the text only.                                                          *)
(***************************************************************************)
EXTENDS Search, Thompson, Syntax, TLC

A == Class({0})
B == Class({1})

\* The syntax trees, by the pattern they come from, and their groups.
Tree ==
  "a*"       :> Star(A) @@
  "(a|ab)"   :> Group(1, Alt(A, Concat(A, B))) @@
  "b$|"      :> Alt(Concat(B, Eol), Empty) @@
  "^(a)(b)?" :> Concat(Concat(Bol, Group(1, A)), Question(Group(2, B))) @@
  "aba|b"    :> Alt(Concat(Concat(A, B), A), B) @@
  "$"        :> Eol

GroupsOf == [r \in DOMAIN Tree |->
  CASE r = "^(a)(b)?" -> 2 [] r = "(a|ab)" -> 1 [] OTHER -> 0]

MCCompiled ==
  [r \in DOMAIN Tree |-> [nfa |-> Compile(Nodes(Tree[r])), groups |-> GroupsOf[r]]]
=============================================================================
