-------------------------------- MODULE MCDfa --------------------------------
(***************************************************************************)
(* The DFA engine on small expressions: anchors that make the four start   *)
(* contexts differ, bytes that fall into one class, equal rows to merge, a *)
(* dead state to tell from an empty row, one expression that needs exactly *)
(* StateLimit states and one that needs more.                              *)
(***************************************************************************)
EXTENDS DfaEngine, Thompson, Syntax, TLC

A == Class({0})
B == Class({1})
AB == Class({0, 1})
C == Class({2})

\* The syntax trees, by the pattern they come from.
Tree ==
  "a|b"        :> Alt(A, B) @@
  "(a|ab)*"    :> Star(Alt(A, Concat(A, B))) @@
  "^a$|[ab]c"  :> Alt(Concat(Concat(Bol, A), Eol), Concat(AB, C)) @@
  "(^|b)a{2}"  :> Concat(Alt(Bol, B), Repeat(A, 2, 2, FALSE)) @@
  ".a$|b"      :> Alt(Concat(Dot, Concat(A, Eol)), B) @@
  "a$b|$"      :> Alt(Concat(A, Concat(Eol, B)), Eol) @@
  "ba(|$b)|ca" :> Alt(Concat(Concat(B, A), Alt(Empty, Concat(Eol, B))),
                      Concat(C, A)) @@
  "a(b|c)*"    :> Concat(A, Star(Alt(B, C))) @@
  "(.*a.)"     :> Concat(Star(Dot), Concat(A, Dot)) @@
  "(.*a..)"    :> Concat(Star(Dot), Concat(A, Concat(Dot, Dot)))

MCCompiled == [r \in DOMAIN Tree |-> [nfa |-> Compile(Nodes(Tree[r]))]]

\* A hash function that collides often.
MCHash(S) == Cardinality(S) % 2
=============================================================================
