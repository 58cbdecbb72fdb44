------------------------------ MODULE MCCapture ------------------------------
(***************************************************************************)
(* The groups of small expressions: groups in loops, in branches, nested,  *)
(* unrolled by a repetition, optional, empty, and behind anchors.          *)
(***************************************************************************)
EXTENDS Capture, Thompson, Syntax, TLC

A == Class({0})
B == Class({1})

\* The syntax trees, by the pattern they come from.
Tree ==
  "(a|ab)(b?)"   :> Concat(Group(1, Alt(A, Concat(A, B))), Group(2, Question(B))) @@
  "((a)|b)*"     :> Star(Group(1, Alt(Group(2, A), B))) @@
  "(a*)*"        :> Star(Group(1, Star(A))) @@
  "(a*)+b?"      :> Concat(Plus(Group(1, Star(A))), Question(B)) @@
  "(a){1,2}(|b)" :> Concat(Repeat(Group(1, A), 1, 2, FALSE),
                           Group(2, Alt(Empty, B))) @@
  "(^a|b)*($)?"  :> Concat(Star(Group(1, Alt(Concat(Bol, A), B))),
                           Question(Group(2, Eol)))

MCCompiled ==
  [r \in DOMAIN Tree |->
     [nfa |-> Compile(Nodes(Tree[r])),
      groups |-> IF r \in {"(a*)*", "(a*)+b?"} THEN 1 ELSE 2]]

-----------------------------------------------------------------------------
\* The inner expressions of the groups numbered g among the nodes.
Bodies(nodes, g) ==
  {nodes[x].left : x \in {y \in DOMAIN nodes : nodes[y].op = "GROUP" /\ nodes[y].group = g}}

\* README.md: a group that took no part is reported as [-1,-1].  What is
\* reported for any other lies within the match and is text that the group
\* matches, where it is in the text: construction and both simulations keep
\* groups, and the rounds of a loop, apart.
GroupsAreDenoted ==
  rc = "OK" =>
    \A g \in DOMAIN matches :
      matches[g] # NoSpan =>
        /\ start <= matches[g][1] /\ matches[g][1] <= matches[g][2]
        /\ matches[g][2] <= stop
        /\ \E x \in Bodies(Nodes(Tree[re]), g) :
             matches[g] \in Denote(text, Nodes(Tree[re]))[x]
=============================================================================
