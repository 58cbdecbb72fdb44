-------------------------------- MODULE Syntax --------------------------------
(***************************************************************************)
(* Syntax trees as one writes them down, the operands inside of their      *)
(* operator, and the sequences of nodes that parser.c makes of them.       *)
(***************************************************************************)
EXTENDS Naturals, Sequences

Empty      == [op |-> "EMPTY"]
Class(cls) == [op |-> "CLASS", cls |-> cls]
Dot        == [op |-> "DOT"]
Bol        == [op |-> "ANCHOR_BEGIN"]
Eol        == [op |-> "ANCHOR_END"]
Group(k, x)  == [op |-> "GROUP", group |-> k, left |-> x]
Concat(x, y) == [op |-> "CONCAT", left |-> x, right |-> y]
Alt(x, y)    == [op |-> "ALT", left |-> x, right |-> y]
Star(x)      == [op |-> "STAR", left |-> x]
Plus(x)      == [op |-> "PLUS", left |-> x]
Question(x)  == [op |-> "QUESTION", left |-> x]
\* {min,max}, or {min,} when unbounded.
Repeat(x, min, max, unbounded) ==
  [op |-> "REPEAT", left |-> x, min |-> min, max |-> max,
   unbounded |-> unbounded]

-----------------------------------------------------------------------------
\* A node of the tree x whose operands are the nodes left and right, 0 for none.
NodeOf(x, left, right) ==
  [op |-> x.op, left |-> left, right |-> right,
   data |-> CASE x.op = "CLASS"  -> x.cls
              [] x.op = "REPEAT" ->
                   [min |-> x.min, max |-> x.max, unbounded |-> x.unbounded]
              [] OTHER -> {},
   group |-> IF x.op = "GROUP" THEN x.group ELSE 0]

\* The nodes of a tree behind those of a sequence, a node behind its operands.
RECURSIVE NodesBehind(_, _)
NodesBehind(nodes, x) ==
  IF "left" \notin DOMAIN x THEN Append(nodes, NodeOf(x, 0, 0))
  ELSE LET left == NodesBehind(nodes, x.left)
       IN  IF "right" \notin DOMAIN x THEN Append(left, NodeOf(x, Len(left), 0))
           ELSE LET both == NodesBehind(left, x.right)
                IN  Append(both, NodeOf(x, Len(left), Len(both)))

\* The nodes of a tree, its root last.
Nodes(x) == NodesBehind(<<>>, x)
=============================================================================
