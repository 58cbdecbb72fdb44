------------------------------- MODULE Grammar -------------------------------
(***************************************************************************)
(* The reference for the parser: the tree of a sequence of tokens, found   *)
(* by cutting it where the nesting of brackets says, the last bar first,   *)
(* then the last item.  A sequence has no EOF here, and there is nothing   *)
(* that PatternErrors finds wrong with it.  Trees are those of Syntax.     *)
(***************************************************************************)
LOCAL INSTANCE Integers
LOCAL INSTANCE FiniteSetsExt
LOCAL INSTANCE Sequences
LOCAL INSTANCE Syntax
LOCAL INSTANCE PatternErrors

\* The positions of the tokens i .. j that lie in no group there.
Outer(t, i, j) == {k \in i .. j : Nesting(t, k - 1) = Nesting(t, i - 1)}

RECURSIVE ExprTree(_, _, _)
RECURSIVE ConcatTree(_, _, _)
RECURSIVE ItemTree(_, _, _)

\* The bars cut an expression into branches, from the left.
ExprTree(t, i, j) ==
  LET bars == {k \in Outer(t, i, j) : t[k].type = "ALT"}
      bar  == Max(bars)
  IN  IF bars = {} THEN ConcatTree(t, i, j)
      ELSE Alt(ExprTree(t, i, bar - 1), ConcatTree(t, bar + 1, j))

\* An item begins at a token that is no operator behind the item before.
ConcatTree(t, i, j) ==
  LET items == {k \in Outer(t, i, j) : t[k].type \notin Repeats}
      item  == Max(items)
  IN  IF i > j THEN Empty
      ELSE IF item = i THEN ItemTree(t, i, j)
      ELSE Concat(ConcatTree(t, i, item - 1), ItemTree(t, item, j))

ItemTree(t, i, j) ==
  CASE t[j].type = "STAR"     -> Star(ItemTree(t, i, j - 1))
    [] t[j].type = "PLUS"     -> Plus(ItemTree(t, i, j - 1))
    [] t[j].type = "QUESTION" -> Question(ItemTree(t, i, j - 1))
    [] t[j].type = "REPEAT"   ->
         Repeat(ItemTree(t, i, j - 1),
                t[j].data.min, t[j].data.max, t[j].data.unbounded)
    [] t[j].type = "RPAREN"   ->
         Group(Count(t, "LPAREN", i), ExprTree(t, i + 1, j - 1))
    [] t[j].type = "CLASS"    -> Class(t[j].data)
    [] OTHER                  -> [op |-> t[j].type]

TreeOf(t) == ExprTree(t, 1, Len(t))

=============================================================================
