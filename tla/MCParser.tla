------------------------------- MODULE MCParser -------------------------------
(***************************************************************************)
(* The parser on all short sequences of tokens, with any allocation        *)
(* failing, and on longer ones of brackets around the limit of their       *)
(* nesting.                                                                *)
(***************************************************************************)
EXTENDS Parser, TLC

Ref == INSTANCE Grammar

Tok(type) == [type |-> type, data |-> {}]
A == [type |-> "CLASS", data |-> {0}]
Bounds == [type |-> "REPEAT", data |-> [min |-> 1, max |-> 2, unbounded |-> FALSE]]
Broken(s) == [type |-> "ERROR", data |-> s]

Ended(texts) == {Append(s, Tok("EOF")) : s \in texts}

\* Expressions and what is almost one.
Short ==
  SeqOf({A, Tok("ALT"), Tok("STAR"), Tok("LPAREN"), Tok("RPAREN")}, 4)

\* Brackets, as deep as the limit and deeper.
Deep == [1 .. 6 -> {A, Tok("LPAREN"), Tok("RPAREN")}]

\* The other tokens.
Other ==
  SeqOf({Tok("DOT"), Tok("PLUS"), Tok("ANCHOR_BEGIN"), Tok("RPAREN"), Bounds}, 3)
  \cup {<<A, Tok("QUESTION"), Tok("ANCHOR_END")>>}

\* Sequences that the lexer breaks off.
Unlexed ==
  {Append(s, Broken("EBRACK")) :
     s \in SeqOf({A, Tok("ALT"), Tok("STAR"), Tok("LPAREN"), Tok("RPAREN")}, 3)}

MCInputs == Ended(Short \cup Deep \cup Other) \cup Unlexed

-----------------------------------------------------------------------------
RECURSIVE Tree(_)

\* The node x as a tree of the reference.
Tree(x) ==
  LET node == heap[x]
  IN  CASE node.op = "CLASS"  -> [op |-> "CLASS", cls |-> node.data]
        [] node.op = "GROUP"  ->
             [op |-> "GROUP", group |-> node.group, left |-> Tree(node.left)]
        [] node.op = "REPEAT" ->
             [op |-> "REPEAT", left |-> Tree(node.left), min |-> node.data.min,
              max |-> node.data.max, unbounded |-> node.data.unbounded]
        [] node.op \in {"STAR", "PLUS", "QUESTION"} ->
             [op |-> node.op, left |-> Tree(node.left)]
        [] node.op \in {"CONCAT", "ALT"} ->
             [op |-> node.op, left |-> Tree(node.left), right |-> Tree(node.right)]
        [] OTHER -> [op |-> node.op]

\* The tree that is returned is that of the pattern: operators bind closest,
\* then comes concatenation, then the bar; groups are numbered by their opening
\* brackets, and all of them are counted.
TreeIsOfPattern ==
  pc = "parsed" =>
    /\ Tree(tree) = Ref!TreeOf(Tokens)
    /\ captures = Count(Tokens, "LPAREN", Len(Tokens))
=============================================================================
