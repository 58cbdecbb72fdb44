------------------------------ MODULE Thompson ------------------------------
(***************************************************************************)
(* nfa_compile_ast (nfa.c): Thompson's construction.  A node is compiled   *)
(* from the number of states there are already; what it adds to the        *)
(* automaton is a fragment: the transitions of the states from there on,   *)
(* with one start and one accepting state among them.  States are          *)
(* numbered, and the transitions of a state ordered, as in the code:       *)
(* capture.c depends on that order.  Allocation failures, which abandon    *)
(* the whole automaton, are left out.                                      *)
(*                                                                         *)
(* A syntax tree is the sequence of its nodes (ast_node_t), in the order   *)
(* in which parser.c makes them: a node behind its children, which it      *)
(* names by their places, 0 for NULL, and the root last.                   *)
(*                                                                         *)
(* Denote is the reference: from where to where in a text a node matches,  *)
(* read off the tree without any automaton.                                *)
(***************************************************************************)
EXTENDS Automaton

-----------------------------------------------------------------------------
(* Syntax trees. *)
Leaves == {"EMPTY", "CLASS", "DOT", "ANCHOR_BEGIN", "ANCHOR_END"}
Loops  == {"STAR", "PLUS", "QUESTION"}
Unary  == Loops \cup {"GROUP", "REPEAT"}
Binary == {"CONCAT", "ALT"}

\* The data of a CLASS are its bytes; of a REPEAT its bounds, {min,max} or, when
\* unbounded, {min,}.
IsNode(node) ==
  /\ node.op \in Leaves \cup Unary \cup Binary
  /\ node.op = "CLASS" => node.data \in SUBSET Byte
  /\ node.op = "REPEAT" =>
       /\ node.data.min \in Nat /\ node.data.unbounded \in BOOLEAN
       /\ ~ node.data.unbounded => /\ node.data.max \in Nat
                                   /\ node.data.min <= node.data.max
  /\ node.op = "GROUP" => node.group \in Nat

IsTree(tree) ==
  /\ Len(tree) \in Nat \ {0} /\ DOMAIN tree = 1 .. Len(tree)
  /\ \A x \in DOMAIN tree :
       /\ IsNode(tree[x])
       /\ tree[x].left \in 0 .. x - 1 /\ tree[x].right \in 0 .. x - 1
       /\ tree[x].op \in Unary \cup Binary => tree[x].left # 0
       /\ tree[x].op \in Binary => tree[x].right # 0

-----------------------------------------------------------------------------
(* Fragments. *)
Transition(to, type, cls, group) ==
  [to |-> to, type |-> type, cls |-> cls, group |-> group]

\* nfa_add_transition appends to the transitions of `from'.
Add(trans, from, tr) == [trans EXCEPT ![from] = Append(@, tr)]

AddEps(trans, from, to) == Add(trans, from, Transition(to, "EPS", {}, 0))

\* One that only some operators have.
AddEpsIf(needed, trans, from, to) == IF needed THEN AddEps(trans, from, to) ELSE trans

\* The states of a, then those of b.
Both(a, b) == [q \in DOMAIN a \cup DOMAIN b |-> IF q \in DOMAIN a THEN a[q] ELSE b[q]]

\* Two calls of nfa_add_state: a fragment gets the states s and s + 1.
AddStates(trans, s) == Both(trans, [q \in {s, s + 1} |-> <<>>])

\* What was added, how many states there are now, where it begins and ends.
Frag(trans, len, s, e) ==
  [trans |-> trans, len |-> len, start |-> s, accept |-> e]

\* A fragment with the new states s and s + 1 for its ends.
Ended(trans, s) == Frag(trans, s + 2, s, s + 1)

\* AST_EMPTY, AST_CLASS, AST_DOT and the anchors: one transition.
CompileLeaf(n, op, data) ==
  LET type == CASE op = "EMPTY" -> "EPS"
                [] op = "DOT"   -> "ANY"
                [] OTHER        -> op
      cls == IF op = "CLASS" THEN data ELSE {}
  IN  Ended(Add(AddStates(<<>>, n), n, Transition(n + 1, type, cls, 0)), n)

\* AST_GROUP: capture transitions into and out of the inner fragment.
CompileGroup(f, k) ==
  LET s == f.len
      opened == Add(AddStates(f.trans, s), s, Transition(f.start, "CAPTURE_BEGIN", {}, k))
  IN  Ended(Add(opened, f.accept, Transition(s + 1, "CAPTURE_END", {}, k)), s)

\* AST_STAR, AST_PLUS and AST_QUESTION around the inner fragment.
CompileLoop(f, op) ==
  LET s == f.len
      e == f.len + 1
      into == AddEps(AddStates(f.trans, s), s, f.start)
      past == AddEpsIf(op # "PLUS", into, s, e)
      again == AddEpsIf(op # "QUESTION", past, f.accept, f.start)
  IN  Ended(AddEps(again, f.accept, e), s)

\* AST_ALT; b was compiled behind a.
CompileAlt(a, b) ==
  LET s == b.len
      e == b.len + 1
      states == AddStates(Both(a.trans, b.trans), s)
      into == AddEps(AddEps(states, s, a.start), s, b.start)
  IN  Ended(AddEps(AddEps(into, a.accept, e), b.accept, e), s)

\* AST_CONCAT, and the copies of a repetition: `part', compiled behind `result'.
Chain(result, part) ==
  Frag(AddEps(Both(result.trans, part.trans), result.accept, part.start),
       part.len, result.start, part.accept)

\* The first copy is the result, every other one goes behind it.
Join(haveResult, result, part) == IF haveResult THEN Chain(result, part) ELSE part

\* Mutant: one optional copy too few.
CopiesTooFew(bounds) ==
  IF bounds.unbounded THEN bounds.min + 1
  ELSE IF bounds.min < bounds.max THEN bounds.max - 1 ELSE bounds.max

\* How many copies of its operand a repetition is unrolled into.
Copies(bounds) == IF bounds.unbounded THEN bounds.min + 1 ELSE bounds.max

\* The k-th copy: `min' times the operand itself, then one optional copy for each
\* repetition more, or a starred one for {min,}.
Copy(bounds, f, k) ==
  IF k <= bounds.min THEN f
  ELSE CompileLoop(f, IF bounds.unbounded THEN "STAR" ELSE "QUESTION")

\* AST_REPEAT: the copies in order, each compiled anew.
CompileRepeat(n, bounds, inner) ==
  LET copies[k \in 0 .. Copies(bounds)] ==
        IF k = 0 THEN CompileLeaf(n, "EMPTY", {})
        ELSE Join(k > 1, copies[k - 1],
                  Copy(bounds, inner[IF k = 1 THEN n ELSE copies[k - 1].len], k))
  IN  copies[Copies(bounds)]

\* A node from n states on; `left' and `right' compile its children.
CompileNode(n, node, left, right) ==
  CASE node.op = "GROUP"  -> CompileGroup(left[n], node.group)
    [] node.op \in Loops  -> CompileLoop(left[n], node.op)
    [] node.op = "REPEAT" -> CompileRepeat(n, node.data, left)
    [] node.op = "CONCAT" -> Chain(left[n], right[left[n].len])
    [] node.op = "ALT"    -> CompileAlt(left[n], right[left[n].len])
    [] OTHER              -> CompileLeaf(n, node.op, node.data)

\* nfa_compile_ast for every node, from any number of states on.
CompileAst(tree) ==
  LET compiled[x \in 0 .. Len(tree)] ==
        IF x = 0 THEN <<>>
        ELSE [n \in Nat |-> CompileNode(n, tree[x], compiled[tree[x].left],
                                        compiled[tree[x].right])]
  IN  compiled

\* The automaton of an expression: regex_compile_ex takes over the fragment.
Compile(tree) == CompileAst(tree)[Len(tree)][0]

-----------------------------------------------------------------------------
(* The reference semantics: relations between the places in a text t. *)
Place(t) == 0 .. Len(t)

Here(t) == {<<i, i>> : i \in Place(t)}

\* R, then S.
Then(t, R, S) ==
  {x \in Place(t) \X Place(t) : \E j \in Place(t) : <<x[1], j>> \in R /\ <<j, x[2]>> \in S}

\* R any number of times: where no set that R does not leave ends before.
Often(t, R) ==
  {x \in Place(t) \X Place(t) :
     \A U \in SUBSET Place(t) :
       x[1] \in U /\ (\A y \in R : y[1] \in U => y[2] \in U) => x[2] \in U}

\* R exactly k times, by the places between.
Times(t, R, k) ==
  {x \in Place(t) \X Place(t) :
     \E path \in [0 .. k -> Place(t)] :
       /\ path[0] = x[1] /\ path[k] = x[2]
       /\ \A i \in 0 .. k - 1 : <<path[i], path[i + 1]>> \in R}

\* What a node matches, of whose children the left one matches R, the right S.
DenoteNode(t, node, R, S) ==
  CASE node.op = "EMPTY"        -> Here(t)
    [] node.op = "CLASS"        -> {x \in Place(t) \X Place(t) :
                                      x[2] = x[1] + 1 /\ t[x[2]] \in node.data}
    [] node.op = "DOT"          -> {x \in Place(t) \X Place(t) : x[2] = x[1] + 1}
    [] node.op = "ANCHOR_BEGIN" -> {<<0, 0>>}
    [] node.op = "ANCHOR_END"   -> {<<Len(t), Len(t)>>}
    [] node.op = "GROUP"        -> R
    [] node.op = "CONCAT"       -> Then(t, R, S)
    [] node.op = "ALT"          -> R \cup S
    [] node.op = "STAR"         -> Often(t, R)
    [] node.op = "PLUS"         -> Then(t, R, Often(t, R))
    [] node.op = "QUESTION"     -> Here(t) \cup R
    [] node.op = "REPEAT"       ->
         IF node.data.unbounded THEN Then(t, Times(t, R, node.data.min), Often(t, R))
         ELSE UNION {Times(t, R, k) : k \in node.data.min .. node.data.max}

\* The same for every node of a tree.
Denote(t, tree) ==
  LET denoted[x \in 0 .. Len(tree)] ==
        IF x = 0 THEN {}
        ELSE DenoteNode(t, tree[x], denoted[tree[x].left], denoted[tree[x].right])
  IN  denoted

\* Where a match of the whole expression that begins at i can end.
EndsDenoted(t, tree, i) == {p \in Place(t) : <<i, p>> \in Denote(t, tree)[Len(tree)]}
=============================================================================
