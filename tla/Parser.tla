-------------------------------- MODULE Parser --------------------------------
(***************************************************************************)
(* parser.c and the nodes of ast.c: rx_parse_pattern by recursive descent. *)
(* The functions that are being executed are the frames of `stack', with   *)
(* the local variables that hold nodes; `ret' is what the function that    *)
(* returned last hands to the one on top.  A step runs a function up to    *)
(* its next call of another one, or its return.                            *)
(*                                                                         *)
(* The nodes live in a heap and are never given the name of a freed one,   *)
(* so that a pointer to a freed node shows.  Every ast_new may fail.       *)
(* Tokens are what rx_lexer_next delivers; the last one is EOF, or ERROR   *)
(* with the status that it returns instead of a token.                     *)
(***************************************************************************)
EXTENDS PatternErrors, Integers, Sequences, FiniteSets, SequencesExt

CONSTANTS
  Inputs,          \* sequences of tokens [type, data]
  MaxGroupDepth    \* RX_MAX_GROUP_DEPTH

LeafType == {"CLASS", "DOT", "ANCHOR_BEGIN", "ANCHOR_END"}

\* token_is_repeat
RepeatType == {"STAR", "PLUS", "QUESTION", "REPEAT"}

\* token_ends_concat
EndType == {"EOF", "RPAREN", "ALT"}

TokenType == LeafType \cup RepeatType \cup EndType \cup {"LPAREN", "ERROR"}

\* What rx_lexer_next returns instead of a token.
LexerError == {"BADPAT", "EBRACK", "EBRACE", "BADRPT"}

ParserAssumption ==
  /\ MaxGroupDepth \in Nat
  /\ \A s \in Inputs :
       /\ s \in Seq(Range(s)) /\ Len(s) # 0
       /\ \A i \in 1 .. Len(s) :
            /\ s[i].type \in TokenType
            /\ s[i].type \in {"EOF", "ERROR"} <=> i = Len(s)
            /\ s[i].type = "ERROR" => s[i].data \in LexerError

ASSUME ParserAssumption

VARIABLES
  input,       \* the tokens to come
  at,          \* how many of them were fetched; the last one is current
  status,      \* parser->status
  nextGroup,   \* parser->next_group
  depth,       \* parser->group_depth
  stack,       \* the functions being executed, outermost first
  ret,         \* what was returned to the last one, None while it runs
  heap,        \* the nodes that are allocated, by name
  allocs,      \* how many were, ever
  tree,        \* what rx_parse_pattern returned
  captures,    \* *capture_count_out
  pc           \* "start", "run", "parsed", "done"

fields == <<nextGroup, depth>>
nodes == <<heap, allocs>>
outs == <<tree, captures>>
vars == <<input, at, status, fields, stack, ret, nodes, outs, pc>>

-----------------------------------------------------------------------------
Null == 0
None == -1

\* The functions: parse_expr, parse_concat, parse_repeat, parse_atom.
Function == {"expr", "concat", "repeat", "atom"}
Frame(fn) == [fn |-> fn, left |-> Null, group |-> 0]

Top == stack[Len(stack)]
Current == input[at].type
Ahead == input[at + 1]

Entered(fn) == pc = "run" /\ stack # <<>> /\ Top.fn = fn /\ ret = None
Resumed(fn) == pc = "run" /\ stack # <<>> /\ Top.fn = fn /\ ret # None

\* Call functions from the one on top.
Push(frames) == stack' = stack \o frames /\ ret' = None

\* The one on top returns a node.
Return(x) == stack' = Front(stack) /\ ret' = x

\* It keeps a node in its variable `left' and goes on.
Keep(x) == stack' = [stack EXCEPT ![Len(stack)].left = x] /\ ret' = None

\* parser_error: the first one counts.
Error(s) == status' = IF status = "OK" THEN s ELSE status

\* parser_advance; an error of the lexer replaces the status.
AheadOk == Ahead.type # "ERROR"

\* Mutant: what the lexer refuses is reported as the parser's own error.
FetchedAsOwn == IF AheadOk THEN status ELSE "BADPAT"

Fetched == IF AheadOk THEN status ELSE Ahead.data

Advance == at' = at + 1 /\ status' = Fetched

\* ast_new, ast_wrap, ast_binary
New(op, left, right, data, group) ==
  /\ allocs' = allocs + 1
  /\ heap' = [x \in DOMAIN heap \cup {allocs + 1} |->
                IF x = allocs + 1
                  THEN [op |-> op, left |-> left, right |-> right,
                        data |-> data, group |-> group]
                  ELSE heap[x]]
Binary(op, left, right) == New(op, left, right, {}, 0)
NewNode == allocs + 1

\* The nodes from x down.
Below(x) ==
  LET sub[y \in DOMAIN heap \cup {Null}] ==
        IF y = Null THEN {} ELSE {y} \cup sub[heap[y].left] \cup sub[heap[y].right]
  IN  sub[x]

\* ast_free of several trees.
Free(trees) ==
  LET gone == UNION {Below(x) : x \in trees}
  IN  /\ heap' = [x \in DOMAIN heap \ gone |-> heap[x]]
      /\ UNCHANGED allocs

Init ==
  /\ input \in Inputs
  /\ at = 0 /\ status = "OK" /\ nextGroup = 1 /\ depth = 0
  /\ stack = <<>> /\ ret = None
  /\ heap = <<>> /\ allocs = 0
  /\ tree = Null /\ captures = 0
  /\ pc = "start"

-----------------------------------------------------------------------------
(* rx_parse_pattern *)

\* The first token is fetched.
Start ==
  /\ pc = "start" /\ Advance
  /\ IF AheadOk
       THEN pc' = "run" /\ Push(<<Frame("expr"), Frame("concat")>>)
       ELSE pc' = "done" /\ UNCHANGED <<stack, ret>>
  /\ UNCHANGED <<input, fields, nodes, outs>>

\* parse_expr returned a tree and the pattern is at its end.
Accept ==
  /\ pc = "run" /\ stack = <<>> /\ ret # Null /\ Current = "EOF"
  /\ tree' = ret /\ ret' = None
  /\ captures' = nextGroup - 1
  /\ pc' = "parsed"
  /\ UNCHANGED <<input, at, status, fields, stack, nodes>>

\* It returned none, or there is more of the pattern.
Reject ==
  /\ pc = "run" /\ stack = <<>> /\ (ret = Null \/ Current # "EOF")
  /\ IF ret = Null
       THEN UNCHANGED <<status, nodes>>
       ELSE /\ Free({ret})
            /\ Error(IF Current = "RPAREN" THEN "EPAREN" ELSE "BADPAT")
  /\ ret' = None
  /\ pc' = "done"
  /\ UNCHANGED <<input, at, fields, stack, outs>>

\* The caller frees the tree.
Release ==
  /\ pc = "parsed"
  /\ Free({tree}) /\ tree' = Null
  /\ pc' = "done"
  /\ UNCHANGED <<input, at, status, fields, stack, ret, captures>>

-----------------------------------------------------------------------------
(* parse_expr *)

\* Mutant: without memory for the bar the freed branches are returned.
BranchFreed ==
  /\ Resumed("expr")
  /\ CASE ret = Null ->
            Free({Top.left}) /\ Return(Null) /\ UNCHANGED status
       [] ret # Null /\ Top.left = Null ->
            Keep(ret) /\ UNCHANGED <<nodes, status>>
       [] OTHER ->
            \/ Binary("ALT", Top.left, ret) /\ Keep(NewNode) /\ UNCHANGED status
            \/ Free({Top.left, ret}) /\ Return(Top.left) /\ Error("ESPACE")
  /\ UNCHANGED <<input, at, fields, outs, pc>>

\* A branch was parsed, or was not.
Branch ==
  /\ Resumed("expr")
  /\ CASE ret = Null ->
            Free({Top.left}) /\ Return(Null) /\ UNCHANGED status
       [] ret # Null /\ Top.left = Null ->
            Keep(ret) /\ UNCHANGED <<nodes, status>>
       [] OTHER ->
            \/ Binary("ALT", Top.left, ret) /\ Keep(NewNode) /\ UNCHANGED status
            \/ Free({Top.left, ret}) /\ Return(Null) /\ Error("ESPACE")
  /\ UNCHANGED <<input, at, fields, outs, pc>>

\* Another branch follows.
NextBranch ==
  /\ Entered("expr") /\ Current = "ALT"
  /\ Advance
  /\ IF AheadOk
       THEN Push(<<Frame("concat")>>) /\ UNCHANGED nodes
       ELSE Free({Top.left}) /\ Return(Null)
  /\ UNCHANGED <<input, fields, outs, pc>>

LastBranch ==
  /\ Entered("expr") /\ Current # "ALT"
  /\ Return(Top.left)
  /\ UNCHANGED <<input, at, status, fields, nodes, outs, pc>>

-----------------------------------------------------------------------------
(* parse_concat *)

\* Mutant: a closing bracket does not end the items.
NextItemAtClose ==
  /\ Entered("concat") /\ Current \notin EndType \ {"RPAREN"}
  /\ Push(<<Frame("repeat"), Frame("atom")>>)
  /\ UNCHANGED <<input, at, status, fields, nodes, outs, pc>>

\* Another item follows: parse_repeat, which calls parse_atom at once.
NextItem ==
  /\ Entered("concat") /\ Current \notin EndType
  /\ Push(<<Frame("repeat"), Frame("atom")>>)
  /\ UNCHANGED <<input, at, status, fields, nodes, outs, pc>>

\* Mutant: the items before the one that failed are not freed.
ItemForgets ==
  /\ Resumed("concat")
  /\ CASE ret = Null ->
            Return(Null) /\ UNCHANGED <<nodes, status>>
       [] ret # Null /\ Top.left = Null ->
            Keep(ret) /\ UNCHANGED <<nodes, status>>
       [] OTHER ->
            \/ Binary("CONCAT", Top.left, ret) /\ Keep(NewNode) /\ UNCHANGED status
            \/ Free({Top.left, ret}) /\ Return(Null) /\ Error("ESPACE")
  /\ UNCHANGED <<input, at, fields, outs, pc>>

\* An item was parsed, or was not.
Item ==
  /\ Resumed("concat")
  /\ CASE ret = Null ->
            Free({Top.left}) /\ Return(Null) /\ UNCHANGED status
       [] ret # Null /\ Top.left = Null ->
            Keep(ret) /\ UNCHANGED <<nodes, status>>
       [] OTHER ->
            \/ Binary("CONCAT", Top.left, ret) /\ Keep(NewNode) /\ UNCHANGED status
            \/ Free({Top.left, ret}) /\ Return(Null) /\ Error("ESPACE")
  /\ UNCHANGED <<input, at, fields, outs, pc>>

\* The items are at their end; no item at all is AST_EMPTY.
LastItem ==
  /\ Entered("concat") /\ Current \in EndType
  /\ IF Top.left # Null
       THEN Return(Top.left) /\ UNCHANGED <<nodes, status>>
       ELSE \/ New("EMPTY", Null, Null, {}, 0) /\ Return(NewNode) /\ UNCHANGED status
            \/ Return(Null) /\ Error("ESPACE") /\ UNCHANGED nodes
  /\ UNCHANGED <<input, at, fields, outs, pc>>

-----------------------------------------------------------------------------
(* parse_repeat, behind its atom *)

\* No operator follows, or there is no atom.
NoRepeat ==
  /\ Resumed("repeat") /\ (ret = Null \/ Current \notin RepeatType)
  /\ Return(ret)
  /\ UNCHANGED <<input, at, status, fields, nodes, outs, pc>>

\* The operator is followed by another one.
SecondRepeat == Ahead.type \in RepeatType

\* The atom is wrapped and the operator passed.
Repeat ==
  /\ Resumed("repeat") /\ ret # Null /\ Current \in RepeatType
  /\ \/ /\ Advance /\ AheadOk /\ ~ SecondRepeat
        /\ New(Current, ret, Null, input[at].data, 0)
        /\ Return(NewNode)
     \/ \* the wrapper is freed with the atom in it
        /\ at' = at + 1
        /\ IF AheadOk
             THEN SecondRepeat /\ Error("BADRPT")
             ELSE status' = Fetched
        /\ Free({ret}) /\ Return(Null)
     \/ \* no memory for the wrapper
        /\ Free({ret}) /\ Return(Null) /\ Error("ESPACE")
        /\ UNCHANGED at
  /\ UNCHANGED <<input, fields, outs, pc>>

-----------------------------------------------------------------------------
(* parse_atom, which is called for a token that ends no concatenation *)

\* A class, a dot or an anchor.
Leaf ==
  /\ Entered("atom") /\ Current \in LeafType
  /\ at' = at + 1
  /\ \/ /\ AheadOk
        /\ New(Current, Null, Null, input[at].data, 0)
        /\ Return(NewNode)
        /\ UNCHANGED status
     \/ \* the node, if there is one, is freed again
        /\ ~ AheadOk /\ status' = Fetched
        /\ Return(Null) /\ UNCHANGED nodes
     \/ /\ AheadOk /\ Error("ESPACE")
        /\ Return(Null) /\ UNCHANGED nodes
  /\ UNCHANGED <<input, fields, outs, pc>>

\* An operator without an operand.
NoOperand ==
  /\ Entered("atom") /\ Current \in RepeatType
  /\ Error("BADRPT") /\ Return(Null)
  /\ UNCHANGED <<input, at, fields, nodes, outs, pc>>

\* Mutant: one group more than the limit.
TooDeepLate == depth > MaxGroupDepth

TooDeep == depth >= MaxGroupDepth

\* An opening bracket at the limit.
GroupTooDeep ==
  /\ Entered("atom") /\ Current = "LPAREN" /\ TooDeep
  /\ Error("EUNSUPPORTED") /\ Return(Null)
  /\ UNCHANGED <<input, at, fields, nodes, outs, pc>>

\* The group gets its number before what is inside of it is parsed.
GroupOpen ==
  /\ Entered("atom") /\ Current = "LPAREN" /\ ~ TooDeep
  /\ Advance
  /\ nextGroup' = nextGroup + 1
  /\ IF AheadOk
       THEN /\ depth' = depth + 1
            /\ stack' = [stack EXCEPT ![Len(stack)].group = nextGroup]
                          \o <<Frame("expr"), Frame("concat")>>
            /\ ret' = None
       ELSE Return(Null) /\ UNCHANGED depth
  /\ UNCHANGED <<input, nodes, outs, pc>>

\* What was inside failed, or the bracket is not closed.
GroupBroken ==
  /\ Resumed("atom") /\ (ret = Null \/ Current # "RPAREN")
  /\ depth' = depth - 1
  /\ IF ret = Null
       THEN UNCHANGED <<nodes, status>>
       ELSE Free({ret}) /\ Error("EPAREN")
  /\ Return(Null)
  /\ UNCHANGED <<input, at, nextGroup, outs, pc>>

\* Mutant: the number is taken when the group is closed.
GroupNumberLate == nextGroup - 1

GroupNumber == Top.group

\* The closing bracket is passed and the group wrapped.
GroupClose ==
  /\ Resumed("atom") /\ ret # Null /\ Current = "RPAREN"
  /\ depth' = depth - 1
  /\ at' = at + 1
  /\ \/ /\ AheadOk
        /\ New("GROUP", ret, Null, {}, GroupNumber)
        /\ Return(NewNode)
        /\ UNCHANGED status
     \/ /\ ~ AheadOk /\ status' = Fetched
        /\ Free({ret}) /\ Return(Null)
     \/ \* no memory for the group: what is inside is not freed
        /\ AheadOk /\ Error("ESPACE")
        /\ Return(Null) /\ UNCHANGED nodes
  /\ UNCHANGED <<input, nextGroup, outs, pc>>

-----------------------------------------------------------------------------
Returned == pc = "done" /\ UNCHANGED vars

Next ==
  \/ Start \/ Accept \/ Reject \/ Release
  \/ Branch \/ NextBranch \/ LastBranch
  \/ NextItem \/ Item \/ LastItem
  \/ NoRepeat \/ Repeat
  \/ Leaf \/ NoOperand \/ GroupTooDeep \/ GroupOpen \/ GroupBroken \/ GroupClose
  \/ Returned

Spec == Init /\ [][Next]_vars

-----------------------------------------------------------------------------
(* The pointers to nodes that the code will still look at. *)
Locals == {stack[i].left : i \in DOMAIN stack} \cup {ret, tree}
Children == UNION {{heap[x].left, heap[x].right} : x \in DOMAIN heap}

\* How many of them lead to x.
Owners(x) ==
  Cardinality({i \in DOMAIN stack : stack[i].left = x})
    + Cardinality({v \in {ret, tree} : v = x})
    + Cardinality({y \in DOMAIN heap : heap[y].left = x})
    + Cardinality({y \in DOMAIN heap : heap[y].right = x})

\* The nodes that nobody will free.
Lost == {x \in DOMAIN heap : Owners(x) = 0}

OpenGroups == {i \in DOMAIN stack : stack[i].group # 0}

Status == {"OK", "BADPAT", "EPAREN", "EBRACK", "EBRACE", "BADRPT", "ESPACE",
           "EUNSUPPORTED"}

\* The types.  parse_atom is never called for a token that ends a
\* concatenation, so that its answers to these are not needed.
TypeOK ==
  /\ at \in 0 .. Len(input)
  /\ status \in Status
  /\ nextGroup \in Nat \ {0} /\ captures \in Nat
  /\ \A i \in DOMAIN stack : stack[i].fn \in Function
  /\ Entered("atom") => Current \notin EndType
  /\ ret \in Nat \cup {None} /\ tree \in Nat
  /\ DOMAIN heap \subseteq 1 .. allocs
  /\ pc \in {"start", "run", "parsed", "done"}

\* Every node has at most one owner, a variable of a function being executed or
\* the node above it, and no pointer leads to a node that was freed: whatever
\* allocation fails, and whatever error ends the descent, nothing is freed
\* twice or used after it was.
OneOwner ==
  /\ Locals \subseteq DOMAIN heap \cup {Null, None}
  /\ Children \subseteq DOMAIN heap \cup {Null}
  /\ \A x \in DOMAIN heap : Owners(x) <= 1

\* All nodes are freed in the end, whatever fails.
NothingLeaks == Lost = {}

\* The only nodes ever lost are those inside of one group, for whose own node
\* there was no memory; all others are freed in the end.
OnlyGroupsLeak ==
  /\ Cardinality(Lost) <= 1
  /\ Lost # {} => status = "ESPACE" /\ \E i \in 1 .. at : input[i].type = "RPAREN"
  /\ pc = "done" => DOMAIN heap = UNION {Below(x) : x \in Lost}

\* group_depth counts the groups being parsed and is back at 0 in the end,
\* along every error path, and the recursion is as deep as the limit allows.
DepthIsTracked ==
  /\ depth = Cardinality(OpenGroups)
  /\ depth <= MaxGroupDepth
  /\ Len(stack) <= 4 * (MaxGroupDepth + 1)

\* What the parser was given, without the EOF.
Tokens == IF Last(input).type = "EOF" THEN Front(input) ELSE input

\* A pattern is refused for the first thing that is wrong with it, whatever
\* comes later, and only then, unless memory runs out.
FirstErrorIsReported ==
  pc \in {"parsed", "done"} =>
    status \in {"ESPACE", StatusOf(Tokens, MaxGroupDepth)}
=============================================================================
