# likuan in TLA+

`likuan` is a regular-expression engine in C17. A pattern is lexed, parsed into
a syntax tree and compiled into a Thompson automaton; with `RX_FLAG_DFA` the
automaton is also determinized and minimized. A call of `regex_match`,
`regex_search` or `regex_findall` runs one of the two engines from one start
after another and fills in the groups of what it finds. The engine is
sequential. What is hard about it is that several algorithms must agree (two
engines, two simulations of the same automaton, a construction and its
minimization), that each of them keeps redundant state by hand (`seen` bits,
block sizes, a hash chain, the better of two matches), and that any allocation
may fail halfway.

## The system

| part | source | state | operations | what makes it correct |
|---|---|---|---|---|
| lexer | `lexer.c`, `charset.c` | position in the pattern | next token | one token per construct, bounds up to 10000, class sets exact |
| parser | `parser.c`, `ast.c` | current token, status, depth, number of groups, the nodes built | recursive descent | tree of the pattern; on an error every node is freed; groups numbered by their opening bracket |
| Thompson construction | `nfa.c` | automaton under construction | `nfa_compile_ast` | the automaton accepts what the tree denotes |
| NFA matcher | `matcher.c` | two state sets, position, best match | `nfa_run_from` | longest match from a start |
| subset construction | `dfa.c` | states, transitions, hash table | `dfa_build` | accepts what the Thompson automaton accepts, in every context |
| minimization | `dfa_minimize.c` | partition, block sizes, work list | `dfa_minimize` | accepts the same; no state too many |
| DFA run | `dfa.c` | state, position, best match | `dfa_run_from` | longest match from a start |
| groups | `capture.c` | two ordered sets of states with positions | `nfa_capture_span` | the positions of one path over the match |
| interface | `regex_engine.c` | the compiled object; cursor and matches of a call | compile, match, search, findall, free | leftmost-longest, nothing missed, termination; a failed compile leaves no object |
| graph export | `dot.c` | none | `dfa_dump_dot` | the drawn graph can be read back as the automaton |
| memory | all files | the object's blocks and the temporary arrays | every allocation, `regex_free` | freed once, never used behind that, nothing left |
| tools | `tools/` | none | command lines, output | not modelled: I/O around the interface |

They interact by calls only. `regex_compile_ex` owns everything: it hands the
tree to `nfa_compile_ast`, the automaton to `dfa_build`, its result to
`dfa_minimize`. A matching call asks `regex_run_from`, which asks one of the
engines, and hands a hit to `fill_match`, which asks `nfa_capture_span` to find
the same match again, with groups. The only callback is the one of `findall`.

Anchors are what makes the agreement of the parts subtle. `^` and `$` are
transitions without input that may be taken at the first and the last position
only. The matcher decides that while it takes a closure. The DFA cannot look
back, so it has four start states (start of text or not, end of text or not)
and two transitions for every byte: `transitions` when more text follows,
`final_transitions` for the last byte of the text.

Where it can go wrong, part by part (`PROJECT.json` lists each hazard at its
line, with the properties that would catch it):

* matcher and groups: a set that is reused two positions later with old items
  or `seen` bits; a state reached twice; cycles without input; a match that is
  superseded, or that outlives the loop; positions of two paths mixed up.
* subset construction: sets that collide in the hash table; bytes that one
  transition tells apart; the limit of 4096 states reached within a row.
* minimization: a block that is split while it waits in the work list; sizes
  kept by hand; the dead state among the others.
* DFA run: the last byte of the text, and the empty rest of it.
* interface: progress behind empty matches; a failure after some matches were
  delivered; a second simulation that must find what the first one found.
* lexer: patterns that break off where it looks ahead; dashes in classes; the
  edge of the limit on bounds.
* parser: the depth limit; which of two errors is reported; the ownership of
  nodes on error paths.
* memory: a failure in a helper, whose caller and `regex_free` then clean up in
  turn.

## The modules

`Automaton` holds what all engines share: the Thompson automaton as a record,
closure, move, and the reference `Live(r, t, s)`: the states alive at every
position of text `t` for a match of `r` that begins at `s`; `Ends` are the
positions where such a match can end. Its constants are the alphabet's size,
the compiled expressions and the bound on texts; the only assumption is what
`dfa_can_build` checks.

`Thompson` is `nfa_compile_ast` as operators on syntax trees, with states
numbered and transitions ordered as in the code, and `Denote`, the reference
semantics of a tree that uses no automaton: for each node the relation between
the places in a text where a match of it begins and where it ends. A tree is the
sequence of its nodes in the order in which the parser makes them, a node behind
its children; what a node compiles to and what it denotes are then recursive
functions of its number, about which one can prove something. `nfa_compile_ast`
compiles the operand of `{m,n}` anew for each copy, so that a node is compiled as
a function of the number of states there are before it. `Syntax` has the trees
as one writes them down, and `Nodes`, which lays them out; it is used by the
runs and by `Grammar`.

`CompiledRun` puts `NfaRun` and `Thompson` together: each expression has a syntax
tree (`Tree`), and its automaton is what `Compile` makes of it
(`TreeAssumption`). `AnswerIsDenoted` is the claim about both.

`LongestMatch` is the abstract specification of both engines: called with a
text and a start, answer the greatest of `Ends`, no match if there is none, or
out of memory; `*end_out` is written on success only.

`NfaRun` is `nfa_run_from`. `cur`, `next`, `found`, `best`, `pos` are the
variables of the C function. `pending` are the items of the set that is filled
which `add_closure` has not expanded, `unread` the items of `cur` whose
byte transitions have not been followed. One action expands one item
(`CloseCur`, `CloseNext`) or reads one (`Read`). The order of items in a set is
left open, which is more than the code does and enough for its claims.
`NextByte` is `set_clear`, `Die` the early `break`, `Swap` the exchange of the
sets and the update of `found` and `best`.

`Dfa` is the data structure of `dfa.h`, its character classes and the reading
of a text. `DfaBuild` is `dfa_build`: an action resolves one set, to nothing
(`ResolveEmpty`), to a state found in the hash table (`ResolveKnown`) or to a
new one (`ResolveNew`), or fails (`LimitReached`, `BuildOutOfMemory`); `Advance`
is the three nested loops. The table has a head for each bucket and for every
state its `hash_next`; `ChainOf` follows them. The hash function is a constant: any
function into the buckets. `Minimize` is `dfa_minimize`: `Partition`, `Pop` of one splitter
with its preimage, `Split` of one block, `Rebuild`. `DfaRun` is `dfa_run_from`,
one byte a step. `DfaEngine` composes the three as `regex_compile_ex` and
`regex_run_from` do.

`Capture` is `nfa_capture_span`. Sets are sequences here, because the order of
items and transitions decides which path the groups come from. A step handles
one item.

`Charset` and `Lexer` are `charset.c` and `rx_lexer_next`, called until it
answers `TOK_EOF` or an error. The pattern is a sequence of bytes with its NUL;
a step is a token of one character or an escape, one element of a class
(`Element`, `RangeElement`), or one digit of a bound (`CountDigit`).
`PatternText` is the reference: what a class, an escape or a repetition that
begins at a position of the text means and where it ends, or what is wrong with
it and where, said without a lexer's state. It reads
the text as a whole and knows nothing of `pos`, of `negate` or of the check
before the multiplication. Its recursions are functions, so that it can be
reasoned about.

`Parser` is `parser.c` over the tokens that the lexer delivers. The C stack is
the sequence `stack`: a frame has the function's name and the local variable
that holds a tree, and `ret` is what the function on top of it returned. A step
runs a function up to its next call or its return. Nodes live in `heap` under
names that are never used again, so that a pointer to a freed node can be told
from one to a node in use; `ast_free` (`Free`) takes the nodes below. A token
may be `ERROR` with the status that the lexer returns instead of it; it takes
effect when it is fetched, not earlier. There are two references, which build no
nodes and have no state: `PatternErrors` is the status of the first thing wrong
with a sequence of tokens, by counting brackets and looking at neighbours, and
`Grammar` is the tree of a sequence without an error, by splitting it at its
last bar, its last item, and so on.

`Lifetime` is the memory of the whole engine, from `regex_compile_ex` to
`regex_free`. A block is known by what it is for; `re` holds the blocks that the
object's fields lead to, `locals` those that local variables do. What the
automata are is left open: how many states they get (up to a bound), which
arrays must grow and which states merge are choices, so that every path through
the allocations and the `goto`s and returns behind them is taken.
`AllocateOrFree` is the code's pattern of asking for several blocks and freeing
all if one is missing. A block that is freed without being allocated is noted
in `twice`. The caller holds at most one object, calls in any order, compiles
again with a pointer that still has its old value, and never uses a freed one.

`Dot` is `dfa_dump_dot`: the set of edges and, for each, the label with its
runs of bytes; and a reader, who follows a dashed edge for the last byte of a
text if there is one.

`Matching` is the abstract specification of the matching calls: a match is
found in one step, the leftmost and of those the longest from where the next
one may begin; the whole text for `regex_match`. After `RX_ESPACE` the caller's
first entry is reset or holds that match.

`Search` is the three matching calls. A probe is one step and answers what
`LongestMatch` allows; both engines are shown to implement that. A hit is
filled in one step, which either succeeds or is out of memory; that the second
simulation never answers "no match" is `NothingLost` of `Capture`, which is
proved. Positions
are converted as in `fill_match` and back as in `regex_findall` (`ToInt`,
`ToSize`); the widths are constants.

How they fit together: `MCLexer` and `MCParser` check each part of the front
end against its reference, the parser on every sequence of tokens whether a
text has them or not. The trees it makes are the inputs of `Thompson`, whose
automata are those of `NfaRun`, `DfaEngine` and `Capture`; `LongestMatch`, which
both engines implement, is the probe of `Search`; `Search` implements
`Matching`. `Lifetime` cuts across all of them.

`MCNfaRun`, `MCDfa`, `MCCapture`, `MCSearch` give the constants values: small
expressions as syntax trees, compiled by `Thompson`. `MCLexer` and `MCParser`
list patterns and sequences of tokens, `MCDot` draws the automata of `MCDfa`.
`Lifetime` needs no more than two bounds in its cfg. The theorems are in
`AutomatonProofs` (closure and live sets, used by all engines), `NfaRunProofs`,
`CaptureProofs`, `DfaEngineProofs` (construction, minimization, run, graph, and
the engine as a whole), `SearchProofs`, `LexerProofs`, `ParserProofs` and
`LifetimeProofs`.

## The runs

The runs of the engines start from every expression of their MC module and
every text over its alphabet up to its bound, with every legal start. Every allocation may
fail at every step. A definition whose comment begins with "Mutant" is a
plausible bug of the definition behind it; substituting it makes the named
property fail.

* `nfa_run` (`MCNfaRun`, 2 bytes, texts up to 3): ten expressions with every
  operator, anchors in all positions, loops around expressions that match the
  empty text, and all forms of repetition. `SetsAreLive`: wherever the call is
  interrupted, `cur` holds exactly the live states and `next` is closed but
  for what is pending. `AnswerIsDenoted`: the answer is the longest match of the
  *tree*, so construction and simulation are checked together. `KeepsPromise`:
  it implements `LongestMatch`. `Returns`: it ends.
* `dfa_engine` (`MCDfa`, 3 bytes, texts up to 3, limit 7, two buckets): ten
  expressions whose start contexts differ, with bytes that share a class, with
  states to merge, one that needs exactly 7 states and one that needs 9.
  `OneStatePerSet`, `TransitionsFollowSets`, `StatesAreReachable`,
  `BuiltRepresents` are about the construction: no set becomes a state twice,
  the chain of every bucket passes through exactly the states with its hash, every stored transition is right for each byte of the class, only
  reachable sets are states and the limit is reported only if it is exceeded,
  and the result accepts what the Thompson automaton does. `SizesAreExact`,
  `NothingForgotten`, `SplitsAreNeeded` are the invariants of Hopcroft's
  refinement, the last also of the rebuilt automaton, which is minimal in its
  sense; `MinimizedRepresents` says that it is well formed and accepts what the
  Thompson automaton does. `RunFollowsText`,
  `KeepsPromise` and `Returns` are about the call. As `nfa_run` and this run
  refine the same `LongestMatch`, the two engines agree.
* `dfa_merge` (`MCDfa`, texts up to 2), `parser_leak` (`MCParser`) and
  `search_narrow` (`MCSearch`, an `int` of 3 bits and a `size_t` of 5) are
  expected to fail: see below.
* `capture` (`MCCapture`, 2 bytes, texts up to 3): six expressions with groups
  in loops, branches, repetitions and each other, every longest match, every
  length of the caller's array from 2 to one more than needed. `NothingLost`,
  `GroupsAreOfOnePath` (against all configurations that some path reaches),
  `GroupsAreDenoted` (a group that took part lies within the match and its text
  is matched by its expression, in place), `Returns`.
* `search` (`MCSearch`, 2 bytes, texts up to 4): six expressions with matches
  that are empty, adjacent and nested, and anchors. `KeepsContract`: the
  calls implement `Matching`, so that they answer with the leftmost and then
  longest match, accept exactly whole texts, deliver in order and without
  overlap, and stop when the callback wants no more. `NothingMissed`: behind
  what was delivered nothing is skipped, wherever the call is; `Returns`. An
  `int` has 8 bits here, which holds every position.
* `lexer` (`MCLexer`, the real limit of 10000): all patterns of up to five
  characters behind `[` over brackets, caret, dash, backslash, a letter and
  `d`; of up to four behind `{` over digits, comma, brace and a letter; bounds
  of five and six digits around the limit; all two-character patterns over the
  other operators; every byte by itself and escaped; ranges that end at byte
  255. `ClassesAreDenoted`, `BoundsAreExact`: what is delivered, and what is
  refused with which status and at which place, is what `PatternText` says.
  `TokensAreContiguous`: each token begins where the text says that the one
  before it ends (behind its one byte, its escape, its class, its bound), the
  first one at 0, and the end is delivered at the NUL. Part of `TypeOK` is that
  `pos` never passes the NUL.
* `parser` (`MCParser`, a limit of 2 nested groups): all sequences of up to four
  tokens of an expression, of six brackets and letters, which nest beyond the
  limit, of three of the other tokens, and sequences that the lexer breaks off;
  each `ast_new` may fail. `OneOwner`: a node is held by one variable of the
  functions being executed or by one node, and by none that was freed.
  `OnlyGroupsLeak`: but for the one place below, nothing is lost.
  `DepthIsTracked`, `TreeIsOfPattern`, `FirstErrorIsReported` (a pattern is
  refused for its first error and only then).
* `lifetime` (`Lifetime`, 3 states of the NFA, 4 of the DFA): `MemoryIsSafe`
  (nothing is freed twice, nothing freed is pointed to), `NothingElseStays` (between calls nothing is allocated but what
  `regex_free` will free), `ObjectIsWhole` (what is handed out has all that the
  engines read), `OutTellsResult`.
* `dot` (`MCDot`, as `dfa_engine`): `GraphIsOfDfa`, who follows the graph is
  where the automaton is, on every text. What could fail is that nothing is
  drawn to the dead state: a last byte that dies where another one of its kind
  goes on would look as if it went on.

Why the bounds are enough to be interesting: a text of three bytes has a
first, a middle and a last one, so that every context of an anchor occurs, and
an early death, a superseded match and a swap of used sets happen in it. Three
bytes let two share a class. Two buckets make almost every set collide. The
number of expressions is what the time allows, each was chosen for a case
named in its module. The patterns of the lexer reach every pair of what it
looks at with what it looks ahead to, in every position within a class; a range
takes three elements, so that five characters hold a range next to another
element or an escape as either end. Four tokens hold a group with an operator
behind it, two branches, and every token behind every error. Four states of the
DFA let two merge and two stay, so that both freeing of old sets and copying of
more than one new set happen, and the failure of each copy.

Fairness is weak fairness of the steps that do not fail for lack of memory.
The code is one sequential call, so that it is carried out is all that is
assumed; that memory runs out is possible at any time and never due.
Deadlock is checked; a finished call stutters. `Lexer`, `Parser` and `Lifetime`
have no fairness and claim nothing that would need it; the caller of the last
goes on for ever.

## What the code does that its documentation does not say

`README.md:14` of the repository says that minimization merges equivalent
states. `refine_partitions` treats a final transition like any other and
compares its target by block, but no byte can follow it, so that only whether
the target accepts matters. For `ba(|$b)|ca` two states remain that no text
tells apart (`EquivalentStatesMerged`, run `dfa_merge`). Matching is not
affected: `MinimizedRepresents` holds, and the result is minimal if ordinary
and final transitions may be mixed freely (`SplitsAreNeeded`).

`regex_findall`, the repository's `README.md:174` says, goes through all matches.
`fill_match` stores positions of type `size_t` as `int` in `rx_match_t`, and
`regex_findall` takes the start of the next search back from there. In a text
of more than `INT_MAX` bytes a match that ends beyond it has a negative `rm_eo`,
which as a `size_t` is greater than the length: the loop ends, and the call
returns `RX_OK` without the matches that follow (`NothingMissed`, run
`search_narrow`, with small widths in place of the real ones). Nothing in the
header says that texts have a limit.

`README.md:109` runs the tests under `valgrind --leak-check=full`. The parser
frees what it holds when an allocation fails, with one exception: in
`parse_atom`, when the node of a finished group cannot be allocated, the tree
inside of it is held by `inside` only, and the common exit frees `node`
(`parser.c:97`, `NothingLeaks`, run `parser_leak`). `OnlyGroupsLeak` shows that
this is the only place, and `NothingElseStays` that the same holds for the whole
engine.

One more thing worth knowing, although no text of the repository contradicts
it: with a null pattern `regex_compile_ex` returns before `*out` is written
(`regex_engine.c:56`), so that a pointer that still holds the address of a freed
object keeps it. `OutTellsResult` is therefore about calls that pass the checks
of their arguments (`RefusePattern` is the other action).

## The proofs

TLC checks small instances. The theorems hold for every alphabet, every bound on
texts, every automaton that passes `dfa_can_build`, every state limit and hash
function, every pattern, sequence of tokens, limit on groups and on bounds, and
for automata of any size in the memory model. What they assume of the constants
is in the modules' `ASSUME`s, which TLC evaluates in every run
(`AutomatonAssumption`, `TreeAssumption`, `DfaBuildAssumption`,
`CaptureAssumption`, `SearchAssumption`, `LexerAssumption`, `ParserAssumption`,
`LifetimeAssumption`), with one exception, `PositionsFit`, below. Each proof has an inductive invariant, which is the
checked property and what it needs to be inductive.

* `AutomatonProofs`. Induction theorems with operator parameters are not
  available to the provers, so `NatSetInduction` derives induction for sets of
  naturals, and the least set closed under a growing function is constructed
  once (`GrowsBy`, `Least`) and used for the closure loop (`ClosureLeast`) and
  later for reachable sets. From these, and from the equation of `Live`
  (`LiveEquation`, a lemma): `LiveClosed` and `LiveLeast`, which say that the
  live sets are closed under what an engine pushes and contain nothing else.
* `NfaRunProofs`: `Invariance`, `Spec => [](TypeOK /\ SetsAreLive /\
  BestIsLongest)`, and `TypesHold`. The conjunction is inductive with a clause
  about the status of the call. `SetsAreLive` is the strengthening that matters:
  that the swap yields exactly the live set follows from "closed but for what is
  pending" when nothing is pending (`LiveLeast`) and "only live states"
  (`LiveClosed`). `Refinement`, `Spec => KeepsPromise`: a step of the call maps
  to a step of `LongestMatch` or to a stutter; the return is the only
  interesting case, and `BestIsLongest` at the end of the text, or after the
  sets died, is what the abstract step demands.
* `NfaRunProofs`, the construction: `CompileIsRight`, every node of every tree
  becomes a fragment through which a text leads exactly as `Denote` says of the
  node. The proof does not follow paths. A spot is a state and a place in the
  text, `Reach` the least set of spots that no edge leaves, and a fragment is a
  `Piece`: edges between its own states, of which one only knows the relation
  between the places where one enters it and those where one gets to its end.
  For each operator there is a lemma that joins pieces by new edges (`PieceConcat`
  and its like) and one that finds these edges in what the code adds (`FragChain`
  and its like). That states of a fragment are numbered from where the last one
  ended keeps pieces apart. The copies of `{m,n}` are an induction over
  their number, in which `Times` and `Often` are unrolled at the end. The nodes
  are an induction over their number; the recursive functions `CompileAst` and
  `Denote` are shown to have a solution first. `CompileCanBuild`: the automaton of
  a tree passes `dfa_can_build`, so that `AutomatonAssumption`, on which all
  theorems about the engines rest, is what `nfa_compile_ast` establishes.
  `EndsAreDenoted` translates `Reach` to the live sets (`LiveIsReach`), and with
  `Invariance` gives `AnswersAreDenoted` (`AnswerIsDenoted`): construction and
  simulation together lose no match, invent none and report the longest, for
  every tree.
* `CaptureProofs`. `Expand` and `Read` are folds over the transitions of a
  state; what such a fold does to a set is shown once, push by push (`Grown`,
  `FoldsGrow`): the items that were there stay where they are, every new one
  comes from a transition that may be taken, and no state gets in twice. The
  invariant says of every phase which states the items have: those expanded so
  far have their targets in the set, and by `LiveClosed` and `LiveLeast` a set
  that is through has exactly the live ones. Hence `MatchIsNotLost`
  (`NothingLost`): at the end the accepting state is found wherever the first
  simulation found it. The other half of the invariant is that each item, with
  its positions, is a configuration that some path reaches (`Configs`, defined
  without order and without `seen` bits, and well defined because there are
  finitely many positions, `SlotsFinite`). Hence `GroupsOfOnePath`
  (`GroupsAreOfOnePath`).
* `DfaEngineProofs`, the construction: `BuildIsUnique` and `BuildFollowsSets` by an
  inductive invariant that says which transitions are stored, and that each
  bucket leads to its last state and each state to the one before it in its
  bucket (`Entered`), so that a chain passes through the whole bucket
  (`ChainIsBucket`) and a set that is not found is new;
  `BuildIsRight`: when the construction is done, the state a text leads to
  stands for the live set, so that the automaton represents the expression.
  `BuildIsReachable`: the sets stored are in every family of sets that is closed
  under what `dfa_build` computes, hence in the least one; when the three loops
  are through, the stored sets are such a family themselves. The limit is
  reported with as many sets stored as it allows and one more at hand, which are
  all in the least family: by cardinality that family is larger than the limit.
  The run: `RunInvariance` and `RunRefinement` for a call on any automaton that
  is well formed and represents the expression.
* `DfaEngineProofs`, the engine: `EngineInv` says, phase by phase, which of the three
  algorithms' invariants holds. For Hopcroft's refinement it is: the blocks
  are a partition with exact sizes; what is queued exists; two states of
  one block that a symbol takes to different blocks have one of those queued with
  that symbol or are about to be separated by the splitter at work. Hence
  `SizesStayExact`, `NoSplitterForgotten` (queueing the smaller half is enough)
  and, when the work list is empty, that blocks agree on where each symbol
  leads. `MinimizeIsRight`: a walk of the rebuilt automaton is, position by
  position, in the block of the old one's. `MinimizeIsMinimal`: every split
  separates states with different futures, so that no two states of the result
  accept after the same symbols. Symbols are bytes read with more to come and
  last bytes, mixed freely: over texts, where a last byte is the last, the
  result is not minimal (`EquivalentStatesMerged`). `EngineTypes`,
  `EngineConstructs`, `EngineBuildsReachable`, `EngineFollowsText` carry the
  results about construction and run over, and `EngineRefines`, `Spec => KeepsPromise`, is the
  contract from the start of `regex_compile_ex` to the answer of a call. With
  `Refinement` of `NfaRunProofs` it says that the two engines agree.
* `DfaEngineProofs`, the graph: `GraphIsRight` (`GraphIsOfDfa`). A label names
  the bytes of its class and no others (`LabelNames`, by induction over the
  bytes from which it is written). One byte takes a reader where it takes the
  automaton (`ReadsStep`), if a state that dies of the last byte of a text also
  dies of that byte before the end; otherwise the plain edge would be followed
  where the dead state, which is not drawn, is meant. That is shown of the
  sets of the construction (`ExploredDies`) and carried over to the blocks
  (`RebuiltDies`).
* `SearchProofs`: `TypeCorrect`, `FindallIsComplete` (`NothingMissed`) and
  `SearchRefines` (`KeepsContract`): all three calls implement `Matching`. The
  invariant describes each point of the loop by what lies behind it: no start
  skipped since the last match had an end. All are proved under `PositionsFit`:
  an `int` and a `size_t` hold every position of the texts. It is not an
  assumption of the module, because the code does not check it; the run
  `search_narrow` is the counterexample without it. With the real widths it says
  that texts are shorter than `INT_MAX`.
* `LexerProofs`: `BoundFits`, the test before `value * 10 + digit` admits
  exactly the values up to the limit and computes none beyond; `TypeCorrect`:
  `pos` never passes the NUL, whatever the lexer looked ahead to;
  `TokensSplitPattern` (`TokensAreContiguous`): no byte is skipped and none is
  read twice. Where a token ends is read off the text, so that it follows from
  the other two, which compare the lexer, going on byte by byte, with
  `PatternText`, which reads the text at large. `BoundsAreRead`
  (`BoundsAreExact`): the digits read so far are those of the text and have
  their decimal value; once beyond the limit a number stays beyond it whatever
  digits follow (`DecimalGrows`), so that refusing early is refusing rightly.
  `ClassesAreRead` (`ClassesAreDenoted`): the lexer stands where a unit of the
  text begins, that is at a character no backslash belongs to (`AtUnit`); the
  set read so far together with what the units from there on mean is what the
  whole class means, and what is wrong with the class, and where, is what is
  wrong with the rest (`ClassRead`). That the lexer, looking one character ahead, takes a dash for a
  range exactly where the text has one is `RangeIsDash`. The recursions of
  `Decimal` and `Items` are shown to have a solution first (`ValuesExist`,
  `ItemsExist`).
* `ParserProofs`. The invariant `Control` describes the stack of functions
  (`Descent`): they call each other in a fixed cycle, a variable `left` is used
  in two of the four, a group is open exactly in the atoms further out; and it
  says that a function returns no node if and only if there is an error. Hence
  `ParserTypes` and `DepthHolds`: the depth is the number of open groups on every
  path, and four functions per group bound the recursion. `Memory` says that the
  heap is a forest (`Forest`), whose roots are what the functions hold (`Held`).
  Moving a node, joining two trees under a new node and freeing trees keep a
  forest and leave the same nodes without an owner (`ForestMoved`,
  `ForestJoined`, `ForestFreed`); every action is one of these, but for the one
  place that forgets a tree. Hence `OneOwnerHolds` and `OnlyGroupsAreLost`. That
  `ast_free` frees exactly what hangs below a node (`BelowFacts`) is an induction
  over names: a child is older than its parent. `FirstError` says that all tokens
  before the current one are right by the reference, that the depth is the
  nesting it counts there, and what each function knows of the token it looks at
  (`Knows`: an operand must come, an operator may, no operator can). The last part
  is what makes it inductive: `parse_atom` refuses an operator because of the token
  before, which it does not see, and `parse_expr` leaves the bracket to its caller.
  Hence `FirstErrorHolds`: a pattern is refused for the first thing that
  `PatternErrors` finds, and only then, unless memory runs out.
* `LifetimeProofs`: the invariant is a ledger, which says for each place in the
  code which blocks exist, who points to them and that nobody else does.
  `NoDanglingPointer`, `NothingLeaksElsewhere`, `HandedOutWhole` and, for the
  result of `regex_compile_ex`, `OutIsTold`.

Model-checked only:

* all liveness (`Returns`): the prover does not handle it;
* that a group's positions are a match of its body (`GroupsAreDenoted`, for which
  the lemmas about pieces say too little: they know where a match enters and
  leaves, not by which path), and that the parser's tree is the one of the
  recursive `Grammar` (`TreeIsOfPattern`), whose `RECURSIVE` operators the prover
  does not take.

## Not modelled

* The command line tools and the benchmark: arguments, output and timing.
* `nfa_dump_dot`, the dumps of tokens, tree and automata, and the escapes and
  layout of `dfa_dump_dot`: output that follows a structure one by one.
* The texts of errors, the names of statuses and `regex_get_stats`; of an
  error of the lexer the byte that it names is modelled.
* Null arguments of the matching calls, and the branches of the parser that no
  caller reaches (a null pattern, an unknown token, an atom at the end of a
  concatenation; `TypeOK` of `Parser` shows that the last one is not reached).
* The depth of the C stack. The recursion of the parser is bounded by the limit
  on groups (`DepthIsTracked`); `ast_free` and `nfa_compile_ast` recurse along
  concatenations, for which the code has no limit.
* The growth of the NFA under nested repetitions, which ends when memory does.

## The plan

Everything that was planned is modelled. Every safety invariant that a run checks
is proved but two, `GroupsAreDenoted` and `TreeIsOfPattern`. For the first,
`Piece` would have to speak of the paths through a fragment instead of its ends;
for the second, `Grammar` would have to be a function of where a sequence of
tokens begins and ends, as `Denote` is of the number of a node.
