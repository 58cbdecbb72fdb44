------------------------------ MODULE Minimize ------------------------------
(***************************************************************************)
(* dfa_minimize (dfa_minimize.c): Hopcroft's partition refinement on the   *)
(* automaton dfa_build left, completed by a dead state, over an alphabet   *)
(* in which each character class appears twice: as a byte that more text   *)
(* follows and as the last byte.  A step pops one splitter, splits one     *)
(* block, or rebuilds the automaton from the blocks.                       *)
(*                                                                         *)
(* A block is queued with all the symbols at once; their order among       *)
(* themselves is abstracted to a fixed one.  `present' of the code, which  *)
(* says what is queued, is Queued here.                                    *)
(***************************************************************************)
EXTENDS Dfa, SequencesExt

VARIABLES
  blockOf, blockSize, blockCount,  \* the partition
  work,      \* the work list, a queue of <<block, symbol>>
  preimage,  \* the states the popped splitter's symbol takes into its block
  todo       \* the blocks that remain to be compared with preimage

partition == <<blockOf, blockSize, blockCount>>
minimizeVars == <<partition, work, preimage, todo>>

Dead == dfa.len
Total == 0 .. dfa.len

\* A symbol is a class, by its representative, and whether the byte is last.
Symbols == Classes[re] \X BOOLEAN

\* transition_target
Goes(q, symbol) ==
  LET to == IF q = Dead THEN None ELSE Step(dfa, q, symbol[1], symbol[2])
  IN  IF to = None THEN Dead ELSE to

\* worklist_push of one block for each symbol.  None of the pairs is queued
\* already: its block is new, or was found not to be queued.
Order == [r \in Regex |-> SetToSeq(Classes[r] \X BOOLEAN)]
ForEachSymbol(chosen) ==
  [i \in DOMAIN Order[re] |-> <<chosen[Order[re][i]], Order[re][i]>>]
Queued == ToSet(work)

Hits(b) == {q \in preimage : blockOf[q] = b}

MinimizeInit ==
  /\ blockOf = <<>> /\ blockSize = <<>> /\ blockCount = 0
  /\ work = <<>> /\ preimage = {} /\ todo = {}

-----------------------------------------------------------------------------
\* Mutant: the dead state is put with the accepting ones.
PartitionDead ==
  LET accepting == {q \in DfaStates : dfa.states[q].accept}
      block == [q \in Total |->
                  IF accepting = {} \/ q \in accepting \cup {Dead} THEN 0 ELSE 1]
      size == [b \in Total |-> Cardinality({q \in Total : block[q] = b})]
      initial == IF accepting # {} /\ size[1] < size[0] THEN 1 ELSE 0
  IN  /\ pc = "minimize"
      /\ blockOf' = block
      /\ blockSize' = size
      /\ blockCount' = IF accepting = {} THEN 1 ELSE 2
      /\ work' = ForEachSymbol([a \in Symbols |-> initial])
      /\ pc' = "refine"
      /\ UNCHANGED <<re, dfa, rc, preimage, todo>>

\* initialize_partitions, and the first splitters: the smaller of the two
\* blocks with every symbol.
Partition ==
  LET accepting == {q \in DfaStates : dfa.states[q].accept}
      block == [q \in Total |->
                  IF accepting = {} \/ q \in accepting THEN 0 ELSE 1]
      size == [b \in Total |-> Cardinality({q \in Total : block[q] = b})]
      initial == IF accepting # {} /\ size[1] < size[0] THEN 1 ELSE 0
  IN  /\ pc = "minimize"
      /\ blockOf' = block
      /\ blockSize' = size
      /\ blockCount' = IF accepting = {} THEN 1 ELSE 2
      /\ work' = ForEachSymbol([a \in Symbols |-> initial])
      /\ pc' = "refine"
      /\ UNCHANGED <<re, dfa, rc, preimage, todo>>

\* Mutant: the head of the work list is not advanced.
PopKeeps ==
  /\ pc = "refine" /\ work # <<>>
  /\ preimage' = {q \in Total :
                   blockOf[Goes(q, Head(work)[2])] = Head(work)[1]}
  /\ todo' = 0 .. blockCount - 1
  /\ pc' = "split"
  /\ UNCHANGED <<re, dfa, rc, partition, work>>

\* worklist_pop, and the states that the splitter's symbol takes into it.
Pop ==
  /\ pc = "refine" /\ work # <<>>
  /\ work' = Tail(work)
  /\ preimage' = {q \in Total :
                   blockOf[Goes(q, Head(work)[2])] = Head(work)[1]}
  /\ todo' = 0 .. blockCount - 1
  /\ pc' = "split"
  /\ UNCHANGED <<re, dfa, rc, partition>>

\* Part of the block is in the preimage.
Cut(b) == Hits(b) # {} /\ Cardinality(Hits(b)) # blockSize[b]

\* Mutant: the old block keeps its size.
SizesStale(b) == [blockSize EXCEPT ![blockCount] = Cardinality(Hits(b))]

\* The sizes once the hits of block b are a block of their own.
Sizes(b) ==
  [blockSize EXCEPT ![blockCount] = Cardinality(Hits(b)),
                    ![b] = @ - Cardinality(Hits(b))]

\* Mutant: the smaller half, also where b is queued.
HalfSmaller(b, a) ==
  IF Sizes(b)[blockCount] < Sizes(b)[b] THEN blockCount ELSE b

\* Which half of block b to queue with symbol a: where b is queued already its
\* new part joins it, otherwise the smaller of the two is enough.
Half(b, a) ==
  IF <<b, a>> \in Queued \/ Sizes(b)[blockCount] < Sizes(b)[b]
    THEN blockCount
    ELSE b

\* The part of block b that is in the preimage becomes a block of its own.
Split(b) ==
  /\ pc = "split"
  /\ b \in todo /\ Cut(b) /\ \A c \in todo : Cut(c) => b <= c
  /\ blockOf' = [q \in Total |-> IF q \in Hits(b) THEN blockCount ELSE blockOf[q]]
  /\ blockSize' = Sizes(b)
  /\ blockCount' = blockCount + 1
  /\ work' = work \o ForEachSymbol([a \in Symbols |-> Half(b, a)])
  /\ todo' = {c \in todo : c > b}
  /\ UNCHANGED <<re, dfa, pc, rc, preimage>>

SplitterDone ==
  /\ pc = "split"
  /\ \A b \in todo : ~ Cut(b)
  /\ pc' = "refine"
  /\ preimage' = {} /\ todo' = {}
  /\ UNCHANGED <<re, dfa, rc, partition, work>>

Refined ==
  /\ pc = "refine" /\ work = <<>>
  /\ pc' = "rebuild"
  /\ UNCHANGED <<re, dfa, rc, partition, work, preimage, todo>>

-----------------------------------------------------------------------------
\* The representative of a block is its first state, and the new states are
\* numbered in the order of the representatives.
Block(b) == {q \in DfaStates : blockOf[q] = b}
Leader(q) == Min(Block(blockOf[q]))
Leaders == {Leader(q) : q \in DfaStates}
Number(q) == Cardinality({s \in Leaders : s < q})

\* Mutants: a missing transition becomes one to state 0; the representative is
\* taken for its number.
NewStateOfNone(q) == IF q = None THEN 0 ELSE Number(Leader(q))
NewStateUnnumbered(q) == IF q = None THEN None ELSE Leader(q)

NewState(q) == IF q = None THEN None ELSE Number(Leader(q))

Rebuilt ==
  [len    |-> Cardinality(Leaders),
   states |->
     [k \in 0 .. Cardinality(Leaders) - 1 |->
        LET old == CHOOSE q \in Leaders : Number(q) = k
            block == Block(blockOf[old])
        IN  [set    |-> UNION {dfa.states[q].set : q \in block},
             accept |-> dfa.states[Max(block)].accept,
             trans  |-> [c \in Byte |-> NewState(dfa.states[old].trans[c])],
             final  |-> [c \in Byte |-> NewState(dfa.states[old].final[c])]]],
   starts |-> [c \in Contexts |-> NewState(dfa.starts[c])]]

\* rebuild_dfa.  Without two states in one block the code leaves the automaton
\* as it is; Rebuilt is the same automaton then.
Rebuild ==
  /\ pc = "rebuild"
  /\ dfa' = Rebuilt
  /\ pc' = "minimized"
  /\ blockOf' = <<>> /\ blockSize' = <<>> /\ blockCount' = 0
  /\ UNCHANGED <<re, rc, work, preimage, todo>>

\* The arrays at the start, the work list when it grows, the new states.
MinimizeOutOfMemory ==
  /\ \/ pc \in {"minimize", "rebuild"}
     \/ pc = "split" /\ \E b \in todo : Cut(b)
  /\ pc' = "failed" /\ rc' = "ESPACE"
  /\ UNCHANGED <<re, dfa, partition, work, preimage, todo>>

MinimizeNext ==
  \/ Partition
  \/ Pop
  \/ \E b \in todo : Split(b)
  \/ SplitterDone
  \/ Refined
  \/ Rebuild
  \/ MinimizeOutOfMemory

-----------------------------------------------------------------------------
Refining == pc \in {"refine", "split", "rebuild"}

\* The counters agree with the partition whatever was split before: a stale
\* block_size would skip a split or queue the wrong half.  No block is empty,
\* so that the arrays of len+1 entries hold all the blocks.
SizesAreExact ==
  Refining =>
    /\ blockCount <= Cardinality(Total)
    /\ \A q \in Total : blockOf[q] \in 0 .. blockCount - 1
    /\ \A b \in 0 .. blockCount - 1 :
         /\ blockSize[b] = Cardinality({q \in Total : blockOf[q] = b})
         /\ blockSize[b] > 0

\* No splitter is forgotten, although of two halves only the smaller one is
\* queued: while two states of a block go to different blocks with some
\* symbol, one of those is queued with it, or the splitter at work is about
\* to separate the two states.
NothingForgotten ==
  Refining =>
    \A a \in Symbols : \A q, s \in Total :
      LET to == blockOf[Goes(q, a)]
          ts == blockOf[Goes(s, a)]
      IN  blockOf[q] = blockOf[s] /\ to # ts =>
            \/ <<to, a>> \in Queued \/ <<ts, a>> \in Queued
            \/ /\ pc = "split" /\ blockOf[q] \in todo
               /\ (q \in preimage) # (s \in preimage)

\* The pairs of states some sequence of symbols tells apart.
Apart ==
  LET accepts(q) == q # Dead /\ dfa.states[q].accept
      to == [a \in Symbols |-> [q \in Total |-> Goes(q, a)]]
      grow[D \in SUBSET (Total \X Total)] ==
        LET more == D \cup {e \in Total \X Total : \E a \in Symbols :
                              <<to[a][e[1]], to[a][e[2]]>> \in D}
        IN  IF more = D THEN D ELSE grow[more]
  IN  grow[{e \in Total \X Total : accepts(e[1]) # accepts(e[2])}]

\* Refinement separates only states that some sequence of symbols tells apart,
\* and the rebuilt automaton has no state too many: any two of them are.
SplitsAreNeeded ==
  /\ Refining =>
       {e \in Total \X Total : blockOf[e[1]] # blockOf[e[2]]} \subseteq Apart
  /\ pc = "minimized" =>
       {e \in DfaStates \X DfaStates : e[1] # e[2]} \subseteq Apart

\* The rebuilt automaton still accepts where the Thompson automaton does: the
\* states that were merged accept the same texts, one byte at a time.
MinimizedRepresents == pc = "minimized" => IsDfa(dfa) /\ Represents(dfa, re)

\* The pairs of states some text tells apart: a `final' transition is the last
\* step of a text, so that only whether it leads to an accepting state counts.
ApartByText ==
  LET accepts(q) == q # None /\ dfa.states[q].accept
      grow[D \in SUBSET (DfaStates \X DfaStates)] ==
        LET more == D \cup {e \in DfaStates \X DfaStates : \E b \in Byte :
                      LET to == dfa.states[e[1]].trans[b]
                          ts == dfa.states[e[2]].trans[b]
                      IN  (to = None) # (ts = None) \/ <<to, ts>> \in D}
        IN  IF more = D THEN D ELSE grow[more]
  IN  grow[{e \in DfaStates \X DfaStates :
              \/ accepts(e[1]) # accepts(e[2])
              \/ \E b \in Byte : accepts(dfa.states[e[1]].final[b]) #
                                 accepts(dfa.states[e[2]].final[b])}]

\* README.md: minimization merges equivalent states.
EquivalentStatesMerged ==
  pc = "minimized" =>
    {e \in DfaStates \X DfaStates : e[1] # e[2]} \subseteq ApartByText
=============================================================================
