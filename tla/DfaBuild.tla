------------------------------ MODULE DfaBuild ------------------------------
(***************************************************************************)
(* dfa_build (dfa.c): the subset construction.  First the start states of  *)
(* the four contexts, then, state by state and class by class, the two     *)
(* transitions of the class; every set that comes up is looked up in a     *)
(* hash table and becomes a new state if it is not there.  A step resolves *)
(* one set.  The construction gives up when it needs more than StateLimit  *)
(* states or an allocation fails; regex_compile_ex then frees everything.  *)
(*                                                                         *)
(* A bucket is a chain that threads through the states, the latest first.  *)
(* The hash function is any function of the set, and any allocation may    *)
(* fail.                                                                   *)
(***************************************************************************)
EXTENDS Dfa

CONSTANTS
  StateLimit,  \* RX_DFA_STATE_LIMIT, 4096 in the code
  Buckets,     \* the buckets of the table, 8192 in the code
  Hash(_)      \* dfa_set_hash: the bucket of a set of states

ASSUME DfaBuildAssumption ==
  /\ StateLimit \in Nat \ {0}
  /\ \A r \in Regex : \A S \in SUBSET State(Nfa[r]) : Hash(S) \in Buckets

VARIABLES
  table,    \* the hash table: `buckets', the state entered last in each
            \* bucket, and `next', for every state the one entered before it
  context,  \* the next start context
  current,  \* the state being explored,
  class,      \* the class explored, by its representative,
  last      \* and whether its final transition is due

buildVars == <<re, dfa, pc, rc, table, context, current, class, last>>

NoTransitions == [b \in Byte |-> None]

EmptyTable == [buckets |-> [h \in Buckets |-> None], next |-> <<>>]

BuildInit ==
  /\ re \in Regex
  /\ dfa = [len |-> 0, states |-> <<>>, starts |-> [c \in Contexts |-> None]]
  /\ pc = "start" /\ rc = "RUN"
  /\ table = EmptyTable
  /\ context = 0
  /\ current = 0 /\ class = 0 /\ last = FALSE

-----------------------------------------------------------------------------
\* Mutant: the closure after a byte is taken as if the text went on.
AfterMiddle(n, T, b, atEnd) == Closure(n, Move(n, T, b), FALSE, FALSE)

\* A start state, or a byte and a closure further (move_and_close).
First(n, atBegin, atEnd) == Closure(n, {n.start}, atBegin, atEnd)
After(n, T, b, atEnd) == Closure(n, Move(n, T, b), FALSE, atEnd)

\* The set the construction has come to.
Target ==
  IF pc = "start"
    THEN First(nfa, AtBegin(context), AtEnd(context))
    ELSE After(nfa, dfa.states[current].set, class, last)

Resolving == pc = "start" \/ (pc = "explore" /\ current < dfa.len)

\* The states on the chain of bucket h, along hash_next.
ChainOf(h) ==
  LET from[q \in None .. dfa.len - 1] ==
        IF q = None THEN {} ELSE {q} \cup from[table.next[q]]
  IN  from[table.buckets[h]]

\* dfa_find_state: the states of the bucket that stand for exactly this set.
Find(T) == {q \in ChainOf(Hash(T)) : dfa.states[q].set = T}

\* Mutant: a new head of a chain does not lead on to the old one.
LinkedAlone(q, h) ==
  [buckets |-> [table.buckets EXCEPT ![h] = q],
   next |-> [s \in 0 .. q |-> IF s = q THEN None ELSE table.next[s]]]

\* dfa_add_state enters the new state q at the head of bucket h.
Linked(q, h) ==
  [buckets |-> [table.buckets EXCEPT ![h] = q],
   next |-> [s \in 0 .. q |->
               IF s = q THEN table.buckets[h] ELSE table.next[s]]]

\* The new state dfa_add_state appends.
Extended(d, T) ==
  [d EXCEPT !.len = d.len + 1,
            !.states = [q \in 0 .. d.len |->
              IF q < d.len THEN d.states[q]
              ELSE [set |-> T, accept |-> nfa.accept \in T,
                    trans |-> NoTransitions, final |-> NoTransitions]]]

\* Mutant: only the representative gets the target.
OfRepresentative(row, q) == [row EXCEPT ![class] = q]

\* set_class_transition: the whole class gets the target q.
OfClass(row, q) ==
  [b \in Byte |-> IF ClassOf[re][b] = class THEN q ELSE row[b]]

\* q is the state the set was resolved to.
Resolved(d, q) ==
  IF pc = "start" THEN [d EXCEPT !.starts[context] = q]
  ELSE IF last THEN [d EXCEPT !.states[current].final = OfClass(@, q)]
               ELSE [d EXCEPT !.states[current].trans = OfClass(@, q)]

\* On to the next set: contexts, then states, classes, the two transitions.
Advance ==
  LET later == {c \in Classes[re] : c > class} IN
  IF pc = "start"
    THEN /\ context' = context + 1
         /\ pc' = IF context = 3 THEN "explore" ELSE "start"
         /\ UNCHANGED <<current, class, last>>
    ELSE /\ last' = ~ last
         /\ class' = IF ~ last THEN class
                   ELSE IF later = {} THEN 0
                   ELSE CHOOSE c \in later : \A d \in later : c <= d
         /\ current' = IF last /\ later = {} THEN current + 1 ELSE current
         /\ UNCHANGED <<pc, context>>

-----------------------------------------------------------------------------
\* The empty set is no state.
ResolveEmpty ==
  /\ Resolving
  /\ Target = {}
  /\ dfa' = Resolved(dfa, None)
  /\ Advance
  /\ UNCHANGED <<re, rc, table>>

ResolveKnown ==
  /\ Resolving
  /\ Target # {}
  /\ \E q \in Find(Target) : dfa' = Resolved(dfa, q)
  /\ Advance
  /\ UNCHANGED <<re, rc, table>>

ResolveNew ==
  /\ Resolving
  /\ Target # {} /\ Find(Target) = {}
  /\ dfa.len < StateLimit
  /\ dfa' = Resolved(Extended(dfa, Target), dfa.len)
  /\ table' = Linked(dfa.len, Hash(Target))
  /\ Advance
  /\ UNCHANGED <<re, rc>>

\* Mutant: the limit is checked before the table is searched.
LimitFirst ==
  /\ Resolving
  /\ Target # {}
  /\ dfa.len >= StateLimit
  /\ pc' = "failed" /\ rc' = "EUNSUPPORTED"
  /\ UNCHANGED <<re, dfa, table, context, current, class, last>>

\* dfa_add_state finds the table full.
LimitReached ==
  /\ Resolving
  /\ Target # {} /\ Find(Target) = {}
  /\ dfa.len >= StateLimit
  /\ pc' = "failed" /\ rc' = "EUNSUPPORTED"
  /\ UNCHANGED <<re, dfa, table, context, current, class, last>>

\* Every closure allocates a queue, except that of the empty set; a new state
\* allocates its set.  (The first closure stands for the table as well.)
BuildOutOfMemory ==
  /\ Resolving
  /\ Target # {}
  /\ pc' = "failed" /\ rc' = "ESPACE"
  /\ UNCHANGED <<re, dfa, table, context, current, class, last>>

Explored ==
  /\ pc = "explore" /\ current = dfa.len
  /\ pc' = "minimize"
  /\ table' = EmptyTable
  /\ UNCHANGED <<re, dfa, rc, context, current, class, last>>

BuildNext ==
  \/ ResolveEmpty
  \/ ResolveKnown
  \/ ResolveNew
  \/ LimitReached
  \/ BuildOutOfMemory
  \/ Explored

BuildSpec == BuildInit /\ [][BuildNext]_buildVars

-----------------------------------------------------------------------------
Sets == {dfa.states[q].set : q \in DfaStates}

\* The transitions of state q on the bytes of class c that have been stored.
FinalStored(q, c) == q < current \/ (q = current /\ c < class)
TransStored(q, c) == FinalStored(q, c) \/ (q = current /\ c = class /\ last)

\* q stands for the set T.
StandsFor(q, T) ==
  IF T = {} THEN q = None
  ELSE q \in DfaStates /\ dfa.states[q].set = T

\* No two states stand for the same set, whatever the hash function, and the
\* chain of a bucket passes through all states whose sets have its hash and
\* through no other: what dfa_add_state enters at the head of a chain is found
\* again by dfa_find_state, and so is all that was entered there before.
OneStatePerSet ==
  pc \in {"start", "explore"} =>
  /\ \A q, s \in DfaStates :
       dfa.states[q].set = dfa.states[s].set => q = s
  /\ \A h \in Buckets :
       ChainOf(h) = {q \in DfaStates : Hash(dfa.states[q].set) = h}
  /\ dfa.len <= StateLimit

\* What has been stored so far is right: for every byte, not only for the
\* representative of its class, a transition leads to the state that stands
\* for the moved and closed set, and a start state for its closure.
TransitionsFollowSets ==
  pc \in {"start", "explore"} =>
    /\ \A c \in Contexts : (pc = "explore" \/ c < context) =>
         StandsFor(dfa.starts[c], First(nfa, AtBegin(c), AtEnd(c)))
    /\ \A q \in DfaStates : \A b \in Byte :
         LET T == dfa.states[q].set
             c == ClassOf[re][b]
         IN  /\ TransStored(q, c) =>
                  StandsFor(dfa.states[q].trans[b], After(nfa, T, b, FALSE))
             /\ FinalStored(q, c) =>
                  StandsFor(dfa.states[q].final[b], After(nfa, T, b, TRUE))

\* The non-empty sets any text leads to, in any context.
Subsets(r) ==
  LET n == Nfa[r]
      grow[F \in SUBSET SUBSET State(n)] ==
        LET more == F \cup {After(n, T, b, atEnd) :
                            T \in F, b \in Byte, atEnd \in BOOLEAN}
        IN  IF more = F THEN F ELSE grow[more]
  IN  grow[{First(n, AtBegin(c), AtEnd(c)) : c \in Contexts}] \ {{}}

\* Only sets that some text leads to become states, all of them do when the
\* construction succeeds, and RX_EUNSUPPORTED is returned only if they are
\* really more than the limit.
StatesAreReachable ==
  /\ pc \in {"start", "explore"} => Sets \subseteq Subsets(re)
  /\ pc = "minimize" => Sets = Subsets(re)
  /\ rc = "EUNSUPPORTED" => Cardinality(Subsets(re)) > StateLimit

\* dfa_build succeeds only with an automaton that accepts where the Thompson
\* automaton does, in every context, and that has all its start states.
BuiltRepresents == pc = "minimize" => IsDfa(dfa) /\ Represents(dfa, re)
=============================================================================
