--------------------------- MODULE DfaEngineProofs ---------------------------
(***************************************************************************)
(* What the DFA engine promises, from the construction to the end of a     *)
(* call.                                                                   *)
(*                                                                         *)
(* dfa_build leaves an automaton that represents the expression: for every *)
(* Thompson automaton, every alphabet, every hash function and every state *)
(* limit.  The inductive invariant says of each transition stored so far   *)
(* that it leads to the state which stands for the moved and closed set;   *)
(* when all are stored, a walk through the automaton stands, position by   *)
(* position, for the states that are alive.                                *)
(*                                                                         *)
(* dfa_run_from keeps its promise on every automaton that represents the   *)
(* expression, for every text and every start.                             *)
(*                                                                         *)
(* dfa_minimize: while the partition is refined, two states of a block     *)
(* that some symbol takes to different blocks have one of those queued     *)
(* with that symbol, or are about to be separated.  So when the work list  *)
(* is empty the blocks agree on where every symbol leads, and a walk of    *)
(* the rebuilt automaton is, position by position, in the block of the old *)
(* one's.                                                                  *)
(*                                                                         *)
(* dfa_dump_dot: a label names the bytes of its class, and a reader of the *)
(* graph goes where the automaton goes, because a state that dies of the   *)
(* last byte of a text dies of the same byte before its end.               *)
(***************************************************************************)
EXTENDS DfaEngine, Dot, AutomatonProofs

-----------------------------------------------------------------------------
(* Walks: the equation that defines them, their type, and that they never  *)
(* come back from None.                                                    *)

WalkFirst(d, t, s) == d.starts[Context(s = 0, s = Len(t))]

\* f obeys the equation of Walk up to position m.
Walks(d, t, s, f, m) ==
  f = [p \in s .. m |->
         IF p = s THEN WalkFirst(d, t, s) ELSE Step(d, f[p - 1], t[p], p = Len(t))]

\* A walk can go on by one byte.
LEMMA WalksExtend ==
  ASSUME NEW d, NEW t, NEW s \in Nat, NEW m \in Nat, s <= m,
         NEW f, Walks(d, t, s, f, m)
  PROVE  \E g : Walks(d, t, s, g, m + 1)
<1> DEFINE St(q, p) == Step(d, q, t[p], p = Len(t))
           g == [p \in s .. m + 1 |-> IF p = m + 1 THEN St(f[m], m + 1) ELSE f[p]]
<1>0. f = [p \in s .. m |-> IF p = s THEN WalkFirst(d, t, s) ELSE St(f[p - 1], p)]
  BY Zenon DEF Walks
<1> HIDE DEF St
<1>1. ASSUME NEW p \in s .. m + 1
      PROVE  g[p] = IF p = s THEN WalkFirst(d, t, s) ELSE St(g[p - 1], p)
  <2>1. CASE p = m + 1
    <3>1. p # s /\ p - 1 = m /\ m \in s .. m + 1 /\ m # m + 1
      BY <2>1
    <3>2. g[p - 1] = f[m]
      BY <3>1
    <3> QED
      BY <2>1, <3>1, <3>2
  <2>2. CASE p = s
    <3>1. p \in s .. m /\ p # m + 1
      BY <2>2
    <3>2. g[p] = f[p]
      BY <3>1
    <3> QED
      BY <2>2, <3>1, <3>2, <1>0
  <2>3. CASE p # s /\ p # m + 1
    <3>1. p \in s .. m /\ p - 1 \in s .. m /\ p - 1 \in s .. m + 1 /\ p - 1 # m + 1
      BY <2>3
    <3>2. g[p] = f[p] /\ g[p - 1] = f[p - 1]
      BY <3>1, <2>3
    <3> QED
      BY <2>3, <3>1, <3>2, <1>0
  <2> QED
    BY <2>1, <2>2, <2>3
<1>2. g = [p \in s .. m + 1 |->
             IF p = s THEN WalkFirst(d, t, s) ELSE St(g[p - 1], p)]
  BY <1>1
<1>3. Walks(d, t, s, g, m + 1)
  <2> HIDE DEF g
  <2> QED BY <1>2, Zenon DEF Walks, St
<1> QED
  BY <1>3

\* There is a walk of any length.
LEMMA WalksExist ==
  ASSUME NEW d, NEW t, NEW s \in Nat, NEW m \in Nat, s <= m
  PROVE  \E f : Walks(d, t, s, f, m)
<1> DEFINE Good == {k \in Nat : \E f : Walks(d, t, s, f, s + k)}
<1>1. 0 \in Good
  <2>0. \A p \in s .. s : p = s
    OBVIOUS
  <2>1. Walks(d, t, s, [p \in s .. s |-> WalkFirst(d, t, s)], s)
    BY <2>0 DEF Walks
  <2>2. s + 0 = s
    OBVIOUS
  <2> QED
    BY <2>1, <2>2
<1>2. ASSUME NEW k \in Nat, k \in Good PROVE k + 1 \in Good
  <2>1. PICK f : Walks(d, t, s, f, s + k)
    BY <1>2
  <2>2. s + k \in Nat /\ s <= s + k /\ (s + k) + 1 = s + (k + 1)
    OBVIOUS
  <2>3. \E g : Walks(d, t, s, g, (s + k) + 1)
    BY <2>1, <2>2, WalksExtend
  <2> QED
    BY <2>2, <2>3
<1>3. m - s \in Good
  <2> HIDE DEF Good
  <2> QED BY <1>1, <1>2, NatSetInduction
<1>4. s + (m - s) = m
  OBVIOUS
<1> QED
  BY <1>3, <1>4

\* The state at a position follows from the state one byte before.
LEMMA WalkEquation ==
  ASSUME NEW d, NEW t \in Seq(Byte), NEW s \in 0 .. Len(t)
  PROVE  /\ Walk(d, t, s)[s] = WalkFirst(d, t, s)
         /\ \A p \in s + 1 .. Len(t) :
              Walk(d, t, s)[p] = Step(d, Walk(d, t, s)[p - 1], t[p], p = Len(t))
<1> DEFINE f == CHOOSE f : Walks(d, t, s, f, Len(t))
           St(q, p) == Step(d, q, t[p], p = Len(t))
<1>1. Len(t) \in Nat /\ s \in Nat /\ s <= Len(t)
  OBVIOUS
<1>2. \E g : Walks(d, t, s, g, Len(t))
  BY <1>1, WalksExist
<1>3. Walks(d, t, s, f, Len(t))
  BY <1>2, Zenon
<1>4. Walk(d, t, s) = f
  BY Zenon DEF Walk, Walks, WalkFirst
<1> HIDE DEF f
<1>5. f = [p \in s .. Len(t) |->
             IF p = s THEN WalkFirst(d, t, s) ELSE St(f[p - 1], p)]
  BY <1>3, Zenon DEF Walks
<1>6. f[s] = WalkFirst(d, t, s) /\ \A p \in s + 1 .. Len(t) : f[p] = St(f[p - 1], p)
  <2> HIDE DEF St
  <2> QED BY <1>1, <1>5
<1> QED
  BY <1>4, <1>6, Zenon

\* One byte leads to a state or nowhere.
LEMMA StepType ==
  ASSUME NEW d, IsDfa(d), NEW q \in None .. d.len - 1, NEW b \in Byte, NEW e
  PROVE  Step(d, q, b, e) \in None .. d.len - 1
<1>1. CASE q = None
  BY <1>1 DEF Step, IsDfa, None
<1>2. CASE q # None
  BY <1>2 DEF Step, IsDfa, None
<1> QED
  BY <1>1, <1>2

\* A context is one of the four.
LEMMA ContextType == \A b, e : Context(b, e) \in Contexts
BY DEF Context, Contexts

\* A walk runs through states until it ends.
LEMMA WalkType ==
  ASSUME NEW d, IsDfa(d), NEW t \in Seq(Byte), NEW s \in 0 .. Len(t),
         NEW p \in s .. Len(t)
  PROVE  Walk(d, t, s)[p] \in None .. d.len - 1
<1> DEFINE W == Walk(d, t, s)
           Good == {k \in Nat : s + k <= Len(t) => W[s + k] \in None .. d.len - 1}
<1>1. 0 \in Good
  <2>1. W[s] = WalkFirst(d, t, s) /\ s + 0 = s
    BY WalkEquation
  <2>2. WalkFirst(d, t, s) \in 0 .. d.len - 1
    BY ContextType, Zenon DEF WalkFirst, IsDfa
  <2> HIDE DEF W
  <2> QED
    BY <2>1, <2>2 DEF IsDfa, None
<1>2. ASSUME NEW k \in Nat, k \in Good PROVE k + 1 \in Good
  <2> SUFFICES ASSUME s + (k + 1) <= Len(t) PROVE W[s + (k + 1)] \in None .. d.len - 1
    OBVIOUS
  <2> DEFINE i == s + (k + 1)
             e == i = Len(t)
  <2>1. i \in s + 1 .. Len(t) /\ i - 1 = s + k /\ i \in DOMAIN t
    OBVIOUS
  <2>2. W[i] = Step(d, W[i - 1], t[i], e)
    BY <2>1, WalkEquation, Zenon
  <2>3. W[i - 1] \in None .. d.len - 1 /\ t[i] \in Byte
    BY <1>2, <2>1
  <2> HIDE DEF W, e, i
  <2>4. W[i] \in None .. d.len - 1
    BY <2>2, <2>3, StepType
  <2> QED
    BY <2>4 DEF i
<1>3. p - s \in Good
  <2> HIDE DEF Good
  <2> QED BY <1>1, <1>2, NatSetInduction
<1> QED
  BY <1>3

\* A walk that has ended does not start again.
LEMMA WalkDead ==
  ASSUME NEW d, NEW t \in Seq(Byte), NEW s \in 0 .. Len(t),
         NEW p \in s .. Len(t), Walk(d, t, s)[p] = None, NEW q \in p .. Len(t)
  PROVE  Walk(d, t, s)[q] = None
<1> DEFINE W == Walk(d, t, s)
           Good == {k \in Nat : p + k <= Len(t) => W[p + k] = None}
<1>1. 0 \in Good
  OBVIOUS
<1>2. ASSUME NEW k \in Nat, k \in Good PROVE k + 1 \in Good
  <2> SUFFICES ASSUME p + (k + 1) <= Len(t) PROVE W[p + (k + 1)] = None
    OBVIOUS
  <2> DEFINE i == p + (k + 1)
             e == i = Len(t)
  <2>1. i \in s + 1 .. Len(t) /\ i - 1 = p + k
    OBVIOUS
  <2>2. W[i] = Step(d, W[i - 1], t[i], e)
    BY <2>1, WalkEquation, Zenon
  <2>3. W[i - 1] = None
    BY <1>2, <2>1
  <2> QED
    BY <2>2, <2>3 DEF Step
<1>3. q - p \in Good
  <2> HIDE DEF Good
  <2> QED BY <1>1, <1>2, NatSetInduction
<1> QED
  BY <1>3

-----------------------------------------------------------------------------
(* Character classes. *)

\* A byte is equivalent to the first byte of its class.
LEMMA ClassFacts ==
  ASSUME NEW r \in Regex, NEW b \in Byte
  PROVE  /\ ClassOf[r][b] \in Byte /\ ClassOf[r][b] \in 0 .. b
         /\ Equivalent(Nfa[r], b, ClassOf[r][b])
<1> DEFINE E == {c \in 0 .. b : Equivalent(Nfa[r], b, c)}
           IsFirst(c) == /\ Equivalent(Nfa[r], b, c)
                         /\ \A d \in 0 .. c - 1 : ~ Equivalent(Nfa[r], b, d)
<1>1. b \in Nat /\ 0 .. b \subseteq Byte
  BY AutomatonAssumption DEF Byte
<1>2. b \in E /\ E \in SUBSET Nat
  BY <1>1 DEF Equivalent
<1>3. PICK c \in E : \A d \in E : c <= d
  <2> HIDE DEF E
  <2> QED BY <1>2, NatLeast
<1>4. \A d \in 0 .. c - 1 : d \in 0 .. b /\ ~ c <= d
  BY <1>1
<1>5. c \in 0 .. b /\ IsFirst(c)
  BY <1>3, <1>4
<1>6. ClassOf[r][b] = CHOOSE x \in 0 .. b : IsFirst(x)
  BY Zenon DEF ClassOf
<1> HIDE DEF IsFirst
<1>7. ClassOf[r][b] \in 0 .. b /\ IsFirst(ClassOf[r][b])
  BY <1>5, <1>6, Zenon
<1> QED
  BY <1>1, <1>7 DEF IsFirst

\* Equivalent bytes lead to the same states.
LEMMA EquivalentMoves ==
  ASSUME NEW n, NEW T \in SUBSET State(n), NEW b, NEW c, Equivalent(n, b, c)
  PROVE  Move(n, T, b) = Move(n, T, c)
<1>1. \A q \in T : ByteTargets(n, q, b) = ByteTargets(n, q, c)
  BY DEF ByteTargets, Consumes, Equivalent
<1> QED
  BY <1>1, Zenon DEF Move

-----------------------------------------------------------------------------
(* The invariant. *)

StateRecord(n, len) ==
  [set    : (SUBSET State(n)) \ {{}},
   accept : BOOLEAN,
   trans  : [Byte -> None .. len - 1],
   final  : [Byte -> None .. len - 1]]

\* The shape of the automaton under construction.
Shape(n, d) ==
  /\ d = [len |-> d.len, states |-> d.states, starts |-> d.starts]
  /\ d.len \in Nat
  /\ d.states \in [0 .. d.len - 1 -> StateRecord(n, d.len)]
  /\ d.starts \in [Contexts -> None .. d.len - 1]
  /\ \A q \in 0 .. d.len - 1 :
       d.states[q].accept <=> n.accept \in d.states[q].set

\* No two states stand for one set.
Distinct(d) ==
  \A q, s \in 0 .. d.len - 1 : d.states[q].set = d.states[s].set => q = s

\* p is the last state before q whose set belongs to bucket h, or None.
LastIn(d, h, p, q) ==
  /\ p = None \/ (p \in 0 .. q - 1 /\ Hash(d.states[p].set) = h)
  /\ \A s \in 0 .. q - 1 : Hash(d.states[s].set) = h => s <= p

\* Every bucket leads to its last state, and every state to the last one before
\* it in its bucket.
Entered(d, t) ==
  /\ t.buckets \in [Buckets -> None .. d.len - 1]
  /\ t.next \in [0 .. d.len - 1 -> None .. d.len - 1]
  /\ \A h \in Buckets : LastIn(d, h, t.buckets[h], d.len)
  /\ \A q \in 0 .. d.len - 1 : LastIn(d, Hash(d.states[q].set), t.next[q], q)

\* StandsFor in the automaton d.
Stands(d, q, T) ==
  IF T = {} THEN q = None ELSE q \in 0 .. d.len - 1 /\ d.states[q].set = T

\* The transition on byte b, before more text and before the end.
Moves(n, d, q, b) ==
  Stands(d, d.states[q].trans[b], After(n, d.states[q].set, b, FALSE))
Finishes(n, d, q, b) ==
  Stands(d, d.states[q].final[b], After(n, d.states[q].set, b, TRUE))

Begins(n, d, c) == Stands(d, d.starts[c], First(n, AtBegin(c), AtEnd(c)))

BuildOK ==
  /\ re \in Regex /\ pc \in {"start", "explore", "minimize", "failed"}
  /\ Shape(nfa, dfa)
  /\ pc = "start" =>
       context \in Contexts /\ current = 0 /\ class = 0 /\ last = FALSE
  /\ pc = "explore" =>
       current \in 0 .. dfa.len /\ class \in Classes[re] /\ last \in BOOLEAN
  /\ pc \in {"start", "explore"} =>
       Distinct(dfa) /\ Entered(dfa, table) /\ dfa.len <= StateLimit

Correct ==
  /\ pc = "start" => \A c \in 0 .. context - 1 : Begins(nfa, dfa, c)
  /\ pc = "explore" =>
       /\ \A c \in Contexts : Begins(nfa, dfa, c)
       /\ \A q \in DfaStates : \A b \in Byte :
            /\ TransStored(q, ClassOf[re][b]) => Moves(nfa, dfa, q, b)
            /\ FinalStored(q, ClassOf[re][b]) => Finishes(nfa, dfa, q, b)
  /\ pc = "minimize" =>
       /\ \A c \in Contexts : Begins(nfa, dfa, c)
       /\ \A q \in DfaStates : \A b \in Byte : Moves(nfa, dfa, q, b) /\ Finishes(nfa, dfa, q, b)

BuildInv == BuildOK /\ Correct

\* Nothing is stored yet.
LEMMA BuildInvInit == BuildInit => BuildInv
<1> SUFFICES ASSUME BuildInit PROVE BuildInv
  OBVIOUS
<1>1. dfa.len = 0 /\ dfa.states = <<>> /\ dfa.starts = [c \in Contexts |-> None]
      /\ dfa = [len |-> dfa.len, states |-> dfa.states, starts |-> dfa.starts]
  BY DEF BuildInit
<1>2. dfa.states \in [0 .. dfa.len - 1 -> StateRecord(nfa, dfa.len)]
  <2>1. 0 .. 0 - 1 = {} /\ DOMAIN <<>> = {}
    OBVIOUS
  <2> QED
    BY <1>1, <2>1
<1>3. Shape(nfa, dfa) /\ Distinct(dfa)
  BY <1>1, <1>2 DEF Shape, Distinct, None
<1>4. Entered(dfa, table)
  BY <1>1 DEF BuildInit, EmptyTable, Entered, LastIn, None
<1> QED
  BY <1>1, <1>3, <1>4, DfaBuildAssumption
     DEF BuildInit, BuildInv, BuildOK, Correct, Contexts

-----------------------------------------------------------------------------
(* One set is resolved. *)

\* The set in question is a set of states.
LEMMA TargetType ==
  ASSUME BuildInv, Resolving
  PROVE  Target \in SUBSET State(nfa)
<1>1. CanBuild(nfa)
  BY AutomatonAssumption DEF BuildInv, BuildOK, nfa
<1>2. CASE pc = "start"
  <2>1. \A b, e : Closure(nfa, {nfa.start}, b, e) \subseteq State(nfa)
    BY <1>1, ClosureLeast DEF CanBuild
  <2>2. Target = Closure(nfa, {nfa.start}, AtBegin(context), AtEnd(context))
    BY <1>2, Zenon DEF Target, First
  <2> QED
    BY <2>1, <2>2, Zenon
<1>3. CASE pc # "start"
  <2> DEFINE T == dfa.states[current].set
  <2>1. T \in SUBSET State(nfa)
    BY <1>3 DEF Resolving, BuildInv, BuildOK, Shape, StateRecord
  <2>2. Move(nfa, T, class) \in SUBSET State(nfa)
    BY <1>1, <2>1, MoveType
  <2>3. \A b, e : Closure(nfa, Move(nfa, T, class), b, e) \subseteq State(nfa)
    BY <1>1, <2>2, ClosureLeast
  <2>4. Target = Closure(nfa, Move(nfa, T, class), FALSE, last)
    BY <1>3, Zenon DEF Target, After
  <2> QED
    BY <2>3, <2>4, Zenon
<1> QED
  BY <1>2, <1>3

\* The chain of a bucket is the bucket.
LEMMA ChainIsBucket ==
  ASSUME dfa.len \in Nat, Entered(dfa, table), NEW h \in Buckets
  PROVE  ChainOf(h) = {s \in 0 .. dfa.len - 1 : Hash(dfa.states[s].set) = h}
<1> DEFINE D == None .. dfa.len - 1
           H(s) == Hash(dfa.states[s].set)
           Of(q, f) == IF q = None THEN {} ELSE {q} \cup f[table.next[q]]
           Is(f) == f = [q \in D |-> Of(q, f)]
           Up(q) == IF q = None THEN {} ELSE {s \in 0 .. q : H(s) = H(q)}
           g == [q \in D |-> Up(q)]
           from == CHOOSE f : Is(f)
<1>1. /\ table.buckets[h] \in D /\ LastIn(dfa, h, table.buckets[h], dfa.len)
      /\ \A q \in 0 .. dfa.len - 1 :
           table.next[q] \in D /\ LastIn(dfa, H(q), table.next[q], q)
  BY DEF Entered
<1>2. ASSUME NEW q \in 0 .. dfa.len - 1
      PROVE  /\ table.next[q] \in D /\ table.next[q] < q
             /\ Up(q) = {q} \cup Up(table.next[q])
  <2> DEFINE p == table.next[q]
  <2>1. p \in D /\ LastIn(dfa, H(q), p, q)
    BY <1>1
  <2> HIDE DEF p, H
  <2>2. CASE p = None
    <3>1. \A s \in 0 .. q - 1 : H(s) # H(q)
      BY <2>1, <2>2 DEF LastIn, None, H
    <3> QED
      BY <2>1, <2>2, <3>1 DEF None, p
  <2>3. CASE p # None
    <3>1. p \in 0 .. q - 1 /\ H(p) = H(q)
      BY <2>1, <2>3 DEF LastIn, H
    <3>2. \A s \in 0 .. q - 1 : H(s) = H(q) => s <= p
      BY <2>1 DEF LastIn, H
    <3>3. \A s \in 0 .. q : H(s) = H(q) => s = q \/ s \in 0 .. p
      BY <2>3, <3>1, <3>2
    <3>4. \A s \in 0 .. p : s \in 0 .. q
      BY <3>1
    <3>5. q # None /\ q \in 0 .. q
      BY DEF None
    <3>6. {s \in 0 .. q : H(s) = H(q)} = {q} \cup {s \in 0 .. p : H(s) = H(p)}
      BY <3>1, <3>3, <3>4, <3>5
    <3> QED
      BY <2>1, <2>3, <3>1, <3>5, <3>6 DEF p
  <2> QED
    BY <2>2, <2>3
<1> HIDE DEF Up
<1>3. Is(g)
  <2>1. ASSUME NEW q \in D PROVE Up(q) = Of(q, g)
    <3>1. CASE q = None
      BY <3>1 DEF Up
    <3>2. CASE q # None
      <4>1. q \in 0 .. dfa.len - 1
        BY <3>2 DEF None
      <4> QED
        BY <1>2, <3>2, <4>1
    <3> QED
      BY <3>1, <3>2
  <2> QED
    BY <2>1
<1>4. from = [q \in D |-> Of(q, from)]
  <2> HIDE DEF g
  <2>1. Is(from)
    BY <1>3
  <2> HIDE DEF from
  <2> QED
    BY <2>1
<1>5. ChainOf(h) = from[table.buckets[h]]
  BY Zenon DEF ChainOf
<1> HIDE DEF from
<1> DEFINE Right == {k \in Nat : \A q \in D : q < k => from[q] = Up(q)}
<1>6. 0 \in Right
  <2>1. \A q \in D : q < 0 => q = None
    BY DEF None
  <2>2. None \in D
    BY DEF None
  <2> QED
    BY <1>4, <2>1, <2>2 DEF Up
<1>7. ASSUME NEW k \in Nat, k \in Right PROVE k + 1 \in Right
  <2> SUFFICES ASSUME NEW q \in D, q < k + 1 PROVE from[q] = Up(q)
    OBVIOUS
  <2>1. CASE q = None
    BY <1>4, <2>1 DEF Up
  <2>2. CASE q # None
    <3>1. q \in 0 .. dfa.len - 1 /\ q <= k
      BY <2>2 DEF None
    <3>2. table.next[q] \in D /\ table.next[q] < k
      BY <1>2, <3>1 DEF None
    <3>3. from[table.next[q]] = Up(table.next[q])
      BY <1>7, <3>2
    <3>4. from[q] = {q} \cup from[table.next[q]]
      BY <1>4, <2>2
    <3> QED
      BY <1>2, <3>1, <3>3, <3>4
  <2> QED
    BY <2>1, <2>2
<1>8. \A q \in D : from[q] = Up(q)
  <2>1. Nat \subseteq Right
    <3> HIDE DEF Right
    <3> QED BY <1>6, <1>7, NatSetInduction
  <2>2. dfa.len \in Right /\ \A q \in D : q < dfa.len
    BY <2>1 DEF None
  <2> QED
    BY <2>2
<1>9. Up(table.buckets[h]) = {s \in 0 .. dfa.len - 1 : H(s) = h}
  <2> DEFINE p == table.buckets[h]
  <2>1. p \in D /\ LastIn(dfa, h, p, dfa.len)
    BY <1>1
  <2> HIDE DEF p, H
  <2>2. CASE p = None
    <3>1. \A s \in 0 .. dfa.len - 1 : H(s) # h
      BY <2>1, <2>2 DEF LastIn, None, H
    <3> QED
      BY <2>2, <3>1 DEF Up, p
  <2>3. CASE p # None
    <3>1. p \in 0 .. dfa.len - 1 /\ H(p) = h
      BY <2>1, <2>3 DEF LastIn, H
    <3>2. \A s \in 0 .. dfa.len - 1 : H(s) = h => s \in 0 .. p
      BY <2>1, <3>1 DEF LastIn, H
    <3>3. \A s \in 0 .. p : s \in 0 .. dfa.len - 1
      BY <3>1
    <3>4. {s \in 0 .. p : H(s) = H(p)} = {s \in 0 .. dfa.len - 1 : H(s) = h}
      BY <3>1, <3>2, <3>3
    <3> QED
      BY <2>3, <3>4 DEF Up, p, H
  <2> QED
    BY <2>2, <2>3
<1> QED
  BY <1>1, <1>5, <1>8, <1>9

\* d is the automaton with, perhaps, one state more, that of the set in question.
Grown(d) ==
  /\ Shape(nfa, d) /\ Distinct(d) /\ d.len <= StateLimit
  /\ d.len \in {dfa.len, dfa.len + 1}
  /\ d.starts = dfa.starts
  /\ \A q \in DfaStates : d.states[q] = dfa.states[q]
  /\ d.len = dfa.len + 1 => d.states[dfa.len].set = Target

\* A new state keeps the shape and is the only one for its set.
LEMMA ExtendedGrows ==
  ASSUME BuildInv, Resolving, Target # {}, Find(Target) = {}, dfa.len < StateLimit
  PROVE  /\ Grown(Extended(dfa, Target))
         /\ Extended(dfa, Target).len = dfa.len + 1
         /\ Extended(dfa, Target).states[dfa.len].set = Target
         /\ Entered(Extended(dfa, Target), Linked(dfa.len, Hash(Target)))
<1> DEFINE T == Target
           d == Extended(dfa, T)
           t == Linked(dfa.len, Hash(T))
           new == [set |-> T, accept |-> nfa.accept \in T,
                   trans |-> NoTransitions, final |-> NoTransitions]
<1>1. T \in SUBSET State(nfa) /\ T # {} /\ Shape(nfa, dfa) /\ Distinct(dfa) /\ re \in Regex
      /\ Entered(dfa, table) /\ dfa.len \in Nat
  BY TargetType DEF Resolving, BuildInv, BuildOK, Shape
<1>2. /\ d = [len |-> dfa.len + 1,
              states |-> [q \in 0 .. dfa.len |->
                            IF q < dfa.len THEN dfa.states[q] ELSE new],
              starts |-> dfa.starts]
  <2>1. /\ DOMAIN dfa = {"len", "states", "starts"}
        /\ dfa = [x \in {"len", "states", "starts"} |-> dfa[x]]
    <3>1. dfa = [len |-> dfa.len, states |-> dfa.states, starts |-> dfa.starts]
      BY <1>1, Zenon DEF Shape
    <3> QED
      BY <3>1
  <2> DEFINE f == [q \in 0 .. dfa.len |-> IF q < dfa.len THEN dfa.states[q] ELSE new]
  <2>2. d = [dfa EXCEPT !.len = dfa.len + 1, !.states = f]
    BY Zenon DEF Extended
  <2> HIDE DEF f, T, d
  <2>3. d = [len |-> dfa.len + 1, states |-> f, starts |-> dfa.starts]
    BY <2>1, <2>2
  <2> QED BY <2>3, Zenon DEF f
<1> HIDE DEF T, d
<1>3. /\ d.len = dfa.len + 1 /\ d.starts = dfa.starts
      /\ d.states = [q \in 0 .. dfa.len |->
                       IF q < dfa.len THEN dfa.states[q] ELSE new]
  BY <1>2
<1>4. new \in StateRecord(nfa, d.len) /\ new.set = T /\ new.accept = (nfa.accept \in T)
  <2>1. NoTransitions \in [Byte -> None .. d.len - 1]
    BY <1>1, <1>3 DEF NoTransitions, None
  <2>2. (nfa.accept \in T) \in BOOLEAN
    OBVIOUS
  <2> QED
    BY <1>1, <2>1, <2>2 DEF StateRecord
<1>5. \A q \in 0 .. dfa.len - 1 : dfa.states[q] \in StateRecord(nfa, d.len)
  BY <1>1, <1>3 DEF Shape, StateRecord
<1> HIDE DEF new
<1>6. /\ 0 .. d.len - 1 = 0 .. dfa.len
      /\ \A q \in 0 .. dfa.len : q \in 0 .. dfa.len - 1 \/ q = dfa.len
      /\ \A q \in 0 .. dfa.len - 1 : q < dfa.len /\ q \in 0 .. dfa.len
      /\ ~ dfa.len < dfa.len /\ dfa.len \in 0 .. dfa.len
  BY <1>1, <1>3
<1>7. /\ d.states[dfa.len] = new
      /\ \A q \in 0 .. dfa.len - 1 : d.states[q] = dfa.states[q]
  BY <1>3, <1>6
<1>8. d.states \in [0 .. d.len - 1 -> StateRecord(nfa, d.len)]
  BY <1>3, <1>4, <1>5, <1>6
<1>9. d.starts \in [Contexts -> None .. d.len - 1]
  BY <1>1, <1>3 DEF Shape
<1>10. \A q \in 0 .. d.len - 1 : d.states[q].accept <=> nfa.accept \in d.states[q].set
  BY <1>1, <1>4, <1>6, <1>7 DEF Shape
<1>11. Shape(nfa, d)
  <2>1. d = [len |-> d.len, states |-> d.states, starts |-> d.starts]
    BY <1>2, <1>3, Zenon
  <2>2. d.len \in Nat
    BY <1>1, <1>3
  <2> QED
    BY <1>8, <1>9, <1>10, <2>1, <2>2, Zenon DEF Shape
<1>12. \A q \in 0 .. dfa.len - 1 : dfa.states[q].set # T
  <2> SUFFICES ASSUME NEW q \in 0 .. dfa.len - 1, dfa.states[q].set = T PROVE FALSE
    OBVIOUS
  <2>1. Hash(T) \in Buckets
    BY <1>1, DfaBuildAssumption DEF nfa
  <2>2. q \in ChainOf(Hash(T))
    BY <1>1, <2>1, ChainIsBucket
  <2> QED
    BY <2>2 DEF Find, T
<1>13. Distinct(d)
  BY <1>1, <1>4, <1>6, <1>7, <1>12 DEF Distinct
<1>14. Hash(T) \in Buckets
  BY <1>1, DfaBuildAssumption DEF nfa
<1>15. Entered(d, t)
  <2> DEFINE h == Hash(T)
             H(s) == Hash(d.states[s].set)
  <2>1. /\ t.buckets = [table.buckets EXCEPT ![h] = dfa.len]
        /\ t.next = [s \in 0 .. dfa.len |->
                       IF s = dfa.len THEN table.buckets[h] ELSE table.next[s]]
    BY DEF Linked
  <2>2. /\ table.buckets \in [Buckets -> None .. dfa.len - 1]
        /\ table.next \in [0 .. dfa.len - 1 -> None .. dfa.len - 1]
        /\ \A b \in Buckets : LastIn(dfa, b, table.buckets[b], dfa.len)
        /\ \A q \in 0 .. dfa.len - 1 :
             LastIn(dfa, Hash(dfa.states[q].set), table.next[q], q)
    BY <1>1 DEF Entered
  <2> HIDE DEF t
  <2>3. /\ H(dfa.len) = h /\ h \in Buckets
        /\ \A q \in 0 .. dfa.len - 1 : H(q) = Hash(dfa.states[q].set)
    BY <1>4, <1>7, <1>14
  <2> HIDE DEF h
  <2>4. /\ t.buckets \in [Buckets -> None .. d.len - 1]
        /\ t.next \in [0 .. d.len - 1 -> None .. d.len - 1]
    BY <1>1, <1>3, <1>6, <2>1, <2>2, <2>3 DEF None
  <2>5. ASSUME NEW b \in Buckets PROVE LastIn(d, b, t.buckets[b], d.len)
    <3>1. CASE b = h
      BY <1>1, <1>3, <1>6, <2>1, <2>2, <2>3, <3>1 DEF LastIn
    <3>2. CASE b # h
      <4>1. t.buckets[b] = table.buckets[b] /\ LastIn(dfa, b, table.buckets[b], dfa.len)
        BY <2>1, <2>2, <3>2
      <4>2. \A q \in 0 .. d.len - 1 : H(q) = b => q \in 0 .. dfa.len - 1
        BY <1>6, <2>3, <3>2
      <4> QED
        BY <1>6, <2>3, <4>1, <4>2 DEF LastIn
    <3> QED
      BY <3>1, <3>2
  <2>6. ASSUME NEW q \in 0 .. d.len - 1 PROVE LastIn(d, H(q), t.next[q], q)
    <3>1. CASE q = dfa.len
      <4>1. t.next[q] = table.buckets[h] /\ LastIn(dfa, h, table.buckets[h], dfa.len)
        BY <1>6, <2>1, <2>2, <2>3, <3>1
      <4> QED
        BY <2>3, <3>1, <4>1 DEF LastIn
    <3>2. CASE q # dfa.len
      <4>1. q \in 0 .. dfa.len - 1
        BY <1>6, <3>2
      <4>2. t.next[q] = table.next[q] /\ LastIn(dfa, H(q), table.next[q], q)
        BY <1>6, <2>1, <2>2, <2>3, <3>2, <4>1
      <4>3. \A s \in 0 .. q - 1 : s \in 0 .. dfa.len - 1
        BY <1>1, <4>1
      <4> QED
        BY <2>3, <4>2, <4>3 DEF LastIn
    <3> QED
      BY <3>1, <3>2
  <2> QED
    BY <2>4, <2>5, <2>6 DEF Entered
<1>16. d.len <= StateLimit
  BY <1>1, <1>3, DfaBuildAssumption
<1> QED
  BY <1>3, <1>4, <1>7, <1>11, <1>13, <1>15, <1>16 DEF Grown, DfaStates, T, d

\* Every way to resolve a set ends with a state that stands for it.
LEMMA Resolves ==
  ASSUME BuildInv, ResolveEmpty \/ ResolveKnown \/ ResolveNew
  PROVE  \E d, q : /\ Grown(d) /\ Entered(d, table') /\ Stands(d, q, Target)
                   /\ q \in None .. d.len - 1 /\ dfa' = Resolved(d, q)
<1>1. Resolving /\ dfa.len \in Nat /\ Entered(dfa, table)
  BY DEF ResolveEmpty, ResolveKnown, ResolveNew, Resolving, BuildInv, BuildOK, Shape
<1>2. Grown(dfa)
  BY <1>1 DEF Resolving, BuildInv, BuildOK, Grown
<1>3. CASE ResolveEmpty
  <2>1. Target = {} /\ dfa' = Resolved(dfa, None) /\ table' = table
    BY <1>3 DEF ResolveEmpty
  <2>2. Stands(dfa, None, Target) /\ None \in None .. dfa.len - 1
    BY <1>1, <2>1 DEF Stands, None
  <2> QED
    BY <1>1, <1>2, <2>1, <2>2
<1>4. CASE ResolveKnown
  <2>1. PICK q \in Find(Target) : dfa' = Resolved(dfa, q)
    BY <1>4 DEF ResolveKnown
  <2>2. Target # {} /\ table' = table
    BY <1>4 DEF ResolveKnown
  <2>3. Hash(Target) \in Buckets
    <3>1. re \in Regex /\ Target \in SUBSET State(Nfa[re])
      BY <1>1, TargetType DEF BuildInv, BuildOK, nfa
    <3> HIDE DEF Target
    <3> QED
      BY <3>1, DfaBuildAssumption
  <2>4. q \in 0 .. dfa.len - 1 /\ dfa.states[q].set = Target
    <3> HIDE DEF Target
    <3> QED
      BY <1>1, <2>3, ChainIsBucket DEF Find
  <2>5. Stands(dfa, q, Target) /\ q \in None .. dfa.len - 1
    BY <1>1, <2>2, <2>4 DEF Stands, None
  <2> QED
    BY <1>1, <1>2, <2>1, <2>2, <2>5
<1>5. CASE ResolveNew
  <2> DEFINE d == Extended(dfa, Target)
  <2>1. /\ Target # {} /\ Find(Target) = {} /\ dfa.len < StateLimit
        /\ dfa' = Resolved(d, dfa.len)
        /\ table' = Linked(dfa.len, Hash(Target))
    BY <1>5 DEF ResolveNew
  <2>2. /\ Grown(d) /\ d.len = dfa.len + 1 /\ d.states[dfa.len].set = Target
        /\ Entered(d, table')
    BY <1>1, <2>1, ExtendedGrows
  <2> HIDE DEF d
  <2>3. Stands(d, dfa.len, Target) /\ dfa.len \in None .. d.len - 1
    BY <1>1, <2>1, <2>2 DEF Stands, None
  <2> QED
    BY <2>1, <2>2, <2>3
<1> QED
  BY <1>3, <1>4, <1>5

\* What stands for a set goes on doing so in any automaton whose states have
\* the same sets.
LEMMA StandsOn ==
  ASSUME NEW d, NEW e, d.len \in Nat, e.len \in Nat, d.len <= e.len,
         \A s \in 0 .. d.len - 1 : e.states[s].set = d.states[s].set,
         NEW q, NEW T, Stands(d, q, T)
  PROVE  Stands(e, q, T)
BY DEF Stands

\* Nor does the table see more of them than these sets.
LEMMA EnteredOn ==
  ASSUME NEW d, NEW e, d.len \in Nat, e.len = d.len,
         \A s \in 0 .. d.len - 1 : e.states[s].set = d.states[s].set,
         NEW t, Entered(d, t)
  PROVE  Entered(e, t)
<1>1. \A h, p : LastIn(d, h, p, d.len) => LastIn(e, h, p, d.len)
  BY DEF LastIn
<1>2. ASSUME NEW q \in 0 .. d.len - 1, NEW h, NEW p, LastIn(d, h, p, q)
      PROVE  LastIn(e, h, p, q)
  <2>1. \A s \in 0 .. q - 1 : s \in 0 .. d.len - 1
    OBVIOUS
  <2> QED
    BY <1>2, <2>1 DEF LastIn
<1> QED
  BY <1>1, <1>2 DEF Entered

\* A start state is stored, nothing else changes.
LEMMA StoresStart ==
  ASSUME pc = "start", context \in Contexts, NEW d, Shape(nfa, d),
         NEW q \in None .. d.len - 1
  PROVE  LET e == Resolved(d, q) IN
         /\ Shape(nfa, e) /\ e.len = d.len /\ e.states = d.states
         /\ e.starts = [d.starts EXCEPT ![context] = q]
<1> DEFINE e == [len |-> d.len, states |-> d.states,
                 starts |-> [d.starts EXCEPT ![context] = q]]
<1>1. Resolved(d, q) = [d EXCEPT !.starts[context] = q]
  BY Zenon DEF Resolved
<1>2. d = [len |-> d.len, states |-> d.states, starts |-> d.starts]
  BY Zenon DEF Shape
<1>3. Resolved(d, q) = e
  <2> DEFINE l == d.len  st == d.states  b == d.starts
  <2>1. d = [len |-> l, states |-> st, starts |-> b]
    BY <1>2
  <2> HIDE DEF l, st, b
  <2>2. Resolved(d, q) = [len |-> l, states |-> st, starts |-> [b EXCEPT ![context] = q]]
    BY <1>1, <2>1
  <2> QED
    BY <2>2 DEF l, st, b
<1>4. Shape(nfa, e)
  BY DEF Shape
<1> QED
  BY <1>3, <1>4

\* A transition of a whole class is stored, nothing else changes.
LEMMA StoresRow ==
  ASSUME pc # "start", last \in BOOLEAN, NEW d, Shape(nfa, d),
         current \in 0 .. d.len - 1, NEW q \in None .. d.len - 1
  PROVE  LET e == Resolved(d, q) IN
         /\ Shape(nfa, e) /\ e.len = d.len /\ e.starts = d.starts
         /\ \A s \in 0 .. d.len - 1 :
              /\ e.states[s].set = d.states[s].set
              /\ \A b \in Byte :
                   /\ e.states[s].trans[b] =
                        IF s = current /\ ClassOf[re][b] = class /\ ~ last
                          THEN q ELSE d.states[s].trans[b]
                   /\ e.states[s].final[b] =
                        IF s = current /\ ClassOf[re][b] = class /\ last
                          THEN q ELSE d.states[s].final[b]
<1> DEFINE Row(row) == OfClass(row, q)
           old == d.states[current]
           new == IF last THEN [old EXCEPT !.final = Row(@)]
                          ELSE [old EXCEPT !.trans = Row(@)]
           e == [len |-> d.len, starts |-> d.starts,
                 states |-> [d.states EXCEPT ![current] = new]]
<1>1. d = [len |-> d.len, states |-> d.states, starts |-> d.starts]
  BY Zenon DEF Shape
<1>2. Resolved(d, q) = e
  <2> DEFINE l == d.len  st == d.states  b == d.starts
  <2>1. d = [len |-> l, states |-> st, starts |-> b]
    BY <1>1
  <2>2. CASE last
    <3>1. Resolved(d, q) = [d EXCEPT !.states[current].final = Row(@)]
      BY <2>2, Zenon DEF Resolved
    <3> HIDE DEF Row, l, st, b
    <3>2. d.states = st /\ d.len = l /\ d.starts = b
      BY <2>1
    <3>3. [d EXCEPT !.states[current].final = Row(@)] =
             [len |-> l, starts |-> b,
              states |-> [st EXCEPT ![current] = [st[current] EXCEPT !.final = Row(@)]]]
      BY <2>1
    <3> QED
      BY <2>2, <3>1, <3>2, <3>3
  <2>3. CASE ~ last
    <3>1. Resolved(d, q) = [d EXCEPT !.states[current].trans = Row(@)]
      BY <2>3, Zenon DEF Resolved
    <3> HIDE DEF Row, l, st, b
    <3>2. d.states = st /\ d.len = l /\ d.starts = b
      BY <2>1
    <3>3. [d EXCEPT !.states[current].trans = Row(@)] =
             [len |-> l, starts |-> b,
              states |-> [st EXCEPT ![current] = [st[current] EXCEPT !.trans = Row(@)]]]
      BY <2>1
    <3> QED
      BY <2>3, <3>1, <3>2, <3>3
  <2> QED
    BY <2>2, <2>3
<1>3. old \in StateRecord(nfa, d.len) /\ d.len \in Nat
  BY DEF Shape
<1>4. \A row \in [Byte -> None .. d.len - 1] :
        /\ Row(row) \in [Byte -> None .. d.len - 1]
        /\ \A b \in Byte : Row(row)[b] = IF ClassOf[re][b] = class THEN q ELSE row[b]
  BY DEF OfClass
<1>5. old.trans \in [Byte -> None .. d.len - 1] /\ old.final \in [Byte -> None .. d.len - 1]
  BY <1>3 DEF StateRecord
<1> HIDE DEF Row, old
<1>6. /\ new \in StateRecord(nfa, d.len)
      /\ new.set = old.set /\ new.accept = old.accept
      /\ new.trans = IF last THEN old.trans ELSE Row(old.trans)
      /\ new.final = IF last THEN Row(old.final) ELSE old.final
  BY <1>3, <1>4, <1>5 DEF StateRecord
<1> HIDE DEF new
<1>7. /\ e.len = d.len /\ e.starts = d.starts
      /\ e.states = [d.states EXCEPT ![current] = new]
      /\ e = [len |-> e.len, states |-> e.states, starts |-> e.starts]
  OBVIOUS
<1> HIDE DEF e
<1>8. /\ e.states[current] = new /\ d.states[current] = old
      /\ \A s \in 0 .. d.len - 1 : s # current => e.states[s] = d.states[s]
  BY <1>7 DEF Shape, old
<1>9. e.states \in [0 .. d.len - 1 -> StateRecord(nfa, d.len)]
  BY <1>6, <1>7 DEF Shape
<1>10. \A s \in 0 .. d.len - 1 : /\ e.states[s].set = d.states[s].set
                                 /\ e.states[s].accept = d.states[s].accept
  BY <1>6, <1>8
<1>11. Shape(nfa, e)
  BY <1>7, <1>9, <1>10 DEF Shape
<1>12. \A s \in 0 .. d.len - 1 : \A b \in Byte :
         /\ e.states[s].trans[b] =
              IF s = current /\ ClassOf[re][b] = class /\ ~ last
                THEN q ELSE d.states[s].trans[b]
         /\ e.states[s].final[b] =
              IF s = current /\ ClassOf[re][b] = class /\ last
                THEN q ELSE d.states[s].final[b]
  BY <1>4, <1>5, <1>6, <1>8
<1> QED
  BY <1>2, <1>7, <1>10, <1>11, <1>12

\* The representatives are bytes, 0 is one of them.
LEMMA ClassesFacts ==
  ASSUME NEW r \in Regex
  PROVE  Classes[r] \in SUBSET Nat /\ 0 \in Classes[r]
<1>1. 0 \in Byte /\ Byte \subseteq Nat
  BY AutomatonAssumption DEF Byte
<1>2. ClassOf[r][0] = 0
  BY <1>1, ClassFacts
<1>3. Classes[r] = {ClassOf[r][b] : b \in Byte}
  BY DEF Classes
<1> QED
  BY <1>1, <1>2, <1>3, ClassFacts


\* What is stored after a step is what was stored before it and the transition
\* of the class that was due; the classes are taken in ascending order and none
\* is left out.
LEMMA AdvanceStores ==
  ASSUME BuildInv, pc = "explore", current < dfa.len, Advance, re' = re
  PROVE  /\ pc' = "explore" /\ current' \in 0 .. dfa.len
         /\ class' \in Classes[re] /\ last' \in BOOLEAN
         /\ \A s \in Nat : \A c \in Classes[re] :
              /\ TransStored(s, c)' =>
                   TransStored(s, c) \/ (s = current /\ c = class /\ ~ last)
              /\ FinalStored(s, c)' =>
                   FinalStored(s, c) \/ (s = current /\ c = class /\ last)
<1> DEFINE later == {c \in Classes[re] : c > class}
           LeastOf(c) == \A x \in later : c <= x
<1>1. /\ current \in 0 .. dfa.len /\ class \in Classes[re] /\ last \in BOOLEAN
      /\ dfa.len \in Nat /\ re \in Regex
      /\ Classes[re] \in SUBSET Nat /\ 0 \in Classes[re]
  BY ClassesFacts DEF BuildInv, BuildOK, Shape
<1>2. /\ last' = ~ last
      /\ class' = IF ~ last THEN class
                  ELSE IF later = {} THEN 0 ELSE CHOOSE c \in later : LeastOf(c)
      /\ current' = IF last /\ later = {} THEN current + 1 ELSE current
      /\ pc' = pc
  BY Zenon DEF Advance
<1> HIDE DEF LeastOf
<1>4. CASE ~ last
  <2>1. last' = TRUE /\ class' = class /\ current' = current
    BY <1>2, <1>4
  <2> QED
    BY <1>1, <1>2, <1>4, <2>1 DEF TransStored, FinalStored
<1>5. CASE last /\ later = {}
  <2>1. last' = FALSE /\ class' = 0 /\ current' = current + 1
    BY <1>2, <1>5
  <2>2. \A c \in Classes[re] : c <= class
    BY <1>1, <1>5
  <2> QED
    BY <1>1, <1>2, <1>5, <2>1, <2>2 DEF TransStored, FinalStored
<1>6. CASE last /\ later # {}
  <2>1. last' = FALSE /\ current' = current /\ class' = CHOOSE c \in later : LeastOf(c)
    BY <1>2, <1>6
  <2>2. later \in SUBSET Nat
    BY <1>1
  <2>3. \E c \in later : LeastOf(c)
    <3> HIDE DEF later
    <3> QED BY <1>6, <2>2, NatLeast DEF LeastOf
  <2>4. class' \in later /\ LeastOf(class')
    <3> HIDE DEF later
    <3> QED BY <2>1, <2>3
  <2>5. \A c \in Classes[re] : c < class' => c <= class
    BY <1>1, <2>4 DEF LeastOf
  <2> QED
    BY <1>1, <1>2, <1>6, <2>1, <2>4, <2>5 DEF TransStored, FinalStored
<1> QED
  BY <1>1, <1>4, <1>5, <1>6

\* While the start states are resolved.
LEMMA StartStep ==
  ASSUME BuildInv, pc = "start", Advance, re' = re,
         NEW d, NEW q, Grown(d), Entered(d, table'), Stands(d, q, Target),
         q \in None .. d.len - 1, dfa' = Resolved(d, q)
  PROVE  BuildInv'
<1>1. /\ re \in Regex /\ context \in Contexts /\ Shape(nfa, d) /\ Distinct(d)
      /\ d.len <= StateLimit /\ d.len \in Nat /\ dfa.len \in Nat /\ dfa.len <= d.len
      /\ d.starts = dfa.starts
      /\ \A s \in 0 .. dfa.len - 1 : d.states[s] = dfa.states[s]
      /\ current = 0 /\ class = 0 /\ last = FALSE
  BY DEF BuildInv, BuildOK, Grown, Shape, DfaStates
<1>2. /\ Shape(nfa, dfa') /\ dfa'.len = d.len /\ dfa'.states = d.states
      /\ dfa'.starts = [d.starts EXCEPT ![context] = q]
  <2>1. LET e == Resolved(d, q) IN
         /\ Shape(nfa, e) /\ e.len = d.len /\ e.states = d.states
         /\ e.starts = [d.starts EXCEPT ![context] = q]
    BY <1>1, StoresStart, Zenon
  <2> QED
    BY <2>1, Zenon
<1>3. nfa' = nfa
  BY DEF nfa
<1>5. Distinct(dfa') /\ Entered(dfa', table')
  BY <1>1, <1>2, EnteredOn DEF Distinct
<1>6. /\ context' = context + 1
      /\ pc' = IF context = 3 THEN "explore" ELSE "start"
      /\ UNCHANGED <<current, class, last>>
  BY Zenon DEF Advance
<1>7. BuildOK'
  <2>1. 0 \in Classes[re] /\ re' \in Regex
    BY <1>1, ClassesFacts
  <2>2. Shape(nfa', dfa') /\ dfa'.len <= StateLimit /\ 0 \in 0 .. dfa'.len
    BY <1>1, <1>2, <1>3
  <2>3. /\ pc' \in {"start", "explore"}
        /\ pc' = "start" => context' \in Contexts
    BY <1>1, <1>6 DEF Contexts
  <2>4. current' = 0 /\ class' = 0 /\ last' = FALSE
    BY <1>1, <1>6
  <2> QED
    BY <1>5, <2>1, <2>2, <2>3, <2>4 DEF BuildOK
<1>8. ASSUME NEW c \in 0 .. context PROVE Begins(nfa, dfa', c)
  <2> DEFINE T == First(nfa, AtBegin(c), AtEnd(c))
  <2>1. CASE c = context
    <3>1. Target = T
      BY <2>1, Zenon DEF Target
    <3>2. dfa'.starts[c] = q
      BY <1>1, <1>2, <2>1 DEF Shape
    <3>3. Stands(dfa', q, Target)
      <4> HIDE DEF Target
      <4> QED BY <1>2 DEF Stands
    <3> QED
      BY <3>1, <3>2, <3>3, Zenon DEF Begins
  <2>2. CASE c # context
    <3>1. c \in 0 .. context - 1 /\ c \in Contexts
      BY <1>1, <2>2 DEF Contexts
    <3>2. Stands(dfa, dfa.starts[c], T)
      <4>1. Begins(nfa, dfa, c)
        BY <3>1 DEF BuildInv, Correct
      <4> QED
        BY <4>1, Zenon DEF Begins
    <3>3. dfa'.starts[c] = dfa.starts[c]
      BY <1>1, <1>2, <2>2, <3>1 DEF Shape
    <3>4. /\ \A s \in 0 .. dfa.len - 1 : dfa'.states[s].set = dfa.states[s].set
          /\ dfa'.len \in Nat /\ dfa.len <= dfa'.len
      BY <1>1, <1>2
    <3> HIDE DEF T
    <3>5. Stands(dfa', dfa.starts[c], T)
      BY <1>1, <3>2, <3>4, StandsOn
    <3> QED
      BY <3>3, <3>5, Zenon DEF Begins, T
  <2> QED
    BY <2>1, <2>2
<1>10. Correct'
  <2>1. CASE context # 3
    <3>1. pc' = "start" /\ 0 .. context' - 1 = 0 .. context
      BY <1>1, <1>6, <2>1 DEF Contexts
    <3> QED
      BY <1>3, <1>8, <3>1 DEF Correct
  <2>2. CASE context = 3
    <3>1. pc' = "explore" /\ Contexts = 0 .. context
      BY <1>6, <2>2 DEF Contexts
    <3>2. \A s, c \in Nat : ~ TransStored(s, c)' /\ ~ FinalStored(s, c)'
      BY <1>1, <1>6 DEF TransStored, FinalStored
    <3>3. \A s \in DfaStates', b \in Byte : s \in Nat /\ ClassOf[re'][b] \in Nat
      BY <1>1, <1>2, ClassFacts, AutomatonAssumption DEF DfaStates, Byte
    <3>4. \A s \in DfaStates', b \in Byte :
            ~ TransStored(s, ClassOf[re][b])' /\ ~ FinalStored(s, ClassOf[re][b])'
      BY <3>2, <3>3
    <3>5. \A c \in Contexts : Begins(nfa', dfa', c)
      BY <1>3, <1>8, <3>1
    <3>6. (\A s \in DfaStates, b \in Byte :
            ~ TransStored(s, ClassOf[re][b]) /\ ~ FinalStored(s, ClassOf[re][b]))'
      BY <3>4
    <3> QED
      BY <3>1, <3>5, <3>6, Zenon DEF Correct
  <2> QED
    BY <2>1, <2>2
<1> QED
  BY <1>7, <1>10 DEF BuildInv

\* While the transitions are resolved.
LEMMA ExploreStep ==
  ASSUME BuildInv, pc = "explore", current < dfa.len, Advance, re' = re,
         NEW d, NEW q, Grown(d), Entered(d, table'), Stands(d, q, Target),
         q \in None .. d.len - 1, dfa' = Resolved(d, q)
  PROVE  BuildInv'
<1>1. /\ re \in Regex /\ Shape(nfa, d) /\ Distinct(d) /\ d.len <= StateLimit
      /\ d.len \in Nat /\ dfa.len \in Nat /\ dfa.len <= d.len
      /\ d.len \in {dfa.len, dfa.len + 1}
      /\ d.starts = dfa.starts
      /\ \A s \in 0 .. dfa.len - 1 : d.states[s] = dfa.states[s]
      /\ current \in 0 .. dfa.len - 1 /\ last \in BOOLEAN /\ class \in Classes[re]
      /\ current \in 0 .. d.len - 1
      /\ Shape(nfa, dfa)
  BY DEF BuildInv, BuildOK, Grown, Shape, DfaStates
<1>2. /\ Shape(nfa, dfa') /\ dfa'.len = d.len /\ dfa'.starts = d.starts
      /\ \A s \in 0 .. d.len - 1 :
           /\ dfa'.states[s].set = d.states[s].set
           /\ \A b \in Byte :
                /\ dfa'.states[s].trans[b] =
                     IF s = current /\ ClassOf[re][b] = class /\ ~ last
                       THEN q ELSE d.states[s].trans[b]
                /\ dfa'.states[s].final[b] =
                     IF s = current /\ ClassOf[re][b] = class /\ last
                       THEN q ELSE d.states[s].final[b]
  <2> DEFINE Effect(e) ==
         /\ Shape(nfa, e) /\ e.len = d.len /\ e.starts = d.starts
         /\ \A s \in 0 .. d.len - 1 :
              /\ e.states[s].set = d.states[s].set
              /\ \A b \in Byte :
                   /\ e.states[s].trans[b] =
                        IF s = current /\ ClassOf[re][b] = class /\ ~ last
                          THEN q ELSE d.states[s].trans[b]
                   /\ e.states[s].final[b] =
                        IF s = current /\ ClassOf[re][b] = class /\ last
                          THEN q ELSE d.states[s].final[b]
  <2>1. Effect(Resolved(d, q))
    <3>1. pc # "start"
      OBVIOUS
    <3>2. LET e == Resolved(d, q) IN Effect(e)
      BY <1>1, <3>1, StoresRow
    <3> HIDE DEF Effect
    <3> QED
      BY <3>2
  <2>2. Effect(dfa')
    <3> HIDE DEF Effect
    <3> QED BY <2>1
  <2> QED
    BY <2>2
<1>3. nfa' = nfa
  BY DEF nfa
<1>4. Distinct(dfa') /\ Entered(dfa', table')
  <2>1. /\ d.len \in Nat /\ dfa'.len = d.len /\ Distinct(d) /\ Entered(d, table')
        /\ \A s \in 0 .. d.len - 1 : dfa'.states[s].set = d.states[s].set
    BY <1>1, <1>2
  <2>2. Distinct(dfa')
    BY <2>1, Zenon DEF Distinct
  <2> QED
    BY <2>1, <2>2, EnteredOn, Zenon
<1>5. /\ pc' = "explore" /\ current' \in 0 .. dfa.len
      /\ class' \in Classes[re] /\ last' \in BOOLEAN
      /\ \A s \in Nat : \A c \in Classes[re] :
           /\ TransStored(s, c)' =>
                TransStored(s, c) \/ (s = current /\ c = class /\ ~ last)
           /\ FinalStored(s, c)' =>
                FinalStored(s, c) \/ (s = current /\ c = class /\ last)
  BY AdvanceStores
<1>6. BuildOK'
  <2>1. current' \in 0 .. dfa'.len
    BY <1>1, <1>2, <1>5
  <2> QED
    BY <1>1, <1>2, <1>3, <1>4, <1>5, <2>1 DEF BuildOK
<1>7. ASSUME NEW e, NEW T, Stands(d, e, T) PROVE Stands(dfa', e, T)
  BY <1>1, <1>2, <1>7 DEF Stands
<1>8. ASSUME NEW e, NEW T, Stands(dfa, e, T) PROVE Stands(dfa', e, T)
  BY <1>1, <1>7, <1>8, StandsOn
<1>9. ASSUME NEW c \in Contexts PROVE Begins(nfa', dfa', c)
  <2> DEFINE T == First(nfa, AtBegin(c), AtEnd(c))
  <2>1. Begins(nfa, dfa, c)
    BY DEF BuildInv, Correct
  <2>2. Stands(dfa, dfa.starts[c], T)
    BY <2>1, Zenon DEF Begins
  <2>3. Stands(dfa', dfa.starts[c], T)
    <3> HIDE DEF T
    <3> QED BY <2>2, <1>8
  <2> QED
    BY <1>1, <1>2, <1>3, <2>3, Zenon DEF Begins
<1>10. ASSUME NEW b \in Byte PROVE ClassOf[re][b] \in Classes[re]
  BY <1>1 DEF Classes
<1>11. ASSUME NEW s \in 0 .. d.len - 1, NEW b \in Byte
       PROVE  /\ TransStored(s, ClassOf[re][b]) \/ FinalStored(s, ClassOf[re][b]) =>
                   s \in 0 .. dfa.len - 1
              /\ TransStored(s, ClassOf[re][b]) =>
                   ~ (s = current /\ ClassOf[re][b] = class /\ ~ last)
              /\ FinalStored(s, ClassOf[re][b]) =>
                   ~ (s = current /\ ClassOf[re][b] = class)
  <2>1. ClassOf[re][b] \in Nat
    BY <1>1, <1>10, ClassesFacts
  <2> QED
    BY <1>1, <2>1 DEF TransStored, FinalStored
<1>12. ASSUME NEW b \in Byte, ClassOf[re][b] = class
       PROVE  /\ ~ last => Target = After(nfa, dfa.states[current].set, b, FALSE)
              /\ last => Target = After(nfa, dfa.states[current].set, b, TRUE)
  <2> DEFINE T == dfa.states[current].set
  <2>1. T \in SUBSET State(nfa) /\ CanBuild(nfa)
    BY <1>1, AutomatonAssumption DEF Shape, StateRecord, nfa
  <2>2. Move(nfa, T, b) = Move(nfa, T, class)
    <3>1. Equivalent(nfa, b, class)
      BY <1>1, <1>12, ClassFacts DEF nfa
    <3> QED
      BY <2>1, <3>1, EquivalentMoves
  <2>3. Target = After(nfa, T, class, last)
    BY Zenon DEF Target
  <2>4. \A e : After(nfa, T, class, e) = After(nfa, T, b, e)
    BY <2>2, Zenon DEF After
  <2>5. Target = After(nfa, T, b, last)
    BY <2>3, <2>4, Zenon
  <2>6. CASE last
    <3>1. last = TRUE
      BY <1>1, <2>6
    <3>2. Target = After(nfa, T, b, TRUE)
      BY <2>5, <3>1, Zenon
    <3> QED
      BY <2>6, <3>2, Zenon
  <2>7. CASE ~ last
    <3>1. last = FALSE
      BY <1>1, <2>7
    <3>2. Target = After(nfa, T, b, FALSE)
      BY <2>5, <3>1, Zenon
    <3> QED
      BY <2>7, <3>2, Zenon
  <2> QED
    BY <2>6, <2>7, Zenon
<1>13. ASSUME NEW s \in 0 .. d.len - 1, NEW b \in Byte, TransStored(s, ClassOf[re][b])'
       PROVE  Moves(nfa', dfa', s, b)
  <2>1. TransStored(s, ClassOf[re][b]) \/ (s = current /\ ClassOf[re][b] = class /\ ~ last)
    BY <1>1, <1>5, <1>10, <1>13
  <2>2. CASE TransStored(s, ClassOf[re][b])
    <3>1. s \in 0 .. dfa.len - 1 /\ ~ (s = current /\ ClassOf[re][b] = class /\ ~ last)
      BY <1>11, <2>2
    <3>2. Moves(nfa, dfa, s, b)
      BY <2>2, <3>1 DEF BuildInv, Correct, DfaStates
    <3>3. /\ dfa'.states[s].trans[b] = dfa.states[s].trans[b]
          /\ dfa'.states[s].set = dfa.states[s].set
      BY <1>1, <1>2, <3>1
    <3>4. Stands(dfa', dfa.states[s].trans[b], After(nfa, dfa.states[s].set, b, FALSE))
      BY <1>8, <3>2, Zenon DEF Moves
    <3> QED
      BY <1>3, <3>3, <3>4, Zenon DEF Moves
  <2>3. CASE s = current /\ ClassOf[re][b] = class /\ ~ last
    <3>1. Target = After(nfa, dfa.states[s].set, b, FALSE)
      BY <1>12, <2>3, Zenon
    <3>2. dfa'.states[s].trans[b] = q /\ dfa'.states[s].set = dfa.states[s].set
      BY <1>1, <1>2, <2>3
    <3>3. Stands(dfa', q, Target)
      BY <1>7, Zenon
    <3> QED
      BY <1>3, <3>1, <3>2, <3>3, Zenon DEF Moves
  <2> QED
    BY <2>1, <2>2, <2>3
<1>14. ASSUME NEW s \in 0 .. d.len - 1, NEW b \in Byte, FinalStored(s, ClassOf[re][b])'
       PROVE  Finishes(nfa', dfa', s, b)
  <2>1. FinalStored(s, ClassOf[re][b]) \/ (s = current /\ ClassOf[re][b] = class /\ last)
    BY <1>1, <1>5, <1>10, <1>14
  <2>2. CASE FinalStored(s, ClassOf[re][b])
    <3>1. s \in 0 .. dfa.len - 1 /\ ~ (s = current /\ ClassOf[re][b] = class)
      BY <1>11, <2>2
    <3>2. Finishes(nfa, dfa, s, b)
      BY <2>2, <3>1 DEF BuildInv, Correct, DfaStates
    <3>3. /\ dfa'.states[s].final[b] = dfa.states[s].final[b]
          /\ dfa'.states[s].set = dfa.states[s].set
      BY <1>1, <1>2, <3>1
    <3>4. Stands(dfa', dfa.states[s].final[b], After(nfa, dfa.states[s].set, b, TRUE))
      BY <1>8, <3>2, Zenon DEF Finishes
    <3> QED
      BY <1>3, <3>3, <3>4, Zenon DEF Finishes
  <2>3. CASE s = current /\ ClassOf[re][b] = class /\ last
    <3>1. Target = After(nfa, dfa.states[s].set, b, TRUE)
      BY <1>12, <2>3, Zenon
    <3>2. dfa'.states[s].final[b] = q /\ dfa'.states[s].set = dfa.states[s].set
      BY <1>1, <1>2, <2>3
    <3>3. Stands(dfa', q, Target)
      BY <1>7, Zenon
    <3> QED
      BY <1>3, <3>1, <3>2, <3>3, Zenon DEF Finishes
  <2> QED
    BY <2>1, <2>2, <2>3
<1>15. Correct'
  <2>1. (\A s \in DfaStates : \A b \in Byte :
           /\ TransStored(s, ClassOf[re][b]) => Moves(nfa, dfa, s, b)
           /\ FinalStored(s, ClassOf[re][b]) => Finishes(nfa, dfa, s, b))'
    BY <1>2, <1>13, <1>14 DEF DfaStates
  <2>2. pc' # "start" /\ pc' # "minimize"
    BY <1>5
  <2> QED
    BY <1>9, <2>1, <2>2, Zenon DEF Correct
<1> QED
  BY <1>6, <1>15 DEF BuildInv

\* Every step keeps the invariant.
LEMMA BuildInvStep == BuildInv /\ [BuildNext]_buildVars => BuildInv'
<1> SUFFICES ASSUME BuildInv, [BuildNext]_buildVars PROVE BuildInv'
  OBVIOUS
<1>1. CASE ResolveEmpty \/ ResolveKnown \/ ResolveNew
  <2>1. Resolving /\ Advance /\ re' = re
    BY <1>1 DEF ResolveEmpty, ResolveKnown, ResolveNew
  <2>2. PICK d, q : /\ Grown(d) /\ Entered(d, table') /\ Stands(d, q, Target)
                    /\ q \in None .. d.len - 1 /\ dfa' = Resolved(d, q)
    BY <1>1, Resolves
  <2>3. pc = "start" \/ (pc = "explore" /\ current < dfa.len)
    BY <2>1 DEF Resolving
  <2> QED
    BY <2>1, <2>2, <2>3, StartStep, ExploreStep
<1>2. CASE LimitReached \/ BuildOutOfMemory
  <2>1. re' = re /\ dfa' = dfa /\ pc' = "failed" /\ nfa' = nfa
    BY <1>2 DEF LimitReached, BuildOutOfMemory, nfa
  <2> QED
    BY <2>1 DEF BuildInv, BuildOK, Correct
<1>3. CASE Explored
  <2>1. /\ re' = re /\ dfa' = dfa /\ pc = "explore" /\ pc' = "minimize"
        /\ current = dfa.len /\ nfa' = nfa /\ dfa.len \in Nat
    BY <1>3 DEF Explored, nfa, BuildInv, BuildOK, Shape
  <2>2. \A s \in DfaStates : \A b \in Byte :
          Moves(nfa, dfa, s, b) /\ Finishes(nfa, dfa, s, b)
    <3>1. \A s \in DfaStates : s < current
      BY <2>1 DEF DfaStates
    <3> QED
      BY <2>1, <3>1 DEF BuildInv, Correct, TransStored, FinalStored
  <2> QED
    BY <2>1, <2>2 DEF BuildInv, BuildOK, Correct, DfaStates
<1>4. CASE UNCHANGED buildVars
  <2>1. UNCHANGED <<re, dfa, pc, rc, table, context, current, class, last>>
    BY <1>4 DEF buildVars
  <2>2. nfa' = nfa /\ DfaStates' = DfaStates
    BY <2>1 DEF nfa, DfaStates
  <2>3. BuildOK'
    BY <2>1, <2>2 DEF BuildInv, BuildOK
  <2>4. Correct'
    BY <2>1, <2>2 DEF BuildInv, Correct, TransStored, FinalStored
  <2> QED
    BY <2>3, <2>4 DEF BuildInv
<1> QED
  BY <1>1, <1>2, <1>3, <1>4 DEF BuildNext

-----------------------------------------------------------------------------
(* The finished automaton. *)

\* A state that stands for a set accepts if the set does.
LEMMA StandsAccepts ==
  ASSUME NEW n, NEW d, Shape(n, d), NEW q, NEW T, Stands(d, q, T)
  PROVE  Accepting(d, q) <=> n.accept \in T
<1>1. CASE T = {}
  BY <1>1 DEF Stands, Accepting
<1>2. CASE T # {}
  <2>1. q \in 0 .. d.len - 1 /\ d.states[q].set = T /\ d.len \in Nat
    BY <1>2 DEF Stands, Shape
  <2>2. q # None /\ (d.states[q].accept <=> n.accept \in T)
    BY <2>1 DEF Shape, None
  <2> QED
    BY <2>2 DEF Accepting
<1> QED
  BY <1>1, <1>2

\* One byte further, q stands for what is alive there.
LEMMA StandsStep ==
  ASSUME NEW n, CanBuild(n), NEW d, Shape(n, d),
         \A s \in 0 .. d.len - 1 : \A b \in Byte :
           Moves(n, d, s, b) /\ Finishes(n, d, s, b),
         NEW t \in Seq(Byte), NEW p \in 1 .. Len(t),
         NEW q, NEW T, Stands(d, q, T)
  PROVE  Stands(d, Step(d, q, t[p], p = Len(t)), LiveStep(n, t, T, p))
<1> DEFINE b == t[p]
           e == p = Len(t)
<1>0. b \in Byte
  OBVIOUS
<1>1. LiveStep(n, t, T, p) = After(n, T, b, e)
  BY Zenon DEF LiveStep, After
<1>2. CASE T = {}
  <2>1. Step(d, q, b, e) = None
    BY <1>2 DEF Stands, Step
  <2>2. LiveStep(n, t, {}, p) = {}
    BY LiveBranches
  <2>3. Stands(d, None, LiveStep(n, t, T, p))
    BY <1>2, <2>2 DEF Stands
  <2> QED
    BY <2>1, <2>3, Zenon
<1>3. CASE T # {}
  <2>1. q \in 0 .. d.len - 1 /\ d.states[q].set = T /\ q # None
    BY <1>3 DEF Stands, None, Shape
  <2>2. Step(d, q, b, e) = IF e THEN d.states[q].final[b] ELSE d.states[q].trans[b]
    BY <2>1, Zenon DEF Step
  <2>3. /\ Stands(d, d.states[q].trans[b], After(n, T, b, FALSE))
        /\ Stands(d, d.states[q].final[b], After(n, T, b, TRUE))
    <3>1. Moves(n, d, q, b) /\ Finishes(n, d, q, b)
      BY <1>0, <2>1
    <3> QED
      BY <2>1, <3>1, Zenon DEF Moves, Finishes
  <2>4. CASE e
    <3>1. e = TRUE
      BY <2>4
    <3>2. After(n, T, b, e) = After(n, T, b, TRUE)
      BY <3>1, Zenon
    <3> QED
      BY <1>1, <2>2, <2>3, <2>4, <3>2, Zenon
  <2>5. CASE ~ e
    <3>1. e = FALSE
      BY <2>5
    <3>2. After(n, T, b, e) = After(n, T, b, FALSE)
      BY <3>1, Zenon
    <3> QED
      BY <1>1, <2>2, <2>3, <2>5, <3>2, Zenon
  <2> QED
    BY <2>4, <2>5
<1> QED
  BY <1>2, <1>3

\* The context of a match that begins at s has the anchors of its start.
LEMMA StandsFirst ==
  ASSUME NEW n, NEW d, \A c \in Contexts : Begins(n, d, c), NEW t, NEW s
  PROVE  Stands(d, WalkFirst(d, t, s), LiveFirst(n, t, s))
<1> DEFINE a == s = 0
           e == s = Len(t)
           c == Context(a, e)
<1>1. c \in Contexts
  BY ContextType, Zenon
<1>2. Stands(d, d.starts[c], First(n, AtBegin(c), AtEnd(c)))
  BY <1>1, Zenon DEF Begins
<1>3. AtBegin(c) = a /\ AtEnd(c) = e
  BY DEF Context, AtBegin, AtEnd
<1>4. First(n, AtBegin(c), AtEnd(c)) = LiveFirst(n, t, s)
  BY <1>3, Zenon DEF First, LiveFirst
<1> QED
  BY <1>2, <1>4, Zenon DEF WalkFirst

\* An automaton whose every transition leads to the right set represents its
\* expression.
LEMMA FollowingSetsRepresents ==
  ASSUME NEW r \in Regex, NEW d, Shape(Nfa[r], d),
         \A c \in Contexts : Begins(Nfa[r], d, c),
         \A s \in 0 .. d.len - 1 : \A b \in Byte :
           Moves(Nfa[r], d, s, b) /\ Finishes(Nfa[r], d, s, b)
  PROVE  Represents(d, r)
<1> SUFFICES ASSUME NEW t \in Texts, NEW s \in 0 .. Len(t), NEW p \in s .. Len(t)
             PROVE  Accepting(d, Walk(d, t, s)[p]) <=> Nfa[r].accept \in Live(r, t, s)[p]
  BY Zenon DEF Represents
<1> DEFINE n == Nfa[r]
           W == Walk(d, t, s)
           L == Live(r, t, s)
           Good == {k \in Nat : s + k <= Len(t) => Stands(d, W[s + k], L[s + k])}
<1>0. t \in Seq(Byte) /\ CanBuild(n)
  BY TextsType, AutomatonAssumption
<1>1. 0 \in Good
  <2>1. W[s] = WalkFirst(d, t, s) /\ L[s] = LiveFirst(n, t, s) /\ s + 0 = s
    BY <1>0, WalkEquation, LiveEquation
  <2>2. Stands(d, WalkFirst(d, t, s), LiveFirst(n, t, s))
    BY StandsFirst
  <2> HIDE DEF W, L
  <2> QED
    BY <2>1, <2>2
<1>2. ASSUME NEW k \in Nat, k \in Good PROVE k + 1 \in Good
  <2> SUFFICES ASSUME s + (k + 1) <= Len(t)
               PROVE  Stands(d, W[s + (k + 1)], L[s + (k + 1)])
    OBVIOUS
  <2> DEFINE i == s + (k + 1)
             e == i = Len(t)
  <2>1. i \in s + 1 .. Len(t) /\ i - 1 = s + k /\ i \in 1 .. Len(t) /\ s + k <= Len(t)
    BY <1>0
  <2>2. W[i] = Step(d, W[i - 1], t[i], i = Len(t)) /\ L[i] = LiveStep(n, t, L[i - 1], i)
    BY <1>0, <2>1, WalkEquation, LiveEquation, Zenon
  <2>3. Stands(d, W[i - 1], L[i - 1])
    BY <1>2, <2>1
  <2> HIDE DEF W, L, i
  <2>4. Stands(d, Step(d, W[i - 1], t[i], i = Len(t)), LiveStep(n, t, L[i - 1], i))
    BY <1>0, <2>1, <2>3, StandsStep
  <2>5. Stands(d, W[i], L[i])
    BY <2>2, <2>4, Zenon
  <2> QED
    BY <2>5 DEF i
<1>3. p - s \in Good /\ s + (p - s) = p /\ p <= Len(t)
  <2> HIDE DEF Good
  <2> QED BY <1>0, <1>1, <1>2, NatSetInduction
<1>4. Stands(d, W[p], L[p])
  BY <1>3
<1> HIDE DEF W, L
<1>5. Accepting(d, W[p]) <=> n.accept \in L[p]
  BY <1>4, StandsAccepts
<1> QED
  BY <1>5 DEF W, L

\* All four start states are states: the start state of the Thompson automaton
\* is in the closure.
LEMMA ShapeIsDfa ==
  ASSUME NEW n, CanBuild(n), NEW d, Shape(n, d), \A c \in Contexts : Begins(n, d, c)
  PROVE  IsDfa(d)
<1>1. d.len \in Nat /\ d.starts \in [Contexts -> None .. d.len - 1]
  BY DEF Shape
<1>2. ASSUME NEW c \in Contexts PROVE d.starts[c] \in 0 .. d.len - 1
  <2> DEFINE T == First(n, AtBegin(c), AtEnd(c))
  <2>1. \A b, e : Closure(n, {n.start}, b, e) # {}
    <3>1. {n.start} \in SUBSET State(n)
      BY DEF CanBuild
    <3>2. \A b, e : {n.start} \subseteq Closure(n, {n.start}, b, e)
      BY <3>1, ClosureLeast
    <3> QED
      BY <3>2
  <2>2. T # {}
    BY <2>1, Zenon DEF First
  <2>3. Stands(d, d.starts[c], T)
    BY Zenon DEF Begins
  <2> QED
    BY <2>2, <2>3, Zenon DEF Stands
<1>3. d.starts \in [Contexts -> 0 .. d.len - 1]
  BY <1>1, <1>2
<1>4. \A q \in 0 .. d.len - 1 : d.states[q] \in StateRecord(n, d.len)
  BY DEF Shape
<1> QED
  BY <1>1, <1>3, <1>4 DEF IsDfa, StateRecord

\* What is stored when the construction is over.
LEMMA BuildInvRepresents == BuildInv => BuiltRepresents
<1> SUFFICES ASSUME BuildInv, pc = "minimize"
             PROVE  IsDfa(dfa) /\ Represents(dfa, re)
  BY DEF BuiltRepresents
<1>1. /\ re \in Regex /\ Shape(Nfa[re], dfa)
      /\ \A c \in Contexts : Begins(Nfa[re], dfa, c)
      /\ \A s \in 0 .. dfa.len - 1 : \A b \in Byte :
           Moves(Nfa[re], dfa, s, b) /\ Finishes(Nfa[re], dfa, s, b)
  BY DEF BuildInv, BuildOK, Correct, nfa, DfaStates
<1>2. CanBuild(Nfa[re])
  BY <1>1, AutomatonAssumption
<1> QED
  BY <1>1, <1>2, FollowingSetsRepresents, ShapeIsDfa

\* When dfa_build succeeds, the automaton accepts exactly where the Thompson
\* automaton does: whatever the expression, the hash function and the limit.
THEOREM BuildIsRight == BuildSpec => []BuiltRepresents
BY BuildInvInit, BuildInvStep, BuildInvRepresents, PTL DEF BuildSpec

\* The chains are the buckets.
LEMMA BuildInvUnique == BuildInv => OneStatePerSet
<1> SUFFICES ASSUME BuildInv, pc \in {"start", "explore"}
    PROVE  /\ Distinct(dfa) /\ dfa.len <= StateLimit
           /\ \A h \in Buckets :
                ChainOf(h) = {q \in 0 .. dfa.len - 1 : Hash(dfa.states[q].set) = h}
  BY Zenon DEF OneStatePerSet, Distinct, DfaStates
<1>1. /\ dfa.len \in Nat /\ Distinct(dfa) /\ dfa.len <= StateLimit
      /\ Entered(dfa, table)
  BY DEF BuildInv, BuildOK, Shape
<1> QED
  BY <1>1, ChainIsBucket, Zenon

\* No set becomes a state twice, and every state can be found in the table.
THEOREM BuildIsUnique == BuildSpec => []OneStatePerSet
BY BuildInvInit, BuildInvStep, BuildInvUnique, PTL DEF BuildSpec

\* What is stored is right while the construction runs, too.
LEMMA BuildInvFollows == BuildInv => TransitionsFollowSets
<1> SUFFICES ASSUME BuildInv, pc \in {"start", "explore"}
             PROVE  TransitionsFollowSets
  BY DEF TransitionsFollowSets
<1>1. \A q, T : Stands(dfa, q, T) => StandsFor(q, T)
  BY DEF Stands, StandsFor, DfaStates
<1>2. ASSUME NEW c \in Contexts, pc = "explore" \/ c < context
      PROVE  Begins(nfa, dfa, c)
  <2>1. CASE pc = "explore"
    BY <2>1 DEF BuildInv, Correct
  <2>2. CASE pc = "start"
    <3>1. c \in 0 .. context - 1
      BY <1>2, <2>2 DEF BuildInv, BuildOK, Contexts
    <3> QED
      BY <2>2, <3>1 DEF BuildInv, Correct
  <2> QED
    BY <2>1, <2>2
<1>3. ASSUME NEW q \in DfaStates, NEW b \in Byte
      PROVE  /\ TransStored(q, ClassOf[re][b]) => Moves(nfa, dfa, q, b)
             /\ FinalStored(q, ClassOf[re][b]) => Finishes(nfa, dfa, q, b)
  <2>1. CASE pc = "explore"
    BY <2>1 DEF BuildInv, Correct
  <2>2. CASE pc = "start"
    <3>1. ClassOf[re][b] \in Nat /\ q \in Nat
      BY ClassFacts, AutomatonAssumption
         DEF BuildInv, BuildOK, Byte, DfaStates, Shape
    <3>2. current = 0 /\ class = 0 /\ last = FALSE
      BY <2>2 DEF BuildInv, BuildOK
    <3> QED
      BY <3>1, <3>2 DEF TransStored, FinalStored
  <2> QED
    BY <2>1, <2>2
<1> QED
  BY <1>1, <1>2, <1>3, Zenon DEF TransitionsFollowSets, Begins, Moves, Finishes

\* Every transition stored so far is the right one, whatever the expression.
THEOREM BuildFollowsSets == BuildSpec => []TransitionsFollowSets
BY BuildInvInit, BuildInvStep, BuildInvFollows, PTL DEF BuildSpec

-----------------------------------------------------------------------------
(* Which sets become states: the least family of sets that has the four    *)
(* start sets and every set one byte away from one of its own.             *)

FirstSets(n) == {First(n, AtBegin(c), AtEnd(c)) : c \in Contexts}
NextSets(n, D) == {After(n, T, b, e) : T \in D, b \in Byte, e \in BOOLEAN}

\* First and After return sets of states, After none for none.
LEMMA AfterType ==
  ASSUME NEW n, CanBuild(n)
  PROVE  /\ FirstSets(n) \subseteq SUBSET State(n)
         /\ \A D \in SUBSET (SUBSET State(n)) : NextSets(n, D) \subseteq SUBSET State(n)
         /\ \A b, e : After(n, {}, b, e) = {}
<1>1. FirstSets(n) \subseteq SUBSET State(n)
  <2>1. \A b, e : First(n, b, e) \in SUBSET State(n)
    <3> TAKE b, e
    <3>1. Closure(n, {n.start}, b, e) \in SUBSET State(n)
      BY ClosureLeast DEF CanBuild
    <3> QED
      BY <3>1, Zenon DEF First
  <2> QED
    BY <2>1, Zenon DEF FirstSets
<1>2. ASSUME NEW T \in SUBSET State(n), NEW b, NEW e
      PROVE  After(n, T, b, e) \in SUBSET State(n)
  <2>1. Closure(n, Move(n, T, b), FALSE, e) \in SUBSET State(n)
    BY MoveType, ClosureLeast
  <2> QED
    BY <2>1, Zenon DEF After
<1>3. \A D \in SUBSET (SUBSET State(n)) : NextSets(n, D) \subseteq SUBSET State(n)
  BY <1>2 DEF NextSets
<1>4. ASSUME NEW b, NEW e PROVE After(n, {}, b, e) = {}
  <2>1. Move(n, {}, b) = {}
    BY DEF Move
  <2>2. Closed(n, {}, FALSE, e)
    BY DEF Closed
  <2>3. Closure(n, {}, FALSE, e) \subseteq {}
    BY <2>2, ClosureLeast
  <2> QED
    BY <2>1, <2>3, Zenon DEF After
<1> QED
  BY <1>1, <1>3, <1>4

\* What Subsets returns.
LEMMA SubsetsFacts ==
  ASSUME NEW r \in Regex
  PROVE  LET n == Nfa[r]  G == Subsets(r) IN
         /\ G \subseteq SUBSET State(n) /\ {} \notin G /\ IsFiniteSet(G)
         /\ FirstSets(n) \subseteq G \cup {{}}
         /\ NextSets(n, G) \subseteq G \cup {{}}
         /\ \A D \in SUBSET (SUBSET State(n)) :
              /\ FirstSets(n) \subseteq D \cup {{}}
              /\ NextSets(n, D) \subseteq D \cup {{}}
              => G \subseteq D
<1> DEFINE n == Nfa[r]
           P == SUBSET State(n)
           More(D) == D \cup {After(n, T, b, atEnd) :
                              T \in D, b \in Byte, atEnd \in BOOLEAN}
           F == [D \in SUBSET P |-> D \cup NextSets(n, D)]
           Grows(g) == g = [D \in SUBSET P |-> IF More(D) = D THEN D ELSE g[More(D)]]
           f == CHOOSE g : Grows(g)
           I == FirstSets(n)
           L == Least(P, F, I)
<1>0. CanBuild(n)
  BY AutomatonAssumption
<1>1. I \in SUBSET P /\ \A D \in SUBSET P : NextSets(n, D) \subseteq P
  BY <1>0, AfterType, Zenon
<1>2. IsRound(P, F)
  <2>1. IsFiniteSet(P)
    BY <1>0, StateFinite, FS_SUBSET
  <2>2. F \in [SUBSET P -> SUBSET P]
    BY <1>1
  <2>3. \A D, E : D \subseteq E => NextSets(n, D) \subseteq NextSets(n, E)
    BY DEF NextSets
  <2> HIDE DEF P, n
  <2>4. \A D, E \in SUBSET P : D \subseteq E => D \cup NextSets(n, D) \subseteq E \cup NextSets(n, E)
    BY <2>3
  <2> QED
    BY <2>1, <2>2, <2>4 DEF IsRound
<1>3. \A D \in SUBSET P : F[D] = D \cup NextSets(n, D)
  OBVIOUS
<1>4. \A D : More(D) = D \cup NextSets(n, D)
  BY DEF NextSets
<1>5. Subsets(r) = f[I] \ {{}}
  BY DEF Subsets, FirstSets
<1> HIDE DEF F, More, P, I, n
<1>6. \A g : Grows(g) <=> GrowsBy(P, F, g)
  <2> TAKE g
  <2>1. [D \in SUBSET P |-> IF More(D) = D THEN D ELSE g[More(D)]]
        = [D \in SUBSET P |-> IF F[D] = D THEN D ELSE g[F[D]]]
    BY <1>3, <1>4, Zenon
  <2> QED
    BY <2>1, Zenon DEF GrowsBy
<1> HIDE DEF Grows
<1>7. Grows(f)
  BY <1>2, <1>6, GrowsExists, Zenon
<1>8. f[I] = L
  <2> HIDE DEF f
  <2> QED BY <1>1, <1>2, <1>6, <1>7, GrowsLeast
<1>9. /\ L \in SUBSET P /\ I \subseteq L /\ F[L] = L
      /\ \A U \in SUBSET P : I \subseteq U /\ F[U] = U => L \subseteq U
  BY <1>1, <1>2, LeastFacts
<1> HIDE DEF L, f
<1>10. NextSets(n, L) \subseteq L
  BY <1>3, <1>9
<1>11. \A D : NextSets(n, D \cup {{}}) \subseteq NextSets(n, D) \cup {{}}
  <2> SUFFICES ASSUME NEW D, NEW x \in NextSets(n, D \cup {{}})
               PROVE  x \in NextSets(n, D) \cup {{}}
    BY Zenon
  <2>1. PICK T \in D \cup {{}}, b \in Byte, e \in BOOLEAN : x = After(n, T, b, e)
    BY DEF NextSets
  <2>2. T = {} => x = {}
    BY <1>0, <2>1, AfterType
  <2>3. T \in D => x \in NextSets(n, D)
    BY <2>1 DEF NextSets
  <2> QED
    BY <2>2, <2>3
<1>12. NextSets(n, Subsets(r)) \subseteq NextSets(n, L)
  BY <1>5, <1>8 DEF NextSets
<1>13. ASSUME NEW D \in SUBSET P, I \subseteq D \cup {{}}, NextSets(n, D) \subseteq D \cup {{}}
       PROVE  Subsets(r) \subseteq D
  <2> DEFINE U == D \cup {{}}
  <2>1. U \in SUBSET P
    BY DEF P
  <2>2. NextSets(n, U) \subseteq U
    BY <1>11, <1>13
  <2>3. F[U] = U
    BY <1>3, <2>1, <2>2
  <2>4. L \subseteq U
    BY <1>9, <1>13, <2>1, <2>3
  <2> QED
    BY <1>5, <1>8, <2>4
<1>14. IsFiniteSet(Subsets(r))
  <2>1. IsFiniteSet(P) /\ Subsets(r) \subseteq P
    BY <1>2, <1>5, <1>8, <1>9 DEF IsRound
  <2> QED
    BY <2>1, FS_Subset
<1> QED
  BY <1>1, <1>5, <1>8, <1>9, <1>10, <1>12, <1>13, <1>14 DEF I, P, n

\* The set in question is empty or belongs to the family.
LEMMA TargetReachable ==
  ASSUME BuildInv, Resolving, Sets \subseteq Subsets(re)
  PROVE  Target \in Subsets(re) \cup {{}}
<1>1. /\ re \in Regex /\ Subsets(re) \subseteq SUBSET State(nfa)
      /\ FirstSets(nfa) \subseteq Subsets(re) \cup {{}}
      /\ NextSets(nfa, Subsets(re)) \subseteq Subsets(re) \cup {{}}
  BY SubsetsFacts DEF BuildInv, BuildOK, nfa
<1>2. CASE pc = "start"
  <2>1. Target = First(nfa, AtBegin(context), AtEnd(context)) /\ context \in Contexts
    BY <1>2, Zenon DEF Target, BuildInv, BuildOK
  <2>2. Target \in FirstSets(nfa)
    BY <2>1, Zenon DEF FirstSets
  <2> QED
    BY <1>1, <2>2, Zenon
<1>3. CASE pc # "start"
  <2> DEFINE T == dfa.states[current].set
  <2>1. /\ current \in DfaStates /\ class \in Classes[re] /\ last \in BOOLEAN
    BY <1>3 DEF Resolving, BuildInv, BuildOK, Shape, DfaStates
  <2>2. class \in Byte
    BY <1>1, <2>1, ClassFacts DEF Classes
  <2>3. T \in Subsets(re)
    BY <2>1 DEF Sets
  <2>4. Target = After(nfa, T, class, last)
    BY <1>3, Zenon DEF Target
  <2> HIDE DEF T
  <2>5. Target \in NextSets(nfa, Subsets(re))
    <3> HIDE DEF Target
    <3> QED BY <2>1, <2>2, <2>3, <2>4 DEF NextSets
  <2> QED
    BY <1>1, <2>5, Zenon
<1> QED
  BY <1>2, <1>3

\* A step that resolves a set adds at most this one.
LEMMA SetsGrow ==
  ASSUME BuildInv, ResolveEmpty \/ ResolveKnown \/ ResolveNew
  PROVE  Sets' \subseteq Sets \cup {Target} /\ {} \notin Sets'
<1>1. PICK d, q : /\ Grown(d) /\ Entered(d, table') /\ Stands(d, q, Target)
                  /\ q \in None .. d.len - 1 /\ dfa' = Resolved(d, q)
  BY Resolves
<1>2. Resolving
  BY DEF ResolveEmpty, ResolveKnown, ResolveNew
<1>3. /\ Shape(nfa, d) /\ d.len \in {dfa.len, dfa.len + 1} /\ dfa.len \in Nat
      /\ \A s \in 0 .. dfa.len - 1 : d.states[s] = dfa.states[s]
      /\ d.len = dfa.len + 1 => d.states[dfa.len].set = Target
  BY <1>1 DEF Grown, DfaStates, BuildInv, BuildOK, Shape
<1>4. dfa'.len = d.len /\ \A s \in 0 .. d.len - 1 : dfa'.states[s].set = d.states[s].set
  <2>1. CASE pc = "start"
    <3>1. context \in Contexts
      BY <2>1 DEF BuildInv, BuildOK
    <3>2. LET e == Resolved(d, q) IN e.len = d.len /\ e.states = d.states
      BY <1>1, <1>3, <2>1, <3>1, StoresStart, Zenon
    <3> QED
      BY <1>1, <3>2, Zenon
  <2>2. CASE pc # "start"
    <3>1. last \in BOOLEAN /\ current \in 0 .. d.len - 1
      BY <1>2, <1>3, <2>2 DEF Resolving, BuildInv, BuildOK
    <3>2. LET e == Resolved(d, q) IN
          e.len = d.len /\ \A s \in 0 .. d.len - 1 : e.states[s].set = d.states[s].set
      BY <1>1, <1>3, <2>2, <3>1, StoresRow, Zenon
    <3> QED
      BY <1>1, <3>2, Zenon
  <2> QED
    BY <2>1, <2>2
<1>5. ASSUME NEW s \in 0 .. d.len - 1
      PROVE  d.states[s].set \in Sets \cup {Target} /\ d.states[s].set # {}
  <2>1. d.states[s].set # {}
    BY <1>3 DEF Shape, StateRecord
  <2>2. CASE s \in 0 .. dfa.len - 1
    BY <1>3, <2>1, <2>2 DEF Sets, DfaStates
  <2>3. CASE s \notin 0 .. dfa.len - 1
    <3>1. s = dfa.len /\ d.len = dfa.len + 1
      BY <1>3, <2>3
    <3> QED
      BY <1>3, <2>1, <3>1
  <2> QED
    BY <2>2, <2>3
<1>6. Sets' = {dfa'.states[s].set : s \in 0 .. dfa'.len - 1}
  BY DEF Sets, DfaStates
<1> HIDE DEF Target
<1> QED
  BY <1>4, <1>5, <1>6

\* When everything is explored, the sets of the states are the whole family.
LEMMA ExploredReaches == BuildInv /\ pc = "minimize" => Subsets(re) \subseteq Sets
<1> SUFFICES ASSUME BuildInv, pc = "minimize" PROVE Subsets(re) \subseteq Sets
  OBVIOUS
<1>1. /\ re \in Regex /\ Shape(nfa, dfa)
      /\ \A c \in Contexts : Begins(nfa, dfa, c)
      /\ \A s \in DfaStates : \A b \in Byte : Moves(nfa, dfa, s, b) /\ Finishes(nfa, dfa, s, b)
  BY DEF BuildInv, BuildOK, Correct
<1>2. \A q, T : Stands(dfa, q, T) => T \in Sets \cup {{}}
  BY DEF Stands, Sets, DfaStates
<1>3. Sets \in SUBSET (SUBSET State(nfa))
  BY <1>1 DEF Sets, DfaStates, Shape, StateRecord
<1>4. FirstSets(nfa) \subseteq Sets \cup {{}}
  <2>1. \A c \in Contexts : First(nfa, AtBegin(c), AtEnd(c)) \in Sets \cup {{}}
    BY <1>1, <1>2, Zenon DEF Begins
  <2> QED
    BY <2>1 DEF FirstSets
<1>5. NextSets(nfa, Sets) \subseteq Sets \cup {{}}
  <2>1. ASSUME NEW s \in DfaStates, NEW b \in Byte, NEW e \in BOOLEAN
        PROVE  After(nfa, dfa.states[s].set, b, e) \in Sets \cup {{}}
    <3>1. /\ After(nfa, dfa.states[s].set, b, FALSE) \in Sets \cup {{}}
          /\ After(nfa, dfa.states[s].set, b, TRUE) \in Sets \cup {{}}
      BY <1>1, <1>2, Zenon DEF Moves, Finishes
    <3>2. e = TRUE \/ e = FALSE
      OBVIOUS
    <3> QED
      BY <3>1, <3>2, Zenon
  <2> SUFFICES ASSUME NEW x \in NextSets(nfa, Sets) PROVE x \in Sets \cup {{}}
    OBVIOUS
  <2>2. PICK T \in Sets, b \in Byte, e \in BOOLEAN : x = After(nfa, T, b, e)
    BY DEF NextSets
  <2>3. PICK s \in DfaStates : T = dfa.states[s].set
    BY DEF Sets
  <2> QED
    BY <2>1, <2>2, <2>3, Zenon
<1> QED
  BY <1>1, <1>3, <1>4, <1>5, SubsetsFacts DEF nfa

\* When the table is full and the set is not in it, the family has more sets
\* than states are allowed.
LEMMA LimitIsExceeded ==
  ASSUME BuildInv, LimitReached, Sets \subseteq Subsets(re)
  PROVE  Cardinality(Subsets(re)) > StateLimit
<1> DEFINE T == Target
           G == Subsets(re)
           I == 0 .. dfa.len
           f == [q \in I |-> IF q = dfa.len THEN T ELSE dfa.states[q].set]
<1>1. /\ re \in Regex /\ dfa.len \in Nat /\ StateLimit \in Nat /\ dfa.len >= StateLimit
      /\ Distinct(dfa) /\ Entered(dfa, table) /\ Resolving /\ T # {} /\ Find(T) = {}
  BY DfaBuildAssumption
     DEF LimitReached, Resolving, BuildInv, BuildOK, Shape
<1>2. T \in G
  BY <1>1, TargetReachable, Zenon
<1> HIDE DEF T
<1>3. IsFiniteSet(G)
  BY <1>1, SubsetsFacts
<1>4. IsFiniteSet(I) /\ Cardinality(I) = dfa.len + 1
  <2>1. 0 \in Int /\ dfa.len \in Int /\ ~ 0 > dfa.len /\ dfa.len - 0 + 1 = dfa.len + 1
    BY <1>1
  <2> QED
    BY <2>1, FS_Interval, Zenon
<1>5. ASSUME NEW q \in 0 .. dfa.len - 1
      PROVE  dfa.states[q].set \in G /\ dfa.states[q].set # T
  <2>1. dfa.states[q].set \in G
    BY DEF Sets, DfaStates
  <2>2. Hash(dfa.states[q].set) \in Buckets
    BY <1>1, DfaBuildAssumption DEF BuildInv, BuildOK, Shape, StateRecord, nfa
  <2>3. q \in ChainOf(Hash(dfa.states[q].set))
    BY <1>1, <2>2, ChainIsBucket
  <2> QED
    BY <1>1, <2>1, <2>3 DEF Find
<1>6. f \in [I -> G]
  BY <1>1, <1>2, <1>5
<1>7. ~ \E x, y \in I : x # y /\ f[x] = f[y]
  <2> SUFFICES ASSUME NEW x \in I, NEW y \in I, x # y, f[x] = f[y] PROVE FALSE
    OBVIOUS
  <2>1. /\ x # dfa.len => x \in 0 .. dfa.len - 1
        /\ y # dfa.len => y \in 0 .. dfa.len - 1
    BY <1>1
  <2>2. /\ f[x] = IF x = dfa.len THEN T ELSE dfa.states[x].set
        /\ f[y] = IF y = dfa.len THEN T ELSE dfa.states[y].set
    OBVIOUS
  <2> HIDE DEF f
  <2> QED
    BY <1>1, <1>5, <2>1, <2>2 DEF Distinct
<1>8. ~ Cardinality(G) < Cardinality(I)
  <2> HIDE DEF f, G, I
  <2> QED BY <1>3, <1>4, <1>6, <1>7, FS_PigeonHole
<1>9. Cardinality(G) \in Nat
  BY <1>3, FS_CardinalityType
<1> QED
  BY <1>1, <1>4, <1>8, <1>9

\* Every step keeps it.
LEMMA ReachStep ==
  BuildInv /\ StatesAreReachable /\ [BuildNext]_buildVars => StatesAreReachable'
<1> SUFFICES ASSUME BuildInv, StatesAreReachable, [BuildNext]_buildVars
             PROVE  StatesAreReachable'
  OBVIOUS
<1>1. /\ pc \in {"start", "explore"} => Sets \subseteq Subsets(re)
      /\ pc = "minimize" => Sets = Subsets(re)
      /\ rc = "EUNSUPPORTED" => Cardinality(Subsets(re)) > StateLimit
  BY Zenon DEF StatesAreReachable
<1>2. CASE ResolveEmpty \/ ResolveKnown \/ ResolveNew
  <2>1. /\ Resolving /\ Advance /\ re' = re /\ rc' = rc
        /\ pc \in {"start", "explore"}
    BY <1>2 DEF ResolveEmpty, ResolveKnown, ResolveNew, Resolving
  <2>2. pc' \in {"start", "explore"}
    BY <2>1 DEF Advance
  <2>3. Sets' \subseteq Sets \cup {Target} /\ {} \notin Sets'
    BY <1>2, SetsGrow
  <2>4. Target \in Subsets(re) \cup {{}}
    BY <1>1, <2>1, TargetReachable
  <2>5. Sets' \subseteq Subsets(re) /\ Subsets(re') = Subsets(re)
    <3> HIDE DEF Target
    <3> QED BY <1>1, <2>1, <2>3, <2>4
  <2> QED
    BY <1>1, <2>1, <2>2, <2>5 DEF StatesAreReachable
<1>3. CASE LimitReached
  <2>1. /\ pc' = "failed" /\ re' = re /\ Subsets(re') = Subsets(re)
        /\ pc \in {"start", "explore"}
    BY <1>3 DEF LimitReached, Resolving
  <2>2. Cardinality(Subsets(re)) > StateLimit
    BY <1>1, <1>3, <2>1, LimitIsExceeded
  <2> QED
    BY <2>1, <2>2 DEF StatesAreReachable
<1>4. CASE BuildOutOfMemory
  <2>1. pc' = "failed" /\ rc' = "ESPACE"
    BY <1>4 DEF BuildOutOfMemory
  <2> QED
    BY <2>1 DEF StatesAreReachable
<1>5. CASE Explored
  <2>1. /\ pc = "explore" /\ pc' = "minimize" /\ re' = re /\ rc' = rc /\ dfa' = dfa
        /\ Sets' = Sets /\ Subsets(re') = Subsets(re)
    BY <1>5 DEF Explored, Sets, DfaStates
  <2>2. BuildInv'
    BY <1>5, BuildInvStep DEF BuildNext
  <2>3. BuildInv' /\ pc' = "minimize" => Subsets(re') \subseteq Sets'
    <3>1. (BuildInv /\ pc = "minimize" => Subsets(re) \subseteq Sets)'
      BY ExploredReaches, PTL
    <3> QED
      BY <3>1
  <2> QED
    BY <1>1, <2>1, <2>2, <2>3 DEF StatesAreReachable
<1>6. CASE UNCHANGED buildVars
  <2>1. UNCHANGED <<re, dfa, pc, rc>> /\ Sets' = Sets /\ Subsets(re') = Subsets(re)
    BY <1>6 DEF buildVars, Sets, DfaStates
  <2> QED
    BY <1>1, <2>1 DEF StatesAreReachable
<1> QED
  BY <1>2, <1>3, <1>4, <1>5, <1>6 DEF BuildNext

\* Nothing is stored yet.
LEMMA ReachInit == BuildInit => StatesAreReachable
BY DEF BuildInit, StatesAreReachable, Sets, DfaStates

\* Only sets that some text leads to become states, all of them do when
\* dfa_build succeeds, and it gives up only if they are really more than
\* RX_DFA_STATE_LIMIT: whatever the expression, the hash function, the limit.
THEOREM BuildIsReachable == BuildSpec => []StatesAreReachable
<1>1. BuildInit => BuildInv /\ StatesAreReachable
  BY BuildInvInit, ReachInit
<1>2. /\ BuildInv /\ StatesAreReachable
      /\ [BuildNext]_buildVars
      => BuildInv' /\ StatesAreReachable'
  BY BuildInvStep, ReachStep
<1> QED
  BY <1>1, <1>2, PTL DEF BuildSpec

-----------------------------------------------------------------------------
(* One call of dfa_run_from. *)

all == <<re, dfa, pc, rc, runVars>>

\* The types, the automaton that no call changes, and what a call has not
\* touched yet.
RunOK ==
  /\ re \in Regex /\ IsDfa(dfa) /\ Represents(dfa, re)
  /\ text \in Texts /\ start \in 0 .. Len(text) /\ end \in Nat
  /\ at \in {"call", "loop", "done"}
  /\ at = "call" => answer = "IDLE" /\ end = 0
  /\ at = "loop" =>
       /\ answer = "RUN"
       /\ pos \in start .. Len(text)
       /\ state \in DfaStates
       /\ best \in start .. pos /\ found \in BOOLEAN

RunInv == RunOK /\ RunFollowsText

\* Before the call there is nothing to show.
LEMMA RunInvInit == re \in Regex /\ IsDfa(dfa) /\ Represents(dfa, re) /\ RunInit => RunInv
BY TextsType DEF RunInit, RunInv, RunOK, RunFollowsText

\* The walk of the call at work.
W == Walk(dfa, text, start)

\* The walk that a call follows, from its own state and text.
LEMMA WalkFacts ==
  ASSUME RunOK
  PROVE  /\ text \in Seq(Byte) /\ Len(text) \in Nat /\ start \in 0 .. Len(text)
         /\ W[start] = dfa.starts[Context(start = 0, start = Len(text))]
         /\ \A p \in start + 1 .. Len(text) :
              W[p] = Step(dfa, W[p - 1], text[p], p = Len(text))
         /\ \A p \in start .. Len(text) : W[p] \in None .. dfa.len - 1
         /\ \A p \in start .. Len(text) : W[p] = None =>
              \A k \in p .. Len(text) : W[k] = None
<1>1. text \in Seq(Byte) /\ start \in 0 .. Len(text) /\ IsDfa(dfa)
  BY TextsType DEF RunOK
<1>2. Len(text) \in Nat
  BY <1>1
<1> HIDE DEF W
<1>3. W = Walk(dfa, text, start)
  BY DEF W
<1>4. W[start] = dfa.starts[Context(start = 0, start = Len(text))]
  BY <1>1, <1>3, WalkEquation, Zenon DEF WalkFirst
<1>5. \A p \in start + 1 .. Len(text) :
        W[p] = Step(dfa, W[p - 1], text[p], p = Len(text))
  BY <1>1, <1>3, WalkEquation, Zenon
<1>6. \A p \in start .. Len(text) : W[p] \in None .. dfa.len - 1
  BY <1>1, <1>3, WalkType
<1>7. \A p \in start .. Len(text) : W[p] = None => \A k \in p .. Len(text) : W[k] = None
  BY <1>1, <1>3, WalkDead
<1> QED
  BY <1>1, <1>2, <1>4, <1>5, <1>6, <1>7

\* Accepted, position by position.
LEMMA AcceptedIs == Accepted = {p \in start .. pos : Accepting(dfa, W[p])}
BY Zenon DEF Accepted, W

\* After the call the automaton is in its start state.
LEMMA CallStep == RunInv /\ Call => RunInv'
<1> SUFFICES ASSUME RunInv, Call PROVE RunInv'
  OBVIOUS
<1>1. /\ re' = re /\ dfa' = dfa /\ at' = "loop" /\ answer' = "RUN" /\ end' = end
      /\ text' \in Texts /\ start' \in 0 .. Len(text')
      /\ pos' = start' /\ best' = start'
      /\ state' = dfa.starts[Context(start' = 0, start' = Len(text'))]
      /\ found' = dfa.states[state'].accept
  BY DEF Call
<1>2. Len(text') \in Nat /\ start' \in start' .. Len(text') /\ start' \in start' .. start'
  BY <1>1, TextsType
<1>3. state' \in 0 .. dfa.len - 1
  BY <1>1, ContextType, Zenon DEF RunInv, RunOK, IsDfa
<1>4. found' \in BOOLEAN
  BY <1>1, <1>3 DEF RunInv, RunOK, IsDfa
<1>5. RunOK'
  BY <1>1, <1>2, <1>3, <1>4 DEF RunInv, RunOK, DfaStates
<1>6. W'[start'] = state'
  <2>1. text' \in Seq(Byte)
    BY <1>1, TextsType
  <2>2. Walk(dfa', text', start')[start'] = WalkFirst(dfa', text', start')
    BY <1>1, <2>1, WalkEquation
  <2> QED
    BY <1>1, <2>2, Zenon DEF W, WalkFirst
<1>7. Accepted' = {p \in start' .. pos' : Accepting(dfa', W'[p])}
  BY Zenon DEF Accepted, W
<1>8. Accepted' = IF found' THEN {start'} ELSE {}
  <2>1. \A p \in start' .. pos' : p = start'
    BY <1>1, <1>2
  <2>2. Accepting(dfa', W'[start']) <=> found'
    BY <1>1, <1>3, <1>6 DEF Accepting, None
  <2> HIDE DEF W
  <2> QED
    BY <1>1, <1>2, <1>7, <2>1, <2>2
<1>9. RunFollowsText'
  <2>1. (state = Walk(dfa, text, start)[pos])'
    BY <1>1, <1>6 DEF W
  <2>2. (found <=> Accepted # {})' /\ Accepted' \subseteq {start'}
    BY <1>8
  <2>3. start' <= start'
    BY <1>2
  <2>4. Accepted' # {} => best' \in Accepted' /\ \A p \in Accepted' : p <= best'
    BY <1>1, <2>2, <2>3, Zenon
  <2> QED
    BY <2>1, <2>2, <2>4 DEF RunFollowsText
<1> QED
  BY <1>5, <1>9 DEF RunInv

\* A byte moves the state along the walk.
LEMMA ReadStep == RunInv /\ ReadByte => RunInv'
<1> SUFFICES ASSUME RunInv, ReadByte PROVE RunInv'
  OBVIOUS
<1>1. /\ UNCHANGED <<re, dfa, text, start, at, answer, end>> /\ at = "loop"
      /\ pos' = pos + 1 /\ pos + 1 \in start + 1 .. Len(text) /\ pos \in start .. Len(text)
      /\ state' = NextState(pos) /\ NextState(pos) # None
      /\ found' = (found \/ dfa.states[state'].accept)
      /\ best' = IF dfa.states[state'].accept THEN pos + 1 ELSE best
      /\ best \in start .. pos /\ state = W[pos]
      /\ text \in Seq(Byte) /\ Len(text) \in Nat
  BY TextsType DEF ReadByte, RunInv, RunOK, RunFollowsText, W
<1>2. state' = W[pos + 1]
  <2>1. W[pos + 1] = Step(dfa, W[(pos + 1) - 1], text[pos + 1], pos + 1 = Len(text))
    BY <1>1, WalkFacts, Zenon DEF RunInv
  <2>2. (pos + 1) - 1 = pos
    BY <1>1
  <2> QED
    BY <1>1, <2>1, <2>2, Zenon DEF NextState
<1>3. state' \in DfaStates
  <2>0. pos + 1 \in start .. Len(text) /\ dfa.len \in Nat
    BY <1>1 DEF RunInv, RunOK, IsDfa
  <2>1. W[pos + 1] \in None .. dfa.len - 1
    BY <2>0, WalkFacts DEF RunInv
  <2> QED
    BY <1>1, <1>2, <2>0, <2>1 DEF DfaStates, None
<1>4. dfa.states[state'].accept \in BOOLEAN /\ found \in BOOLEAN
  BY <1>1, <1>3 DEF RunInv, RunOK, IsDfa, DfaStates
<1>5. RunOK'
  <2>1. found' \in BOOLEAN
    BY <1>1, <1>4, Zenon
  <2>2. pos' \in start' .. Len(text') /\ best' \in start' .. pos' /\ start \in 0 .. Len(text)
    BY <1>1, <1>4 DEF RunInv, RunOK
  <2>3. state' \in DfaStates'
    BY <1>1, <1>3 DEF DfaStates
  <2> QED
    BY <1>1, <2>1, <2>2, <2>3 DEF RunInv, RunOK
<1>6. W' = W
  BY <1>1, Zenon DEF W
<1>7. Accepted' = Accepted \cup (IF dfa.states[state'].accept THEN {pos + 1} ELSE {})
  <2>1. Accepted' = {p \in start .. pos + 1 : Accepting(dfa, W[p])}
    BY <1>1, <1>6, Zenon DEF Accepted, W
  <2>2. Accepted = {p \in start .. pos : Accepting(dfa, W[p])}
    BY AcceptedIs
  <2>3. start .. pos + 1 = (start .. pos) \cup {pos + 1}
    BY <1>1 DEF RunInv, RunOK
  <2>4. Accepting(dfa, W[pos + 1]) <=> dfa.states[state'].accept
    BY <1>1, <1>2 DEF Accepting
  <2> HIDE DEF W
  <2> QED
    BY <2>1, <2>2, <2>3, <2>4
<1>8. /\ found <=> Accepted # {}
      /\ found => best \in Accepted /\ \A p \in Accepted : p <= best
  BY <1>1 DEF RunInv, RunFollowsText
<1>9. \A p \in Accepted : p <= pos + 1
  BY <1>1, AcceptedIs DEF RunInv, RunOK
<1>10. state' = Walk(dfa', text', start')[pos']
  BY <1>1, <1>2, <1>6 DEF W
<1>11. CASE dfa.states[state'].accept
  <2>1. found' = TRUE /\ best' = pos + 1 /\ Accepted' = Accepted \cup {pos + 1}
    BY <1>1, <1>7, <1>11
  <2> QED
    BY <1>1, <1>5, <1>9, <1>10, <2>1 DEF RunInv, RunFollowsText
<1>12. CASE ~ dfa.states[state'].accept
  <2>1. (found' <=> found) /\ best' = best /\ Accepted' = Accepted
    BY <1>1, <1>7, <1>12
  <2> QED
    BY <1>5, <1>8, <1>10, <2>1 DEF RunInv, RunFollowsText
<1> QED
  BY <1>11, <1>12

\* What is done to pc or rc alone does not touch the call.
LEMMA RunInvSame == RunInv /\ UNCHANGED <<re, dfa, runVars>> => RunInv'
<1> SUFFICES ASSUME RunInv, UNCHANGED <<re, dfa, runVars>> PROVE RunInv'
  OBVIOUS
<1>1. UNCHANGED <<re, dfa, text, start, at, state, pos, found, best, answer, end>>
  BY DEF runVars
<1>2. Accepted' = Accepted /\ Walk(dfa, text, start)' = Walk(dfa, text, start)
  BY <1>1, Zenon DEF Accepted
<1>3. RunFollowsText'
  BY <1>1, <1>2 DEF RunInv, RunFollowsText
<1>4. RunOK'
  BY <1>1 DEF RunInv, RunOK, DfaStates
<1> QED
  BY <1>3, <1>4 DEF RunInv

\* Every step keeps the invariant.
LEMMA RunInvStep == RunInv /\ [RunNext]_all => RunInv'
<1> SUFFICES ASSUME RunInv, [RunNext]_all PROVE RunInv'
  OBVIOUS
<1>1. CASE Return
  BY <1>1 DEF Return, RunInv, RunOK, RunFollowsText
<1>2. CASE UNCHANGED all
  BY <1>2, RunInvSame DEF all
<1> QED
  BY <1>1, <1>2, CallStep, ReadStep DEF RunNext

\* The state and `best' follow the text, for every automaton that represents
\* its expression, every text and every start.
THEOREM RunInvariance == RunSpec => []RunFollowsText
<1>1. RunInv => RunFollowsText
  BY DEF RunInv
<1> QED
  BY RunInvInit, RunInvStep, <1>1, PTL DEF RunSpec, all

-----------------------------------------------------------------------------
\* Where a match can end, in the contract and in the terms of DfaRun.
LEMMA PromiseEnds ==
  Promise!Ends(re, text, start) =
    {p \in start .. Len(text) : Nfa[re].accept \in Live(re, text, start)[p]}
BY Zenon DEF Promise!Ends, Promise!Live, Promise!Closure, Promise!Move,
   Promise!Spread, Promise!EpsTargets, Promise!ByteTargets, Promise!CanTake,
   Promise!Consumes, Promise!Out, Promise!State, Promise!Nfa, Promise!Regex,
   Live, Closure, Move, Spread, EpsTargets, ByteTargets, CanTake,
   Consumes, Out, State, Nfa, Regex

\* The contract speaks of the same texts.
LEMMA TextsSame == Promise!Texts = Texts
BY DEF Promise!Texts, Promise!Byte, Texts, Byte

\* When the call returns, every position at which a match ends was accepted:
\* the walk is over or leads nowhere.
LEMMA NothingAhead ==
  ASSUME RunInv, Return
  PROVE  Promise!Ends(re, text, start) = Accepted
<1>1. /\ text \in Seq(Byte) /\ Len(text) \in Nat /\ start \in 0 .. Len(text)
      /\ pos \in start .. Len(text) /\ state = W[pos]
      /\ pos < Len(text) => NextState(pos) = None
      /\ re \in Regex /\ text \in Texts /\ Represents(dfa, re)
  BY TextsType DEF Return, RunInv, RunOK, RunFollowsText, W
<1>2. \A p \in start .. Len(text) :
        Accepting(dfa, W[p]) <=> Nfa[re].accept \in Live(re, text, start)[p]
  BY <1>1, Zenon DEF Represents, W
<1>3. ASSUME pos < Len(text), NEW p \in pos + 1 .. Len(text)
      PROVE  ~ Accepting(dfa, W[p])
  <2>1. pos + 1 \in start + 1 .. Len(text) /\ pos + 1 \in start .. Len(text)
        /\ (pos + 1) - 1 = pos
    BY <1>1, <1>3
  <2>2. W[pos + 1] = Step(dfa, W[(pos + 1) - 1], text[pos + 1], pos + 1 = Len(text))
    BY <2>1, WalkFacts, Zenon DEF RunInv
  <2>3. W[pos + 1] = None
    BY <1>1, <1>3, <2>1, <2>2, Zenon DEF NextState
  <2>4. W[p] = None
    BY <1>3, <2>1, <2>3, WalkFacts DEF RunInv
  <2> QED
    BY <2>4 DEF Accepting
<1>4. \A p \in start .. Len(text) : Accepting(dfa, W[p]) => p \in start .. pos
  BY <1>1, <1>3
<1>5. \A p \in start .. pos : p \in start .. Len(text)
  BY <1>1
<1> HIDE DEF W
<1> QED
  BY <1>2, <1>4, <1>5, PromiseEnds, AcceptedIs

\* A step of the call is a step of the contract or changes nothing of it.
LEMMA PromiseStep == RunInv /\ [RunNext]_all => [Promise!Next]_(Promise!vars)
<1> SUFFICES ASSUME RunInv, [RunNext]_all PROVE [Promise!Next]_(Promise!vars)
  OBVIOUS
<1>1. CASE Call
  <2>1. Promise!Call
    BY <1>1, TextsSame DEF Call, Promise!Call, RunInv, RunOK
  <2> QED
    BY <2>1 DEF Promise!Next
<1>2. CASE ReadByte \/ UNCHANGED all
  BY <1>2 DEF ReadByte, all, runVars, Promise!vars
<1>3. CASE Return
  <2>1. answer = "RUN" /\ UNCHANGED <<re, text, start>>
    BY <1>3 DEF Return, RunInv, RunOK
  <2>2. Promise!Ends(re, text, start) = Accepted
    BY <1>3, NothingAhead
  <2>3. /\ found <=> Accepted # {}
        /\ found => best \in Accepted /\ \A p \in Accepted : p <= best
    BY <1>3 DEF Return, RunInv, RunFollowsText
  <2>4. ASSUME found PROVE Promise!Succeed
    <3>1. answer' = "OK" /\ end' = best
      BY <1>3, <2>4 DEF Return
    <3> QED
      BY <2>1, <2>2, <2>3, <2>4, <3>1 DEF Promise!Succeed
  <2>5. ASSUME ~ found PROVE Promise!Fail
    <3>1. answer' = "NOMATCH" /\ end' = end
      BY <1>3, <2>5 DEF Return
    <3> QED
      BY <2>1, <2>2, <2>3, <2>5, <3>1 DEF Promise!Fail
  <2> QED
    BY <2>4, <2>5 DEF Promise!Next
<1> QED
  BY <1>1, <1>2, <1>3 DEF RunNext

\* dfa_run_from implements the contract it shares with nfa_run_from: on an
\* automaton that represents the expression, every call is one of LongestMatch.
THEOREM RunRefinement == RunSpec => KeepsPromise
<1>1. re \in Regex /\ RunInit => Promise!Init
  BY DEF RunInit, Promise!Init, Promise!Regex, Regex
<1> QED
  BY <1>1, RunInvInit, RunInvStep, PromiseStep, PTL
     DEF RunSpec, all, KeepsPromise, Promise!Spec

-----------------------------------------------------------------------------
(* The alphabet of the minimization and the transitions. *)

\* The symbols are a byte and whether it is the last, and finitely many.
LEMMA SymbolsType ==
  ASSUME re \in Regex
  PROVE  /\ Classes[re] \subseteq Byte
         /\ IsFiniteSet(Symbols)
<1>1. Classes[re] = {ClassOf[re][b] : b \in Byte}
  BY Zenon DEF Classes
<1>2. Classes[re] \subseteq Byte
  BY <1>1, ClassFacts
<1>3. IsFiniteSet(Classes[re])
  <2>1. IsFiniteSet(Byte)
    BY FS_Interval, AutomatonAssumption DEF Byte
  <2> QED
    BY <1>2, <2>1, FS_Subset
<1>4. IsFiniteSet(BOOLEAN)
  <2>1. BOOLEAN = {TRUE} \cup {FALSE}
    OBVIOUS
  <2>2. IsFiniteSet({TRUE}) /\ IsFiniteSet({FALSE})
    BY FS_Singleton
  <2> QED
    BY <2>1, <2>2, FS_Union
<1> QED
  BY <1>2, <1>3, <1>4, FS_Product DEF Symbols

\* The order in which a block is queued with the symbols leaves none out.
LEMMA OrderFacts ==
  ASSUME re \in Regex
  PROVE  /\ DOMAIN Order[re] = 1 .. Cardinality(Symbols)
         /\ Cardinality(Symbols) \in Nat
         /\ \A i \in DOMAIN Order[re] : Order[re][i] \in Symbols
         /\ \A a \in Symbols : \E i \in DOMAIN Order[re] : Order[re][i] = a
<1> DEFINE n == Cardinality(Symbols)
           D == 1 .. n
<1>1. IsFiniteSet(Symbols) /\ n \in Nat
  BY SymbolsType, FS_CardinalityType
<1>2. PICK f : f \in Bijection(D, Symbols)
  BY <1>1, FS_CardinalityType DEF ExistsBijection
<1>3. f \in [D -> Symbols] /\ IsInjective(f)
  BY <1>2 DEF Bijection, Injection, IsInjective
<1>4. Order[re] = CHOOSE g \in [D -> Symbols] : IsInjective(g)
  BY Zenon DEF Order, SetToSeq, Symbols
<1>5. Order[re] \in [D -> Symbols] /\ IsInjective(Order[re])
  BY <1>3, <1>4, Zenon
<1>6. Order[re] \in Injection(D, Symbols)
  BY <1>5 DEF Injection, IsInjective
<1>7. IsFiniteSet(D) /\ Cardinality(D) = n
  <2>1. Cardinality(D) = IF 1 > n THEN 0 ELSE n - 1 + 1
    BY <1>1, FS_Interval
  <2> QED
    BY <1>1, <2>1, FS_Interval
<1>8. Order[re] \in Surjection(D, Symbols)
  BY <1>1, <1>6, <1>7, FS_Injection
<1> QED
  BY <1>1, <1>5, <1>8 DEF Surjection

\* What ForEachSymbol queues.
LEMMA EachSymbolQueued ==
  ASSUME re \in Regex, NEW chosen, NEW S, \A a \in Symbols : chosen[a] \in S
  PROVE  /\ ForEachSymbol(chosen) \in Seq(S \X Symbols)
         /\ ToSet(ForEachSymbol(chosen)) = {<<chosen[a], a>> : a \in Symbols}
<1> DEFINE n == Cardinality(Symbols)
           o == Order[re]
           f == ForEachSymbol(chosen)
<1>1. /\ DOMAIN o = 1 .. n /\ n \in Nat
      /\ \A i \in 1 .. n : o[i] \in Symbols
      /\ \A a \in Symbols : \E i \in 1 .. n : o[i] = a
  BY OrderFacts
<1>2. f = [i \in 1 .. n |-> <<chosen[o[i]], o[i]>>]
  BY <1>1, Zenon DEF ForEachSymbol
<1> HIDE DEF o, f, n
<1>3. f \in Seq(S \X Symbols)
  <2>1. f \in [1 .. n -> S \X Symbols]
    BY <1>1, <1>2
  <2> QED
    BY <1>1, <2>1
<1>4. ToSet(f) = {<<chosen[a], a>> : a \in Symbols}
  BY <1>1, <1>2 DEF ToSet
<1> QED
  BY <1>3, <1>4 DEF f

\* What a queue holds once its head is taken, and once more is put behind it.
LEMMA QueueFacts ==
  ASSUME NEW S, NEW u \in Seq(S)
  PROVE  /\ u # <<>> => /\ Head(u) \in S /\ Tail(u) \in Seq(S)
                        /\ ToSet(u) = ToSet(Tail(u)) \cup {Head(u)}
         /\ \A v \in Seq(S) : /\ u \o v \in Seq(S)
                              /\ ToSet(u \o v) = ToSet(u) \cup ToSet(v)
<1>1. ASSUME u # <<>> PROVE ToSet(u) = ToSet(Tail(u)) \cup {Head(u)}
  <2>1. /\ Len(u) \in Nat \ {0} /\ DOMAIN u = 1 .. Len(u)
        /\ Len(Tail(u)) = Len(u) - 1 /\ DOMAIN Tail(u) = 1 .. Len(u) - 1
        /\ \A i \in 1 .. Len(u) - 1 : Tail(u)[i] = u[i + 1]
        /\ Head(u) = u[1]
    BY <1>1
  <2>2. ASSUME NEW i \in 1 .. Len(u), i # 1 PROVE u[i] \in ToSet(Tail(u))
    <3>1. i - 1 \in 1 .. Len(u) - 1 /\ (i - 1) + 1 = i
      BY <2>1, <2>2
    <3>2. Tail(u)[i - 1] = u[i]
      BY <2>1, <3>1
    <3> QED
      BY <2>1, <3>1, <3>2, Zenon DEF ToSet
  <2>3. \A i \in 1 .. Len(u) : u[i] \in ToSet(Tail(u)) \cup {Head(u)}
    BY <2>1, <2>2, Zenon
  <2>4. \A i \in 1 .. Len(u) - 1 : i + 1 \in 1 .. Len(u)
    BY <2>1
  <2>5. \A i \in 1 .. Len(u) - 1 : Tail(u)[i] \in ToSet(u)
    BY <2>1, <2>4 DEF ToSet
  <2>6. Head(u) \in ToSet(u)
    BY <2>1 DEF ToSet
  <2> QED
    BY <2>1, <2>3, <2>5, <2>6 DEF ToSet
<1>2. ASSUME NEW v \in Seq(S) PROVE ToSet(u \o v) = ToSet(u) \cup ToSet(v)
  <2> DEFINE w == u \o v
  <2>1. /\ DOMAIN u = 1 .. Len(u) /\ DOMAIN v = 1 .. Len(v)
        /\ DOMAIN w = 1 .. Len(u) + Len(v) /\ Len(u) \in Nat /\ Len(v) \in Nat
        /\ \A i \in 1 .. Len(u) + Len(v) :
             w[i] = IF i <= Len(u) THEN u[i] ELSE v[i - Len(u)]
    OBVIOUS
  <2> HIDE DEF w
  <2>2. \A i \in 1 .. Len(u) : i \in 1 .. Len(u) + Len(v) /\ w[i] = u[i]
    BY <2>1
  <2>3. \A i \in 1 .. Len(v) : i + Len(u) \in 1 .. Len(u) + Len(v) /\ w[i + Len(u)] = v[i]
    BY <2>1
  <2>4. \A i \in 1 .. Len(u) + Len(v) :
          (i \in 1 .. Len(u) /\ w[i] = u[i]) \/ (i - Len(u) \in 1 .. Len(v) /\ w[i] = v[i - Len(u)])
    BY <2>1
  <2>5. ToSet(w) \subseteq ToSet(u) \cup ToSet(v)
    BY <2>1, <2>4 DEF ToSet
  <2>6. ToSet(u) \cup ToSet(v) \subseteq ToSet(w)
    BY <2>1, <2>2, <2>3 DEF ToSet
  <2> QED
    BY <2>5, <2>6 DEF w
<1> QED
  BY <1>1, <1>2

\* A symbol takes every state, the dead one included, to a state.
LEMMA GoesType ==
  ASSUME re \in Regex, IsDfa(dfa), NEW q \in Total, NEW a \in Symbols
  PROVE  Goes(q, a) \in Total
<1>1. dfa.len \in Nat
  BY DEF IsDfa
<1>2. a[1] \in Byte
  BY SymbolsType DEF Symbols
<1>3. CASE q = Dead
  BY <1>1, <1>3 DEF Goes, Dead, Total
<1>4. CASE q # Dead
  <2>1. q \in None .. dfa.len - 1
    BY <1>1, <1>4 DEF Total, Dead, None
  <2>2. Step(dfa, q, a[1], a[2]) \in None .. dfa.len - 1
    BY <1>2, <2>1, StepType
  <2> QED
    BY <1>1, <1>4, <2>2 DEF Goes, Dead, Total, None
<1> QED
  BY <1>3, <1>4

-----------------------------------------------------------------------------
(* The invariant of the minimization. *)

\* A byte leads where the first byte of its class leads: the minimization
\* tries only that one.
RowsOfClasses ==
  \A q \in DfaStates : \A b \in Byte : \A e \in BOOLEAN :
    Step(dfa, q, b, e) = Step(dfa, q, ClassOf[re][b], e)

\* The automaton dfa_build has left.
Built == re \in Regex /\ IsDfa(dfa) /\ Represents(dfa, re) /\ RowsOfClasses

Members(b) == {q \in Total : blockOf[q] = b}
Accepts(q) == q # Dead /\ dfa.states[q].accept

\* The partition: no block is empty or mixes acceptance.
Parts ==
  /\ blockCount \in Nat
  /\ blockOf \in [Total -> 0 .. blockCount - 1]
  /\ DOMAIN blockSize = Total
  /\ \A b \in 0 .. blockCount - 1 :
       blockSize[b] = Cardinality(Members(b)) /\ Members(b) # {}
  /\ \A q, s \in Total : blockOf[q] = blockOf[s] => (Accepts(q) <=> Accepts(s))

Worklist ==
  /\ work \in Seq((0 .. blockCount - 1) \X Symbols)
  /\ preimage \in SUBSET Total /\ todo \in SUBSET (0 .. blockCount - 1)
  /\ pc = "rebuild" => work = <<>>

RefineInv == Built /\ Parts /\ Worklist /\ NothingForgotten

\* The states are finitely many, and no more blocks than states.
LEMMA TotalFacts ==
  ASSUME IsDfa(dfa)
  PROVE  /\ dfa.len \in Nat /\ Total \in SUBSET Nat /\ Dead \in Total
         /\ IsFiniteSet(Total) /\ Cardinality(Total) = dfa.len + 1
         /\ \A b : IsFiniteSet(Members(b)) /\ Cardinality(Members(b)) \in Nat
<1>1. dfa.len \in Nat
  BY DEF IsDfa
<1>2. IsFiniteSet(Total) /\ Cardinality(Total) = dfa.len + 1
  BY <1>1, FS_Interval DEF Total
<1>3. ASSUME NEW b PROVE IsFiniteSet(Members(b)) /\ Cardinality(Members(b)) \in Nat
  BY <1>2, FS_Subset, FS_CardinalityType DEF Members
<1> QED
  BY <1>1, <1>2, <1>3 DEF Total, Dead

\* Blocks that all have a member are no more than the states.
LEMMA BlocksAreFew ==
  ASSUME IsDfa(dfa), NEW n \in Nat, NEW f \in [Total -> 0 .. n - 1],
         \A b \in 0 .. n - 1 : \E q \in Total : f[q] = b
  PROVE  n <= dfa.len + 1
<1>1. f \in Surjection(Total, 0 .. n - 1)
  BY DEF Surjection
<1>2. Cardinality(0 .. n - 1) <= Cardinality(Total)
  BY <1>1, TotalFacts, FS_Surjection
<1>3. Cardinality(0 .. n - 1) = IF 0 > n - 1 THEN 0 ELSE n - 1 - 0 + 1
  BY FS_Interval
<1> QED
  BY <1>2, <1>3, TotalFacts

\* What the run checks of the sizes.
LEMMA PartsExact == IsDfa(dfa) /\ Parts => SizesAreExact
<1> SUFFICES ASSUME IsDfa(dfa), Parts PROVE SizesAreExact
  OBVIOUS
<1>1. blockCount <= Cardinality(Total)
  <2>1. \A b \in 0 .. blockCount - 1 : \E q \in Total : blockOf[q] = b
    BY DEF Parts, Members
  <2> QED
    BY <2>1, BlocksAreFew, TotalFacts DEF Parts
<1>2. ASSUME NEW b \in 0 .. blockCount - 1
      PROVE  blockSize[b] = Cardinality(Members(b)) /\ blockSize[b] > 0
  <2>1. Cardinality(Members(b)) # 0
    BY TotalFacts, FS_EmptySet DEF Parts
  <2> QED
    BY <2>1, TotalFacts DEF Parts
<1> QED
  BY <1>1, <1>2 DEF Parts, SizesAreExact, Members

-----------------------------------------------------------------------------
(* The first partition. *)

\* Accepting and other states, and one of the two blocks queued.
LEMMA PartitionStep ==
  Built /\ preimage = {} /\ todo = {} /\ Partition => RefineInv'
<1> SUFFICES ASSUME Built, preimage = {}, todo = {}, Partition PROVE RefineInv'
  OBVIOUS
<1> DEFINE accepting == {q \in DfaStates : dfa.states[q].accept}
           block == [q \in Total |-> IF accepting = {} \/ q \in accepting THEN 0 ELSE 1]
           size == [b \in Total |-> Cardinality({q \in Total : block[q] = b})]
           initial == IF accepting # {} /\ size[1] < size[0] THEN 1 ELSE 0
           count == IF accepting = {} THEN 1 ELSE 2
<1>1. /\ pc' = "refine" /\ re' = re /\ dfa' = dfa
      /\ preimage' = preimage /\ todo' = todo
      /\ blockOf' = block /\ blockSize' = size /\ blockCount' = count
      /\ work' = ForEachSymbol([a \in Symbols |-> initial])
  BY Zenon DEF Partition
<1>2. /\ re \in Regex /\ IsDfa(dfa) /\ dfa.len \in Nat
      /\ Total' = Total /\ Symbols' = Symbols /\ Dead' = Dead
      /\ \A q, a : Goes(q, a)' = Goes(q, a)
      /\ \A q : Accepts(q)' <=> Accepts(q)
      /\ accepting \subseteq Total \ {Dead} /\ Dead \in Total
  BY <1>1, TotalFacts
     DEF Built, Total, Symbols, Dead, Goes, Accepts, DfaStates
<1>3. Built'
  BY <1>1 DEF Built, RowsOfClasses, DfaStates
<1>4. count \in Nat /\ block \in [Total -> 0 .. count - 1]
  OBVIOUS
<1>5. \A q \in Total : q \in accepting <=> Accepts(q)
  BY <1>2 DEF Accepts, DfaStates, Total, Dead
<1> HIDE DEF accepting
<1>6. \A b \in 0 .. count - 1 : \E q \in Total : block[q] = b
  <2>1. CASE accepting = {}
    BY <1>2, <2>1
  <2>2. CASE accepting # {}
    <3>1. PICK q \in accepting : q \in Total /\ q # Dead
      BY <1>2, <2>2
    <3>2. block[q] = 0 /\ block[Dead] = 1
      BY <1>2, <2>2, <3>1
    <3>3. \A b \in 0 .. count - 1 : b = 0 \/ b = 1
      BY <2>2
    <3> QED
      BY <1>2, <3>1, <3>2, <3>3
  <2> QED
    BY <2>1, <2>2
<1> HIDE DEF block
<1>7. \A b : Members(b)' = {q \in Total : block[q] = b}
  BY <1>1, <1>2 DEF Members
<1>8. \A b \in 0 .. count - 1 : b \in Total
  <2>1. count <= dfa.len + 1
    BY <1>2, <1>4, <1>6, BlocksAreFew
  <2> QED
    BY <1>2, <1>4, <2>1 DEF Total
<1>9. \A b \in 0 .. count - 1 : size[b] = Cardinality(Members(b)') /\ Members(b)' # {}
  BY <1>6, <1>7, <1>8
<1>10. ASSUME NEW q \in Total, NEW s \in Total, block[q] = block[s]
       PROVE  Accepts(q) <=> Accepts(s)
  BY <1>5, <1>10 DEF block
<1>11. Parts'
  BY <1>1, <1>2, <1>4, <1>9, <1>10 DEF Parts
<1>12. initial \in 0 .. count - 1
  OBVIOUS
<1> HIDE DEF initial, size
<1>13. /\ work' \in Seq((0 .. count - 1) \X Symbols)
       /\ ToSet(work') = {<<initial, a>> : a \in Symbols}
  <2> DEFINE chosen == [a \in Symbols |-> initial]
  <2>1. \A a \in Symbols : chosen[a] = initial /\ chosen[a] \in 0 .. count - 1
    BY <1>12
  <2> HIDE DEF chosen, count
  <2>2. /\ ForEachSymbol(chosen) \in Seq((0 .. count - 1) \X Symbols)
        /\ ToSet(ForEachSymbol(chosen)) = {<<chosen[a], a>> : a \in Symbols}
    BY <1>2, <2>1, EachSymbolQueued
  <2>3. work' = ForEachSymbol(chosen)
    BY <1>1 DEF chosen
  <2> QED
    BY <2>1, <2>2, <2>3
<1>14. \A q \in Total : block[q] \in 0 .. count - 1
  BY <1>4
<1>15. NothingForgotten'
  <2> SUFFICES ASSUME NEW a \in Symbols, NEW q \in Total, NEW s \in Total,
                      block[Goes(q, a)] # block[Goes(s, a)]
               PROVE  \/ <<block[Goes(q, a)], a>> \in ToSet(work')
                      \/ <<block[Goes(s, a)], a>> \in ToSet(work')
    BY <1>1, <1>2 DEF NothingForgotten, Queued
  <2>1. Goes(q, a) \in Total /\ Goes(s, a) \in Total
    BY <1>2, GoesType
  <2>2. block[Goes(q, a)] = initial \/ block[Goes(s, a)] = initial
    BY <1>12, <1>14, <2>1
  <2> QED
    BY <1>13, <2>2
<1>16. Worklist'
  BY <1>1, <1>2, <1>13 DEF Worklist
<1> QED
  BY <1>3, <1>11, <1>15, <1>16 DEF RefineInv

-----------------------------------------------------------------------------
(* Refinement. *)

\* What no step of the refinement changes.
LEMMA SameAutomaton ==
  ASSUME Built, re' = re, dfa' = dfa
  PROVE  /\ Built' /\ Total' = Total /\ Symbols' = Symbols
         /\ \A q, a : Goes(q, a)' = Goes(q, a)
         /\ \A q : Accepts(q)' <=> Accepts(q)
BY DEF Built, RowsOfClasses, DfaStates, Total, Symbols, Goes, Dead, Accepts

\* The two states that the popped splitter was to separate differ in preimage.
LEMMA PopStep == RefineInv /\ Pop => RefineInv'
<1> SUFFICES ASSUME RefineInv, Pop PROVE RefineInv'
  OBVIOUS
<1>1. /\ pc = "refine" /\ pc' = "split" /\ work # <<>> /\ work' = Tail(work)
      /\ preimage' = {q \in Total : blockOf[Goes(q, Head(work)[2])] = Head(work)[1]}
      /\ todo' = 0 .. blockCount - 1
      /\ re' = re /\ dfa' = dfa
      /\ blockOf' = blockOf /\ blockSize' = blockSize /\ blockCount' = blockCount
  BY DEF Pop, partition
<1>2. Built /\ Parts /\ Worklist /\ NothingForgotten /\ re \in Regex /\ IsDfa(dfa)
  BY DEF RefineInv, Built
<1>3. /\ Built' /\ Total' = Total /\ Symbols' = Symbols
      /\ \A q, a : Goes(q, a)' = Goes(q, a)
      /\ \A q : Accepts(q)' <=> Accepts(q)
  BY <1>1, <1>2, SameAutomaton
<1>4. Parts'
  BY <1>1, <1>2, <1>3 DEF Parts, Members
<1>5. Worklist'
  BY <1>1, <1>2, <1>3 DEF Worklist
<1>6. Queued \subseteq Queued' \cup {Head(work)}
  BY <1>1, <1>2, QueueFacts DEF Worklist, Queued
<1>7. NothingForgotten'
  <2> SUFFICES ASSUME NEW a \in Symbols, NEW q \in Total, NEW s \in Total,
                      blockOf[q] = blockOf[s],
                      blockOf[Goes(q, a)] # blockOf[Goes(s, a)]
               PROVE  \/ <<blockOf[Goes(q, a)], a>> \in Queued'
                      \/ <<blockOf[Goes(s, a)], a>> \in Queued'
                      \/ /\ blockOf[q] \in todo'
                         /\ (q \in preimage') # (s \in preimage')
    BY <1>1, <1>3 DEF NothingForgotten
  <2>1. blockOf[q] \in todo'
    BY <1>1, <1>2 DEF Parts
  <2>2. \/ <<blockOf[Goes(q, a)], a>> \in Queued
        \/ <<blockOf[Goes(s, a)], a>> \in Queued
    BY <1>1, <1>2 DEF NothingForgotten, Refining
  <2>3. CASE Head(work) = <<blockOf[Goes(q, a)], a>>
    BY <1>1, <2>1, <2>3
  <2>4. CASE Head(work) = <<blockOf[Goes(s, a)], a>>
    BY <1>1, <2>1, <2>4
  <2> QED
    BY <1>6, <2>2, <2>3, <2>4
<1> QED
  BY <1>3, <1>4, <1>5, <1>7 DEF RefineInv

\* Comparing the sizes shows exactly whether a block is cut: a block that is
\* not has all its states in the preimage or none.
LEMMA NotCut ==
  ASSUME IsDfa(dfa), Parts, preimage \in SUBSET Total, NEW c \in 0 .. blockCount - 1,
         ~ Cut(c), NEW q \in Total, NEW s \in Total, blockOf[q] = c, blockOf[s] = c
  PROVE  q \in preimage <=> s \in preimage
<1>1. q \in Members(c) /\ s \in Members(c)
  BY DEF Members
<1>2. CASE Hits(c) = {}
  BY <1>2 DEF Hits
<1>3. CASE Hits(c) # {}
  <2>1. Cardinality(Hits(c)) = Cardinality(Members(c))
    BY <1>3 DEF Cut, Parts
  <2>2. Hits(c) \in SUBSET Members(c)
    BY <1>3 DEF Hits, Members
  <2>3. Hits(c) = Members(c)
    BY <2>1, <2>2, TotalFacts, FS_Subset
  <2> QED
    BY <1>1, <2>3 DEF Hits
<1> QED
  BY <1>2, <1>3

\* A cut block is left with a part, and its new part is a block: the sizes stay
\* exact and the arrays have room.
LEMMA SplitParts ==
  ASSUME RefineInv, NEW b \in todo, Split(b)
  PROVE  /\ Parts'
         /\ blockCount \in Total
         /\ Sizes(b)[blockCount] = Cardinality(Hits(b))
<1>1. /\ Cut(b) /\ re' = re /\ dfa' = dfa
      /\ blockOf' = [q \in Total |-> IF q \in Hits(b) THEN blockCount ELSE blockOf[q]]
      /\ blockSize' = Sizes(b) /\ blockCount' = blockCount + 1
  BY DEF Split
<1>2. /\ Built /\ Parts /\ IsDfa(dfa) /\ dfa.len \in Nat
      /\ blockCount \in Nat /\ b \in 0 .. blockCount - 1
      /\ blockOf \in [Total -> 0 .. blockCount - 1]
      /\ preimage \in SUBSET Total
  BY DEF RefineInv, Built, Parts, Worklist, IsDfa
<1>3. /\ Built' /\ Total' = Total /\ \A q : Accepts(q)' <=> Accepts(q)
  BY <1>1, <1>2, SameAutomaton
<1> PICK N \in Nat : N = blockCount
  BY <1>2
<1> DEFINE H == Hits(b)
           M == Members(b)
<1>4. H \in SUBSET M /\ H # {} /\ IsFiniteSet(M) /\ IsFiniteSet(H)
      /\ Cardinality(H) \in Nat /\ Cardinality(M) \in Nat
  <2>1. H \in SUBSET M /\ H # {}
    BY <1>1, <1>2 DEF Hits, Members, Cut
  <2>2. IsFiniteSet(M) /\ Cardinality(M) \in Nat
    BY <1>2, TotalFacts
  <2>3. IsFiniteSet(H)
    BY <2>1, <2>2, FS_Subset
  <2> QED
    BY <2>1, <2>2, <2>3, FS_CardinalityType
<1>5. blockSize[b] = Cardinality(M) /\ Cardinality(M) # Cardinality(H)
  BY <1>1, <1>2 DEF Parts, Cut
<1>6. M \ H # {} /\ Cardinality(M \ H) = Cardinality(M) - Cardinality(H)
  <2>1. M \cap H = H
    BY <1>4
  <2>2. Cardinality(M \ H) = Cardinality(M) - Cardinality(M \cap H)
    BY <1>4, FS_Difference
  <2> QED
    BY <1>4, <1>5, <2>1, <2>2
<1>7. /\ Members(N)' = H
      /\ Members(b)' = M \ H
      /\ \A c \in 0 .. N - 1 : c # b => Members(c)' = Members(c)
  BY <1>1, <1>2, <1>3 DEF Members, Hits
<1>8. \A c \in 0 .. N : Members(c)' # {}
  <2>1. \A c \in 0 .. N : c = N \/ c \in 0 .. N - 1
    BY <1>2
  <2> QED
    BY <1>2, <1>4, <1>6, <1>7, <2>1 DEF Parts
<1>9. N \in Total
  <2>1. N + 1 \in Nat /\ (N + 1) - 1 = N
    BY <1>2
  <2>2. blockOf' \in [Total -> 0 .. N]
    BY <1>1, <1>2
  <2>3. \A c \in 0 .. N : \E q \in Total : blockOf'[q] = c
    BY <1>3, <1>8 DEF Members
  <2>4. N + 1 <= dfa.len + 1
    BY <1>2, <2>1, <2>2, <2>3, BlocksAreFew
  <2> QED
    BY <1>2, <2>4 DEF Total
<1>10. b \in Total /\ b # N
  BY <1>2, <1>9 DEF Total
<1>11. /\ DOMAIN Sizes(b) = Total
       /\ Sizes(b)[N] = Cardinality(H)
       /\ Sizes(b)[b] = blockSize[b] - Cardinality(H)
       /\ \A c \in Total : c # N /\ c # b => Sizes(b)[c] = blockSize[c]
  BY <1>2, <1>9, <1>10 DEF Parts, Sizes
<1>12. ASSUME NEW c \in 0 .. N PROVE blockSize'[c] = Cardinality(Members(c)')
  <2>1. CASE c = N
    BY <1>1, <1>7, <1>11, <2>1
  <2>2. CASE c = b
    BY <1>1, <1>5, <1>6, <1>7, <1>11, <2>2
  <2>3. CASE c # N /\ c # b
    <3>1. c \in 0 .. N - 1 /\ c \in Total
      BY <1>2, <1>9, <2>3 DEF Total
    <3> QED
      BY <1>1, <1>2, <1>7, <1>11, <2>3, <3>1 DEF Parts
  <2> QED
    BY <2>1, <2>2, <2>3
<1>13. ASSUME NEW q \in Total, NEW s \in Total, blockOf'[q] = blockOf'[s]
       PROVE  Accepts(q) <=> Accepts(s)
  <2>1. blockOf[q] = blockOf[s]
    BY <1>1, <1>2, <1>13 DEF Hits
  <2> QED
    BY <1>2, <2>1 DEF Parts
<1>14. /\ blockCount' \in Nat /\ 0 .. blockCount' - 1 = 0 .. N
       /\ blockOf' \in [Total -> 0 .. N]
  BY <1>1, <1>2
<1> QED
  BY <1>1, <1>3, <1>8, <1>9, <1>11, <1>12, <1>13, <1>14 DEF Parts

\* The new splitters: of the halves of b each symbol gets one, and the new one
\* where b is queued already.
LEMMA SplitQueues ==
  ASSUME RefineInv, NEW b \in todo, Split(b)
  PROVE  /\ work' \in Seq((0 .. blockCount) \X Symbols)
         /\ Queued' = Queued \cup {<<Half(b, a), a>> : a \in Symbols}
         /\ \A a \in Symbols : /\ Half(b, a) \in {b, blockCount}
                               /\ <<b, a>> \in Queued => Half(b, a) = blockCount
<1>1. /\ work' = work \o ForEachSymbol([a \in Symbols |-> Half(b, a)])
      /\ re \in Regex /\ blockCount \in Nat /\ b \in 0 .. blockCount
  BY DEF Split, RefineInv, Built, Parts, Worklist
<1>2. work \in Seq((0 .. blockCount) \X Symbols)
  <2>1. work \in Seq((0 .. blockCount - 1) \X Symbols)
    BY DEF RefineInv, Worklist
  <2>2. (0 .. blockCount - 1) \X Symbols \subseteq (0 .. blockCount) \X Symbols
    BY <1>1
  <2> QED
    BY <2>1, <2>2
<1>3. \A a \in Symbols : /\ Half(b, a) \in {b, blockCount}
                         /\ <<b, a>> \in Queued => Half(b, a) = blockCount
  BY DEF Half
<1> DEFINE chosen == [a \in Symbols |-> Half(b, a)]
<1>4. ASSUME NEW a \in Symbols
      PROVE  chosen[a] = Half(b, a) /\ chosen[a] \in 0 .. blockCount
  <2>1. blockCount \in 0 .. blockCount
    BY <1>1
  <2>2. Half(b, a) = b \/ Half(b, a) = blockCount
    BY <1>3
  <2> QED
    BY <1>1, <2>1, <2>2
<1>5. work' = work \o ForEachSymbol(chosen)
  BY <1>1
<1> HIDE DEF chosen
<1>6. /\ ForEachSymbol(chosen) \in Seq((0 .. blockCount) \X Symbols)
      /\ ToSet(ForEachSymbol(chosen)) = {<<chosen[a], a>> : a \in Symbols}
  BY <1>1, <1>4, EachSymbolQueued
<1>7. {<<chosen[a], a>> : a \in Symbols} = {<<Half(b, a), a>> : a \in Symbols}
  BY <1>4
<1> QED
  BY <1>2, <1>3, <1>5, <1>6, <1>7, QueueFacts DEF Queued

\* What separates two states of a block is still queued after the split.
LEMMA SplitStep ==
  ASSUME RefineInv, NEW b \in todo, Split(b)
  PROVE  RefineInv'
<1>1. /\ pc = "split" /\ pc' = "split" /\ re' = re /\ dfa' = dfa
      /\ \A c \in todo : Cut(c) => b <= c
      /\ blockOf' = [q \in Total |-> IF q \in Hits(b) THEN blockCount ELSE blockOf[q]]
      /\ blockCount' = blockCount + 1
      /\ todo' = {c \in todo : c > b} /\ preimage' = preimage
  BY DEF Split
<1>2. /\ Built /\ Parts /\ IsDfa(dfa) /\ re \in Regex /\ blockCount \in Nat
      /\ blockOf \in [Total -> 0 .. blockCount - 1]
      /\ preimage \in SUBSET Total /\ todo \in SUBSET (0 .. blockCount - 1)
  BY DEF RefineInv, Built, Parts, Worklist
<1>3. /\ Built' /\ Total' = Total /\ Symbols' = Symbols
      /\ \A q, a : Goes(q, a)' = Goes(q, a)
  BY <1>1, <1>2, SameAutomaton
<1>4. /\ work' \in Seq((0 .. blockCount) \X Symbols)
      /\ Queued' = Queued \cup {<<Half(b, a), a>> : a \in Symbols}
      /\ \A a \in Symbols : /\ Half(b, a) \in {b, blockCount}
                            /\ <<b, a>> \in Queued => Half(b, a) = blockCount
  BY SplitQueues
<1>5. Worklist'
  <2>1. 0 .. blockCount' - 1 = 0 .. blockCount
    BY <1>1, <1>2
  <2>2. 0 .. blockCount - 1 \subseteq 0 .. blockCount
    BY <1>2
  <2>3. todo' \in SUBSET (0 .. blockCount)
    BY <1>1, <1>2, <2>2, Zenon
  <2> QED
    BY <1>1, <1>2, <1>3, <1>4, <2>1, <2>3 DEF Worklist
<1>6. NothingForgotten'
  <2> SUFFICES ASSUME NEW a \in Symbols, NEW q \in Total, NEW s \in Total,
                      blockOf'[q] = blockOf'[s],
                      blockOf'[Goes(q, a)] # blockOf'[Goes(s, a)]
               PROVE  \/ <<blockOf'[Goes(q, a)], a>> \in Queued'
                      \/ <<blockOf'[Goes(s, a)], a>> \in Queued'
                      \/ /\ blockOf'[q] \in todo'
                         /\ (q \in preimage') # (s \in preimage')
    BY <1>1, <1>3 DEF NothingForgotten
  <2> DEFINE to == blockOf[Goes(q, a)]
             ts == blockOf[Goes(s, a)]
  <2>1. Goes(q, a) \in Total /\ Goes(s, a) \in Total
    BY <1>2, GoesType
  <2>2. /\ blockOf'[Goes(q, a)] = IF Goes(q, a) \in Hits(b) THEN blockCount ELSE to
        /\ blockOf'[Goes(s, a)] = IF Goes(s, a) \in Hits(b) THEN blockCount ELSE ts
        /\ Goes(q, a) \in Hits(b) => to = b
        /\ Goes(s, a) \in Hits(b) => ts = b
    BY <1>1, <2>1 DEF Hits
  <2>3. blockOf[q] = blockOf[s] /\ (q \in Hits(b) <=> s \in Hits(b))
    BY <1>1, <1>2 DEF Hits
  <2>4. <<Half(b, a), a>> \in Queued' /\ Queued \subseteq Queued'
    BY <1>4
  <2>5. CASE to = ts
    BY <1>4, <2>2, <2>4, <2>5
  <2>6. CASE <<to, a>> \in Queued
    BY <1>4, <2>2, <2>4, <2>6
  <2>7. CASE <<ts, a>> \in Queued
    BY <1>4, <2>2, <2>4, <2>7
  <2>8. CASE blockOf[q] \in todo /\ (q \in preimage) # (s \in preimage)
    <3>1. blockOf[q] # b
      BY <2>3, <2>8 DEF Hits
    <3>2. Cut(blockOf[q])
      BY <1>2, <2>3, <2>8, NotCut
    <3>3. blockOf[q] \in todo'
      BY <1>1, <1>2, <2>8, <3>1, <3>2
    <3>4. blockOf'[q] = blockOf[q]
      BY <1>1, <3>1 DEF Hits
    <3> QED
      BY <1>1, <2>8, <3>3, <3>4
  <2>9. to # ts => \/ <<to, a>> \in Queued \/ <<ts, a>> \in Queued
                   \/ blockOf[q] \in todo /\ (q \in preimage) # (s \in preimage)
    BY <1>1, <2>3 DEF RefineInv, NothingForgotten, Refining
  <2> QED
    BY <2>5, <2>6, <2>7, <2>8, <2>9
<1> QED
  BY <1>3, <1>5, <1>6, SplitParts DEF RefineInv

\* No block is cut any more: the splitter at work has separated all it could.
LEMMA DoneStep == RefineInv /\ SplitterDone => RefineInv'
<1> SUFFICES ASSUME RefineInv, SplitterDone PROVE RefineInv'
  OBVIOUS
<1>1. /\ pc = "split" /\ pc' = "refine" /\ re' = re /\ dfa' = dfa
      /\ \A c \in todo : ~ Cut(c)
      /\ blockOf' = blockOf /\ blockSize' = blockSize /\ blockCount' = blockCount
      /\ work' = work /\ preimage' = {} /\ todo' = {}
  BY DEF SplitterDone, partition
<1>2. /\ Built /\ Parts /\ IsDfa(dfa) /\ re \in Regex
      /\ preimage \in SUBSET Total /\ todo \in SUBSET (0 .. blockCount - 1)
  BY DEF RefineInv, Built, Worklist
<1>3. /\ Built' /\ Total' = Total /\ Symbols' = Symbols
      /\ \A q, a : Goes(q, a)' = Goes(q, a)
      /\ \A q : Accepts(q)' <=> Accepts(q)
  BY <1>1, <1>2, SameAutomaton
<1>4. Parts' /\ Worklist'
  BY <1>1, <1>2, <1>3 DEF RefineInv, Parts, Members, Worklist
<1>5. \A q, s \in Total : blockOf[q] = blockOf[s] /\ blockOf[q] \in todo =>
        (q \in preimage <=> s \in preimage)
  BY <1>1, <1>2, NotCut
<1>6. NothingForgotten'
  BY <1>1, <1>3, <1>5 DEF RefineInv, NothingForgotten, Refining, Queued
<1> QED
  BY <1>3, <1>4, <1>6 DEF RefineInv

\* The list is empty.
LEMMA RefinedStep == RefineInv /\ Refined => RefineInv'
<1> SUFFICES ASSUME RefineInv, Refined PROVE RefineInv'
  OBVIOUS
<1>1. /\ pc = "refine" /\ pc' = "rebuild" /\ re' = re /\ dfa' = dfa /\ work = <<>>
      /\ blockOf' = blockOf /\ blockSize' = blockSize /\ blockCount' = blockCount
      /\ work' = work /\ preimage' = preimage /\ todo' = todo
  BY DEF Refined, partition
<1>2. /\ Built' /\ Total' = Total /\ Symbols' = Symbols
      /\ \A q, a : Goes(q, a)' = Goes(q, a)
      /\ \A q : Accepts(q)' <=> Accepts(q)
  BY <1>1, SameAutomaton DEF RefineInv
<1>3. Parts' /\ Worklist'
  BY <1>1, <1>2 DEF RefineInv, Parts, Members, Worklist
<1>4. NothingForgotten'
  BY <1>1, <1>2 DEF RefineInv, NothingForgotten, Refining, Queued
<1> QED
  BY <1>2, <1>3, <1>4 DEF RefineInv

-----------------------------------------------------------------------------
(* The rebuilt automaton. *)

\* With nothing left to do the blocks agree on where each symbol leads.
LEMMA BlocksAgree ==
  ASSUME RefineInv, pc = "rebuild", NEW a \in Symbols,
         NEW q \in Total, NEW s \in Total, blockOf[q] = blockOf[s]
  PROVE  blockOf[Goes(q, a)] = blockOf[Goes(s, a)]
<1>1. Queued = {}
  BY DEF RefineInv, Worklist, Queued, ToSet
<1> QED
  BY <1>1 DEF RefineInv, NothingForgotten, Refining

\* A set of numbers below n has a greatest one.
LEMMA NatGreatest ==
  ASSUME NEW n \in Nat, NEW S \in SUBSET (0 .. n), NEW m \in S
  PROVE  \E k \in S : \A l \in S : k >= l
<1> DEFINE R == {n - x : x \in S}
<1>1. R \in SUBSET Nat /\ n - m \in R
  OBVIOUS
<1> HIDE DEF R
<1>2. PICK y \in R : \A x \in R : y <= x
  BY <1>1, NatLeast
<1>3. PICK k \in S : y = n - k
  BY DEF R
<1>4. \A l \in S : n - l \in R
  BY DEF R
<1>5. \A l \in S : n - k <= n - l
  BY <1>2, <1>3, <1>4
<1> QED
  BY <1>5

\* The representative of a block is one of its states, and the same for all.
LEMMA LeaderFacts ==
  ASSUME IsDfa(dfa), NEW q \in DfaStates
  PROVE  /\ Leader(q) \in DfaStates /\ blockOf[Leader(q)] = blockOf[q]
         /\ Leader(q) \in Leaders
         /\ \A s : blockOf[s] = blockOf[q] => Leader(s) = Leader(q)
         /\ Max(Block(blockOf[q])) \in DfaStates
         /\ blockOf[Max(Block(blockOf[q]))] = blockOf[q]
<1> DEFINE B == Block(blockOf[q])
<1>1. dfa.len \in Nat /\ DfaStates \in SUBSET Nat /\ B \in SUBSET DfaStates /\ q \in B
  BY DEF IsDfa, DfaStates, Block
<1>2. \A s \in B : blockOf[s] = blockOf[q]
  BY DEF Block
<1> HIDE DEF B
<1>3. Min(B) \in B
  <2>1. \E k \in B : \A l \in B : k <= l
    BY <1>1, NatLeast
  <2> QED
    BY <2>1, Zenon DEF Min
<1>4. Max(B) \in B
  <2>1. B \in SUBSET (0 .. dfa.len)
    BY <1>1 DEF DfaStates
  <2>2. \E k \in B : \A l \in B : k >= l
    BY <1>1, <2>1, NatGreatest
  <2> QED
    BY <2>2, Zenon DEF Max
<1>5. Leader(q) = Min(B)
  BY Zenon DEF Leader, B
<1>6. \A s : blockOf[s] = blockOf[q] => Leader(s) = Leader(q)
  BY Zenon DEF Leader
<1> QED
  BY <1>1, <1>2, <1>3, <1>4, <1>5, <1>6 DEF B, Leaders

\* The representatives are numbered from 0 on without a gap.
LEMMA NumberFacts ==
  ASSUME IsDfa(dfa)
  PROVE  /\ Cardinality(Leaders) \in Nat
         /\ \A q \in Leaders : Number(q) \in 0 .. Cardinality(Leaders) - 1
         /\ \A k \in 0 .. Cardinality(Leaders) - 1 :
              \E q \in Leaders : Number(q) = k
         /\ \A q, s \in Leaders : Number(q) = Number(s) => q = s
<1> DEFINE L == Leaders
           K == Cardinality(L)
           Below(q) == {s \in L : s < q}
<1>1. L \in SUBSET DfaStates /\ DfaStates \in SUBSET Nat /\ IsFiniteSet(L) /\ K \in Nat
  <2>1. L \in SUBSET DfaStates
    BY LeaderFacts DEF Leaders
  <2>2. dfa.len \in Nat
    BY DEF IsDfa
  <2>3. IsFiniteSet(DfaStates) /\ DfaStates \in SUBSET Nat
    BY <2>2, FS_Interval DEF DfaStates
  <2> QED
    BY <2>1, <2>3, FS_Subset, FS_CardinalityType
<1>2. \A q : Number(q) = Cardinality(Below(q))
  BY Zenon DEF Number
<1> HIDE DEF L
<1>3. ASSUME NEW q \in L
      PROVE  IsFiniteSet(Below(q)) /\ Number(q) \in Nat /\ Number(q) < K
  <2>1. Below(q) \in SUBSET L /\ q \notin Below(q)
    BY <1>1
  <2>2. IsFiniteSet(Below(q)) /\ Cardinality(Below(q)) <= K /\ Cardinality(Below(q)) # K
    BY <1>1, <2>1, FS_Subset
  <2> QED
    BY <1>1, <1>2, <2>2, FS_CardinalityType
<1>4. ASSUME NEW q \in L, NEW s \in L, q < s PROVE Number(q) < Number(s)
  <2>0. L \in SUBSET Nat
    BY <1>1
  <2>1. Below(q) \in SUBSET Below(s)
    <3>1. \A x \in L : x < q => x < s
      BY <1>4, <2>0
    <3> QED
      BY <3>1
  <2>2. q \in Below(s) /\ q \notin Below(q)
    <3>1. ~ q < q
      BY <2>0
    <3> QED
      BY <1>4, <3>1
  <2>3. /\ Cardinality(Below(q)) <= Cardinality(Below(s))
        /\ Cardinality(Below(q)) # Cardinality(Below(s))
    BY <1>3, <2>1, <2>2, FS_Subset
  <2> QED
    BY <1>2, <1>3, <2>3
<1> HIDE DEF K, Below
<1>5. \A q, s \in L : Number(q) = Number(s) => q = s
  <2> SUFFICES ASSUME NEW q \in L, NEW s \in L, q # s PROVE Number(q) # Number(s)
    OBVIOUS
  <2>1. q < s \/ s < q
    BY <1>1
  <2> QED
    BY <1>3, <1>4, <2>1
<1>6. \A q \in L : Number(q) \in 0 .. K - 1
  BY <1>1, <1>3
<1>7. \A k \in 0 .. K - 1 : \E q \in L : Number(q) = k
  <2> DEFINE f == [q \in L |-> Number(q)]
  <2>1. f \in Injection(L, 0 .. K - 1)
    BY <1>5, <1>6 DEF Injection, IsInjective
  <2>2. IsFiniteSet(0 .. K - 1) /\ Cardinality(0 .. K - 1) = K
    <3>1. Cardinality(0 .. K - 1) = IF 0 > K - 1 THEN 0 ELSE K - 1 - 0 + 1
      BY <1>1, FS_Interval
    <3> QED
      BY <1>1, <3>1, FS_Interval
  <2>3. K = Cardinality(L)
    BY DEF K
  <2>4. f \in Surjection(L, 0 .. K - 1)
    BY <2>1, <2>2, <2>3, FS_Injection
  <2> QED
    BY <2>4 DEF Surjection
<1> QED
  BY <1>1, <1>5, <1>6, <1>7 DEF K, L

\* The state of the rebuilt automaton that the representative l becomes.
LEMMA RebuiltState ==
  ASSUME IsDfa(dfa), NEW l \in Leaders
  PROVE  LET new == Rebuilt.states[Number(l)] IN
         /\ new.accept = dfa.states[Max(Block(blockOf[l]))].accept
         /\ new.trans = [c \in Byte |-> NewState(dfa.states[l].trans[c])]
         /\ new.final = [c \in Byte |-> NewState(dfa.states[l].final[c])]
<1> DEFINE Old(k) == CHOOSE q \in Leaders : Number(q) = k
           Row(o) == [set    |-> UNION {dfa.states[q].set : q \in Block(blockOf[o])},
                      accept |-> dfa.states[Max(Block(blockOf[o]))].accept,
                      trans  |-> [c \in Byte |-> NewState(dfa.states[o].trans[c])],
                      final  |-> [c \in Byte |-> NewState(dfa.states[o].final[c])]]
<1>1. Rebuilt.states = [k \in 0 .. Cardinality(Leaders) - 1 |-> Row(Old(k))]
  BY DEF Rebuilt
<1>2. Number(l) \in 0 .. Cardinality(Leaders) - 1
  BY NumberFacts
<1>3. Old(Number(l)) = l
  <2>1. Old(Number(l)) \in Leaders /\ Number(Old(Number(l))) = Number(l)
    BY Zenon
  <2> QED
    BY <2>1, NumberFacts
<1> HIDE DEF Row, Old
<1>4. Rebuilt.states[Number(l)] = Row(l)
  BY <1>1, <1>2, <1>3
<1> QED
  BY <1>4 DEF Row

\* Where old transitions led to states new ones do.
LEMMA NewStateType ==
  ASSUME IsDfa(dfa), NEW q \in None .. dfa.len - 1
  PROVE  /\ NewState(q) \in None .. Cardinality(Leaders) - 1
         /\ q # None => q \in DfaStates /\ NewState(q) \in 0 .. Cardinality(Leaders) - 1
<1>1. dfa.len \in Nat /\ Cardinality(Leaders) \in Nat
  BY NumberFacts DEF IsDfa
<1>2. CASE q = None
  BY <1>1, <1>2 DEF NewState, None
<1>3. CASE q # None
  <2>1. q \in DfaStates
    BY <1>1, <1>3 DEF DfaStates, None
  <2>2. Number(Leader(q)) \in 0 .. Cardinality(Leaders) - 1
    BY <2>1, LeaderFacts, NumberFacts
  <2> QED
    BY <1>1, <1>3, <2>1, <2>2 DEF NewState, None
<1> QED
  BY <1>2, <1>3

\* The rebuilt automaton is well formed.
LEMMA RebuiltIsDfa ==
  ASSUME IsDfa(dfa)
  PROVE  IsDfa(Rebuilt)
<1> DEFINE K == Cardinality(Leaders)
<1>1. Rebuilt.len = K /\ K \in Nat
  BY NumberFacts DEF Rebuilt
<1>2. Rebuilt.starts \in [Contexts -> 0 .. K - 1]
  <2>1. Rebuilt.starts = [c \in Contexts |-> NewState(dfa.starts[c])]
    BY DEF Rebuilt
  <2>2. ASSUME NEW c \in Contexts PROVE NewState(dfa.starts[c]) \in 0 .. K - 1
    <3>1. dfa.starts[c] \in 0 .. dfa.len - 1 /\ dfa.len \in Nat
      BY DEF IsDfa
    <3>2. dfa.starts[c] \in None .. dfa.len - 1 /\ dfa.starts[c] # None
      BY <3>1 DEF None
    <3> QED
      BY <3>2, NewStateType
  <2> QED
    BY <2>1, <2>2
<1>3. ASSUME NEW k \in 0 .. K - 1
      PROVE  /\ Rebuilt.states[k].accept \in BOOLEAN
             /\ Rebuilt.states[k].trans \in [Byte -> None .. K - 1]
             /\ Rebuilt.states[k].final \in [Byte -> None .. K - 1]
  <2>1. PICK l \in Leaders : Number(l) = k
    BY NumberFacts
  <2>2. PICK q \in DfaStates : l = Leader(q)
    BY DEF Leaders
  <2>3. l \in DfaStates /\ blockOf[l] = blockOf[q]
    BY <2>2, LeaderFacts
  <2>4. Max(Block(blockOf[l])) \in DfaStates
    BY <2>3, LeaderFacts
  <2>5. Rebuilt.states[k].accept \in BOOLEAN
    <3>1. Rebuilt.states[k].accept = dfa.states[Max(Block(blockOf[l]))].accept
      BY <2>1, RebuiltState, Zenon
    <3>2. dfa.states[Max(Block(blockOf[l]))].accept \in BOOLEAN
      BY <2>4, Zenon DEF IsDfa, DfaStates
    <3> QED
      BY <3>1, <3>2, Zenon
  <2>6. \A c \in Byte : /\ dfa.states[l].trans[c] \in None .. dfa.len - 1
                        /\ dfa.states[l].final[c] \in None .. dfa.len - 1
    BY <2>3, Zenon DEF IsDfa, DfaStates
  <2>7. \A c \in Byte : /\ NewState(dfa.states[l].trans[c]) \in None .. K - 1
                        /\ NewState(dfa.states[l].final[c]) \in None .. K - 1
    BY <2>6, NewStateType
  <2>8. /\ Rebuilt.states[k].trans = [c \in Byte |-> NewState(dfa.states[l].trans[c])]
        /\ Rebuilt.states[k].final = [c \in Byte |-> NewState(dfa.states[l].final[c])]
    BY <2>1, RebuiltState, Zenon
  <2> HIDE DEF K
  <2>9. /\ Rebuilt.states[k].trans \in [Byte -> None .. K - 1]
        /\ Rebuilt.states[k].final \in [Byte -> None .. K - 1]
    BY <2>7, <2>8
  <2> QED
    BY <2>5, <2>9
<1> QED
  BY <1>1, <1>2, <1>3 DEF IsDfa

\* The dead state takes the place of None.
Completed(q) == IF q = None THEN Dead ELSE q

\* The state k of the rebuilt automaton is in the block of the old state q.
Merges(q, k) ==
  IF k = None
    THEN blockOf[Completed(q)] = blockOf[Dead]
    ELSE \E s \in DfaStates : /\ blockOf[s] = blockOf[Completed(q)]
                              /\ k = Number(Leader(s))

\* The completed automaton accepts and steps as the one that was built.
LEMMA CompletedFacts ==
  ASSUME Built, NEW q \in None .. dfa.len - 1
  PROVE  /\ Completed(q) \in Total
         /\ Accepting(dfa, q) <=> Accepts(Completed(q))
         /\ \A b \in Byte : \A e \in BOOLEAN :
              /\ <<ClassOf[re][b], e>> \in Symbols
              /\ Goes(Completed(q), <<ClassOf[re][b], e>>) =
                   Completed(Step(dfa, q, b, e))
              /\ Step(dfa, q, b, e) \in None .. dfa.len - 1
<1>1. dfa.len \in Nat /\ IsDfa(dfa) /\ re \in Regex
  BY DEF Built, IsDfa
<1>2. Completed(q) \in Total /\ (q = None \/ (q \in DfaStates /\ q # Dead))
  BY <1>1 DEF Completed, Total, Dead, DfaStates, None
<1>3. Accepting(dfa, q) <=> Accepts(Completed(q))
  BY <1>2 DEF Accepting, Accepts, Completed
<1>4. ASSUME NEW b \in Byte, NEW e \in BOOLEAN
      PROVE  /\ <<ClassOf[re][b], e>> \in Symbols
             /\ Goes(Completed(q), <<ClassOf[re][b], e>>) =
                  Completed(Step(dfa, q, b, e))
             /\ Step(dfa, q, b, e) \in None .. dfa.len - 1
  <2>1. <<ClassOf[re][b], e>> \in Symbols
    BY <1>1 DEF Symbols, Classes
  <2>2. Step(dfa, q, b, e) \in None .. dfa.len - 1
    BY <1>1, StepType
  <2>3. CASE q = None
    BY <2>1, <2>2, <2>3 DEF Goes, Completed, Step
  <2>4. CASE q \in DfaStates /\ q # Dead /\ q # None
    <3>1. Step(dfa, q, ClassOf[re][b], e) = Step(dfa, q, b, e)
      BY <2>4 DEF Built, RowsOfClasses
    <3> QED
      BY <2>1, <2>2, <2>4, <3>1 DEF Goes, Completed
  <2> QED
    BY <1>2, <2>1, <2>2, <2>3, <2>4
<1> QED
  BY <1>2, <1>3, <1>4

\* States of one block accept together.
LEMMA MergesAccepts ==
  ASSUME RefineInv, NEW q \in None .. dfa.len - 1,
         NEW k \in None .. Rebuilt.len - 1, Merges(q, k)
  PROVE  Accepting(Rebuilt, k) <=> Accepting(dfa, q)
<1>1. Built /\ Parts /\ IsDfa(dfa)
  BY DEF RefineInv, Built
<1>2. /\ Completed(q) \in Total /\ Dead \in Total
      /\ Accepting(dfa, q) <=> Accepts(Completed(q))
  BY <1>1, CompletedFacts, TotalFacts
<1>3. CASE k = None
  <2>1. Accepts(Completed(q)) <=> Accepts(Dead)
    BY <1>1, <1>2, <1>3 DEF Parts, Merges
  <2> QED
    BY <1>2, <1>3, <2>1 DEF Accepts, Accepting
<1>4. CASE k # None
  <2>1. PICK s \in DfaStates : blockOf[s] = blockOf[Completed(q)] /\ k = Number(Leader(s))
    BY <1>4 DEF Merges
  <2> DEFINE m == Max(Block(blockOf[Leader(s)]))
  <2>2. m \in DfaStates /\ blockOf[m] = blockOf[s] /\ Leader(s) \in Leaders
    BY <1>1, LeaderFacts
  <2>3. Rebuilt.states[k].accept = dfa.states[m].accept
    BY <1>1, <2>1, <2>2, RebuiltState, Zenon
  <2> HIDE DEF m
  <2>4. m \in Total /\ m # Dead
    BY <1>1, <2>2, TotalFacts DEF DfaStates, Total, Dead
  <2>5. Accepts(m) <=> Accepts(Completed(q))
    BY <1>1, <1>2, <2>1, <2>2, <2>4 DEF Parts
  <2>6. Accepting(Rebuilt, k) <=> Rebuilt.states[k].accept
    BY <1>4 DEF Accepting
  <2>7. Accepts(m) <=> dfa.states[m].accept
    BY <2>4 DEF Accepts
  <2> QED
    BY <1>2, <2>3, <2>5, <2>6, <2>7, Zenon
<1> QED
  BY <1>3, <1>4

\* A new state as the old one it comes from.
LEMMA MergesNew ==
  ASSUME Built, NEW q \in None .. dfa.len - 1, NEW s \in None .. dfa.len - 1,
         blockOf[Completed(q)] = blockOf[Completed(s)]
  PROVE  Merges(q, NewState(s))
<1>1. CASE s = None
  BY <1>1 DEF Merges, NewState, Completed
<1>2. CASE s # None
  <2>1. s \in DfaStates /\ NewState(s) \in 0 .. Cardinality(Leaders) - 1
    BY <1>2, NewStateType DEF Built
  <2>2. NewState(s) = Number(Leader(s)) /\ Completed(s) = s
    BY <1>2 DEF NewState, Completed
  <2>3. NewState(s) # None
    BY <2>1, NumberFacts DEF Built, None
  <2> QED
    BY <2>1, <2>2, <2>3 DEF Merges
<1> QED
  BY <1>1, <1>2

\* One byte further the states are in one block again.
LEMMA MergesStep ==
  ASSUME RefineInv, pc = "rebuild", NEW q \in None .. dfa.len - 1,
         NEW k \in None .. Rebuilt.len - 1, Merges(q, k),
         NEW b \in Byte, NEW e \in BOOLEAN
  PROVE  Merges(Step(dfa, q, b, e), Step(Rebuilt, k, b, e))
<1> DEFINE a == <<ClassOf[re][b], e>>
           to == Step(dfa, q, b, e)
<1>1. Built /\ Parts /\ IsDfa(dfa) /\ dfa.len \in Nat
  BY DEF RefineInv, Built, IsDfa
<1>2. /\ Completed(q) \in Total /\ Dead \in Total
      /\ a \in Symbols /\ to \in None .. dfa.len - 1
      /\ Goes(Completed(q), a) = Completed(to)
  BY <1>1, CompletedFacts, TotalFacts
<1> HIDE DEF a, to
<1>3. CASE k = None
  <2>1. blockOf[Completed(q)] = blockOf[Dead]
    BY <1>3 DEF Merges
  <2>2. blockOf[Goes(Completed(q), a)] = blockOf[Goes(Dead, a)]
    BY <1>2, <2>1, BlocksAgree
  <2>3. Goes(Dead, a) = Dead
    BY DEF Goes
  <2>4. Step(Rebuilt, k, b, e) = None
    BY <1>3 DEF Step
  <2> QED
    BY <1>2, <2>2, <2>3, <2>4 DEF Merges, to
<1>4. CASE k # None
  <2>1. PICK s \in DfaStates : blockOf[s] = blockOf[Completed(q)] /\ k = Number(Leader(s))
    BY <1>4 DEF Merges
  <2> DEFINE l == Leader(s)
             ts == Step(dfa, l, b, e)
  <2>2. l \in DfaStates /\ l \in Leaders /\ blockOf[l] = blockOf[s]
    BY <1>1, LeaderFacts
  <2>3. l \in None .. dfa.len - 1 /\ l # None
    BY <1>1, <2>2 DEF DfaStates, None
  <2>4. /\ Completed(l) = l /\ l \in Total
        /\ ts \in None .. dfa.len - 1
        /\ Goes(l, a) = Completed(ts)
    <3>1. Completed(l) = l
      BY <2>3 DEF Completed
    <3> QED
      BY <1>1, <2>3, <3>1, CompletedFacts DEF a
  <2>5. Step(Rebuilt, k, b, e) = NewState(ts)
    <3>1. /\ Rebuilt.states[k].trans = [c \in Byte |-> NewState(dfa.states[l].trans[c])]
          /\ Rebuilt.states[k].final = [c \in Byte |-> NewState(dfa.states[l].final[c])]
      BY <1>1, <2>1, <2>2, RebuiltState, Zenon
    <3>2. /\ Rebuilt.states[k].trans[b] = NewState(dfa.states[l].trans[b])
          /\ Rebuilt.states[k].final[b] = NewState(dfa.states[l].final[b])
      BY <3>1
    <3> QED
      BY <1>4, <2>3, <3>2 DEF Step
  <2> HIDE DEF l, ts
  <2>6. blockOf[Goes(Completed(q), a)] = blockOf[Goes(l, a)]
    BY <1>2, <2>1, <2>2, <2>4, BlocksAgree
  <2>7. Merges(to, NewState(ts))
    BY <1>1, <1>2, <2>4, <2>6, MergesNew
  <2> QED
    BY <2>5, <2>7 DEF to
<1> QED
  BY <1>3, <1>4

\* A walk of the rebuilt automaton stays in the blocks of the old walk, so that
\* both accept at the same positions.
LEMMA RebuiltRepresents ==
  ASSUME RefineInv, pc = "rebuild"
  PROVE  Represents(Rebuilt, re)
<1>1. Built /\ IsDfa(dfa) /\ IsDfa(Rebuilt) /\ Represents(dfa, re) /\ dfa.len \in Nat
  BY RebuiltIsDfa DEF RefineInv, Built, IsDfa
<1> SUFFICES ASSUME NEW t \in Texts, NEW s \in 0 .. Len(t), NEW p \in s .. Len(t)
             PROVE  Accepting(Rebuilt, Walk(Rebuilt, t, s)[p]) <=>
                      Nfa[re].accept \in Live(re, t, s)[p]
  BY Zenon DEF Represents
<1> DEFINE V == Walk(dfa, t, s)
           X == Walk(Rebuilt, t, s)
           Good == {k \in Nat : s + k <= Len(t) => Merges(V[s + k], X[s + k])}
<1>2. t \in Seq(Byte) /\ Len(t) \in Nat
  BY TextsType
<1>3. \A i \in s .. Len(t) : V[i] \in None .. dfa.len - 1 /\ X[i] \in None .. Rebuilt.len - 1
  BY <1>1, <1>2, WalkType
<1>4. /\ V[s] = dfa.starts[Context(s = 0, s = Len(t))]
      /\ X[s] = Rebuilt.starts[Context(s = 0, s = Len(t))]
      /\ \A i \in s + 1 .. Len(t) : /\ V[i] = Step(dfa, V[i - 1], t[i], i = Len(t))
                                    /\ X[i] = Step(Rebuilt, X[i - 1], t[i], i = Len(t))
  <2>1. \A d : /\ Walk(d, t, s)[s] = d.starts[Context(s = 0, s = Len(t))]
               /\ \A i \in s + 1 .. Len(t) :
                    Walk(d, t, s)[i] = Step(d, Walk(d, t, s)[i - 1], t[i], i = Len(t))
    <3> TAKE d
    <3>1. /\ Walk(d, t, s)[s] = WalkFirst(d, t, s)
          /\ \A i \in s + 1 .. Len(t) :
               Walk(d, t, s)[i] = Step(d, Walk(d, t, s)[i - 1], t[i], i = Len(t))
      BY <1>2, WalkEquation
    <3> QED
      BY <3>1, Zenon DEF WalkFirst
  <2> QED
    BY <2>1, Zenon
<1> HIDE DEF V, X
<1>5. 0 \in Good
  <2> DEFINE c == Context(s = 0, s = Len(t))
  <2>1. c \in Contexts
    BY ContextType, Zenon
  <2> HIDE DEF c
  <2>2. X[s] = NewState(V[s])
    <3>1. Rebuilt.starts = [x \in Contexts |-> NewState(dfa.starts[x])]
      BY DEF Rebuilt
    <3> QED
      BY <1>4, <2>1, <3>1 DEF c
  <2>3. s \in s .. Len(t) /\ s + 0 = s
    BY <1>2
  <2>4. Merges(V[s], X[s])
    BY <1>1, <1>3, <2>2, <2>3, MergesNew
  <2> QED
    BY <2>3, <2>4
<1>6. ASSUME NEW k \in Nat, k \in Good PROVE k + 1 \in Good
  <2> SUFFICES ASSUME s + (k + 1) <= Len(t)
               PROVE  Merges(V[s + (k + 1)], X[s + (k + 1)])
    OBVIOUS
  <2> DEFINE i == s + (k + 1)
             e == i = Len(t)
  <2>1. /\ i \in s + 1 .. Len(t) /\ i - 1 = s + k /\ i - 1 \in s .. Len(t)
        /\ i \in 1 .. Len(t) /\ s + k <= Len(t)
    BY <1>2
  <2>2. V[i] = Step(dfa, V[i - 1], t[i], e) /\ X[i] = Step(Rebuilt, X[i - 1], t[i], e)
    BY <1>4, <2>1, Zenon
  <2>3. Merges(V[i - 1], X[i - 1])
    BY <1>6, <2>1
  <2>4. t[i] \in Byte /\ e \in BOOLEAN
    BY <1>2, <2>1
  <2> HIDE DEF i, e
  <2>5. Merges(Step(dfa, V[i - 1], t[i], e), Step(Rebuilt, X[i - 1], t[i], e))
    BY <1>3, <2>1, <2>3, <2>4, MergesStep
  <2>6. Merges(V[i], X[i])
    BY <2>2, <2>5, Zenon
  <2> QED
    BY <2>6 DEF i
<1>7. p - s \in Good /\ s + (p - s) = p /\ p <= Len(t)
  <2>1. p - s \in Nat /\ s + (p - s) = p /\ p <= Len(t)
    BY <1>2
  <2> HIDE DEF Good
  <2> QED
    BY <1>5, <1>6, <2>1, NatSetInduction
<1>8. Merges(V[p], X[p])
  BY <1>7
<1>9. Accepting(Rebuilt, X[p]) <=> Accepting(dfa, V[p])
  BY <1>3, <1>8, MergesAccepts
<1>10. Accepting(dfa, V[p]) <=> Nfa[re].accept \in Live(re, t, s)[p]
  BY <1>1, Zenon DEF Represents, V
<1> QED
  BY <1>9, <1>10, Zenon DEF X

-----------------------------------------------------------------------------
(* The engine. *)

\* The last set is resolved: every transition is there, and those of the bytes
\* of a class are the same because they stand for the same set.
LEMMA ExploredBuilt ==
  ASSUME BuildInv, BuildInv', Explored
  PROVE  Built'
<1>1. /\ pc = "explore" /\ pc' = "minimize" /\ re' = re /\ dfa' = dfa
  BY DEF Explored
<1>2. /\ re \in Regex /\ Distinct(dfa) /\ Shape(Nfa[re], dfa)
      /\ \A c \in Contexts : Begins(Nfa[re], dfa, c)
      /\ \A s \in 0 .. dfa.len - 1 : \A b \in Byte :
           Moves(Nfa[re], dfa, s, b) /\ Finishes(Nfa[re], dfa, s, b)
  BY <1>1 DEF BuildInv, BuildOK, Correct, nfa, DfaStates
<1>3. CanBuild(Nfa[re])
  BY <1>2, AutomatonAssumption
<1>4. IsDfa(dfa) /\ Represents(dfa, re)
  BY <1>2, <1>3, FollowingSetsRepresents, ShapeIsDfa
<1>5. RowsOfClasses
  <2> SUFFICES ASSUME NEW q \in DfaStates, NEW b \in Byte, NEW e \in BOOLEAN
               PROVE  Step(dfa, q, b, e) = Step(dfa, q, ClassOf[re][b], e)
    BY DEF RowsOfClasses
  <2> DEFINE n == Nfa[re]
             c == ClassOf[re][b]
             T == dfa.states[q].set
  <2>1. c \in Byte /\ Equivalent(n, b, c)
    BY <1>2, ClassFacts
  <2>2. q \in 0 .. dfa.len - 1 /\ T \in SUBSET State(n)
    BY <1>2 DEF DfaStates, Shape, StateRecord
  <2>3. Move(n, T, b) = Move(n, T, c)
    BY <2>1, <2>2, EquivalentMoves
  <2>4. \A end_ \in BOOLEAN : After(n, T, b, end_) = After(n, T, c, end_)
    BY <2>3, Zenon DEF After
  <2>5. /\ Moves(n, dfa, q, b) /\ Moves(n, dfa, q, c)
        /\ Finishes(n, dfa, q, b) /\ Finishes(n, dfa, q, c)
    BY <1>2, <2>1, <2>2
  <2> HIDE DEF n, c
  <2>6. \A x, y, U : Stands(dfa, x, U) /\ Stands(dfa, y, U) => x = y
    BY <1>2 DEF Stands, Distinct
  <2>7. dfa.states[q].trans[b] = dfa.states[q].trans[c]
    BY <2>4, <2>5, <2>6, Zenon DEF Moves
  <2>8. dfa.states[q].final[b] = dfa.states[q].final[c]
    BY <2>4, <2>5, <2>6, Zenon DEF Finishes
  <2> QED
    BY <2>7, <2>8, Zenon DEF Step, c
<1> QED
  BY <1>1, <1>2, <1>4, <1>5 DEF Built, RowsOfClasses, DfaStates

\* The place of a call in its text.
CallBounds ==
  /\ state \in None .. dfa.len - 1
  /\ pos \in start .. Len(text) /\ best \in start .. pos

EngineInv ==
  /\ pc \in {"start", "explore", "minimize", "refine", "split", "rebuild",
             "minimized", "ready", "failed"}
  /\ rc \in {"RUN", "OK", "ESPACE", "EUNSUPPORTED"}
  /\ re \in Regex /\ dfa.len \in Nat
  /\ pc \in {"start", "explore"} => BuildInv
  /\ pc = "minimize" => Built
  /\ pc \in {"start", "explore", "minimize"} => preimage = {} /\ todo = {}
  /\ Refining => RefineInv
  /\ pc \in {"minimized", "ready"} => IsDfa(dfa) /\ Represents(dfa, re)
  /\ pc # "ready" => RunInit
  /\ pc = "ready" => RunInv /\ CallBounds

\* Nothing is built, nothing called.
LEMMA EngineInit == Init => EngineInv
<1> SUFFICES ASSUME Init PROVE EngineInv
  OBVIOUS
<1>1. BuildInv
  BY BuildInvInit DEF Init
<1> QED
  BY <1>1 DEF Init, BuildInit, MinimizeInit, EngineInv, Refining

\* A step of dfa_build keeps the invariant.
LEMMA EngineBuild == EngineInv /\ Build => EngineInv'
<1> SUFFICES ASSUME EngineInv, Build PROVE EngineInv'
  OBVIOUS
<1>1. /\ BuildNext /\ UNCHANGED <<minimizeVars, runVars>>
      /\ pc \in {"start", "explore"} /\ BuildInv
  BY DEF Build, BuildNext, ResolveEmpty, ResolveKnown, ResolveNew, LimitReached,
         BuildOutOfMemory, Explored, Resolving, EngineInv
<1>2. BuildInv'
  BY <1>1, BuildInvStep
<1>3. /\ preimage' = {} /\ todo' = {} /\ RunInit'
  BY <1>1 DEF EngineInv, minimizeVars, runVars, RunInit
<1>4. re' \in Regex /\ dfa'.len \in Nat /\ pc' \in {"start", "explore", "minimize", "failed"}
  BY <1>2 DEF BuildInv, BuildOK, Shape
<1>5. pc' = "minimize" => Explored
  BY <1>1 DEF BuildNext, ResolveEmpty, ResolveKnown, ResolveNew, LimitReached,
              BuildOutOfMemory, Advance
<1>6. rc' \in {"RUN", "OK", "ESPACE", "EUNSUPPORTED"}
  BY <1>1 DEF EngineInv, BuildNext, ResolveEmpty, ResolveKnown, ResolveNew,
              LimitReached, BuildOutOfMemory, Explored
<1>7. pc' = "minimize" => Built'
  BY <1>1, <1>2, <1>5, ExploredBuilt
<1> QED
  BY <1>2, <1>3, <1>4, <1>6, <1>7 DEF EngineInv, Refining

\* So does a step of dfa_minimize,
LEMMA EngineReduce == EngineInv /\ Reduce => EngineInv'
<1> SUFFICES ASSUME EngineInv, Reduce PROVE EngineInv'
  OBVIOUS
<1>1. MinimizeNext /\ UNCHANGED runVars
  BY DEF Reduce
<1>2. /\ re' = re /\ re \in Regex
      /\ pc \in {"minimize", "refine", "split", "rebuild"} /\ RunInit
  BY <1>1 DEF MinimizeNext, Partition, Pop, Split, SplitterDone, Refined, Rebuild,
              MinimizeOutOfMemory, EngineInv
<1>3. RunInit'
  BY <1>1, <1>2 DEF runVars, RunInit
<1>4. CASE MinimizeOutOfMemory
  <2>1. pc' = "failed" /\ rc' = "ESPACE" /\ dfa' = dfa
    BY <1>4 DEF MinimizeOutOfMemory
  <2> QED
    BY <1>2, <1>3, <2>1 DEF EngineInv, Refining
<1>5. CASE Rebuild
  <2>1. pc = "rebuild" /\ pc' = "minimized" /\ rc' = rc /\ dfa' = Rebuilt /\ RefineInv
    BY <1>5 DEF Rebuild, EngineInv, Refining
  <2>2. IsDfa(Rebuilt) /\ Represents(Rebuilt, re)
    BY <2>1, RebuiltIsDfa, RebuiltRepresents DEF RefineInv, Built
  <2>3. IsDfa(dfa') /\ Represents(dfa', re') /\ dfa'.len \in Nat
    BY <1>2, <2>1, <2>2, Zenon DEF IsDfa
  <2> QED
    BY <1>2, <1>3, <2>1, <2>3 DEF EngineInv, Refining
<1>6. ASSUME Partition \/ Pop \/ (\E b \in todo : Split(b)) \/ SplitterDone \/ Refined
      PROVE  EngineInv'
  <2>1. rc' = rc /\ dfa' = dfa /\ pc' \in {"refine", "split", "rebuild"}
    BY <1>6 DEF Partition, Pop, Split, SplitterDone, Refined
  <2>2. RefineInv'
    <3>1. CASE Partition
      BY <3>1, PartitionStep DEF Partition, EngineInv
    <3>2. ASSUME ~ Partition PROVE RefineInv
      BY <1>6, <3>2 DEF Pop, Split, SplitterDone, Refined, EngineInv, Refining
    <3> QED
      BY <1>6, <3>1, <3>2, PopStep, SplitStep, DoneStep, RefinedStep
  <2> QED
    BY <1>2, <1>3, <2>1, <2>2 DEF EngineInv
<1> QED
  BY <1>1, <1>4, <1>5, <1>6 DEF MinimizeNext

\* The call is on an automaton that represents the expression.
LEMMA EnginePublish == EngineInv /\ Publish => EngineInv'
<1> SUFFICES ASSUME EngineInv, Publish PROVE EngineInv'
  OBVIOUS
<1>1. pc = "minimized" /\ pc' = "ready" /\ rc' = "OK" /\ UNCHANGED <<re, dfa, runVars>>
  BY DEF Publish
<1>2. RunInv /\ CallBounds
  <2>1. RunInit /\ re \in Regex /\ IsDfa(dfa) /\ Represents(dfa, re)
    BY <1>1 DEF EngineInv
  <2> QED
    BY <2>1, RunInvInit DEF RunInit, CallBounds, IsDfa, None
<1>3. RunInv'
  BY <1>1, <1>2, RunInvSame
<1>4. CallBounds'
  BY <1>1, <1>2 DEF CallBounds, runVars
<1> QED
  BY <1>1, <1>3, <1>4 DEF EngineInv, Refining

\* A call is made only when there is an automaton, and changes none of it.
LEMMA RunIsReady ==
  ASSUME EngineInv, RunNext
  PROVE  /\ pc = "ready" /\ RunInv /\ CallBounds
         /\ re' = re /\ dfa' = dfa /\ pc' = pc /\ rc' = rc
BY DEF EngineInv, RunInit, RunNext, Call, ReadByte, Return

\* a step of dfa_run_from,
LEMMA EngineRun == EngineInv /\ Run => EngineInv'
<1> SUFFICES ASSUME EngineInv, Run PROVE EngineInv'
  OBVIOUS
<1>1. /\ RunNext /\ pc = "ready" /\ RunInv /\ CallBounds
      /\ re' = re /\ dfa' = dfa /\ pc' = pc /\ rc' = rc
  BY RunIsReady DEF Run
<1>2. RunInv'
  BY <1>1, RunInvStep
<1>3. CallBounds'
  <2>1. CASE Return
    BY <1>1, <2>1 DEF Return, CallBounds
  <2>2. CASE at' = "loop"
    BY <1>1, <1>2, <2>2 DEF RunInv, RunOK, CallBounds, DfaStates, None, EngineInv
  <2> QED
    BY <1>1, <2>1, <2>2 DEF RunNext, Call, ReadByte
<1> QED
  BY <1>1, <1>2, <1>3 DEF EngineInv, Refining

\* and no step at all.
LEMMA EngineSame == EngineInv /\ UNCHANGED vars => EngineInv'
<1> SUFFICES ASSUME EngineInv, UNCHANGED vars PROVE EngineInv'
  OBVIOUS
<1>1. UNCHANGED <<buildVars, runVars, blockOf, blockSize, blockCount, work, preimage, todo>>
  BY DEF vars, minimizeVars, partition
<1>2. UNCHANGED <<re, dfa, pc, rc>>
  BY <1>1 DEF buildVars
<1>3. pc \in {"start", "explore"} => BuildInv'
  BY <1>1, BuildInvStep DEF EngineInv
<1>4. pc = "minimize" => Built'
  BY <1>2, SameAutomaton DEF EngineInv
<1>5. Refining => RefineInv'
  <2> SUFFICES ASSUME Refining PROVE RefineInv'
    OBVIOUS
  <2>1. /\ Built' /\ Total' = Total /\ Symbols' = Symbols
        /\ \A q, a : Goes(q, a)' = Goes(q, a)
        /\ \A q : Accepts(q)' <=> Accepts(q)
    BY <1>2, SameAutomaton DEF EngineInv, RefineInv
  <2>2. Parts' /\ Worklist'
    BY <1>1, <1>2, <2>1 DEF EngineInv, RefineInv, Parts, Members, Worklist
  <2>3. NothingForgotten'
    BY <1>1, <1>2, <2>1 DEF EngineInv, RefineInv, NothingForgotten, Refining, Queued
  <2> QED
    BY <2>1, <2>2, <2>3 DEF RefineInv
<1>6. pc # "ready" => RunInit'
  BY <1>1 DEF EngineInv, RunInit, runVars
<1>7. pc = "ready" => RunInv' /\ CallBounds'
  BY <1>1, <1>2, RunInvSame DEF EngineInv, CallBounds, runVars
<1> QED
  BY <1>1, <1>2, <1>3, <1>4, <1>5, <1>6, <1>7 DEF EngineInv, Refining

\* Every step keeps the invariant.
LEMMA EngineStep == EngineInv /\ [Next]_vars => EngineInv'
<1> SUFFICES ASSUME EngineInv, [Next]_vars PROVE EngineInv'
  OBVIOUS
<1>1. CASE Finished
  BY <1>1, EngineSame DEF Finished
<1> QED
  BY <1>1, EngineBuild, EngineReduce, EnginePublish, EngineRun, EngineSame DEF Next

\* It always holds.
LEMMA EngineInvariant == Spec => []EngineInv
BY EngineInit, EngineStep, PTL DEF Spec

\* A finished automaton has all its start states and no transition out of
\* range, and a call stays within its text and the automaton.
THEOREM EngineTypes == Spec => []TypeOK
<1>1. EngineInv => TypeOK
  <2> SUFFICES ASSUME EngineInv PROVE TypeOK
    OBVIOUS
  <2>1. re \in Regex /\ rc \in {"RUN", "OK", "ESPACE", "EUNSUPPORTED"} /\ dfa.len \in Nat
    BY DEF EngineInv
  <2>2. pc \in {"minimize", "refine", "split", "rebuild", "minimized", "ready"} => IsDfa(dfa)
    BY DEF EngineInv, Refining, RefineInv, Built
  <2>3. at \in {"call", "loop", "done"} /\ CallBounds
    BY <2>1, TextsType DEF EngineInv, RunInit, RunInv, RunOK, CallBounds, None
  <2> QED
    BY <2>1, <2>2, <2>3 DEF TypeOK, CallBounds
<1> QED
  BY EngineInvariant, <1>1, PTL

\* What dfa_build promises holds in the engine as it does on its own.
THEOREM EngineConstructs ==
  Spec => [](OneStatePerSet /\ TransitionsFollowSets /\ BuiltRepresents)
<1>1. EngineInv => OneStatePerSet /\ TransitionsFollowSets
  BY BuildInvUnique, BuildInvFollows DEF EngineInv, OneStatePerSet, TransitionsFollowSets
<1>2. EngineInv => BuiltRepresents
  BY DEF EngineInv, Built, BuiltRepresents
<1> QED
  BY EngineInvariant, <1>1, <1>2, PTL

\* The counters of dfa_minimize agree with its partition after every split, no
\* block is ever empty and the arrays of len+1 entries hold them all.
THEOREM SizesStayExact == Spec => []SizesAreExact
<1>1. EngineInv => SizesAreExact
  BY PartsExact DEF EngineInv, RefineInv, Built, SizesAreExact
<1> QED
  BY EngineInvariant, <1>1, PTL

\* Queueing the smaller half is enough, whatever the automaton: what still has
\* to be separated is queued or at work.
THEOREM NoSplitterForgotten == Spec => []NothingForgotten
<1>1. EngineInv => NothingForgotten
  BY DEF EngineInv, RefineInv, NothingForgotten
<1> QED
  BY EngineInvariant, <1>1, PTL

\* dfa_minimize leaves an automaton that accepts where the Thompson automaton
\* does: on every text, from every start.
THEOREM MinimizeIsRight == Spec => []MinimizedRepresents
<1>1. EngineInv => MinimizedRepresents
  BY DEF EngineInv, MinimizedRepresents
<1> QED
  BY EngineInvariant, <1>1, PTL

\* A call on what regex_compile_ex handed out follows its text.
THEOREM EngineFollowsText == Spec => []RunFollowsText
<1>1. EngineInv => RunFollowsText
  BY DEF EngineInv, RunInv, RunInit, RunFollowsText
<1> QED
  BY EngineInvariant, <1>1, PTL

\* From the construction to the answer, the engine keeps the contract it shares
\* with the NFA matcher: the longest match, and none only if there is none.
THEOREM EngineRefines == Spec => KeepsPromise
<1>1. Init => Promise!Init
  BY DEF Init, BuildInit, RunInit, Promise!Init, Promise!Regex, Regex
<1>2. EngineInv /\ [Next]_vars => [Promise!Next]_(Promise!vars)
  <2> SUFFICES ASSUME EngineInv, [Next]_vars PROVE [Promise!Next]_(Promise!vars)
    OBVIOUS
  <2>1. CASE RunNext
    <3>1. RunInv
      BY <2>1, RunIsReady
    <3> QED
      BY <2>1, <3>1, PromiseStep
  <2>2. CASE Build \/ Reduce \/ Publish \/ UNCHANGED vars
    <3>1. re' = re
      BY <2>2 DEF Build, Reduce, Publish, vars, buildVars,
                  BuildNext, ResolveEmpty, ResolveKnown, ResolveNew, LimitReached,
                  BuildOutOfMemory, Explored, MinimizeNext, Partition, Pop, Split,
                  SplitterDone, Refined, Rebuild, MinimizeOutOfMemory
    <3>2. UNCHANGED runVars
      BY <2>2 DEF Build, Reduce, Publish, vars
    <3> QED
      BY <3>1, <3>2 DEF runVars, Promise!vars
  <2> QED
    BY <2>1, <2>2 DEF Next, Run, Finished
<1> QED
  BY <1>1, <1>2, EngineInvariant, PTL DEF Spec, KeepsPromise, Promise!Spec

-----------------------------------------------------------------------------
(* No state too many. *)

\* e is a pair that one symbol takes to a pair of D.
Before(D) ==
  {e \in Total \X Total : \E a \in Symbols : <<Goes(e[1], a), Goes(e[2], a)>> \in D}

\* The pairs of which only one accepts.
Differ == {e \in Total \X Total : Accepts(e[1]) # Accepts(e[2])}

\* Apart is the least set with the pairs of which only one state accepts and,
\* with a pair, those that a symbol takes to it.
ApartIs ==
  /\ Apart \in SUBSET (Total \X Total)
  /\ Differ \subseteq Apart
  /\ Before(Apart) \subseteq Apart
  /\ \A U \in SUBSET (Total \X Total) :
       Differ \subseteq U /\ Before(U) \subseteq U => Apart \subseteq U

\* The recursion of Apart has this solution.
LEMMA ApartFacts == IsDfa(dfa) => ApartIs
<1> SUFFICES ASSUME IsDfa(dfa) PROVE ApartIs
  OBVIOUS
<1> DEFINE P == Total \X Total
           F == [D \in SUBSET P |-> D \cup Before(D)]
           to == [a \in Symbols |-> [q \in Total |-> Goes(q, a)]]
           More(D) == D \cup {e \in P : \E a \in Symbols : <<to[a][e[1]], to[a][e[2]]>> \in D}
           Grows(g) == g = [D \in SUBSET P |-> IF More(D) = D THEN D ELSE g[More(D)]]
           f == CHOOSE g : Grows(g)
<1>1. IsRound(P, F)
  <2>1. IsFiniteSet(P)
    BY TotalFacts, FS_Product
  <2>2. \A D : Before(D) \subseteq P
    BY DEF Before
  <2>3. F \in [SUBSET P -> SUBSET P]
    BY <2>2
  <2>4. \A D, E \in SUBSET P : D \subseteq E => D \cup Before(D) \subseteq E \cup Before(E)
    BY DEF Before
  <2> QED
    BY <2>1, <2>3, <2>4 DEF IsRound
<1>2. \A D \in SUBSET P : F[D] = D \cup Before(D)
  OBVIOUS
<1>3. \A D \in SUBSET P : More(D) = F[D]
  <2>1. \A a \in Symbols : \A q \in Total : to[a][q] = Goes(q, a)
    OBVIOUS
  <2>2. \A e \in P : e[1] \in Total /\ e[2] \in Total
    OBVIOUS
  <2> HIDE DEF to
  <2>3. \A D : {e \in P : \E a \in Symbols : <<to[a][e[1]], to[a][e[2]]>> \in D} = Before(D)
    BY <2>1, <2>2, Zenon DEF Before
  <2> QED
    BY <1>2, <2>3, Zenon
<1>4. Apart = f[Differ]
  BY Zenon DEF Apart, Differ, Accepts
<1> HIDE DEF F, More, to, P
<1>5. \A g : Grows(g) <=> GrowsBy(P, F, g)
  <2> TAKE g
  <2>1. [D \in SUBSET P |-> IF More(D) = D THEN D ELSE g[More(D)]]
        = [D \in SUBSET P |-> IF F[D] = D THEN D ELSE g[F[D]]]
    BY <1>3, Zenon
  <2> QED
    BY <2>1, Zenon DEF GrowsBy
<1> HIDE DEF Grows
<1>6. Grows(f)
  BY <1>1, <1>5, GrowsExists, Zenon
<1>7. Differ \in SUBSET P
  BY DEF Differ, P
<1>8. Apart = Least(P, F, Differ)
  <2> HIDE DEF f
  <2> QED
    BY <1>1, <1>4, <1>5, <1>6, <1>7, GrowsLeast
<1>9. /\ Apart \in SUBSET P /\ Differ \subseteq Apart /\ F[Apart] = Apart
      /\ \A U \in SUBSET P : Differ \subseteq U /\ F[U] = U => Apart \subseteq U
  BY <1>1, <1>7, <1>8, LeastFacts
<1>10. ASSUME NEW U \in SUBSET P PROVE F[U] = U <=> Before(U) \subseteq U
  <2>1. F[U] = U \cup Before(U)
    BY <1>2, Zenon
  <2>2. U \cup Before(U) = U <=> Before(U) \subseteq U
    OBVIOUS
  <2> QED
    BY <2>1, <2>2, Zenon
<1> QED
  BY <1>9, <1>10, Zenon DEF ApartIs, P

\* The same behind a step.
LEMMA ApartPrimed == IsDfa(dfa)' => ApartIs'
BY ApartFacts, PTL

\* What is apart depends on the automaton only.
LEMMA SameApart ==
  ASSUME re' = re, dfa' = dfa
  PROVE  /\ Apart' = Apart /\ Total' = Total /\ Symbols' = Symbols
         /\ \A q, a : Goes(q, a)' = Goes(q, a)
BY DEF Apart, Total, Symbols, Goes, Dead

\* States of different blocks are apart.
Separated == \A q, s \in Total : blockOf[q] # blockOf[s] => <<q, s>> \in Apart

\* While a splitter is at work there is a symbol that takes any state in the
\* preimage and any other one to two states that are apart.
Splits(a) ==
  \A q \in preimage : \A s \in Total \ preimage :
    <<Goes(q, a), Goes(s, a)>> \in Apart /\ <<Goes(s, a), Goes(q, a)>> \in Apart

Needed ==
  /\ Refining => Separated
  /\ pc = "split" => \E a \in Symbols : Splits(a)
  /\ pc = "minimized" => {e \in DfaStates \X DfaStates : e[1] # e[2]} \subseteq Apart

\* What the next step does to the partition.
LEMMA NeededPartition == EngineInv /\ Partition => Needed'
<1> SUFFICES ASSUME EngineInv, Partition PROVE Needed'
  OBVIOUS
<1> DEFINE accepting == {q \in DfaStates : dfa.states[q].accept}
<1>1. /\ pc = "minimize" /\ pc' = "refine" /\ re' = re /\ dfa' = dfa
      /\ blockOf' = [q \in Total |-> IF accepting = {} \/ q \in accepting THEN 0 ELSE 1]
  BY Zenon DEF Partition
<1>2. Built /\ IsDfa(dfa) /\ dfa.len \in Nat
  BY <1>1 DEF EngineInv, Built, IsDfa
<1>3. \A q \in Total : q \in accepting <=> Accepts(q)
  BY <1>2 DEF Total, DfaStates, Dead, Accepts
<1> HIDE DEF accepting
<1>4. ASSUME NEW q \in Total, NEW s \in Total, blockOf'[q] # blockOf'[s]
      PROVE  <<q, s>> \in Apart
  <2>1. Accepts(q) # Accepts(s)
    BY <1>1, <1>3, <1>4
  <2>2. <<q, s>> \in Differ
    BY <2>1 DEF Differ
  <2> QED
    BY <1>2, <2>2, ApartFacts DEF ApartIs
<1>5. Separated'
  BY <1>1, <1>4, SameApart DEF Separated
<1> QED
  BY <1>1, <1>5 DEF Needed, Refining

\* A splitter separates states that are apart.
LEMMA NeededPop == EngineInv /\ Needed /\ Pop => Needed'
<1> SUFFICES ASSUME EngineInv, Needed, Pop PROVE Needed'
  OBVIOUS
<1>1. /\ pc = "refine" /\ pc' = "split" /\ re' = re /\ dfa' = dfa /\ work # <<>>
      /\ blockOf' = blockOf
      /\ preimage' = {q \in Total : blockOf[Goes(q, Head(work)[2])] = Head(work)[1]}
  BY DEF Pop, partition
<1>2. RefineInv /\ Separated /\ re \in Regex /\ IsDfa(dfa)
  BY <1>1 DEF EngineInv, Refining, RefineInv, Built, Needed
<1>3. Head(work)[2] \in Symbols
  <2>1. Head(work) \in (0 .. blockCount - 1) \X Symbols
    BY <1>1, <1>2, QueueFacts DEF RefineInv, Worklist
  <2> QED
    BY <2>1
<1> DEFINE a == Head(work)[2]
<1>4. ASSUME NEW q \in preimage', NEW s \in Total \ preimage'
      PROVE  /\ <<Goes(q, a), Goes(s, a)>> \in Apart
             /\ <<Goes(s, a), Goes(q, a)>> \in Apart
  <2>1. Goes(q, a) \in Total /\ Goes(s, a) \in Total
    BY <1>1, <1>2, <1>3, <1>4, GoesType
  <2>2. blockOf[Goes(q, a)] # blockOf[Goes(s, a)]
    BY <1>1, <1>4
  <2> QED
    BY <1>2, <2>1, <2>2 DEF Separated
<1>5. Separated'
  BY <1>1, <1>2, SameApart DEF Separated
<1>6. \E x \in Symbols' : Splits(x)'
  <2>1. PICK x \in Symbols : x = a
    BY <1>3
  <2>2. Splits(x)'
    BY <1>1, <1>4, <2>1, SameApart DEF Splits
  <2> QED
    BY <1>1, <2>2, SameApart
<1> QED
  BY <1>1, <1>5, <1>6 DEF Needed, Refining

\* A block is split only between states that the symbol at work tells apart.
LEMMA NeededSplit ==
  ASSUME EngineInv, Needed, NEW b \in todo, Split(b)
  PROVE  Needed'
<1>1. /\ pc = "split" /\ pc' = "split" /\ re' = re /\ dfa' = dfa
      /\ blockOf' = [q \in Total |-> IF q \in Hits(b) THEN blockCount ELSE blockOf[q]]
      /\ preimage' = preimage
  BY DEF Split
<1>2. Separated /\ IsDfa(dfa)
  BY <1>1 DEF EngineInv, Refining, RefineInv, Built, Needed
<1>3. PICK a \in Symbols : Splits(a)
  BY <1>1 DEF Needed
<1>4. ASSUME NEW q \in Total, NEW s \in Total, blockOf'[q] # blockOf'[s]
      PROVE  <<q, s>> \in Apart
  <2>1. CASE blockOf[q] # blockOf[s]
    BY <1>2, <2>1 DEF Separated
  <2>2. CASE blockOf[q] = blockOf[s]
    <3>1. \/ q \in preimage /\ s \in Total \ preimage
          \/ s \in preimage /\ q \in Total \ preimage
      BY <1>1, <1>4, <2>2 DEF Hits
    <3>2. <<Goes(q, a), Goes(s, a)>> \in Apart
      BY <1>3, <3>1 DEF Splits
    <3>3. <<q, s>> \in Before(Apart)
      BY <3>2 DEF Before
    <3> QED
      BY <1>2, <3>3, ApartFacts DEF ApartIs
  <2> QED
    BY <2>1, <2>2
<1>5. Separated'
  BY <1>1, <1>4, SameApart DEF Separated
<1>6. \E x \in Symbols' : Splits(x)'
  BY <1>1, <1>3, SameApart DEF Splits
<1> QED
  BY <1>1, <1>5, <1>6 DEF Needed, Refining

\* The transition of dfa_minimize in any automaton.
GoesIn(d, q, a) ==
  LET to == IF q = d.len THEN None ELSE Step(d, q, a[1], a[2])
  IN  IF to = None THEN d.len ELSE to
Uncompleted(d, q) == IF q = d.len THEN None ELSE q

\* Completing an automaton keeps its steps and what it accepts.
LEMMA GoesInFacts ==
  ASSUME NEW d, IsDfa(d), NEW q \in 0 .. d.len, NEW a, a[1] \in Byte
  PROVE  /\ GoesIn(d, q, a) \in 0 .. d.len
         /\ Uncompleted(d, q) \in None .. d.len - 1
         /\ Uncompleted(d, GoesIn(d, q, a)) = Step(d, Uncompleted(d, q), a[1], a[2])
         /\ Accepting(d, Uncompleted(d, q)) <=> (q # d.len /\ d.states[q].accept)
<1>1. d.len \in Nat
  BY DEF IsDfa
<1>2. Uncompleted(d, q) \in None .. d.len - 1
  BY <1>1 DEF Uncompleted, None
<1>3. Step(d, Uncompleted(d, q), a[1], a[2]) \in None .. d.len - 1
  BY <1>2, StepType
<1>4. (IF q = d.len THEN None ELSE Step(d, q, a[1], a[2])) =
        Step(d, Uncompleted(d, q), a[1], a[2])
  BY DEF Uncompleted, Step
<1>5. PICK to \in None .. d.len - 1 : to = Step(d, Uncompleted(d, q), a[1], a[2])
  BY <1>3
<1>6. GoesIn(d, q, a) = IF to = None THEN d.len ELSE to
  BY <1>4, <1>5, Zenon DEF GoesIn
<1>7. GoesIn(d, q, a) \in 0 .. d.len /\ Uncompleted(d, GoesIn(d, q, a)) = to
  BY <1>1, <1>6 DEF Uncompleted, None
<1>8. Accepting(d, Uncompleted(d, q)) <=> (q # d.len /\ d.states[q].accept)
  BY <1>1 DEF Accepting, Uncompleted, None
<1> QED
  BY <1>2, <1>5, <1>7, <1>8

\* A pair that is apart stays apart in the rebuilt automaton, whatever states
\* of its blocks it is seen through; so two of the new states are.
LEMMA NeededRebuild == EngineInv /\ Needed /\ Rebuild => Needed'
<1> SUFFICES ASSUME EngineInv, Needed, Rebuild PROVE Needed'
  OBVIOUS
<1>1. pc = "rebuild" /\ pc' = "minimized" /\ re' = re /\ dfa' = Rebuilt
  BY DEF Rebuild
<1>2. /\ RefineInv /\ Separated /\ IsDfa(dfa) /\ re \in Regex /\ IsDfa(Rebuilt)
      /\ Built /\ dfa.len \in Nat /\ Rebuilt.len \in Nat
  BY <1>1, RebuiltIsDfa DEF EngineInv, Refining, RefineInv, Built, Needed, IsDfa
<1> DEFINE P == Total \X Total
           New == 0 .. Rebuilt.len
           Of(q, x) == Merges(Uncompleted(dfa, q), Uncompleted(Rebuilt, x))
           Kept == {e \in P : \A x, y \in New :
                      Of(e[1], x) /\ Of(e[2], y) => <<x, y>> \in Apart'}
<1>3. /\ Total' = New /\ Symbols' = Symbols
      /\ \A x, a : Goes(x, a)' = GoesIn(Rebuilt, x, a)
      /\ \A x : Accepts(x)' <=> (x # Rebuilt.len /\ Rebuilt.states[x].accept)
  BY <1>1 DEF Total, Symbols, Goes, GoesIn, Dead, Accepts
<1>4. /\ Total = 0 .. dfa.len
      /\ \A q, a : Goes(q, a) = GoesIn(dfa, q, a)
      /\ \A q : Accepts(q) <=> (q # dfa.len /\ dfa.states[q].accept)
  BY DEF Total, Goes, GoesIn, Dead, Accepts
<1>5. \A a \in Symbols : a[1] \in Byte /\ a[2] \in BOOLEAN
  BY <1>2, SymbolsType DEF Symbols
<1>6. ApartIs /\ ApartIs'
  BY <1>1, <1>2, ApartFacts, ApartPrimed, Zenon
<1>7. ASSUME NEW q \in Total, NEW x \in New, Of(q, x)
      PROVE  /\ Accepts(q) <=> Accepts(x)'
             /\ \A a \in Symbols : Of(Goes(q, a), Goes(x, a)') /\ Goes(x, a)' \in New
  <2>1. /\ Uncompleted(dfa, q) \in None .. dfa.len - 1
        /\ Uncompleted(Rebuilt, x) \in None .. Rebuilt.len - 1
        /\ Accepting(dfa, Uncompleted(dfa, q)) <=> Accepts(q)
        /\ Accepting(Rebuilt, Uncompleted(Rebuilt, x)) <=> Accepts(x)'
    <3>1. PICK a : a[1] \in Byte
      <4>1. 0 \in Byte
        BY AutomatonAssumption DEF Byte
      <4>2. <<0>>[1] = 0
        OBVIOUS
      <4> QED
        BY <4>1, <4>2
    <3>2. /\ Uncompleted(dfa, q) \in None .. dfa.len - 1
          /\ Accepting(dfa, Uncompleted(dfa, q)) <=> (q # dfa.len /\ dfa.states[q].accept)
      BY <1>2, <1>4, <3>1, GoesInFacts
    <3>3. /\ Uncompleted(Rebuilt, x) \in None .. Rebuilt.len - 1
          /\ Accepting(Rebuilt, Uncompleted(Rebuilt, x)) <=>
               (x # Rebuilt.len /\ Rebuilt.states[x].accept)
      BY <1>2, <3>1, GoesInFacts
    <3> QED
      BY <1>3, <1>4, <3>2, <3>3
  <2>2. Accepts(q) <=> Accepts(x)'
    BY <1>2, <1>7, <2>1, MergesAccepts
  <2>3. ASSUME NEW a \in Symbols
        PROVE  Of(Goes(q, a), Goes(x, a)') /\ Goes(x, a)' \in New
    <3>1. /\ Uncompleted(dfa, Goes(q, a)) = Step(dfa, Uncompleted(dfa, q), a[1], a[2])
      BY <1>2, <1>4, <1>5, GoesInFacts
    <3>2. /\ Goes(x, a)' \in New
          /\ Uncompleted(Rebuilt, Goes(x, a)') =
               Step(Rebuilt, Uncompleted(Rebuilt, x), a[1], a[2])
      BY <1>2, <1>3, <1>5, GoesInFacts
    <3>3. Merges(Step(dfa, Uncompleted(dfa, q), a[1], a[2]),
                 Step(Rebuilt, Uncompleted(Rebuilt, x), a[1], a[2]))
      BY <1>1, <1>2, <1>5, <1>7, <2>1, MergesStep
    <3> QED
      BY <3>1, <3>2, <3>3, Zenon
  <2> QED
    BY <2>2, <2>3
<1> HIDE DEF Of
<1>8. Differ \subseteq Kept
  <2> SUFFICES ASSUME NEW e \in P, Accepts(e[1]) # Accepts(e[2]),
                      NEW x \in New, NEW y \in New, Of(e[1], x), Of(e[2], y)
               PROVE  <<x, y>> \in Apart'
    BY DEF Differ
  <2>1. e[1] \in Total /\ e[2] \in Total
    OBVIOUS
  <2>2. Accepts(x)' # Accepts(y)'
    <3>1. (Accepts(e[1]) <=> Accepts(x)') /\ (Accepts(e[2]) <=> Accepts(y)')
      BY <1>7, <2>1
    <3>2. \A q : Accepts(q) \in BOOLEAN /\ Accepts(q)' \in BOOLEAN
      BY DEF Accepts
    <3> QED
      BY <3>1, <3>2, Zenon
  <2>3. <<x, y>> \in Differ'
    BY <1>3, <2>2 DEF Differ
  <2> QED
    BY <1>6, <2>3 DEF ApartIs
<1>9. Before(Kept) \subseteq Kept
  <2> SUFFICES ASSUME NEW e \in P, NEW a \in Symbols,
                      <<Goes(e[1], a), Goes(e[2], a)>> \in Kept,
                      NEW x \in New, NEW y \in New, Of(e[1], x), Of(e[2], y)
               PROVE  <<x, y>> \in Apart'
    BY DEF Before
  <2>1. e[1] \in Total /\ e[2] \in Total
    OBVIOUS
  <2>2. /\ Of(Goes(e[1], a), Goes(x, a)') /\ Goes(x, a)' \in New
        /\ Of(Goes(e[2], a), Goes(y, a)') /\ Goes(y, a)' \in New
    BY <1>7, <2>1
  <2>3. <<Goes(x, a)', Goes(y, a)'>> \in Apart'
    BY <2>2
  <2>4. <<x, y>> \in Before(Apart)'
    BY <1>3, <2>3 DEF Before
  <2> QED
    BY <1>6, <2>4 DEF ApartIs
<1>10. Apart \subseteq Kept
  <2>1. Kept \in SUBSET (Total \X Total)
    OBVIOUS
  <2> HIDE DEF Kept
  <2> QED
    BY <1>6, <1>8, <1>9, <2>1 DEF ApartIs
<1>11. ASSUME NEW k \in 0 .. Rebuilt.len - 1, NEW m \in 0 .. Rebuilt.len - 1, k # m
       PROVE  <<k, m>> \in Apart'
  <2>1. ASSUME NEW i \in 0 .. Rebuilt.len - 1
        PROVE  \E l \in Leaders : /\ Number(l) = i /\ l \in DfaStates /\ Leader(l) = l
                                  /\ Of(l, i)
    <3>1. Rebuilt.len = Cardinality(Leaders)
      BY DEF Rebuilt
    <3>2. PICK l \in Leaders : Number(l) = i
      BY <1>2, <3>1, NumberFacts
    <3>3. PICK q \in DfaStates : l = Leader(q)
      BY DEF Leaders
    <3>4. l \in DfaStates /\ Leader(l) = l
      BY <1>2, <3>3, LeaderFacts
    <3>5. /\ Uncompleted(dfa, l) = l /\ Completed(l) = l
          /\ Uncompleted(Rebuilt, i) = i /\ i # None
      BY <1>2, <3>4 DEF Uncompleted, Completed, DfaStates, None
    <3>6. Merges(l, i)
      BY <3>2, <3>4, <3>5 DEF Merges
    <3> QED
      BY <3>2, <3>4, <3>5, <3>6 DEF Of
  <2>2. PICK l \in Leaders : Number(l) = k /\ l \in DfaStates /\ Leader(l) = l /\ Of(l, k)
    BY <2>1
  <2>3. PICK n \in Leaders : Number(n) = m /\ n \in DfaStates /\ Leader(n) = n /\ Of(n, m)
    BY <2>1
  <2>4. blockOf[l] # blockOf[n]
    BY <1>2, <1>11, <2>2, <2>3, LeaderFacts
  <2>5. l \in Total /\ n \in Total /\ k \in New /\ m \in New
    BY <1>2, <2>2, <2>3 DEF Total, DfaStates
  <2>6. <<l, n>> \in Kept
    BY <1>2, <1>10, <2>4, <2>5 DEF Separated
  <2> QED
    BY <2>2, <2>3, <2>5, <2>6
<1>12. {e \in DfaStates' \X DfaStates' : e[1] # e[2]} \subseteq Apart'
  <2>1. DfaStates' = 0 .. Rebuilt.len - 1
    BY <1>1 DEF DfaStates
  <2> QED
    BY <1>11, <2>1
<1> QED
  BY <1>1, <1>12 DEF Needed, Refining

\* Every step keeps what is needed.
LEMMA NeededStep == EngineInv /\ Needed /\ [Next]_vars => Needed'
<1> SUFFICES ASSUME EngineInv, Needed, [Next]_vars PROVE Needed'
  OBVIOUS
<1>1. CASE SplitterDone \/ Refined
  <2>1. /\ pc \in {"refine", "split"} /\ pc' \in {"refine", "rebuild"}
        /\ re' = re /\ dfa' = dfa /\ blockOf' = blockOf
    BY <1>1 DEF SplitterDone, Refined, partition
  <2>2. Separated'
    BY <2>1, SameApart DEF Needed, Refining, Separated
  <2> QED
    BY <2>1, <2>2 DEF Needed, Refining
<1>2. CASE MinimizeOutOfMemory \/ Publish
  BY <1>2 DEF MinimizeOutOfMemory, Publish, Needed, Refining
<1>3. CASE Reduce
  BY <1>1, <1>2, <1>3, NeededPartition, NeededPop, NeededSplit, NeededRebuild
     DEF Reduce, MinimizeNext
<1>4. CASE Build
  <2>1. pc' \notin {"refine", "split", "rebuild", "minimized"}
    BY <1>4 DEF Build, BuildNext, ResolveEmpty, ResolveKnown, ResolveNew,
                LimitReached, BuildOutOfMemory, Explored, Advance, Resolving
  <2> QED
    BY <2>1 DEF Needed, Refining
<1>5. CASE Run
  <2>1. pc' = "ready"
    BY <1>5, RunIsReady DEF Run
  <2> QED
    BY <2>1 DEF Needed, Refining
<1>6. CASE UNCHANGED vars
  <2>1. UNCHANGED <<re, dfa, pc, blockOf, preimage>>
    BY <1>6 DEF vars, buildVars, minimizeVars, partition
  <2>2. Separated' <=> Separated
    BY <2>1, SameApart DEF Separated
  <2>3. \A a : Splits(a)' <=> Splits(a)
    BY <2>1, SameApart DEF Splits
  <2>4. Apart' = Apart /\ DfaStates' = DfaStates /\ Symbols' = Symbols
    BY <2>1, SameApart DEF DfaStates
  <2> QED
    BY <2>1, <2>2, <2>3, <2>4 DEF Needed, Refining
<1> QED
  BY <1>2, <1>3, <1>4, <1>5, <1>6 DEF Next, Finished

\* Refinement separates no two states in vain, and the minimized automaton has
\* no two states that the same sequences of symbols accept from: over the
\* completed alphabet it is minimal, whatever the expression.
THEOREM MinimizeIsMinimal == Spec => []SplitsAreNeeded
<1>1. Init => Needed
  BY DEF Init, BuildInit, Needed, Refining
<1>2. Needed => SplitsAreNeeded
  <2> SUFFICES ASSUME Needed, Refining, NEW e \in Total \X Total,
                      blockOf[e[1]] # blockOf[e[2]]
               PROVE  e \in Apart
    BY DEF SplitsAreNeeded, Needed
  <2>1. e[1] \in Total /\ e[2] \in Total /\ e = <<e[1], e[2]>>
    OBVIOUS
  <2> QED
    BY <2>1 DEF Needed, Separated
<1> QED
  BY <1>1, <1>2, NeededStep, EngineInvariant, PTL DEF Spec

-----------------------------------------------------------------------------
(* Which states are built: after the construction nothing about it changes. *)

\* Every step keeps what the construction has established.
LEMMA EngineReachStep ==
  EngineInv /\ StatesAreReachable /\ [Next]_vars => StatesAreReachable'
<1> SUFFICES ASSUME EngineInv, StatesAreReachable, [Next]_vars
             PROVE  StatesAreReachable'
  OBVIOUS
<1>1. CASE Build
  <2>1. BuildNext /\ pc \in {"start", "explore"}
    BY <1>1 DEF Build, BuildNext, ResolveEmpty, ResolveKnown, ResolveNew,
                LimitReached, BuildOutOfMemory, Explored, Resolving
  <2>2. BuildInv
    BY <2>1 DEF EngineInv
  <2> QED
    BY <2>1, <2>2, ReachStep
<1>2. CASE Reduce \/ Publish \/ Run
  <2>1. /\ re' = re /\ (rc' = rc \/ rc' # "EUNSUPPORTED")
        /\ pc' \notin {"start", "explore", "minimize"}
    <3>1. CASE Reduce
      BY <3>1 DEF Reduce, MinimizeNext, Partition, Pop, Split, SplitterDone,
                  Refined, Rebuild, MinimizeOutOfMemory, partition, Refining
    <3>2. CASE Publish
      BY <3>2 DEF Publish
    <3>3. CASE Run
      BY <3>3, RunIsReady DEF Run, RunNext, Call, ReadByte
    <3> QED
      BY <1>2, <3>1, <3>2, <3>3
  <2>2. Subsets(re') = Subsets(re)
    BY <2>1
  <2> QED
    BY <2>1, <2>2 DEF StatesAreReachable
<1>3. CASE UNCHANGED vars
  <2>1. UNCHANGED buildVars
    BY <1>3 DEF vars
  <2>2. UNCHANGED <<re, dfa, pc, rc>> /\ Sets' = Sets /\ Subsets(re') = Subsets(re)
    BY <2>1 DEF buildVars, Sets, DfaStates
  <2> QED
    BY <2>2 DEF StatesAreReachable
<1> QED
  BY <1>1, <1>2, <1>3 DEF Next, Finished

\* The states of the automaton that is minimized are the sets some text leads
\* to, no more and no less, and RX_EUNSUPPORTED is returned only to an
\* expression that really needs more than RX_DFA_STATE_LIMIT of them.
THEOREM EngineBuildsReachable == Spec => []StatesAreReachable
<1>1. Init => StatesAreReachable
  BY ReachInit DEF Init
<1> QED
  BY <1>1, EngineInvariant, EngineReachStep, PTL DEF Spec

-----------------------------------------------------------------------------
(* The graph: the labels. *)

\* The last byte of a run is the last one before a byte that is not in the class.
LEMMA RunEndFacts ==
  ASSUME NEW cls \in SUBSET Byte, NEW b \in cls
  PROVE  /\ RunEnd(cls, b) \in Byte /\ RunEnd(cls, b) >= b
         /\ \A c \in b .. RunEnd(cls, b) : c \in cls
         /\ RunEnd(cls, b) + 1 \notin cls
<1> DEFINE S == {e \in Byte : e >= b /\ \A c \in b .. e : c \in cls}
<1>1. AlphabetSize \in Nat \ {0} /\ b \in Byte /\ Byte \in SUBSET Nat
  BY AutomatonAssumption DEF Byte
<1>2. b \in S
  BY <1>1
<1>3. S \in SUBSET (0 .. AlphabetSize)
  BY <1>1 DEF Byte
<1>4. RunEnd(cls, b) = Max(S)
  BY DEF RunEnd
<1>5. \A e \in S : e \in Byte /\ e >= b /\ \A c \in b .. e : c \in cls
  OBVIOUS
<1>6. \A e \in Byte : e >= b /\ (\A c \in b .. e : c \in cls) => e \in S
  OBVIOUS
<1> HIDE DEF S
<1>7. \E k \in S : \A l \in S : k >= l
  BY <1>1, <1>2, <1>3, NatGreatest
<1>8. Max(S) \in S /\ \A l \in S : Max(S) >= l
  BY <1>7, Zenon DEF Max
<1>9. Max(S) + 1 \notin cls
  <2> SUFFICES ASSUME Max(S) + 1 \in cls PROVE FALSE
    OBVIOUS
  <2> DEFINE m == Max(S)
  <2>1. m \in Byte /\ m \in Nat /\ b \in Nat /\ m >= b /\ m + 1 \in Byte
    BY <1>1, <1>5, <1>8
  <2>2. \A c \in b .. m : c \in cls
    BY <1>5, <1>8
  <2> HIDE DEF m
  <2>3. \A c \in b .. m + 1 : c \in b .. m \/ c = m + 1
    BY <2>1
  <2>4. m + 1 \in cls
    BY DEF m
  <2>5. m + 1 \in S
    BY <1>6, <2>1, <2>2, <2>3, <2>4
  <2>6. m >= m + 1
    BY <1>8, <2>5 DEF m
  <2> QED
    BY <2>1, <2>6
<1> QED
  BY <1>4, <1>5, <1>8, <1>9

\* A label begins and ends with a byte, so that every dash has one on each side.
IsLabel(l) ==
  /\ l \in Seq(Byte \cup {Dash})
  /\ l # <<>> => l[1] # Dash /\ l[Len(l)] # Dash

\* Two labels in a row name what each of them does.
LEMMA NamedTogether ==
  ASSUME NEW u, NEW v, IsLabel(u), IsLabel(v)
  PROVE  IsLabel(u \o v) /\ Named(u \o v) = Named(u) \cup Named(v)
<1> DEFINE w == u \o v
           D == Byte \cup {Dash}
           m == Len(u)
           n == Len(v)
<1>1. /\ u \in Seq(D) /\ v \in Seq(D) /\ m \in Nat /\ n \in Nat
      /\ DOMAIN u = 1 .. m /\ DOMAIN v = 1 .. n
  BY DEF IsLabel
<1> HIDE DEF D
<1>2. /\ w \in Seq(D) /\ Len(w) = m + n /\ DOMAIN w = 1 .. m + n
      /\ \A i \in 1 .. m : w[i] = u[i]
      /\ \A i \in 1 .. n : w[m + i] = v[i]
  BY <1>1
<1>3. /\ m > 0 => u[1] # Dash /\ u[m] # Dash
      /\ n > 0 => v[1] # Dash /\ v[n] # Dash
      /\ u = <<>> <=> m = 0
      /\ v = <<>> <=> n = 0
  BY <1>1 DEF IsLabel
<1> HIDE DEF w, m, n
<1>4. w # <<>> => w[1] # Dash /\ w[m + n] # Dash
  <2> SUFFICES ASSUME w # <<>> PROVE w[1] # Dash /\ w[m + n] # Dash
    OBVIOUS
  <2>1. m + n # 0
    BY <1>2
  <2>2. CASE m = 0
    BY <1>1, <1>2, <1>3, <2>1, <2>2
  <2>3. CASE n = 0
    BY <1>1, <1>2, <1>3, <2>1, <2>3
  <2>4. CASE m > 0 /\ n > 0
    <3>1. 1 \in 1 .. m /\ n \in 1 .. n
      BY <1>1, <2>4
    <3> QED
      BY <1>2, <1>3, <2>4, <3>1
  <2> QED
    BY <1>1, <2>2, <2>3, <2>4
<1>5. ASSUME NEW c \in Byte, c \in Named(u) PROVE c \in Named(w)
  <2>1. PICK i \in 1 .. m : u[i] = c \/ (u[i] = Dash /\ u[i - 1] < c /\ c < u[i + 1])
    BY <1>1, <1>5 DEF Named
  <2>2. w[i] = u[i] /\ i \in DOMAIN w
    BY <1>1, <1>2
  <2>3. CASE u[i] = c
    BY <2>2, <2>3 DEF Named
  <2>4. CASE u[i] = Dash /\ u[i - 1] < c /\ c < u[i + 1]
    <3>1. i # 1 /\ i # m
      BY <1>1, <1>3, <2>4
    <3>2. i - 1 \in 1 .. m /\ i + 1 \in 1 .. m
      BY <1>1, <3>1
    <3>3. w[i - 1] = u[i - 1] /\ w[i + 1] = u[i + 1]
      BY <1>2, <3>2
    <3> QED
      BY <2>2, <2>4, <3>3 DEF Named
  <2> QED
    BY <2>1, <2>3, <2>4
<1>6. ASSUME NEW c \in Byte, c \in Named(v) PROVE c \in Named(w)
  <2>1. PICK i \in 1 .. n : v[i] = c \/ (v[i] = Dash /\ v[i - 1] < c /\ c < v[i + 1])
    BY <1>1, <1>6 DEF Named
  <2>2. w[m + i] = v[i] /\ m + i \in DOMAIN w
    BY <1>1, <1>2
  <2>3. CASE v[i] = c
    BY <2>2, <2>3 DEF Named
  <2>4. CASE v[i] = Dash /\ v[i - 1] < c /\ c < v[i + 1]
    <3>1. i # 1 /\ i # n
      BY <1>1, <1>3, <2>4
    <3>2. i - 1 \in 1 .. n /\ i + 1 \in 1 .. n /\ m + (i - 1) = (m + i) - 1
          /\ m + (i + 1) = (m + i) + 1
      BY <1>1, <3>1
    <3>3. w[(m + i) - 1] = v[i - 1] /\ w[(m + i) + 1] = v[i + 1]
      BY <1>2, <3>2
    <3> QED
      BY <2>2, <2>4, <3>3 DEF Named
  <2> QED
    BY <2>1, <2>3, <2>4
<1>7. ASSUME NEW c \in Byte, c \in Named(w) PROVE c \in Named(u) \cup Named(v)
  <2>1. PICK i \in 1 .. m + n :
          w[i] = c \/ (w[i] = Dash /\ w[i - 1] < c /\ c < w[i + 1])
    BY <1>2, <1>7 DEF Named
  <2>2. CASE i \in 1 .. m
    <3>1. w[i] = u[i] /\ i \in DOMAIN u
      BY <1>1, <1>2, <2>2
    <3>2. CASE w[i] = c
      BY <3>1, <3>2 DEF Named
    <3>3. CASE w[i] = Dash /\ w[i - 1] < c /\ c < w[i + 1]
      <4>0. u[i] = Dash /\ m > 0
        BY <1>1, <2>2, <3>1, <3>3
      <4>1. i # 1 /\ i # m
        BY <1>3, <4>0
      <4>2. i - 1 \in 1 .. m /\ i + 1 \in 1 .. m
        BY <1>1, <2>2, <4>1
      <4>3. w[i - 1] = u[i - 1] /\ w[i + 1] = u[i + 1]
        BY <1>2, <4>2
      <4> QED
        BY <3>1, <3>3, <4>3 DEF Named
    <3> QED
      BY <2>1, <3>2, <3>3
  <2>3. CASE i \notin 1 .. m
    <3> DEFINE j == i - m
    <3>1. j \in 1 .. n /\ i = m + j
      BY <1>1, <2>3
    <3> HIDE DEF j
    <3>2. w[i] = v[j] /\ j \in DOMAIN v
      BY <1>1, <1>2, <3>1
    <3>3. CASE w[i] = c
      BY <3>2, <3>3 DEF Named
    <3>4. CASE w[i] = Dash /\ w[i - 1] < c /\ c < w[i + 1]
      <4>0. v[j] = Dash /\ n > 0
        BY <1>1, <3>1, <3>2, <3>4
      <4>1. j # 1 /\ j # n
        BY <1>3, <4>0
      <4>2. /\ j - 1 \in 1 .. n /\ j + 1 \in 1 .. n
            /\ i - 1 = m + (j - 1) /\ i + 1 = m + (j + 1)
        BY <1>1, <3>1, <4>1
      <4>3. w[i - 1] = v[j - 1] /\ w[i + 1] = v[j + 1]
        BY <1>2, <4>2
      <4> QED
        BY <3>2, <3>4, <4>3 DEF Named
    <3> QED
      BY <2>1, <3>3, <3>4
  <2> QED
    BY <2>2, <2>3
<1>8. Named(w) \subseteq Byte /\ Named(u) \subseteq Byte /\ Named(v) \subseteq Byte
  BY DEF Named
<1>9. IsLabel(w)
  BY <1>2, <1>4 DEF IsLabel, D
<1> QED
  BY <1>5, <1>6, <1>7, <1>8, <1>9 DEF w

\* A run is written with its first and its last byte, and names what lies
\* between.
LEMMA NamedWritten ==
  ASSUME NEW b \in Byte, NEW e \in Byte, b <= e
  PROVE  IsLabel(Written(b, e)) /\ Named(Written(b, e)) = b .. e
<1>1. b \in Nat /\ e \in Nat /\ b .. e \subseteq Byte /\ Byte \subseteq Nat
  BY AutomatonAssumption DEF Byte
<1>2. CASE e >= b + 2
  <2> DEFINE l == <<b, Dash, e>>
  <2>1. Written(b, e) = l /\ l \in Seq(Byte \cup {Dash}) /\ Len(l) = 3
        /\ DOMAIN l = 1 .. 3 /\ l[1] = b /\ l[2] = Dash /\ l[3] = e /\ l # <<>>
    BY <1>2 DEF Written
  <2> HIDE DEF l
  <2>2. \A c \in Byte : c # Dash
    BY <1>1 DEF Dash
  <2>3. \A c \in Byte : c \in Named(l) <=> c = b \/ c = e \/ (b < c /\ c < e)
    <3> TAKE c \in Byte
    <3>1. c \in Named(l) <=> \E i \in 1 .. 3 : l[i] = c \/ (l[i] = Dash /\ l[i - 1] < c /\ c < l[i + 1])
      BY <2>1 DEF Named
    <3>2. \A i \in 1 .. 3 : i = 1 \/ i = 2 \/ i = 3
      OBVIOUS
    <3>3. 1 \in 1 .. 3 /\ 2 \in 1 .. 3 /\ 3 \in 1 .. 3 /\ 2 - 1 = 1 /\ 2 + 1 = 3
      OBVIOUS
    <3> QED
      BY <2>1, <2>2, <3>1, <3>2, <3>3
  <2>4. IsLabel(l)
    BY <2>1, <2>2 DEF IsLabel
  <2>5. Named(l) \subseteq Byte
    BY DEF Named
  <2>6. Named(l) = b .. e
    <3>1. \A c \in Byte : c \in b .. e <=> c = b \/ c = e \/ (b < c /\ c < e)
      BY <1>1, <1>2
    <3>2. \A c \in Byte : c \in Named(l) <=> c \in b .. e
      BY <2>3, <3>1
    <3> QED
      BY <1>1, <2>5, <3>2
  <2> QED
    BY <2>1, <2>4, <2>6
<1>3. CASE e = b + 1
  <2> DEFINE l == <<b, e>>
  <2>1. Written(b, e) = l /\ l \in Seq(Byte \cup {Dash}) /\ Len(l) = 2
        /\ DOMAIN l = 1 .. 2 /\ l[1] = b /\ l[2] = e /\ l # <<>>
    BY <1>1, <1>3 DEF Written
  <2> HIDE DEF l
  <2>2. \A c \in Byte : c # Dash
    BY <1>1 DEF Dash
  <2>3. \A i \in 1 .. 2 : i = 1 \/ i = 2
    OBVIOUS
  <2>4. Named(l) = {b, e}
    BY <2>1, <2>2, <2>3 DEF Named
  <2>5. IsLabel(l)
    BY <2>1, <2>2 DEF IsLabel
  <2>6. b .. e = {b, e}
    BY <1>1, <1>3
  <2> QED
    BY <2>1, <2>4, <2>5, <2>6
<1>4. CASE e = b
  <2> DEFINE l == <<b>>
  <2>1. Written(b, e) = l /\ l \in Seq(Byte \cup {Dash}) /\ Len(l) = 1
        /\ DOMAIN l = {1} /\ l[1] = b /\ l # <<>>
    BY <1>1, <1>4 DEF Written
  <2> HIDE DEF l
  <2>2. \A c \in Byte : c # Dash
    BY <1>1 DEF Dash
  <2>3. Named(l) = {b}
    BY <2>1, <2>2 DEF Named
  <2>4. IsLabel(l)
    BY <2>1, <2>2 DEF IsLabel
  <2>5. b .. e = {b}
    BY <1>1, <1>4
  <2> QED
    BY <2>1, <2>3, <2>4, <2>5
<1> QED
  BY <1>1, <1>2, <1>3, <1>4

\* What is written from the byte b on, if f is that for every later byte.
Line(cls, f, b) ==
  IF b = AlphabetSize THEN <<>>
  ELSE IF b \notin cls THEN f[b + 1]
  ELSE Written(b, RunEnd(cls, b)) \o f[RunEnd(cls, b) + 1]

\* f obeys the equation of Label from the byte m on.
Lines(cls, f, m) == f = [b \in m .. AlphabetSize |-> Line(cls, f, b)]

\* The line from a byte depends on later ones.
LEMMA LineLater ==
  ASSUME NEW cls \in SUBSET Byte, NEW b \in 0 .. AlphabetSize, NEW f, NEW g,
         \A c \in b + 1 .. AlphabetSize : f[c] = g[c]
  PROVE  Line(cls, f, b) = Line(cls, g, b)
<1>1. AlphabetSize \in Nat
  BY AutomatonAssumption
<1>2. CASE b = AlphabetSize
  BY <1>2 DEF Line
<1>3. CASE b # AlphabetSize /\ b \notin cls
  <2>1. b + 1 \in b + 1 .. AlphabetSize
    BY <1>1, <1>3
  <2> QED
    BY <1>3, <2>1, Zenon DEF Line
<1>4. CASE b # AlphabetSize /\ b \in cls
  <2> DEFINE e == RunEnd(cls, b)
  <2>1. e \in Byte /\ e >= b
    BY <1>4, RunEndFacts
  <2> HIDE DEF e
  <2>2. e + 1 \in b + 1 .. AlphabetSize
    BY <1>1, <2>1 DEF Byte
  <2>3. f[e + 1] = g[e + 1]
    BY <2>2
  <2> QED
    BY <1>4, <2>3, Zenon DEF Line, e
<1> QED
  BY <1>2, <1>3, <1>4

\* There are such lines, from every byte on.
LEMMA LinesExist ==
  ASSUME NEW cls \in SUBSET Byte
  PROVE  \E f : Lines(cls, f, 0)
<1> DEFINE N == AlphabetSize
           Good == {k \in Nat : k <= N => \E f : Lines(cls, f, N - k)}
<1>0. N \in Nat
  BY AutomatonAssumption
<1>1. 0 \in Good
  <2> DEFINE f == [b \in N .. N |-> <<>>]
  <2>1. \A b \in N .. N : Line(cls, f, b) = <<>>
    BY <1>0 DEF Line
  <2>2. f = [b \in N .. N |-> Line(cls, f, b)]
    BY <2>1
  <2> HIDE DEF f
  <2>3. Lines(cls, f, N)
    BY <2>2 DEF Lines
  <2>4. N - 0 = N
    BY <1>0
  <2> QED
    BY <2>3, <2>4
<1>2. ASSUME NEW k \in Nat, k \in Good PROVE k + 1 \in Good
  <2> SUFFICES ASSUME k + 1 <= N PROVE \E g : Lines(cls, g, N - (k + 1))
    OBVIOUS
  <2> DEFINE m == N - (k + 1)
  <2>1. PICK f : Lines(cls, f, N - k)
    BY <1>0, <1>2
  <2>2. m \in 0 .. N /\ m + 1 = N - k /\ m \in Nat
    BY <1>0
  <2> DEFINE g == [b \in m .. N |-> IF b = m THEN Line(cls, f, m) ELSE f[b]]
  <2> HIDE DEF m
  <2>3. \A b \in m + 1 .. N : g[b] = f[b]
    BY <1>0, <2>2
  <2>4. f = [b \in m + 1 .. N |-> Line(cls, f, b)]
    BY <2>1, <2>2, Zenon DEF Lines
  <2>5. ASSUME NEW b \in m .. N PROVE g[b] = Line(cls, g, b)
    <3>1. b \in 0 .. N /\ \A c \in b + 1 .. N : c \in m + 1 .. N
      BY <1>0, <2>2
    <3>2. \A c \in b + 1 .. N : f[c] = g[c]
      BY <2>3, <3>1
    <3>3. Line(cls, f, b) = Line(cls, g, b)
      <4> HIDE DEF g
      <4> QED BY <3>1, <3>2, LineLater
    <3>4. CASE b = m
      BY <3>3, <3>4
    <3>5. CASE b # m
      <4>1. b \in m + 1 .. N
        BY <1>0, <2>2, <3>5
      <4>2. g[b] = f[b] /\ f[b] = Line(cls, f, b)
        <5>1. f[b] = Line(cls, f, b)
          BY <2>4, <4>1
        <5> QED
          BY <2>3, <4>1, <5>1
      <4> QED
        BY <3>3, <4>2
    <3> QED
      BY <3>4, <3>5
  <2>6. g = [b \in m .. N |-> Line(cls, g, b)]
    <3> DEFINE h == [b \in m .. N |-> Line(cls, g, b)]
    <3>1. \A b \in m .. N : g[b] = h[b]
      BY <2>5
    <3> QED
      BY <3>1
  <2> HIDE DEF g
  <2>7. Lines(cls, g, m)
    BY <2>6, Zenon DEF Lines
  <2> QED
    BY <2>7 DEF m
<1>3. N \in Good
  <2> HIDE DEF Good
  <2> QED BY <1>0, <1>1, <1>2, NatSetInduction
<1>4. N - N = 0
  BY <1>0
<1> QED
  BY <1>0, <1>3, <1>4

\* A label names the bytes of its class, no more and no less.
LEMMA LabelNames ==
  ASSUME NEW cls \in SUBSET Byte
  PROVE  Named(Label(cls)) = cls
<1> DEFINE N == AlphabetSize
           f == CHOOSE f : Lines(cls, f, 0)
           Rest(b) == {c \in cls : c >= b}
           Good == {k \in Nat : \A b \in 0 .. N : b >= N - k =>
                      IsLabel(f[b]) /\ Named(f[b]) = Rest(b)}
<1>0. N \in Nat /\ Byte = 0 .. N - 1 /\ Byte \in SUBSET Nat
  BY AutomatonAssumption DEF Byte
<1>1. Label(cls) = f[0]
  BY Zenon DEF Label, Lines, Line
<1>2. Lines(cls, f, 0)
  BY LinesExist, Zenon
<1> HIDE DEF f
<1>3. \A b \in 0 .. N : f[b] = Line(cls, f, b)
  <2>1. f = [b \in 0 .. N |-> Line(cls, f, b)]
    BY <1>2, Zenon DEF Lines
  <2> QED
    BY <2>1
<1>4. IsLabel(<<>>) /\ Named(<<>>) = {} /\ Rest(N) = {}
  <2>1. IsLabel(<<>>) /\ Named(<<>>) = {}
    BY DEF IsLabel, Named
  <2>2. \A c \in cls : ~ c >= N
    BY <1>0
  <2> QED
    BY <2>1, <2>2
<1>5. 0 \in Good
  <2>1. \A b \in 0 .. N : b >= N - 0 => b = N
    BY <1>0
  <2>2. f[N] = <<>>
    BY <1>0, <1>3 DEF Line
  <2> QED
    BY <1>4, <2>1, <2>2
<1>6. ASSUME NEW k \in Nat, k \in Good PROVE k + 1 \in Good
  <2> SUFFICES ASSUME NEW b \in 0 .. N, b >= N - (k + 1)
               PROVE  IsLabel(f[b]) /\ Named(f[b]) = Rest(b)
    OBVIOUS
  <2>1. \A c \in 0 .. N : c > b => IsLabel(f[c]) /\ Named(f[c]) = Rest(c)
    <3>1. \A c \in 0 .. N : c > b => c >= N - k
      BY <1>0
    <3> QED
      BY <1>6, <3>1
  <2>2. CASE b = N
    BY <1>3, <1>4, <2>2 DEF Line
  <2>3. CASE b # N /\ b \notin cls
    <3>1. f[b] = f[b + 1]
      BY <1>3, <2>3 DEF Line
    <3>2. b + 1 \in 0 .. N /\ b + 1 > b
      BY <1>0, <2>3
    <3>3. Rest(b) = Rest(b + 1)
      <4>1. \A c \in cls : c \in Nat /\ c # b
        BY <1>0, <2>3
      <4>2. \A c \in cls : c >= b <=> c >= b + 1
        BY <1>0, <4>1
      <4> QED
        BY <4>2
    <3> QED
      BY <2>1, <3>1, <3>2, <3>3
  <2>4. CASE b # N /\ b \in cls
    <3> DEFINE e == RunEnd(cls, b)
    <3>1. /\ e \in Byte /\ e >= b /\ \A c \in b .. e : c \in cls
          /\ e + 1 \notin cls
      BY <2>4, RunEndFacts
    <3>2. f[b] = Written(b, e) \o f[e + 1]
      BY <1>3, <2>4 DEF Line
    <3> HIDE DEF e
    <3>3. e + 1 \in 0 .. N /\ e + 1 > b /\ b <= e /\ b \in Byte
      BY <1>0, <2>4, <3>1
    <3>4. IsLabel(f[e + 1]) /\ Named(f[e + 1]) = Rest(e + 1)
      BY <2>1, <3>3
    <3>5. IsLabel(Written(b, e)) /\ Named(Written(b, e)) = b .. e
      BY <3>1, <3>3, NamedWritten
    <3>6. Rest(b) = b .. e \cup Rest(e + 1)
      <4>1. b \in Nat /\ e \in Nat /\ \A c \in cls : c \in Nat
        BY <1>0, <3>1
      <4>2. \A c \in cls : c >= b <=> c \in b .. e \/ c >= e + 1
        BY <3>3, <4>1
      <4> QED
        BY <3>1, <4>2
    <3> HIDE DEF Rest
    <3> QED
      BY <3>2, <3>4, <3>5, <3>6, NamedTogether
  <2> QED
    BY <2>2, <2>3, <2>4
<1>7. N \in Good
  <2> HIDE DEF Good
  <2> QED BY <1>0, <1>5, <1>6, NatSetInduction
<1>8. 0 \in 0 .. N /\ 0 >= N - N
  BY <1>0
<1>9. Named(f[0]) = Rest(0)
  BY <1>7, <1>8
<1>10. Rest(0) = cls
  <2>1. \A c \in cls : c >= 0
    BY <1>0
  <2> QED
    BY <2>1
<1> QED
  BY <1>1, <1>9, <1>10

-----------------------------------------------------------------------------
(* The graph: the reader. *)

\* Where the last byte of a text leads nowhere, no other one leads anywhere.
DeadTogether(d) ==
  \A q \in 0 .. d.len - 1 : \A b \in Byte :
    d.states[q].final[b] = None => d.states[q].trans[b] = None

\* One byte: the reader goes where the automaton goes.
LEMMA ReadsStep ==
  ASSUME NEW d, IsDfa(d), DeadTogether(d), NEW q \in 0 .. d.len - 1,
         NEW b \in Byte, NEW fin \in BOOLEAN
  PROVE  Reads(Edges(d), q, b, fin) =
           IF Step(d, q, b, fin) = None THEN {} ELSE {Step(d, q, b, fin)}
<1> DEFINE row == d.states[q]
           cl(e) == EdgeClass(d.states[e[1]], e[2], e[3])
           Triples == {x \in (0 .. d.len - 1) \X (0 .. d.len - 1) \X BOOLEAN :
                         cl(x) # {}}
           edge(e) == [from |-> e[1], to |-> e[2], dashed |-> e[3],
                       label |-> Label(cl(e))]
           fits == {e \in Edges(d) : e.from = q /\ b \in Named(e.label)}
           To(x) == {e.to : e \in {e \in fits : e.dashed = x}}
           Leads(x) == {t \in 0 .. d.len - 1 : b \in EdgeClass(row, t, x)}
<1>1. Edges(d) = {edge(e) : e \in Triples}
  BY Zenon DEF Edges
<1>2. \A e \in Triples : cl(e) \in SUBSET Byte
  BY DEF EdgeClass
<1>3. \A e \in Triples : Named(Label(cl(e))) = cl(e)
  BY <1>2, LabelNames, Zenon
<1>4. ASSUME NEW x \in BOOLEAN PROVE To(x) = Leads(x)
  <2>1. ASSUME NEW t \in To(x) PROVE t \in Leads(x)
    <3>1. PICK g \in Edges(d) : g.from = q /\ b \in Named(g.label) /\ g.dashed = x /\ t = g.to
      BY <2>1
    <3>2. PICK e \in Triples : g = edge(e)
      BY <1>1, <3>1
    <3>3. g.from = e[1] /\ g.to = e[2] /\ g.dashed = e[3] /\ g.label = Label(cl(e))
      BY <3>2
    <3>4. b \in cl(e)
      BY <1>3, <3>1, <3>3
    <3>5. e[2] \in 0 .. d.len - 1
      OBVIOUS
    <3> QED
      BY <3>1, <3>3, <3>4, <3>5
  <2>2. ASSUME NEW t \in Leads(x) PROVE t \in To(x)
    <3> DEFINE e == <<q, t, x>>
    <3>1. e[1] = q /\ e[2] = t /\ e[3] = x /\ b \in cl(e)
      BY <2>2
    <3>2. e \in Triples
      BY <2>2, <3>1
    <3> HIDE DEF e
    <3>3. edge(e) \in Edges(d)
      BY <1>1, <3>2
    <3>4. b \in Named(edge(e).label)
      BY <1>3, <3>1, <3>2
    <3>5. edge(e).from = q /\ edge(e).dashed = x /\ edge(e).to = t
      BY <3>1
    <3> HIDE DEF edge
    <3> QED
      BY <3>3, <3>4, <3>5
  <2> QED
    BY <2>1, <2>2
<1> HIDE DEF Triples, cl, edge
<1>5. Reads(Edges(d), q, b, fin) =
        IF fin /\ To(TRUE) # {} THEN To(TRUE) ELSE To(FALSE)
  <2> DEFINE dashed == {e \in fits : e.dashed}
             plain == {e \in fits : ~ e.dashed}
  <2>1. Reads(Edges(d), q, b, fin) =
          {e.to : e \in IF fin /\ dashed # {} THEN dashed ELSE plain}
    BY Zenon DEF Reads
  <2>2. \A e \in fits : e.dashed \in BOOLEAN
    BY <1>1 DEF edge, Triples
  <2>3. dashed = {e \in fits : e.dashed = TRUE} /\ plain = {e \in fits : e.dashed = FALSE}
    BY <2>2
  <2> HIDE DEF fits, dashed, plain
  <2>4. To(TRUE) = {e.to : e \in dashed} /\ To(FALSE) = {e.to : e \in plain}
    BY <2>3, Zenon DEF To
  <2>5. To(TRUE) # {} <=> dashed # {}
    BY <2>4
  <2> HIDE DEF To
  <2> QED
    BY <2>1, <2>4, <2>5
<1>6. /\ d.len \in Nat
      /\ row.trans[b] \in None .. d.len - 1 /\ row.final[b] \in None .. d.len - 1
      /\ row.final[b] = None => row.trans[b] = None
  BY DEF IsDfa, DeadTogether
<1>7. Leads(FALSE) = IF row.trans[b] = None THEN {} ELSE {row.trans[b]}
  BY <1>6 DEF EdgeClass, None
<1>8. Leads(TRUE) = IF row.final[b] = None \/ row.final[b] = row.trans[b]
                      THEN {} ELSE {row.final[b]}
  BY <1>6 DEF EdgeClass, FinalDrawn, None
<1>9. Step(d, q, b, fin) = IF fin THEN row.final[b] ELSE row.trans[b]
  BY DEF Step, None
<1>10. To(TRUE) = Leads(TRUE) /\ To(FALSE) = Leads(FALSE)
  BY <1>4
<1> HIDE DEF To, Leads
<1> QED
  BY <1>5, <1>6, <1>7, <1>8, <1>9, <1>10

\* The reader is in the state that a walk is in, and lost where it has ended.
Alone(q) == IF q = None THEN {} ELSE {q}

\* One byte further.
ReadOn(d, t, Q, p) == UNION {Reads(Edges(d), q, t[p], p = Len(t)) : q \in Q}

\* What the reader does to a walk's state is what the automaton does.
LEMMA ReadOnFollows ==
  ASSUME NEW d, IsDfa(d), DeadTogether(d), NEW t \in Seq(Byte), NEW p \in 1 .. Len(t),
         NEW q \in None .. d.len - 1
  PROVE  ReadOn(d, t, Alone(q), p) = Alone(Step(d, q, t[p], p = Len(t)))
<1> DEFINE e == p = Len(t)
<1>1. t[p] \in Byte /\ e \in BOOLEAN /\ d.len \in Nat
  BY DEF IsDfa
<1> HIDE DEF e
<1>2. ReadOn(d, t, Alone(q), p) = UNION {Reads(Edges(d), x, t[p], e) : x \in Alone(q)}
  BY Zenon DEF ReadOn, e
<1>3. CASE q = None
  BY <1>2, <1>3 DEF Alone, Step, e
<1>4. CASE q # None
  <2>1. q \in 0 .. d.len - 1
    BY <1>1, <1>4 DEF None
  <2>2. Reads(Edges(d), q, t[p], e) = Alone(Step(d, q, t[p], e))
    BY <1>1, <2>1, ReadsStep, Zenon DEF Alone
  <2>3. Alone(q) = {q}
    BY <1>4 DEF Alone
  <2>4. UNION {Reads(Edges(d), x, t[p], e) : x \in {q}} = Reads(Edges(d), q, t[p], e)
    OBVIOUS
  <2> QED
    BY <1>2, <2>2, <2>3, <2>4, Zenon DEF e
<1> QED
  BY <1>3, <1>4

\* f obeys the equation of Traced.
Traces(d, t, s, f) ==
  f = [p \in s .. Len(t) |->
         IF p = s THEN {WalkFirst(d, t, s)} ELSE ReadOn(d, t, f[p - 1], p)]

\* Along the graph of an automaton a text goes through the automaton's states.
LEMMA GraphShows ==
  ASSUME NEW d, IsDfa(d), DeadTogether(d)
  PROVE  Shows(d)
<1> SUFFICES ASSUME NEW t \in Texts, NEW s \in 0 .. Len(t), NEW p \in s .. Len(t)
             PROVE  Traced(d, Edges(d), t, s)[p] = Alone(Walk(d, t, s)[p])
  BY Zenon DEF Shows, Alone
<1> DEFINE V == Walk(d, t, s)
           f == [i \in s .. Len(t) |-> Alone(V[i])]
           g == CHOOSE x : Traces(d, t, s, x)
           Good == {k \in Nat : s + k <= Len(t) => g[s + k] = Alone(V[s + k])}
<1>0. t \in Seq(Byte) /\ Len(t) \in Nat /\ s \in Nat
  BY TextsType
<1>1. /\ V[s] = WalkFirst(d, t, s) /\ WalkFirst(d, t, s) # None
      /\ \A i \in s .. Len(t) : V[i] \in None .. d.len - 1
      /\ \A i \in s + 1 .. Len(t) : V[i] = Step(d, V[i - 1], t[i], i = Len(t))
  <2>1. WalkFirst(d, t, s) \in 0 .. d.len - 1
    BY ContextType, Zenon DEF WalkFirst, IsDfa
  <2>2. WalkFirst(d, t, s) # None
    BY <2>1 DEF IsDfa, None
  <2> QED
    BY <1>0, <2>2, WalkEquation, WalkType, Zenon
<1> HIDE DEF V
<1>2. \A i \in s + 1 .. Len(t) : ReadOn(d, t, Alone(V[i - 1]), i) = Alone(V[i])
  <2> SUFFICES ASSUME NEW i \in s + 1 .. Len(t)
               PROVE  ReadOn(d, t, Alone(V[i - 1]), i) = Alone(V[i])
    OBVIOUS
  <2>1. i \in 1 .. Len(t) /\ i - 1 \in s .. Len(t)
    BY <1>0
  <2>2. V[i - 1] \in None .. d.len - 1 /\ V[i] = Step(d, V[i - 1], t[i], i = Len(t))
    BY <1>1, <2>1
  <2>3. ReadOn(d, t, Alone(V[i - 1]), i) = Alone(Step(d, V[i - 1], t[i], i = Len(t)))
    BY <1>0, <2>1, <2>2, ReadOnFollows
  <2> QED
    BY <2>2, <2>3, Zenon
<1>3. Alone(V[s]) = {WalkFirst(d, t, s)}
  BY <1>1 DEF Alone
<1>4. Traces(d, t, s, f)
  <2> DEFINE h == [i \in s .. Len(t) |->
                     IF i = s THEN {WalkFirst(d, t, s)} ELSE ReadOn(d, t, f[i - 1], i)]
  <2>1. ASSUME NEW i \in s .. Len(t) PROVE f[i] = h[i]
    <3>1. CASE i = s
      BY <1>3, <3>1
    <3>2. CASE i # s
      <4>1. i \in s + 1 .. Len(t) /\ i - 1 \in s .. Len(t)
        BY <1>0, <3>2
      <4>2. f[i - 1] = Alone(V[i - 1]) /\ f[i] = Alone(V[i])
        BY <4>1
      <4>3. h[i] = ReadOn(d, t, f[i - 1], i)
        BY <3>2
      <4> QED
        BY <1>2, <4>1, <4>2, <4>3, Zenon
    <3> QED
      BY <3>1, <3>2
  <2>2. f = h
    BY <2>1
  <2> HIDE DEF f
  <2> QED
    BY <2>2, Zenon DEF Traces
<1>5. Traces(d, t, s, g)
  <2> HIDE DEF f
  <2> QED BY <1>4, Zenon
<1>6. Traced(d, Edges(d), t, s) = g
  BY Zenon DEF Traced, Traces, WalkFirst, ReadOn
<1> HIDE DEF g
<1>7. /\ g[s] = {WalkFirst(d, t, s)}
      /\ \A i \in s + 1 .. Len(t) : g[i] = ReadOn(d, t, g[i - 1], i)
  <2>1. \A i \in s .. Len(t) :
          g[i] = IF i = s THEN {WalkFirst(d, t, s)} ELSE ReadOn(d, t, g[i - 1], i)
    BY <1>5, Zenon DEF Traces
  <2> QED
    BY <1>0, <2>1
<1>8. 0 \in Good
  <2>1. s + 0 = s /\ g[s] = Alone(V[s])
    BY <1>0, <1>3, <1>7
  <2> QED
    BY <2>1
<1>9. ASSUME NEW k \in Nat, k \in Good PROVE k + 1 \in Good
  <2> SUFFICES ASSUME s + (k + 1) <= Len(t) PROVE g[s + (k + 1)] = Alone(V[s + (k + 1)])
    OBVIOUS
  <2> DEFINE i == s + (k + 1)
  <2>1. i \in s + 1 .. Len(t) /\ i - 1 = s + k
    BY <1>0
  <2>2. g[i - 1] = Alone(V[i - 1])
    BY <1>0, <1>9, <2>1
  <2> HIDE DEF i
  <2>3. g[i] = Alone(V[i])
    BY <1>2, <1>7, <2>1, <2>2, Zenon
  <2> QED
    BY <2>3 DEF i
<1>10. p - s \in Good
  <2> HIDE DEF Good
  <2>1. p - s \in Nat
    BY <1>0
  <2> QED BY <1>8, <1>9, <2>1, NatSetInduction
<1>11. s + (p - s) = p /\ p <= Len(t)
  BY <1>0
<1>12. g[p] = Alone(V[p])
  BY <1>10, <1>11
<1> QED
  BY <1>6, <1>12 DEF V

-----------------------------------------------------------------------------
(* The graph: what regex_compile_ex hands out. *)

\* The automaton dies together with its sets: a byte that no state of the set
\* reads leads nowhere, whether it is the last one or not.
LEMMA ExploredDies ==
  BuildInv /\ pc = "minimize" => DeadTogether(dfa)
<1> SUFFICES ASSUME BuildInv, pc = "minimize",
                    NEW q \in 0 .. dfa.len - 1, NEW b \in Byte,
                    dfa.states[q].final[b] = None
             PROVE  dfa.states[q].trans[b] = None
  BY DEF DeadTogether
<1> DEFINE n == Nfa[re]
           T == dfa.states[q].set
           M == Move(n, T, b)
<1>1. /\ re \in Regex /\ Shape(n, dfa)
      /\ Moves(n, dfa, q, b) /\ Finishes(n, dfa, q, b)
  BY DEF BuildInv, BuildOK, Correct, nfa, DfaStates
<1>2. CanBuild(n)
  BY <1>1, AutomatonAssumption
<1>3. T \in SUBSET State(n)
  BY <1>1 DEF Shape, StateRecord
<1>4. M \in SUBSET State(n)
  BY <1>2, <1>3, MoveType
<1>5. After(n, T, b, TRUE) = {}
  <2>1. None \notin 0 .. dfa.len - 1
    BY <1>1 DEF Shape, None
  <2> QED
    BY <1>1, <2>1 DEF Finishes, Stands
<1>6. M = {}
  <2>1. M \subseteq Closure(n, M, FALSE, TRUE)
    BY <1>2, <1>4, ClosureLeast
  <2> QED
    BY <1>5, <2>1, Zenon DEF After
<1>7. After(n, T, b, FALSE) = {}
  <2>1. Closed(n, {}, FALSE, FALSE)
    BY DEF Closed
  <2>2. Closure(n, {}, FALSE, FALSE) \subseteq {}
    BY <1>2, <2>1, ClosureLeast
  <2>3. After(n, T, b, FALSE) = Closure(n, M, FALSE, FALSE)
    BY Zenon DEF After
  <2> QED
    BY <1>6, <2>2, <2>3
<1> QED
  BY <1>1, <1>7 DEF Moves, Stands

\* The rebuilt automaton has a transition where the old one had.
LEMMA RebuiltDies ==
  ASSUME IsDfa(dfa), DeadTogether(dfa)
  PROVE  DeadTogether(Rebuilt)
<1> SUFFICES ASSUME NEW k \in 0 .. Rebuilt.len - 1, NEW b \in Byte,
                    Rebuilt.states[k].final[b] = None
             PROVE  Rebuilt.states[k].trans[b] = None
  BY DEF DeadTogether
<1>1. Rebuilt.len = Cardinality(Leaders)
  BY DEF Rebuilt
<1>2. PICK l \in Leaders : Number(l) = k
  BY <1>1, NumberFacts
<1>3. /\ Rebuilt.states[k].trans[b] = NewState(dfa.states[l].trans[b])
      /\ Rebuilt.states[k].final[b] = NewState(dfa.states[l].final[b])
  <2>1. /\ Rebuilt.states[k].trans = [c \in Byte |-> NewState(dfa.states[l].trans[c])]
        /\ Rebuilt.states[k].final = [c \in Byte |-> NewState(dfa.states[l].final[c])]
    BY <1>2, RebuiltState
  <2> QED
    BY <2>1
<1>4. l \in 0 .. dfa.len - 1 /\ dfa.states[l].final[b] \in None .. dfa.len - 1
  <2>1. l \in DfaStates
    BY LeaderFacts DEF Leaders
  <2> QED
    BY <2>1 DEF DfaStates, IsDfa
<1>5. dfa.states[l].final[b] = None
  <2> SUFFICES ASSUME dfa.states[l].final[b] # None PROVE FALSE
    OBVIOUS
  <2>1. NewState(dfa.states[l].final[b]) \in 0 .. Cardinality(Leaders) - 1
    BY <1>4, NewStateType
  <2> QED
    BY <1>3, <2>1, NumberFacts DEF None
<1>6. dfa.states[l].trans[b] = None
  BY <1>4, <1>5 DEF DeadTogether
<1> QED
  BY <1>3, <1>6 DEF NewState

Dies ==
  pc \in {"minimize", "refine", "split", "rebuild", "minimized"} => DeadTogether(dfa)

\* Every step keeps it.
LEMMA DiesStep == EngineInv /\ Dies /\ [Next]_vars => Dies'
<1> SUFFICES ASSUME EngineInv, Dies, [Next]_vars PROVE Dies'
  OBVIOUS
<1>1. CASE Build
  <2>1. BuildNext /\ pc \in {"start", "explore"} /\ BuildInv
    BY <1>1 DEF Build, BuildNext, ResolveEmpty, ResolveKnown, ResolveNew, LimitReached,
                BuildOutOfMemory, Explored, Resolving, EngineInv
  <2>2. BuildInv'
    BY <2>1, BuildInvStep
  <2>3. pc' \in {"start", "explore", "minimize", "failed"}
    BY <2>2 DEF BuildInv, BuildOK
  <2>4. pc' = "minimize" => DeadTogether(dfa')
    <3>1. (BuildInv /\ pc = "minimize" => DeadTogether(dfa))'
      BY ExploredDies, PTL
    <3> QED
      BY <2>2, <3>1 DEF DeadTogether
  <2> QED
    BY <2>3, <2>4 DEF Dies
<1>2. CASE Reduce
  <2>1. CASE Rebuild
    <3>1. IsDfa(dfa) /\ DeadTogether(dfa)
      BY <2>1 DEF Rebuild, EngineInv, Refining, RefineInv, Built, Dies
    <3>2. DeadTogether(Rebuilt) /\ dfa' = Rebuilt
      BY <2>1, <3>1, RebuiltDies DEF Rebuild
    <3> QED
      BY <3>2, Zenon DEF Dies
  <2>2. CASE ~ Rebuild
    <3>1. dfa' = dfa /\ (pc \in {"minimize", "refine", "split", "rebuild"})
      BY <1>2, <2>2 DEF Reduce, MinimizeNext, Partition, Pop, Split, SplitterDone,
                        Refined, MinimizeOutOfMemory
    <3> QED
      BY <3>1 DEF Dies
  <2> QED
    BY <2>1, <2>2
<1>3. CASE Publish
  BY <1>3 DEF Publish, Dies
<1>4. CASE Run
  <2>1. pc' = "ready"
    BY <1>4, RunIsReady DEF Run
  <2> QED
    BY <2>1 DEF Dies
<1>5. CASE UNCHANGED vars
  <2>1. UNCHANGED <<dfa, pc>>
    BY <1>5 DEF vars, buildVars
  <2> QED
    BY <2>1 DEF Dies
<1> QED
  BY <1>1, <1>2, <1>3, <1>4, <1>5 DEF Next, Finished

\* Who follows the graph that dfa_dump_dot draws of a finished automaton is, on
\* every text from every start, where the automaton is: each label names the
\* bytes of its edge, and that only final transitions which differ are drawn
\* and none to the dead state loses nothing.
THEOREM GraphIsRight == Spec => []GraphIsOfDfa
<1>1. Init => Dies
  BY DEF Init, BuildInit, Dies
<1>2. EngineInv /\ Dies => GraphIsOfDfa
  BY GraphShows DEF EngineInv, Dies, GraphIsOfDfa
<1> QED
  BY <1>1, <1>2, DiesStep, EngineInvariant, PTL DEF Spec
=============================================================================
