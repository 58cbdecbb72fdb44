---------------------------- MODULE CaptureProofs ----------------------------
(***************************************************************************)
(* nfa_capture_span loses no match and mixes no two paths, for every        *)
(* automaton with capture transitions, every text and every span that the  *)
(* first simulation found.                                                 *)
(***************************************************************************)
EXTENDS Capture, AutomatonProofs

-----------------------------------------------------------------------------
(* A set that transitions are pushed to one after another.                 *)

Item(q, slots) == [state |-> q, slots |-> slots]

\* No state twice: what the seen bits of tagged_set_push are for.
Single(set) == \A i, j \in DOMAIN set : set[i].state = set[j].state => i = j

\* The set after n pushes, those of them that cond admits.
Grown(base, n, cond, to, tags, set) ==
  /\ Len(base) <= Len(set)
  /\ \A i \in 1 .. Len(base) : set[i] = base[i]
  /\ \A i \in Len(base) + 1 .. Len(set) :
       \E j \in 1 .. n : cond[j] /\ set[i] = Item(to[j], tags[j])
  /\ \A j \in 1 .. n : cond[j] => Has(set, to[j])
  /\ Single(base) => Single(set)

\* A push adds the new item, or finds the state in the set.
LEMMA PushGrows ==
  ASSUME NEW I, NEW base \in Seq(I), NEW n \in Nat, NEW cond, NEW to, NEW tags,
         NEW set \in Seq(I), Grown(base, n, cond, to, tags, set),
         cond[n + 1] => Item(to[n + 1], tags[n + 1]) \in I
  PROVE  LET new == IF cond[n + 1] THEN Push(set, to[n + 1], tags[n + 1]) ELSE set
         IN  new \in Seq(I) /\ Grown(base, n + 1, cond, to, tags, new)
<1> DEFINE x == Item(to[n + 1], tags[n + 1])
<1>0. /\ Len(base) \in Nat /\ Len(set) \in Nat /\ n + 1 \in 1 .. n + 1
      /\ \A j \in 1 .. n + 1 : j = n + 1 \/ j \in 1 .. n
      /\ \A j \in 1 .. n : j \in 1 .. n + 1
  OBVIOUS
<1>1. CASE ~ cond[n + 1]
  BY <1>0, <1>1 DEF Grown
<1>2. CASE cond[n + 1] /\ Has(set, to[n + 1])
  BY <1>0, <1>2 DEF Grown, Push
<1>3. CASE cond[n + 1] /\ ~ Has(set, to[n + 1])
  <2> DEFINE new == Append(set, x)
  <2>1. Push(set, to[n + 1], tags[n + 1]) = new
    BY <1>3 DEF Push, Item
  <2>2. x \in I /\ x.state = to[n + 1]
    BY <1>3 DEF Item
  <2> HIDE DEF x
  <2>3. /\ new \in Seq(I) /\ Len(new) = Len(set) + 1
        /\ \A i \in 1 .. Len(set) : new[i] = set[i]
        /\ new[Len(set) + 1] = x
        /\ DOMAIN new = 1 .. Len(set) + 1 /\ DOMAIN set = 1 .. Len(set)
    BY <2>2
  <2> HIDE DEF new
  <2>4. \A i \in 1 .. Len(base) : new[i] = base[i]
    BY <2>3, <1>0 DEF Grown
  <2>5. ASSUME NEW i \in Len(base) + 1 .. Len(new)
        PROVE  \E j \in 1 .. n + 1 : cond[j] /\ new[i] = Item(to[j], tags[j])
    <3>1. CASE i = Len(set) + 1
      BY <3>1, <2>3, <1>3, <1>0 DEF x
    <3>2. CASE i # Len(set) + 1
      <4>1. i \in Len(base) + 1 .. Len(set) /\ i \in 1 .. Len(set)
        BY <3>2, <2>3, <1>0
      <4>2. \E j \in 1 .. n : cond[j] /\ set[i] = Item(to[j], tags[j])
        BY <4>1 DEF Grown
      <4> QED
        BY <4>1, <4>2, <2>3, <1>0
    <3> QED
      BY <3>1, <3>2
  <2>6. ASSUME NEW j \in 1 .. n + 1, cond[j] PROVE Has(new, to[j])
    <3>1. CASE j = n + 1
      BY <3>1, <2>2, <2>3, <1>0 DEF Has
    <3>2. CASE j \in 1 .. n
      <4>1. PICK i \in DOMAIN set : set[i].state = to[j]
        BY <3>2, <2>6 DEF Grown, Has
      <4> QED
        BY <4>1, <2>3, <1>0 DEF Has
    <3> QED
      BY <3>1, <3>2, <1>0
  <2>7. ASSUME Single(base) PROVE Single(new)
    <3>1. Single(set)
      BY <2>7 DEF Grown
    <3>2. \A i \in 1 .. Len(set) : new[i].state # to[n + 1]
      BY <1>3, <2>3 DEF Has
    <3> QED
      BY <3>1, <3>2, <2>2, <2>3, <1>0 DEF Single
  <2>8. Len(base) <= Len(new)
    BY <2>3, <1>0 DEF Grown
  <2> QED
    BY <2>1, <2>3, <2>4, <2>5, <2>6, <2>7, <2>8, <1>3 DEF Grown
<1> QED
  BY <1>1, <1>2, <1>3

\* A set of positions in a sequence has a largest one.
LEMMA MaxFacts ==
  ASSUME NEW n \in Nat, NEW s \in SUBSET (1 .. n), s # {}
  PROVE  Max(s) \in s /\ \A i \in s : i <= Max(s)
<1> DEFINE S == {l \in 0 .. n : n - l \in s}
<1>1. S \in SUBSET Nat
  OBVIOUS
<1>2. PICK i \in s : TRUE
  OBVIOUS
<1>3. n - i \in S
  <2>1. i \in 1 .. n /\ n - i \in 0 .. n /\ n - (n - i) = i
    OBVIOUS
  <2> QED
    BY <2>1
<1>4. PICK k \in S : \A l \in S : k <= l
  <2> HIDE DEF S
  <2> QED BY <1>1, <1>3, NatLeast
<1>5. ASSUME NEW j \in s PROVE n - k >= j
  <2>1. j \in 1 .. n /\ n - j \in 0 .. n /\ n - (n - j) = j
    OBVIOUS
  <2>2. n - j \in S
    BY <2>1
  <2>3. k <= n - j /\ k \in 0 .. n
    BY <2>2, <1>4
  <2> QED
    BY <2>1, <2>3
<1>6. n - k \in s /\ \A x, y \in s : x \in Int /\ y \in Int
  OBVIOUS
<1>7. Max(s) \in s /\ \A j \in s : Max(s) >= j
  BY <1>5, <1>6 DEF Max
<1> QED
  BY <1>6, <1>7

\* FoldLeft is a recursive function of the positions that are left: it takes
\* the last of them last.
Folds(base, n, cond, to, tags, f) ==
  f = [s \in SUBSET (1 .. n) |->
         IF s = {} THEN base
         ELSE IF cond[Max(s)]
           THEN Push(f[s \ {Max(s)}], to[Max(s)], tags[Max(s)])
           ELSE f[s \ {Max(s)}]]

\* The last position of a set with n + 1 in it is n + 1.
LEMMA MaxLast ==
  ASSUME NEW n \in Nat, NEW s \in SUBSET (1 .. n + 1), n + 1 \in s
  PROVE  Max(s) = n + 1 /\ s \ {Max(s)} \in SUBSET (1 .. n)
<1> DEFINE N == n + 1
<1>1. N \in Nat /\ s \in SUBSET (1 .. N) /\ s # {} /\ N \in s
  OBVIOUS
<1>2. Max(s) \in s /\ N <= Max(s)
  <2> HIDE DEF N
  <2> QED BY <1>1, MaxFacts
<1>3. \A m \in s : N <= m => m = N
  OBVIOUS
<1>4. Max(s) = n + 1
  BY <1>2, <1>3
<1> QED
  BY <1>2, <1>4

\* The recursion has a solution for one position more.
LEMMA FoldsExtend ==
  ASSUME NEW base, NEW n \in Nat, NEW cond, NEW to, NEW tags, NEW f,
         Folds(base, n, cond, to, tags, f)
  PROVE  \E g : Folds(base, n + 1, cond, to, tags, g)
<1> DEFINE new(set) == IF cond[n + 1] THEN Push(set, to[n + 1], tags[n + 1]) ELSE set
           g == [s \in SUBSET (1 .. n + 1) |->
                   IF n + 1 \in s THEN new(f[s \ {n + 1}]) ELSE f[s]]
<1>1. ASSUME NEW s \in SUBSET (1 .. n + 1)
      PROVE  g[s] = IF s = {} THEN base
                    ELSE IF cond[Max(s)]
                      THEN Push(g[s \ {Max(s)}], to[Max(s)], tags[Max(s)])
                      ELSE g[s \ {Max(s)}]
  <2>1. CASE n + 1 \in s
    <3>1. Max(s) = n + 1 /\ s \ {n + 1} \in SUBSET (1 .. n) /\ n + 1 \notin s \ {n + 1}
      BY <2>1, MaxLast
    <3>2. s \ {n + 1} \in SUBSET (1 .. n + 1)
      BY <3>1
    <3>3. g[s] = new(f[s \ {n + 1}]) /\ g[s \ {n + 1}] = f[s \ {n + 1}]
      BY <2>1, <3>1, <3>2
    <3> QED
      BY <2>1, <3>1, <3>3
  <2>2. CASE n + 1 \notin s
    <3>1. s \in SUBSET (1 .. n)
      BY <2>2
    <3>2. s \ {Max(s)} \in SUBSET (1 .. n) /\ n + 1 \notin s \ {Max(s)}
          /\ s \ {Max(s)} \in SUBSET (1 .. n + 1)
      BY <3>1, <2>2
    <3>3. g[s] = f[s] /\ g[s \ {Max(s)}] = f[s \ {Max(s)}]
      BY <3>2, <2>2
    <3>4. f[s] = IF s = {} THEN base
                 ELSE IF cond[Max(s)]
                   THEN Push(f[s \ {Max(s)}], to[Max(s)], tags[Max(s)])
                   ELSE f[s \ {Max(s)}]
      BY <3>1 DEF Folds
    <3> QED
      BY <3>3, <3>4
  <2> QED
    BY <2>1, <2>2
<1>2. Folds(base, n + 1, cond, to, tags, g)
  <2> DEFINE h == [s \in SUBSET (1 .. n + 1) |->
                     IF s = {} THEN base
                     ELSE IF cond[Max(s)]
                       THEN Push(g[s \ {Max(s)}], to[Max(s)], tags[Max(s)])
                       ELSE g[s \ {Max(s)}]]
  <2>1. \A s \in SUBSET (1 .. n + 1) : g[s] = h[s]
    <3> HIDE DEF g
    <3> QED BY <1>1
  <2>2. g = h
    <3> DEFINE D == SUBSET (1 .. n + 1)
    <3>1. g = [s \in D |-> g[s]] /\ h = [s \in D |-> h[s]]
      BY Zenon
    <3>2. \A s \in D : g[s] = h[s]
      BY <2>1, Zenon
    <3> HIDE DEF g, h, D
    <3> QED
      BY <3>1, <3>2, Zenon
  <2> HIDE DEF g
  <2> QED
    BY <2>2, Zenon DEF Folds
<1> QED
  BY <1>2

\* The recursion has a solution.
LEMMA FoldsExist ==
  ASSUME NEW base, NEW n \in Nat, NEW cond, NEW to, NEW tags
  PROVE  \E f : Folds(base, n, cond, to, tags, f)
<1> DEFINE Good == {k \in Nat : \E f : Folds(base, k, cond, to, tags, f)}
<1>1. 0 \in Good
  <2> DEFINE f == [s \in SUBSET (1 .. 0) |-> base]
  <2>1. \A s \in SUBSET (1 .. 0) : s = {}
    OBVIOUS
  <2>2. f = [s \in SUBSET (1 .. 0) |->
               IF s = {} THEN base
               ELSE IF cond[Max(s)]
                 THEN Push(f[s \ {Max(s)}], to[Max(s)], tags[Max(s)])
                 ELSE f[s \ {Max(s)}]]
    BY <2>1, Zenon
  <2>3. Folds(base, 0, cond, to, tags, f)
    BY <2>2, Zenon DEF Folds
  <2> QED
    BY <2>3
<1>2. \A k \in Nat : k \in Good => k + 1 \in Good
  BY FoldsExtend
<1> HIDE DEF Good
<1>3. n \in Good
  BY <1>1, <1>2, NatSetInduction
<1> QED
  BY <1>3 DEF Good

\* Every solution pushes one after another what cond admits.
LEMMA FoldsGrow ==
  ASSUME NEW I, NEW base \in Seq(I), NEW n \in Nat, NEW cond, NEW to, NEW tags,
         NEW f, Folds(base, n, cond, to, tags, f),
         \A j \in 1 .. n : cond[j] => Item(to[j], tags[j]) \in I
  PROVE  f[1 .. n] \in Seq(I) /\ Grown(base, n, cond, to, tags, f[1 .. n])
<1> DEFINE Good == {k \in Nat : k <= n =>
                      /\ f[1 .. k] \in Seq(I)
                      /\ Grown(base, k, cond, to, tags, f[1 .. k])}
<1>1. 0 \in Good
  <2>1. 1 .. 0 = {} /\ {} \in SUBSET (1 .. n)
    OBVIOUS
  <2>2. f[1 .. 0] = base
    BY <2>1 DEF Folds
  <2>3. Grown(base, 0, cond, to, tags, base)
    BY DEF Grown
  <2> QED
    BY <2>2, <2>3
<1>2. ASSUME NEW k \in Nat, k \in Good PROVE k + 1 \in Good
  <2> SUFFICES ASSUME k + 1 <= n
               PROVE  /\ f[1 .. k + 1] \in Seq(I)
                      /\ Grown(base, k + 1, cond, to, tags, f[1 .. k + 1])
    OBVIOUS
  <2>1. f[1 .. k] \in Seq(I) /\ Grown(base, k, cond, to, tags, f[1 .. k])
    BY <1>2
  <2>2. 1 .. k + 1 \in SUBSET (1 .. n) /\ 1 .. k + 1 # {} /\ k + 1 \in 1 .. k + 1
        /\ 1 .. k + 1 \in SUBSET (1 .. k + 1) /\ k + 1 \in 1 .. n
    <3>1. k + 1 \in 1 .. k + 1 /\ k + 1 \in 1 .. n
      OBVIOUS
    <3>2. \A i \in 1 .. k + 1 : i \in 1 .. n
      OBVIOUS
    <3> QED
      BY <3>1, <3>2
  <2>3. Max(1 .. k + 1) = k + 1
    <3> DEFINE t == 1 .. k + 1
    <3>1. t \in SUBSET (1 .. k + 1) /\ k + 1 \in t
      BY <2>2
    <3> HIDE DEF t
    <3>2. Max(t) = k + 1
      BY <3>1, MaxLast
    <3> QED
      BY <3>2 DEF t
  <2>4. (1 .. k + 1) \ {k + 1} = 1 .. k
    OBVIOUS
  <2>5. f[1 .. k + 1] = IF cond[k + 1] THEN Push(f[1 .. k], to[k + 1], tags[k + 1])
                                      ELSE f[1 .. k]
    <3> DEFINE t == 1 .. k + 1
    <3>1. t \in SUBSET (1 .. n) /\ t # {} /\ Max(t) = k + 1 /\ t \ {k + 1} = 1 .. k
      BY <2>2, <2>3, <2>4
    <3> HIDE DEF t
    <3>2. f[t] = IF cond[Max(t)] THEN Push(f[t \ {Max(t)}], to[Max(t)], tags[Max(t)])
                                ELSE f[t \ {Max(t)}]
      BY <3>1 DEF Folds
    <3>3. f[t] = IF cond[k + 1] THEN Push(f[1 .. k], to[k + 1], tags[k + 1])
                               ELSE f[1 .. k]
      BY <3>1, <3>2
    <3> QED
      BY <3>3 DEF t
  <2>6. cond[k + 1] => Item(to[k + 1], tags[k + 1]) \in I
    BY <2>2
  <2> HIDE DEF Good
  <2> QED
    BY <2>1, <2>5, <2>6, PushGrows
<1> HIDE DEF Good
<1>3. n \in Good
  BY <1>1, <1>2, NatSetInduction
<1> QED
  BY <1>3 DEF Good

-----------------------------------------------------------------------------
(* What the transitions of an item add to a set.                           *)

Pair == (-1 .. MaxTextLen) \X (-1 .. MaxTextLen)
Slots == [1 .. Groups -> Pair]
Items == [state : State(nfa), slots : Slots]

\* The set after the transitions tr of q that Q admits were pushed.
Pushed(set, q, Takes, tags, new) ==
  /\ new \in Seq(Items)
  /\ Len(set) <= Len(new)
  /\ \A i \in 1 .. Len(set) : new[i] = set[i]
  /\ \A i \in Len(set) + 1 .. Len(new) :
       \E tr \in Takes : new[i] = Item(tr.to, tags[tr])
  /\ \A tr \in Takes : Has(new, tr.to)
  /\ Single(set) => Single(new)

\* The transitions of a state, and that they lead to states.
LEMMA TransFacts ==
  ASSUME re \in Regex, NEW q \in State(nfa)
  PROVE  /\ CanBuild(nfa)
         /\ nfa.trans[q] \in Seq(Out(nfa, q))
         /\ Out(nfa, q) = {nfa.trans[q][i] : i \in 1 .. Len(nfa.trans[q])}
         /\ \A tr \in Out(nfa, q) : tr.to \in State(nfa)
<1>1. CanBuild(nfa)
  BY AutomatonAssumption DEF nfa
<1>2. nfa.trans[q] \in Seq(Out(nfa, q))
  BY CaptureAssumption DEF nfa
<1> QED
  BY <1>1, <1>2 DEF CanBuild, Out

\* A tag is a position of the text.
LEMMA TaggedType ==
  ASSUME NEW slots \in Slots, NEW tr, NEW p \in 0 .. MaxTextLen
  PROVE  Tagged(slots, tr, p) \in Slots
<1>1. \A g \in 1 .. Groups : /\ slots[g] \in Pair
                             /\ <<p, slots[g][2]>> \in Pair
                             /\ <<slots[g][1], p>> \in Pair
  BY DEF Slots, Pair
<1>2. \A x : (tr.group \in 1 .. Groups => x \in Pair) =>
               [slots EXCEPT ![tr.group] = x] \in Slots
  BY DEF Slots
<1> QED
  BY <1>1, <1>2 DEF Tagged

\* The new items are positions of the transitions, and they come from them.
LEMMA GrownPushed ==
  ASSUME re \in Regex, NEW q \in State(nfa), NEW set \in Seq(Items),
         NEW Takes \in SUBSET Out(nfa, q), NEW tags, NEW new \in Seq(Items),
         NEW cond, NEW to, NEW mark,
         \A i \in 1 .. Len(nfa.trans[q]) :
           /\ cond[i] <=> nfa.trans[q][i] \in Takes
           /\ to[i] = nfa.trans[q][i].to
           /\ mark[i] = tags[nfa.trans[q][i]],
         Grown(set, Len(nfa.trans[q]), cond, to, mark, new)
  PROVE  Pushed(set, q, Takes, tags, new)
<1> DEFINE t == nfa.trans[q]
<1>1. \A i \in Len(set) + 1 .. Len(new) :
        \E tr \in Takes : new[i] = Item(tr.to, tags[tr])
  BY DEF Grown
<1>2. ASSUME NEW tr \in Takes PROVE Has(new, tr.to)
  <2>1. PICK i \in 1 .. Len(t) : tr = t[i]
    BY TransFacts
  <2> QED
    BY <1>2, <2>1 DEF Grown
<1> QED
  BY <1>1, <1>2 DEF Grown, Pushed

\* What tagged_expand_closure pushes for one item.
Takeable(q, p) == {tr \in Out(nfa, q) : CanTake(tr, p = 0, p = Len(text))}

\* Its effect on the set.
LEMMA ExpandFacts ==
  ASSUME re \in Regex, NEW set \in Seq(Items), NEW item \in Items,
         NEW p \in 0 .. MaxTextLen
  PROVE  Pushed(set, item.state, Takeable(item.state, p),
                [tr \in Out(nfa, item.state) |-> Tagged(item.slots, tr, p)],
                Expand(set, item, p))
<1> DEFINE q == item.state
           t == nfa.trans[q]
           n == Len(t)
           can(tr) == CanTake(tr, p = 0, p = Len(text))
           tag(tr) == Tagged(item.slots, tr, p)
           cond == [i \in 1 .. n |-> can(t[i])]
           to == [i \in 1 .. n |-> t[i].to]
           mark == [i \in 1 .. n |-> tag(t[i])]
           Eq(f) == f = [s \in SUBSET DOMAIN t |->
                           IF s = {} THEN set
                           ELSE IF can(t[Max(s)])
                             THEN Push(f[s \ {Max(s)}], t[Max(s)].to, tag(t[Max(s)]))
                             ELSE f[s \ {Max(s)}]]
           fold == CHOOSE f : Eq(f)
<1>1. Expand(set, item, p) = fold[DOMAIN t]
  BY Zenon DEF Expand, FoldLeft, MapThenFoldSet
<1>2. q \in State(nfa) /\ item.slots \in Slots
  BY DEF Items
<1>3. t \in Seq(Out(nfa, q)) /\ n \in Nat /\ DOMAIN t = 1 .. n
  BY <1>2, TransFacts
<1> HIDE DEF can, tag, t, n
<1>4. ASSUME NEW f PROVE Eq(f) <=> Folds(set, n, cond, to, mark, f)
  <2>1. ASSUME NEW s \in SUBSET (1 .. n), s # {}
        PROVE  /\ cond[Max(s)] = can(t[Max(s)])
               /\ to[Max(s)] = t[Max(s)].to
               /\ mark[Max(s)] = tag(t[Max(s)])
    <3>1. Max(s) \in 1 .. n
      BY <2>1, <1>3, MaxFacts
    <3> QED
      BY <3>1
  <2> HIDE DEF cond, to, mark
  <2>2. ASSUME NEW s \in SUBSET (1 .. n)
        PROVE  (IF s = {} THEN set
                ELSE IF can(t[Max(s)])
                  THEN Push(f[s \ {Max(s)}], t[Max(s)].to, tag(t[Max(s)]))
                  ELSE f[s \ {Max(s)}])
             = (IF s = {} THEN set
                ELSE IF cond[Max(s)]
                  THEN Push(f[s \ {Max(s)}], to[Max(s)], mark[Max(s)])
                  ELSE f[s \ {Max(s)}])
    BY <2>1
  <2>3. [s \in SUBSET (1 .. n) |->
           IF s = {} THEN set
           ELSE IF can(t[Max(s)])
             THEN Push(f[s \ {Max(s)}], t[Max(s)].to, tag(t[Max(s)]))
             ELSE f[s \ {Max(s)}]]
      = [s \in SUBSET (1 .. n) |->
           IF s = {} THEN set
           ELSE IF cond[Max(s)]
             THEN Push(f[s \ {Max(s)}], to[Max(s)], mark[Max(s)])
             ELSE f[s \ {Max(s)}]]
    BY <2>2, Zenon
  <2> QED
    BY <2>3, <1>3, Zenon DEF Folds
<1> HIDE DEF Eq, cond, to, mark
<1>5. \E f : Folds(set, n, cond, to, mark, f)
  BY <1>3, FoldsExist
<1>6. Folds(set, n, cond, to, mark, fold)
  BY <1>4, <1>5, Zenon
<1> HIDE DEF fold
<1>7. \A i \in 1 .. n : /\ cond[i] <=> t[i] \in Takeable(q, p)
                        /\ to[i] = t[i].to
                        /\ mark[i] = tag(t[i])
                        /\ t[i] \in Out(nfa, q)
  BY <1>3 DEF cond, to, mark, Takeable, can
<1> HIDE DEF q
<1>8. ASSUME NEW i \in 1 .. n PROVE Item(to[i], mark[i]) \in Items
  <2>1. t[i] \in Out(nfa, q) /\ to[i] = t[i].to /\ mark[i] = tag(t[i])
    BY <1>7, Zenon
  <2>2. t[i].to \in State(nfa)
    BY <1>2, <2>1, TransFacts
  <2>3. tag(t[i]) \in Slots
    BY <1>2, TaggedType DEF tag
  <2> QED
    BY <2>1, <2>2, <2>3 DEF Item, Items
<1>9. fold[1 .. n] \in Seq(Items) /\ Grown(set, n, cond, to, mark, fold[1 .. n])
  BY <1>3, <1>6, <1>8, FoldsGrow
<1> DEFINE tags == [tr \in Out(nfa, q) |-> tag(tr)]
<1>10. ASSUME NEW i \in 1 .. n PROVE mark[i] = tags[t[i]]
  <2>1. t[i] \in Out(nfa, q) /\ mark[i] = tag(t[i])
    BY <1>7, Zenon
  <2>2. tags[t[i]] = tag(t[i])
    BY <2>1, Zenon
  <2> QED
    BY <2>1, <2>2
<1>11. Takeable(q, p) \in SUBSET Out(nfa, q)
  BY DEF Takeable
<1> HIDE DEF tags
<1>12. Pushed(set, q, Takeable(q, p), tags, fold[1 .. n])
  <2> DEFINE T == Takeable(q, p)
             new == fold[1 .. n]
  <2>1. \A i \in 1 .. n : (cond[i] <=> t[i] \in T) /\ to[i] = t[i].to
    BY <1>7, Zenon
  <2>2. T \in SUBSET Out(nfa, q) /\ new \in Seq(Items)
        /\ Grown(set, n, cond, to, mark, new)
    BY <1>9, <1>11
  <2> HIDE DEF T, new
  <2>3. Pushed(set, q, T, tags, new)
    BY <1>2, <2>1, <2>2, <1>10, GrownPushed DEF t, n
  <2> QED
    BY <2>3 DEF T, new
<1> QED
  BY <1>1, <1>3, <1>12, Zenon DEF tags, tag, q

\* What the byte c pushes for one item.
Readable(q, c) == {tr \in Out(nfa, q) : Consumes(tr, c)}

\* Its effect on the set.
LEMMA ReadFacts ==
  ASSUME re \in Regex, NEW set \in Seq(Items), NEW item \in Items, NEW c
  PROVE  Pushed(set, item.state, Readable(item.state, c),
                [tr \in Out(nfa, item.state) |-> item.slots],
                Read(set, item, c))
<1> DEFINE q == item.state
           t == nfa.trans[q]
           n == Len(t)
           can(tr) == Consumes(tr, c)
           tag(tr) == item.slots
           cond == [i \in 1 .. n |-> can(t[i])]
           to == [i \in 1 .. n |-> t[i].to]
           mark == [i \in 1 .. n |-> tag(t[i])]
           Eq(f) == f = [s \in SUBSET DOMAIN t |->
                           IF s = {} THEN set
                           ELSE IF can(t[Max(s)])
                             THEN Push(f[s \ {Max(s)}], t[Max(s)].to, tag(t[Max(s)]))
                             ELSE f[s \ {Max(s)}]]
           fold == CHOOSE f : Eq(f)
<1>1. Read(set, item, c) = fold[DOMAIN t]
  BY Zenon DEF Read, FoldLeft, MapThenFoldSet
<1>2. q \in State(nfa) /\ item.slots \in Slots
  BY DEF Items
<1>3. t \in Seq(Out(nfa, q)) /\ n \in Nat /\ DOMAIN t = 1 .. n
  BY <1>2, TransFacts
<1> HIDE DEF can, tag, t, n
<1>4. ASSUME NEW f PROVE Eq(f) <=> Folds(set, n, cond, to, mark, f)
  <2>1. ASSUME NEW s \in SUBSET (1 .. n), s # {}
        PROVE  /\ cond[Max(s)] = can(t[Max(s)])
               /\ to[Max(s)] = t[Max(s)].to
               /\ mark[Max(s)] = tag(t[Max(s)])
    <3>1. Max(s) \in 1 .. n
      BY <2>1, <1>3, MaxFacts
    <3> QED
      BY <3>1
  <2> HIDE DEF cond, to, mark
  <2>2. ASSUME NEW s \in SUBSET (1 .. n)
        PROVE  (IF s = {} THEN set
                ELSE IF can(t[Max(s)])
                  THEN Push(f[s \ {Max(s)}], t[Max(s)].to, tag(t[Max(s)]))
                  ELSE f[s \ {Max(s)}])
             = (IF s = {} THEN set
                ELSE IF cond[Max(s)]
                  THEN Push(f[s \ {Max(s)}], to[Max(s)], mark[Max(s)])
                  ELSE f[s \ {Max(s)}])
    BY <2>1
  <2>3. [s \in SUBSET (1 .. n) |->
           IF s = {} THEN set
           ELSE IF can(t[Max(s)])
             THEN Push(f[s \ {Max(s)}], t[Max(s)].to, tag(t[Max(s)]))
             ELSE f[s \ {Max(s)}]]
      = [s \in SUBSET (1 .. n) |->
           IF s = {} THEN set
           ELSE IF cond[Max(s)]
             THEN Push(f[s \ {Max(s)}], to[Max(s)], mark[Max(s)])
             ELSE f[s \ {Max(s)}]]
    BY <2>2, Zenon
  <2> QED
    BY <2>3, <1>3, Zenon DEF Folds
<1> HIDE DEF Eq, cond, to, mark
<1>5. \E f : Folds(set, n, cond, to, mark, f)
  BY <1>3, FoldsExist
<1>6. Folds(set, n, cond, to, mark, fold)
  BY <1>4, <1>5, Zenon
<1> HIDE DEF fold
<1>7. \A i \in 1 .. n : /\ cond[i] <=> t[i] \in Readable(q, c)
                        /\ to[i] = t[i].to
                        /\ mark[i] = tag(t[i])
                        /\ t[i] \in Out(nfa, q)
  BY <1>3 DEF cond, to, mark, Readable, can
<1> HIDE DEF q
<1>8. ASSUME NEW i \in 1 .. n PROVE Item(to[i], mark[i]) \in Items
  <2>1. t[i] \in Out(nfa, q) /\ to[i] = t[i].to /\ mark[i] = tag(t[i])
    BY <1>7, Zenon
  <2>2. t[i].to \in State(nfa)
    BY <1>2, <2>1, TransFacts
  <2>3. tag(t[i]) \in Slots
    BY <1>2 DEF tag
  <2> QED
    BY <2>1, <2>2, <2>3 DEF Item, Items
<1>9. fold[1 .. n] \in Seq(Items) /\ Grown(set, n, cond, to, mark, fold[1 .. n])
  BY <1>3, <1>6, <1>8, FoldsGrow
<1> DEFINE tags == [tr \in Out(nfa, q) |-> tag(tr)]
<1>10. ASSUME NEW i \in 1 .. n PROVE mark[i] = tags[t[i]]
  <2>1. t[i] \in Out(nfa, q) /\ mark[i] = tag(t[i])
    BY <1>7, Zenon
  <2>2. tags[t[i]] = tag(t[i])
    BY <2>1, Zenon
  <2> QED
    BY <2>1, <2>2
<1>11. Readable(q, c) \in SUBSET Out(nfa, q)
  BY DEF Readable
<1> HIDE DEF tags
<1>12. Pushed(set, q, Readable(q, c), tags, fold[1 .. n])
  <2> DEFINE T == Readable(q, c)
             new == fold[1 .. n]
  <2>1. \A i \in 1 .. n : (cond[i] <=> t[i] \in T) /\ to[i] = t[i].to
    BY <1>7, Zenon
  <2>2. T \in SUBSET Out(nfa, q) /\ new \in Seq(Items)
        /\ Grown(set, n, cond, to, mark, new)
    BY <1>9, <1>11
  <2> HIDE DEF T, new
  <2>3. Pushed(set, q, T, tags, new)
    BY <1>2, <2>1, <2>2, <1>10, GrownPushed DEF t, n
  <2> QED
    BY <2>3 DEF T, new
<1> QED
  BY <1>1, <1>3, <1>12, Zenon DEF tags, tag, q

-----------------------------------------------------------------------------
(* The configurations of all paths.                                        *)

\* There are finitely many ways to tag the groups: each is given by the set of
\* its pairs of a group and its tags.
LEMMA SlotsFinite ==
  ASSUME Groups \in Nat
  PROVE  IsFiniteSet(Slots)
<1> DEFINE G == 1 .. Groups
           S == SUBSET (G \X Pair)
           F == [R \in S |-> [g \in G |-> CHOOSE y \in Pair : <<g, y>> \in R]]
           T == {F[R] : R \in S}
<1>1. IsFiniteSet(S)
  <2>1. 0 - 1 \in Int /\ MaxTextLen \in Int /\ 1 \in Int /\ Groups \in Int
    BY AutomatonAssumption
  <2>2. IsFiniteSet(-1 .. MaxTextLen) /\ IsFiniteSet(G)
    BY <2>1, FS_Interval
  <2>3. IsFiniteSet(Pair)
    BY <2>2, FS_Product, Zenon DEF Pair
  <2> HIDE DEF G
  <2>4. IsFiniteSet(G \X Pair)
    BY <2>2, <2>3, FS_Product
  <2> QED
    BY <2>4, FS_SUBSET
<1>2. IsFiniteSet(T)
  <2>1. F \in Surjection(S, T)
    <3> HIDE DEF S
    <3> QED BY DEF Surjection
  <2> HIDE DEF F, S, T
  <2> QED
    BY <1>1, <2>1, FS_Surjection
<1>3. ASSUME NEW x \in Slots PROVE x \in T
  <2> DEFINE R == {<<g, x[g]>> : g \in G}
  <2>1. \A g \in G : x[g] \in Pair
    BY DEF Slots
  <2>2. R \in S
    BY <2>1
  <2>3. \A g \in G : \A y \in Pair : <<g, y>> \in R <=> y = x[g]
    OBVIOUS
  <2>4. \A g \in G : (CHOOSE y \in Pair : <<g, y>> \in R) = x[g]
    <3> HIDE DEF R, G
    <3> QED BY <2>1, <2>3
  <2>5. F[R] = [g \in G |-> CHOOSE y \in Pair : <<g, y>> \in R]
    <3> HIDE DEF R, S
    <3> QED BY <2>2
  <2>6. F[R] = [g \in G |-> x[g]]
    <3> HIDE DEF R, F, G
    <3> QED BY <2>4, <2>5
  <2>7. x = [g \in G |-> x[g]]
    BY DEF Slots
  <2> QED
    BY <2>2, <2>6, <2>7
<1> HIDE DEF T
<1> QED
  BY <1>2, <1>3, FS_Subset

\* What one round of the closure adds to configurations.
More(C, p) ==
  C \cup UNION {{<<tr.to, Tagged(c[2], tr, p)>> : tr \in Takeable(c[1], p)} : c \in C}

\* It is a round in the sense of AutomatonProofs.
LEMMA MoreFacts ==
  ASSUME re \in Regex, NEW p \in 0 .. MaxTextLen
  PROVE  IsRound(Config(re), [C \in SUBSET Config(re) |-> More(C, p)])
<1> DEFINE F == [C \in SUBSET Config(re) |-> More(C, p)]
<1>1. Config(re) = State(nfa) \X Slots
  BY Zenon DEF Config, Slots, Pair, nfa, Groups
<1>2. IsFiniteSet(Config(re))
  <2>1. CanBuild(nfa) /\ Groups \in Nat
    BY AutomatonAssumption, CaptureAssumption DEF nfa, Groups
  <2> QED
    BY <1>1, <2>1, StateFinite, SlotsFinite, FS_Product
<1>3. ASSUME NEW c \in Config(re), NEW tr \in Takeable(c[1], p)
      PROVE  <<tr.to, Tagged(c[2], tr, p)>> \in Config(re)
  <2>1. c[1] \in State(nfa) /\ c[2] \in Slots
    BY <1>1
  <2>2. tr.to \in State(nfa)
    BY <2>1, TransFacts DEF Takeable
  <2>3. Tagged(c[2], tr, p) \in Slots
    BY <2>1, TaggedType
  <2> QED
    BY <1>1, <2>2, <2>3
<1>4. \A C \in SUBSET Config(re) : More(C, p) \in SUBSET Config(re) /\ C \subseteq More(C, p)
  BY <1>3 DEF More
<1>5. \A C, D \in SUBSET Config(re) : C \subseteq D => More(C, p) \subseteq More(D, p)
  BY DEF More
<1> HIDE DEF Config
<1>6. F \in [SUBSET Config(re) -> SUBSET Config(re)] /\ \A C \in SUBSET Config(re) : F[C] = More(C, p)
  BY <1>4
<1> HIDE DEF F
<1> QED
  BY <1>2, <1>4, <1>5, <1>6 DEF IsRound, F

\* The closure contains its seeds and every configuration an input-free
\* transition leads to.
LEMMA ConfigClosureFacts ==
  ASSUME re \in Regex, NEW p \in 0 .. MaxTextLen, NEW I \in SUBSET Config(re)
  PROVE  /\ ConfigClosure(re, text, I, p) \in SUBSET Config(re)
         /\ I \subseteq ConfigClosure(re, text, I, p)
         /\ \A c \in ConfigClosure(re, text, I, p) : \A tr \in Takeable(c[1], p) :
              <<tr.to, Tagged(c[2], tr, p)>> \in ConfigClosure(re, text, I, p)
<1> DEFINE F == [C \in SUBSET Config(re) |-> More(C, p)]
           Grows(g) == g = [C \in SUBSET Config(re) |->
                              IF More(C, p) = C THEN C ELSE g[More(C, p)]]
           f == CHOOSE g : Grows(g)
<1>1. IsRound(Config(re), F) /\ \A C \in SUBSET Config(re) : F[C] = More(C, p)
  BY MoreFacts
<1> HIDE DEF F
<1>2. \A g : Grows(g) <=> GrowsBy(Config(re), F, g)
  <2> TAKE g
  <2>1. [C \in SUBSET Config(re) |-> IF More(C, p) = C THEN C ELSE g[More(C, p)]]
        = [C \in SUBSET Config(re) |-> IF F[C] = C THEN C ELSE g[F[C]]]
    BY <1>1, Zenon
  <2> QED
    BY <2>1, Zenon DEF GrowsBy
<1>3. ConfigClosure(re, text, I, p) = f[I]
  BY Zenon DEF ConfigClosure, More, Takeable, nfa
<1> HIDE DEF Grows
<1>4. Grows(f)
  BY <1>1, <1>2, GrowsExists, Zenon
<1>5. ConfigClosure(re, text, I, p) = Least(Config(re), F, I)
  <2> HIDE DEF f
  <2> QED BY <1>1, <1>2, <1>3, <1>4, GrowsLeast
<1> DEFINE L == Least(Config(re), F, I)
<1>6. L \in SUBSET Config(re) /\ I \subseteq L /\ F[L] = L
  BY <1>1, LeastFacts
<1> HIDE DEF L
<1>7. More(L, p) = L
  BY <1>1, <1>6
<1>8. \A c \in L : \A tr \in Takeable(c[1], p) : <<tr.to, Tagged(c[2], tr, p)>> \in L
  BY <1>7 DEF More
<1> QED
  BY <1>5, <1>6, <1>8 DEF L

\* The two branches of Configs.
ConfigFirst(p) == ConfigClosure(re, text, {<<nfa.start, NoSlots(re)>>}, p)
ConfigMove(C, p) ==
  UNION {{<<tr.to, c[2]>> : tr \in Readable(c[1], text[p])} : c \in C}
ConfigNext(C, p) == ConfigClosure(re, text, ConfigMove(C, p), p)

\* f obeys the equation of Configs up to position m.
ConfigSteps(f, m) ==
  f = [p \in start .. m |->
         IF p = start THEN ConfigFirst(p) ELSE ConfigNext(f[p - 1], p)]

\* A solution of the equation of Configs can be extended by one position.
LEMMA ConfigsExtend ==
  ASSUME start \in Nat, NEW m \in Nat, start <= m, NEW f, ConfigSteps(f, m)
  PROVE  \E g : ConfigSteps(g, m + 1)
<1> DEFINE g == [p \in start .. m + 1 |->
                   IF p = m + 1 THEN ConfigNext(f[m], m + 1) ELSE f[p]]
<1>1. ASSUME NEW p \in start .. m + 1
      PROVE  g[p] = IF p = start THEN ConfigFirst(p) ELSE ConfigNext(g[p - 1], p)
  <2>1. CASE p = m + 1
    <3>1. p # start /\ p - 1 = m /\ m \in start .. m + 1 /\ m # m + 1
      BY <2>1
    <3>2. g[p - 1] = f[m]
      BY <3>1
    <3> QED
      BY <2>1, <3>1, <3>2
  <2>2. CASE p = start
    <3>1. p \in start .. m /\ p # m + 1
      BY <2>2
    <3>2. g[p] = f[p]
      BY <3>1
    <3> QED
      BY <2>2, <3>1, <3>2 DEF ConfigSteps
  <2>3. CASE p # start /\ p # m + 1
    <3>1. /\ p \in start .. m /\ p - 1 \in start .. m
          /\ p - 1 \in start .. m + 1 /\ p - 1 # m + 1
      BY <2>3
    <3>2. g[p] = f[p] /\ g[p - 1] = f[p - 1]
      BY <3>1, <2>3
    <3> QED
      BY <2>3, <3>1, <3>2 DEF ConfigSteps
  <2> QED
    BY <2>1, <2>2, <2>3
<1>2. ConfigSteps(g, m + 1)
  BY <1>1 DEF ConfigSteps
<1> QED
  BY <1>2

\* The equation of Configs has a solution up to any position.
LEMMA ConfigsExist ==
  ASSUME start \in Nat, NEW m \in Nat, start <= m
  PROVE  \E f : ConfigSteps(f, m)
<1> DEFINE Good == {k \in Nat : \E f : ConfigSteps(f, start + k)}
<1>1. 0 \in Good
  <2>1. ConfigSteps([p \in start .. start |-> ConfigFirst(p)], start)
    BY DEF ConfigSteps
  <2> QED
    BY <2>1
<1>2. \A k \in Nat : k \in Good => k + 1 \in Good
  <2> SUFFICES ASSUME NEW k \in Nat, NEW f, ConfigSteps(f, start + k)
               PROVE  \E g : ConfigSteps(g, start + (k + 1))
    OBVIOUS
  <2>1. \E g : ConfigSteps(g, (start + k) + 1)
    BY ConfigsExtend
  <2> QED
    BY <2>1
<1>3. m - start \in Good
  <2> HIDE DEF Good
  <2> QED BY <1>1, <1>2, NatSetInduction
<1>4. start + (m - start) = m
  OBVIOUS
<1> QED
  BY <1>3, <1>4

ConfigsAt(p) == Configs(re, text, start)[p]

\* The configurations of a position follow from those of the one before.
LEMMA ConfigsEquation ==
  ASSUME start \in Nat, Len(text) \in Nat, start <= Len(text)
  PROVE  /\ ConfigsAt(start) = ConfigFirst(start)
         /\ \A p \in start + 1 .. Len(text) : ConfigsAt(p) = ConfigNext(ConfigsAt(p - 1), p)
<1> DEFINE f == CHOOSE f : ConfigSteps(f, Len(text))
<1>1. ConfigSteps(f, Len(text))
  BY ConfigsExist, Zenon
<1>2. Configs(re, text, start) = f
  BY Zenon DEF Configs, ConfigSteps, ConfigFirst, ConfigNext, ConfigMove, Readable, nfa
<1> HIDE DEF f
<1>3. f[start] = ConfigFirst(start)
  BY <1>1 DEF ConfigSteps
<1>4. \A p \in start + 1 .. Len(text) : f[p] = ConfigNext(f[p - 1], p)
  BY <1>1 DEF ConfigSteps
<1> QED
  BY <1>2, <1>3, <1>4 DEF ConfigsAt

\* The arguments of a call.
Arguments ==
  /\ re \in Regex /\ text \in Seq(Byte) /\ Len(text) <= MaxTextLen
  /\ start \in 0 .. Len(text) /\ stop \in start .. Len(text)

\* The start state without any tags is a configuration of the first position,
\* and what a configuration leads to is one.
LEMMA ConfigsFacts ==
  ASSUME Arguments
  PROVE  /\ <<nfa.start, NoSlots(re)>> \in ConfigsAt(start)
         /\ \A p \in start .. stop : \A c \in ConfigsAt(p) :
              \A tr \in Takeable(c[1], p) :
                <<tr.to, Tagged(c[2], tr, p)>> \in ConfigsAt(p)
         /\ \A p \in start .. stop - 1 : \A c \in ConfigsAt(p) :
              \A tr \in Readable(c[1], text[p + 1]) :
                <<tr.to, c[2]>> \in ConfigsAt(p + 1)
<1>1. /\ start \in Nat /\ stop \in Nat /\ start <= stop /\ re \in Regex
      /\ Len(text) \in Nat /\ start <= Len(text) /\ stop <= Len(text)
      /\ \A p \in start .. stop : p \in 0 .. MaxTextLen
  BY AutomatonAssumption DEF Arguments
<1>2. ConfigsAt(start) = ConfigFirst(start)
  BY <1>1, ConfigsEquation
<1>3. \A p \in start + 1 .. stop : ConfigsAt(p) = ConfigNext(ConfigsAt(p - 1), p)
  BY <1>1, ConfigsEquation
<1>4. Config(re) = State(nfa) \X Slots
  BY Zenon DEF Config, Slots, Pair, nfa, Groups
<1>5. {<<nfa.start, NoSlots(re)>>} \in SUBSET Config(re)
  <2>1. CanBuild(nfa)
    BY <1>1, AutomatonAssumption DEF nfa
  <2>2. nfa.start \in State(nfa)
    BY <2>1 DEF CanBuild
  <2>3. NoSlots(re) \in Slots
    <3>1. NoSpan \in Pair
      BY AutomatonAssumption DEF NoSpan, Pair
    <3> QED
      BY <3>1 DEF NoSlots, Slots, Groups
  <2> QED
    BY <1>4, <2>2, <2>3
<1>6. ASSUME NEW C \in SUBSET Config(re), NEW p
      PROVE  ConfigMove(C, p) \in SUBSET Config(re)
  <2> SUFFICES ASSUME NEW c \in C, NEW tr \in Readable(c[1], text[p])
               PROVE  <<tr.to, c[2]>> \in Config(re)
    BY DEF ConfigMove
  <2>1. c[1] \in State(nfa) /\ c[2] \in Slots
    BY <1>4
  <2>2. tr.to \in State(nfa)
    BY <1>1, <2>1, TransFacts DEF Readable
  <2> QED
    BY <1>4, <2>1, <2>2
<1> DEFINE Good == {k \in Nat : start + k <= stop => ConfigsAt(start + k) \in SUBSET Config(re)}
<1>7. 0 \in Good
  <2>1. ConfigFirst(start) \in SUBSET Config(re)
    BY <1>1, <1>5, ConfigClosureFacts DEF ConfigFirst
  <2> QED
    BY <1>1, <1>2, <2>1
<1>8. ASSUME NEW k \in Nat, k \in Good PROVE k + 1 \in Good
  <2> SUFFICES ASSUME start + (k + 1) <= stop
               PROVE  ConfigsAt(start + (k + 1)) \in SUBSET Config(re)
    OBVIOUS
  <2>1. /\ start + (k + 1) \in start + 1 .. stop /\ (start + (k + 1)) - 1 = start + k
        /\ start + (k + 1) \in 0 .. MaxTextLen
    BY <1>1
  <2>2. ConfigsAt(start + (k + 1)) = ConfigNext(ConfigsAt(start + k), start + (k + 1))
    BY <1>3, <2>1
  <2>3. ConfigsAt(start + k) \in SUBSET Config(re)
    BY <1>1, <1>8
  <2> DEFINE C == ConfigsAt(start + k)
             p == start + (k + 1)
  <2>4. p \in 0 .. MaxTextLen /\ ConfigMove(C, p) \in SUBSET Config(re)
    BY <2>1, <2>3, <1>6
  <2> HIDE DEF C, p
  <2>5. ConfigNext(C, p) \in SUBSET Config(re)
    BY <1>1, <2>4, ConfigClosureFacts DEF ConfigNext
  <2> QED
    BY <2>2, <2>5 DEF C, p
<1>9. ASSUME NEW p \in start .. stop PROVE ConfigsAt(p) \in SUBSET Config(re)
  <2>1. p - start \in Nat /\ start + (p - start) = p
    BY <1>1
  <2>2. p - start \in Good
    <3> HIDE DEF Good
    <3> QED BY <1>7, <1>8, <2>1, NatSetInduction
  <2> QED
    BY <2>1, <2>2
<1> HIDE DEF Good
<1>10. ASSUME NEW p \in start + 1 .. stop
       PROVE  /\ ConfigMove(ConfigsAt(p - 1), p) \subseteq ConfigsAt(p)
              /\ \A c \in ConfigsAt(p) : \A tr \in Takeable(c[1], p) :
                   <<tr.to, Tagged(c[2], tr, p)>> \in ConfigsAt(p)
  <2>1. p \in 0 .. MaxTextLen /\ p - 1 \in start .. stop
    BY <1>1
  <2> DEFINE M == ConfigMove(ConfigsAt(p - 1), p)
  <2>2. M \in SUBSET Config(re)
    BY <2>1, <1>6, <1>9
  <2>3. ConfigsAt(p) = ConfigClosure(re, text, M, p)
    BY <1>3 DEF ConfigNext
  <2> HIDE DEF M
  <2>4. /\ M \subseteq ConfigClosure(re, text, M, p)
        /\ \A c \in ConfigClosure(re, text, M, p) : \A tr \in Takeable(c[1], p) :
             <<tr.to, Tagged(c[2], tr, p)>> \in ConfigClosure(re, text, M, p)
    BY <1>1, <2>1, <2>2, ConfigClosureFacts
  <2> QED
    BY <2>3, <2>4 DEF M
<1>11. /\ <<nfa.start, NoSlots(re)>> \in ConfigsAt(start)
       /\ \A c \in ConfigsAt(start) : \A tr \in Takeable(c[1], start) :
            <<tr.to, Tagged(c[2], tr, start)>> \in ConfigsAt(start)
  <2> DEFINE S == {<<nfa.start, NoSlots(re)>>}
  <2>1. S \in SUBSET Config(re) /\ ConfigsAt(start) = ConfigClosure(re, text, S, start)
        /\ start \in 0 .. MaxTextLen /\ <<nfa.start, NoSlots(re)>> \in S
    BY <1>1, <1>2, <1>5 DEF ConfigFirst
  <2> HIDE DEF S
  <2>2. /\ S \subseteq ConfigClosure(re, text, S, start)
        /\ \A c \in ConfigClosure(re, text, S, start) : \A tr \in Takeable(c[1], start) :
             <<tr.to, Tagged(c[2], tr, start)>> \in ConfigClosure(re, text, S, start)
    BY <1>1, <2>1, ConfigClosureFacts
  <2> QED
    BY <2>1, <2>2
<1>12. ASSUME NEW p \in start .. stop
       PROVE  \A c \in ConfigsAt(p) : \A tr \in Takeable(c[1], p) :
                <<tr.to, Tagged(c[2], tr, p)>> \in ConfigsAt(p)
  <2>1. CASE p = start
    BY <2>1, <1>11
  <2>2. CASE p # start
    <3>1. p \in start + 1 .. stop
      BY <2>2, <1>1
    <3> QED
      BY <3>1, <1>10
  <2> QED
    BY <2>1, <2>2
<1>13. ASSUME NEW p \in start .. stop - 1, NEW c \in ConfigsAt(p),
              NEW tr \in Readable(c[1], text[p + 1])
       PROVE  <<tr.to, c[2]>> \in ConfigsAt(p + 1)
  <2>1. p + 1 \in start + 1 .. stop /\ (p + 1) - 1 = p
    BY <1>1
  <2>2. ConfigMove(ConfigsAt(p), p + 1) \subseteq ConfigsAt(p + 1)
    BY <2>1, <1>10
  <2> QED
    BY <2>2, <1>13 DEF ConfigMove
<1> QED
  BY <1>11, <1>12, <1>13

-----------------------------------------------------------------------------
(* The invariant.                                                          *)

StatesOf(set) == {set[i].state : i \in DOMAIN set}
LiveAt(p) == Live(re, text, start)[p]

\* The items before k were handled: what they lead to is in the set.
Expanded(set, k, p) ==
  \A i \in DOMAIN set : i < k => EpsAt(nfa, set[i].state, text, p) \subseteq StatesOf(set)

\* Every item is what some path has at position p.
OfPaths(set, p) == \A i \in DOMAIN set : <<set[i].state, set[i].slots>> \in ConfigsAt(p)

Types ==
  /\ Arguments /\ nmatch \in Nat
  /\ pc \in {"call", "first", "loop", "read", "close", "done"}
  /\ rc \in {"RUN", "OK", "ESPACE"}
  /\ current \in Seq(Items) /\ next \in Seq(Items)
  /\ index \in Nat \ {0} /\ pos \in start .. stop

\* The sets, by the phase that fills them.
Sets ==
  /\ Single(current) /\ Single(next)
  /\ pc # "call" => nfa.accept \in LiveAt(stop)
  /\ pc = "first" =>
       /\ pos = start
       /\ nfa.start \in StatesOf(current) /\ StatesOf(current) \subseteq LiveAt(start)
       /\ Expanded(current, index, start)
  /\ pc \in {"loop", "read", "close"} => StatesOf(current) = LiveAt(pos)
  /\ pc \in {"read", "close"} => pos < stop /\ StatesOf(next) \subseteq LiveAt(pos + 1)
  /\ pc = "read" =>
       \A i \in DOMAIN current : i < index =>
         ByteTargets(nfa, current[i].state, text[pos + 1]) \subseteq StatesOf(next)
  /\ pc = "close" =>
       /\ \A q \in LiveAt(pos) : ByteTargets(nfa, q, text[pos + 1]) \subseteq StatesOf(next)
       /\ Expanded(next, index, pos + 1)

\* The groups, and that nothing is written before the end.
Paths ==
  /\ pc \notin {"call", "done"} =>
       /\ OfPaths(current, pos)
       /\ matches = [g \in 1 .. nmatch - 1 |-> NoSpan]
  /\ pc \in {"read", "close"} => OfPaths(next, pos + 1)
  /\ pc # "done" => rc = "RUN"
  /\ rc = "OK" =>
       \E c \in ConfigsAt(stop) :
         /\ c[1] = nfa.accept
         /\ \A g \in DOMAIN matches :
              matches[g] = IF g <= Groups THEN c[2][g] ELSE NoSpan

Inv == Types /\ Sets /\ Paths

\* What the invariant is for.
LEMMA InvMeans == Inv => NothingLost /\ GroupsAreOfOnePath
<1> SUFFICES ASSUME Inv PROVE NothingLost /\ GroupsAreOfOnePath
  OBVIOUS
<1>1. NothingLost
  BY DEF Inv, Types, Sets, Single, StatesOf, LiveAt, NothingLost
<1>2. GroupsAreOfOnePath
  BY DEF Inv, Paths, OfPaths, ConfigsAt, GroupsAreOfOnePath
<1> QED
  BY <1>1, <1>2

\* Pushing adds to the states exactly those the transitions lead to.
LEMMA PushedStates ==
  ASSUME NEW set \in Seq(Items), NEW q, NEW Takes, NEW tags, NEW new,
         Pushed(set, q, Takes, tags, new)
  PROVE  StatesOf(new) = StatesOf(set) \cup {tr.to : tr \in Takes}
<1>1. Len(set) \in Nat /\ Len(new) \in Nat /\ Len(set) <= Len(new)
      /\ DOMAIN set = 1 .. Len(set) /\ DOMAIN new = 1 .. Len(new)
  BY DEF Pushed
<1>2. ASSUME NEW i \in DOMAIN new
      PROVE  new[i].state \in StatesOf(set) \cup {tr.to : tr \in Takes}
  <2>1. CASE i \in 1 .. Len(set)
    BY <1>1, <2>1 DEF Pushed, StatesOf
  <2>2. CASE i \in Len(set) + 1 .. Len(new)
    <3>1. PICK tr \in Takes : new[i] = Item(tr.to, tags[tr])
      BY <2>2 DEF Pushed
    <3>2. new[i].state = tr.to
      BY <3>1 DEF Item
    <3> QED
      BY <3>2
  <2> QED
    BY <1>1, <2>1, <2>2
<1>3. ASSUME NEW i \in DOMAIN set PROVE set[i].state \in StatesOf(new)
  BY <1>1 DEF Pushed, StatesOf
<1>4. ASSUME NEW tr \in Takes PROVE tr.to \in StatesOf(new)
  BY DEF Pushed, Has, StatesOf
<1> QED
  BY <1>2, <1>3, <1>4 DEF StatesOf

\* Handling an item of a set that is closed.
LEMMA ExpandKeeps ==
  ASSUME Arguments, NEW p \in start .. stop, NEW set \in Seq(Items),
         NEW k \in DOMAIN set, Single(set), Expanded(set, k, p)
  PROVE  LET new == Expand(set, set[k], p) IN
         /\ new \in Seq(Items) /\ Single(new)
         /\ StatesOf(new) = StatesOf(set) \cup EpsAt(nfa, set[k].state, text, p)
         /\ Expanded(new, k + 1, p)
         /\ OfPaths(set, p) => OfPaths(new, p)
<1> DEFINE new == Expand(set, set[k], p)
           q == set[k].state
           slots == set[k].slots
           tags == [tr \in Out(nfa, q) |-> Tagged(slots, tr, p)]
<1>1. set[k] \in Items /\ re \in Regex /\ p \in 0 .. MaxTextLen
      /\ DOMAIN set = 1 .. Len(set) /\ Len(set) \in Nat /\ k \in 1 .. Len(set)
  BY AutomatonAssumption DEF Arguments
<1>2. Pushed(set, q, Takeable(q, p), tags, new)
  BY <1>1, ExpandFacts
<1>3. EpsAt(nfa, q, text, p) = {tr.to : tr \in Takeable(q, p)}
  BY DEF EpsAt, EpsTargets, Takeable
<1> HIDE DEF new, tags
<1>4. StatesOf(new) = StatesOf(set) \cup EpsAt(nfa, q, text, p)
  BY <1>2, <1>3, PushedStates
<1>5. new \in Seq(Items) /\ Single(new)
  BY <1>2 DEF Pushed
<1>6. \A i \in 1 .. Len(set) : i \in DOMAIN new /\ new[i] = set[i]
  BY <1>1, <1>2 DEF Pushed
<1>7. ASSUME NEW i \in DOMAIN new, i < k + 1
      PROVE  EpsAt(nfa, new[i].state, text, p) \subseteq StatesOf(new)
  <2>1. i \in 1 .. Len(set) /\ new[i] = set[i]
    BY <1>1, <1>5, <1>6, <1>7
  <2>2. CASE i = k
    BY <2>1, <2>2, <1>4
  <2>3. CASE i < k
    BY <2>1, <2>3, <1>1, <1>4 DEF Expanded
  <2> QED
    BY <2>1, <2>2, <2>3, <1>1, <1>7
<1>8. ASSUME OfPaths(set, p) PROVE OfPaths(new, p)
  <2> SUFFICES ASSUME NEW i \in DOMAIN new
               PROVE  <<new[i].state, new[i].slots>> \in ConfigsAt(p)
    BY DEF OfPaths
  <2>1. CASE i \in 1 .. Len(set)
    BY <2>1, <1>1, <1>6, <1>8 DEF OfPaths
  <2>2. CASE i \in Len(set) + 1 .. Len(new)
    <3>1. PICK tr \in Takeable(q, p) : new[i] = Item(tr.to, tags[tr])
      BY <2>2, <1>2 DEF Pushed
    <3>2. tags[tr] = Tagged(slots, tr, p)
      <4>1. tr \in Out(nfa, q)
        BY DEF Takeable
      <4> QED
        BY <4>1, Zenon DEF tags
    <3>3. <<q, slots>> \in ConfigsAt(p)
      BY <1>8, <1>1 DEF OfPaths
    <3>4. <<tr.to, Tagged(slots, tr, p)>> \in ConfigsAt(p)
      <4> DEFINE c == <<q, slots>>
      <4>1. c \in ConfigsAt(p) /\ c[1] = q /\ c[2] = slots
        BY <3>3
      <4> HIDE DEF c
      <4>2. <<tr.to, Tagged(c[2], tr, p)>> \in ConfigsAt(p)
        BY <4>1, ConfigsFacts
      <4> QED
        BY <4>1, <4>2
    <3>5. new[i].state = tr.to /\ new[i].slots = Tagged(slots, tr, p)
      BY <3>1, <3>2 DEF Item
    <3> QED
      BY <3>4, <3>5
  <2> QED
    BY <2>1, <2>2, <1>1, <1>5
<1> QED
  BY <1>4, <1>5, <1>7, <1>8 DEF Expanded, new

\* Reading the byte behind position p from an item.
LEMMA ReadKeeps ==
  ASSUME Arguments, NEW p \in start .. stop - 1, NEW set \in Seq(Items),
         NEW item \in Items, Single(set)
  PROVE  LET new == Read(set, item, text[p + 1]) IN
         /\ new \in Seq(Items) /\ Single(new)
         /\ StatesOf(new) = StatesOf(set) \cup ByteTargets(nfa, item.state, text[p + 1])
         /\ /\ OfPaths(set, p + 1)
            /\ <<item.state, item.slots>> \in ConfigsAt(p)
            => OfPaths(new, p + 1)
<1> DEFINE new == Read(set, item, text[p + 1])
           q == item.state
           slots == item.slots
           tags == [tr \in Out(nfa, q) |-> slots]
           Takes == Readable(q, text[p + 1])
<1>1. re \in Regex /\ DOMAIN set = 1 .. Len(set) /\ Len(set) \in Nat
  BY DEF Arguments
<1>2. Pushed(set, q, Takes, tags, new)
  BY <1>1, ReadFacts
<1>3. ByteTargets(nfa, q, text[p + 1]) = {tr.to : tr \in Takes}
  BY DEF ByteTargets, Readable
<1>4. \A tr \in Takes : tags[tr] = slots
  BY DEF Readable
<1>5. ASSUME <<q, slots>> \in ConfigsAt(p), NEW tr \in Takes
      PROVE  <<tr.to, slots>> \in ConfigsAt(p + 1)
  <2> DEFINE c == <<q, slots>>
  <2>1. c \in ConfigsAt(p) /\ c[1] = q /\ c[2] = slots
    BY <1>5
  <2> HIDE DEF c
  <2>2. <<tr.to, c[2]>> \in ConfigsAt(p + 1)
    BY <2>1, <1>5, ConfigsFacts
  <2> QED
    BY <2>1, <2>2
<1> HIDE DEF new, tags, Takes
<1>6. StatesOf(new) = StatesOf(set) \cup ByteTargets(nfa, q, text[p + 1])
  BY <1>2, <1>3, PushedStates
<1>7. new \in Seq(Items) /\ Single(new)
  BY <1>2 DEF Pushed
<1>8. ASSUME OfPaths(set, p + 1), <<q, slots>> \in ConfigsAt(p)
      PROVE  OfPaths(new, p + 1)
  <2> SUFFICES ASSUME NEW i \in DOMAIN new
               PROVE  <<new[i].state, new[i].slots>> \in ConfigsAt(p + 1)
    BY DEF OfPaths
  <2>1. CASE i \in 1 .. Len(set)
    BY <2>1, <1>1, <1>2, <1>8 DEF OfPaths, Pushed
  <2>2. CASE i \in Len(set) + 1 .. Len(new)
    <3>1. PICK tr \in Takes : new[i] = Item(tr.to, tags[tr])
      BY <2>2, <1>2 DEF Pushed
    <3>2. new[i].state = tr.to /\ new[i].slots = slots
      BY <3>1, <1>4 DEF Item
    <3> QED
      BY <3>2, <1>5, <1>8
  <2> QED
    BY <2>1, <2>2, <1>1, <1>7
<1> QED
  BY <1>6, <1>7, <1>8 DEF new

-----------------------------------------------------------------------------
(* The invariant is inductive.                                             *)

\* The empty set.
LEMMA EmptySet ==
  /\ <<>> \in Seq(Items) /\ Single(<<>>) /\ StatesOf(<<>>) = {}
  /\ \A k, p : Expanded(<<>>, k, p) /\ OfPaths(<<>>, p)
BY DEF Single, StatesOf, Expanded, OfPaths

\* The invariant holds before the call.
LEMMA InvInit == Init => Inv
<1> SUFFICES ASSUME Init PROVE Inv
  OBVIOUS
<1>1. Arguments
  <2>1. re \in Regex /\ text = <<>> /\ start = 0 /\ stop = 0 /\ MaxTextLen \in Nat
    BY AutomatonAssumption DEF Init
  <2>2. <<>> \in Seq(Byte) /\ Len(<<>>) = 0
    OBVIOUS
  <2> QED
    BY <2>1, <2>2 DEF Arguments
<1>2. Types
  BY <1>1, EmptySet DEF Init, Types
<1>3. Sets
  BY EmptySet DEF Init, Sets
<1>4. Paths
  BY DEF Init, Paths
<1> QED
  BY <1>2, <1>3, <1>4 DEF Inv

\* What holds for a call holds to its end.
Fixed == re' = re /\ text' = text /\ start' = start /\ stop' = stop /\ nmatch' = nmatch

LEMMA FixedFacts ==
  ASSUME Fixed
  PROVE  /\ Arguments' <=> Arguments
         /\ nfa' = nfa /\ Groups' = Groups /\ Items' = Items
<1>1. Arguments' <=> Arguments
  BY DEF Fixed, Arguments
<1>2. nfa' = nfa
  BY DEF Fixed, nfa
<1>3. Groups' = Groups
  BY DEF Fixed, Groups
<1>4. Items' = Items
  BY <1>2, <1>3 DEF Items, Slots
<1> QED
  BY <1>1, <1>2, <1>3, <1>4

\* The first configuration, of any arguments.
LEMMA ConfigsStart == Arguments => <<nfa.start, NoSlots(re)>> \in ConfigsAt(start)
BY ConfigsFacts

\* The call chooses a match of the first simulation.
LEMMA CallStep == Inv /\ Call => Inv'
<1> SUFFICES ASSUME Inv, Call PROVE Inv'
  OBVIOUS
<1>1. /\ text' \in Texts /\ start' \in 0 .. Len(text') /\ re' = re /\ rc' = rc
      /\ stop' \in Ends(re, text', start') /\ nmatch' \in 2 .. Groups + 2
      /\ current' = Push(<<>>, nfa.start, NoSlots(re)) /\ next' = next
      /\ index' = 1 /\ pos' = start' /\ pc' = "first" /\ pc = "call"
      /\ matches' = [g \in 1 .. nmatch' - 1 |-> NoSpan]
  BY DEF Call
<1>2. /\ re \in Regex /\ rc = "RUN" /\ next \in Seq(Items) /\ Single(next)
  BY <1>1 DEF Inv, Types, Sets, Paths, Arguments
<1>3. text' \in Seq(Byte) /\ Len(text') \in 0 .. MaxTextLen
  <2>1. PICK k \in 0 .. MaxTextLen : text' \in [1 .. k -> Byte]
    BY <1>1 DEF Texts
  <2> QED
    BY <2>1, AutomatonAssumption
<1>4. /\ stop' \in start' .. Len(text')
      /\ nfa.accept \in Live(re, text', start')[stop']
  BY <1>1 DEF Ends, nfa
<1>5. Arguments'
  BY <1>1, <1>2, <1>3, <1>4 DEF Arguments
<1>6. nfa' = nfa /\ Items' = Items /\ Groups' = Groups
  BY <1>1 DEF nfa, Items, Slots, Groups
<1>7. CanBuild(nfa) /\ nfa.start \in State(nfa) /\ Groups \in Nat
  <2>1. CanBuild(nfa)
    BY <1>2, AutomatonAssumption DEF nfa
  <2> QED
    BY <2>1, <1>2, CaptureAssumption DEF CanBuild, Groups
<1>8. current' = <<Item(nfa.start, NoSlots(re))>>
  BY <1>1 DEF Push, Has, Item
<1>9. Item(nfa.start, NoSlots(re)) \in Items
  <2>1. NoSlots(re) \in Slots
    <3>1. NoSpan \in Pair
      BY AutomatonAssumption DEF NoSpan, Pair
    <3> QED
      BY <3>1 DEF NoSlots, Slots, Groups
  <2> QED
    BY <1>7, <2>1 DEF Item, Items
<1>10. /\ current' \in Seq(Items) /\ DOMAIN current' = {1}
       /\ current'[1].state = nfa.start /\ current'[1].slots = NoSlots(re)
  BY <1>8, <1>9 DEF Item
<1>11. nmatch' \in Nat /\ pos' \in start' .. stop'
  BY <1>1, <1>3, <1>4, <1>7
<1>12. Types'
  BY <1>1, <1>2, <1>5, <1>6, <1>10, <1>11 DEF Types
<1>13. nfa.start \in Live(re, text', start')[start']
  BY <1>1, <1>2, <1>3, LiveClosed DEF nfa
<1>14. Sets'
  <2>1. Single(current') /\ StatesOf(current') = {nfa.start}
    BY <1>10 DEF Single, StatesOf
  <2>2. Expanded(current, index, start)'
    BY <1>1, <1>10 DEF Expanded
  <2> QED
    BY <1>1, <1>2, <1>4, <1>6, <1>13, <2>1, <2>2 DEF Sets, LiveAt, StatesOf, Single
<1>15. <<nfa.start, NoSlots(re)>> \in Configs(re, text', start')[start']
  <2>1. (Arguments => <<nfa.start, NoSlots(re)>> \in ConfigsAt(start))'
    BY ConfigsStart, PTL
  <2>2. (<<nfa.start, NoSlots(re)>> \in ConfigsAt(start))'
    BY <2>1, <1>5
  <2> QED
    BY <2>2, <1>1, <1>6 DEF ConfigsAt
<1>16. Paths'
  BY <1>1, <1>2, <1>10, <1>15 DEF Paths, OfPaths, ConfigsAt
<1> QED
  BY <1>12, <1>14, <1>16 DEF Inv

\* An item of the first set is handled.
LEMMA CloseFirstStep == Inv /\ Fixed /\ CloseFirst => Inv'
<1> SUFFICES ASSUME Inv, Fixed, CloseFirst PROVE Inv'
  OBVIOUS
<1>1. Arguments /\ current \in Seq(Items) /\ index \in DOMAIN current
      /\ Single(current) /\ Expanded(current, index, start) /\ pos = start
      /\ OfPaths(current, start) /\ start \in start .. stop
      /\ index \in Nat \ {0} /\ nfa.start \in StatesOf(current)
      /\ StatesOf(current) \subseteq LiveAt(start) /\ pc = "first"
  BY DEF Inv, Types, Sets, Paths, CloseFirst, Arguments
<1> DEFINE new == Expand(current, current[index], start)
<1>2. /\ new \in Seq(Items) /\ Single(new) /\ Expanded(new, index + 1, start)
      /\ StatesOf(new) = StatesOf(current) \cup EpsAt(nfa, current[index].state, text, start)
      /\ OfPaths(new, start)
  BY <1>1, ExpandKeeps
<1> HIDE DEF new
<1>3. /\ current' = new /\ index' = index + 1 /\ pc' = pc /\ next' = next /\ pos' = pos
      /\ matches' = matches /\ rc' = rc
  BY DEF CloseFirst, new
<1>4. StatesOf(new) \subseteq LiveAt(start)
  <2>1. current[index].state \in LiveAt(start)
    BY <1>1 DEF StatesOf
  <2>2. EpsAt(nfa, current[index].state, text, start) \subseteq LiveAt(start)
    BY <1>1, <2>1, LiveClosed DEF LiveAt, nfa, Arguments
  <2> QED
    BY <1>1, <1>2, <2>2
<1>5. Types'
  BY <1>1, <1>2, <1>3, FixedFacts DEF Inv, Types, Fixed
<1>6. Expanded(current, index, start)' /\ OfPaths(current, pos)'
  BY <1>1, <1>2, <1>3, FixedFacts DEF Fixed, Expanded, StatesOf, OfPaths, ConfigsAt
<1>7. StatesOf(current)' \subseteq LiveAt(start)' /\ nfa'.start \in StatesOf(current)'
  BY <1>1, <1>2, <1>3, <1>4, FixedFacts DEF Fixed, StatesOf, LiveAt
<1>8. LiveAt(stop)' = LiveAt(stop)
  BY DEF Fixed, LiveAt
<1>9. Sets'
  BY <1>1, <1>2, <1>3, <1>6, <1>7, <1>8, FixedFacts DEF Inv, Sets, Fixed, Single
<1>10. Paths'
  BY <1>1, <1>3, <1>6, FixedFacts DEF Inv, Paths, Fixed
<1> QED
  BY <1>5, <1>9, <1>10 DEF Inv

\* A set holds states of the automaton; when all its items were handled, what
\* its states lead to is in it.
LEMMA ClosedSet ==
  ASSUME NEW set \in Seq(Items), NEW k \in Nat, NEW p
  PROVE  /\ StatesOf(set) \in SUBSET State(nfa)
         /\ k > Len(set) /\ Expanded(set, k, p) =>
              \A q \in StatesOf(set) : EpsAt(nfa, q, text, p) \subseteq StatesOf(set)
<1>1. \A i \in DOMAIN set : set[i] \in Items /\ (k > Len(set) => i < k)
  OBVIOUS
<1>2. \A x \in Items : x.state \in State(nfa)
  BY DEF Items
<1>3. StatesOf(set) \in SUBSET State(nfa)
  BY <1>1, <1>2 DEF StatesOf
<1>4. ASSUME k > Len(set), Expanded(set, k, p), NEW q \in StatesOf(set)
      PROVE  EpsAt(nfa, q, text, p) \subseteq StatesOf(set)
  <2>1. PICK i \in DOMAIN set : q = set[i].state
    BY DEF StatesOf
  <2> QED
    BY <2>1, <1>1, <1>4 DEF Expanded
<1> QED
  BY <1>3, <1>4

\* What a finished closure amounts to: the set holds just the live states.
LEMMA FirstIsLive ==
  ASSUME Inv, pc = "first", index > Len(current)
  PROVE  StatesOf(current) = LiveAt(start)
<1>1. /\ Arguments /\ current \in Seq(Items) /\ index \in Nat
      /\ nfa.start \in StatesOf(current) /\ StatesOf(current) \subseteq LiveAt(start)
      /\ Expanded(current, index, start)
  BY DEF Inv, Types, Sets
<1>2. StatesOf(current) \in SUBSET State(nfa)
  BY <1>1, ClosedSet
<1>3. \A q \in StatesOf(current) : EpsAt(nfa, q, text, start) \subseteq StatesOf(current)
  BY <1>1, ClosedSet
<1>4. LiveAt(start) \subseteq StatesOf(current)
  <2> DEFINE U == StatesOf(current)
  <2>1. /\ U \in SUBSET State(Nfa[re]) /\ nfa.start \in U
        /\ \A q \in U : EpsAt(nfa, q, text, start) \subseteq U
    BY <1>1, <1>2, <1>3 DEF nfa
  <2> HIDE DEF U
  <2>2. LiveAt(start) \subseteq U
    BY <1>1, <2>1, LiveLeast DEF LiveAt, nfa, Arguments
  <2> QED
    BY <2>2 DEF U
<1> QED
  BY <1>1, <1>4

\* The same for the later sets.
LEMMA NextIsLive ==
  ASSUME Inv, pc = "close", index > Len(next)
  PROVE  StatesOf(next) = LiveAt(pos + 1)
<1>1. /\ Arguments /\ next \in Seq(Items) /\ index \in Nat
      /\ pos \in start .. stop /\ pos < stop
      /\ StatesOf(next) \subseteq LiveAt(pos + 1)
      /\ Expanded(next, index, pos + 1)
      /\ \A q \in LiveAt(pos) : ByteTargets(nfa, q, text[pos + 1]) \subseteq StatesOf(next)
  BY DEF Inv, Types, Sets
<1>2. StatesOf(next) \in SUBSET State(nfa) /\ pos \in start .. Len(text) - 1
  BY <1>1, ClosedSet DEF Arguments
<1>3. \A q \in StatesOf(next) : EpsAt(nfa, q, text, pos + 1) \subseteq StatesOf(next)
  BY <1>1, ClosedSet
<1>4. LiveAt(pos + 1) \subseteq StatesOf(next)
  <2> DEFINE U == StatesOf(next)
  <2>1. /\ U \in SUBSET State(Nfa[re])
        /\ \A q \in Live(re, text, start)[pos] : ByteTargets(nfa, q, text[pos + 1]) \subseteq U
        /\ \A q \in U : EpsAt(nfa, q, text, pos + 1) \subseteq U
    BY <1>1, <1>2, <1>3 DEF nfa, LiveAt
  <2> HIDE DEF U
  <2>2. LiveAt(pos + 1) \subseteq U
    BY <1>1, <1>2, <2>1, LiveLeast DEF LiveAt, nfa, Arguments
  <2> QED
    BY <2>2 DEF U
<1> QED
  BY <1>1, <1>4

\* The first set is closed.
LEMMA FirstClosedStep == Inv /\ Fixed /\ FirstClosed => Inv'
<1> SUFFICES ASSUME Inv, Fixed, FirstClosed PROVE Inv'
  OBVIOUS
<1>1. /\ pc = "first" /\ pc' = "loop" /\ index > Len(current)
      /\ current' = current /\ next' = next /\ index' = index /\ pos' = pos
      /\ matches' = matches /\ rc' = rc
  BY DEF FirstClosed
<1>2. pos = start /\ StatesOf(current) = LiveAt(start)
  BY <1>1, FirstIsLive DEF Inv, Sets
<1>3. Types'
  BY <1>1, FixedFacts DEF Inv, Types, Fixed
<1>4. Sets'
  BY <1>1, <1>2, FixedFacts DEF Inv, Sets, Fixed, Single, StatesOf, LiveAt
<1>5. Paths'
  BY <1>1, FixedFacts DEF Inv, Paths, Fixed, OfPaths, ConfigsAt
<1> QED
  BY <1>3, <1>4, <1>5 DEF Inv

\* The next byte begins with an empty set.
LEMMA NextByteStep == Inv /\ Fixed /\ NextByte => Inv'
<1> SUFFICES ASSUME Inv, Fixed, NextByte PROVE Inv'
  OBVIOUS
<1>1. /\ pc = "loop" /\ pc' = "read" /\ pos < stop
      /\ current' = current /\ next' = <<>> /\ index' = 1 /\ pos' = pos
      /\ matches' = matches /\ rc' = rc
  BY DEF NextByte
<1>2. Types'
  BY <1>1, EmptySet, FixedFacts DEF Inv, Types, Fixed
<1>3. Sets'
  <2>1. Single(next)' /\ StatesOf(next)' = {} /\ Single(current)' /\ pos < stop
    BY <1>1 DEF Inv, Sets, Single, StatesOf
  <2>2. \A i \in DOMAIN current : ~ i < 1
    BY DEF Inv, Types
  <2>3. StatesOf(current)' = LiveAt(pos)' /\ (nfa.accept \in LiveAt(stop))'
    BY <1>1, FixedFacts DEF Inv, Sets, Fixed, StatesOf, LiveAt
  <2> QED
    BY <1>1, <2>1, <2>2, <2>3 DEF Sets, Fixed
<1>4. Paths'
  BY <1>1, FixedFacts DEF Inv, Paths, Fixed, OfPaths, ConfigsAt
<1> QED
  BY <1>2, <1>3, <1>4 DEF Inv

\* The byte is read from an item.
LEMMA ReadItemStep == Inv /\ Fixed /\ ReadItem => Inv'
<1> SUFFICES ASSUME Inv, Fixed, ReadItem PROVE Inv'
  OBVIOUS
<1> DEFINE c == text[pos + 1]
           q == current[index].state
           new == Read(next, current[index], c)
<1>1. /\ Arguments /\ current \in Seq(Items) /\ next \in Seq(Items)
      /\ index \in DOMAIN current /\ index \in Nat \ {0}
      /\ Single(current) /\ Single(next) /\ pc = "read"
      /\ pos \in start .. stop - 1 /\ pos \in start .. Len(text) - 1
      /\ StatesOf(current) = LiveAt(pos) /\ StatesOf(next) \subseteq LiveAt(pos + 1)
      /\ OfPaths(current, pos) /\ OfPaths(next, pos + 1)
      /\ current[index] \in Items
  BY DEF Inv, Types, Sets, Paths, ReadItem, Arguments
<1>2. <<current[index].state, current[index].slots>> \in ConfigsAt(pos)
  BY <1>1 DEF OfPaths
<1>3. /\ new \in Seq(Items) /\ Single(new) /\ OfPaths(new, pos + 1)
      /\ StatesOf(new) = StatesOf(next) \cup ByteTargets(nfa, q, c)
  BY <1>1, <1>2, ReadKeeps
<1> HIDE DEF new
<1>4. /\ pc' = pc /\ current' = current /\ next' = new /\ index' = index + 1
      /\ pos' = pos /\ matches' = matches /\ rc' = rc
  BY DEF ReadItem, new
<1>5. StatesOf(new) \subseteq LiveAt(pos + 1)
  <2>1. q \in LiveAt(pos)
    BY <1>1 DEF StatesOf
  <2>2. ByteTargets(nfa, q, c) \subseteq LiveAt(pos + 1)
    BY <1>1, <2>1, LiveClosed DEF LiveAt, nfa, Arguments
  <2> QED
    BY <1>1, <1>3, <2>2
<1>6. Types'
  BY <1>1, <1>3, <1>4, FixedFacts DEF Inv, Types, Fixed
<1>7. \A i \in DOMAIN current : i < index + 1 =>
        ByteTargets(nfa, current[i].state, c) \subseteq StatesOf(new)
  <2> SUFFICES ASSUME NEW i \in DOMAIN current, i < index + 1
               PROVE  ByteTargets(nfa, current[i].state, c) \subseteq StatesOf(new)
    OBVIOUS
  <2>1. CASE i = index
    BY <2>1, <1>3
  <2>2. CASE i < index
    BY <2>2, <1>1, <1>3 DEF Inv, Sets
  <2> QED
    BY <2>1, <2>2, <1>1
<1>8. StatesOf(next)' = StatesOf(new) /\ LiveAt(pos + 1)' = LiveAt(pos + 1)
      /\ LiveAt(pos)' = LiveAt(pos) /\ LiveAt(stop)' = LiveAt(stop)
      /\ StatesOf(current)' = StatesOf(current) /\ c' = c
      /\ Single(current)' /\ Single(next)'
  BY <1>1, <1>3, <1>4 DEF StatesOf, LiveAt, Fixed, Single
<1> HIDE DEF c
<1>9. Sets'
  BY <1>1, <1>3, <1>4, <1>5, <1>7, <1>8, FixedFacts DEF Inv, Sets, Fixed, c
<1>10. OfPaths(next, pos + 1)' /\ OfPaths(current, pos)'
  BY <1>1, <1>3, <1>4 DEF OfPaths, ConfigsAt, Fixed
<1>11. Paths'
  BY <1>1, <1>4, <1>10, FixedFacts DEF Inv, Paths, Fixed
<1> QED
  BY <1>6, <1>9, <1>11 DEF Inv

\* All items were read.
LEMMA AllReadStep == Inv /\ Fixed /\ AllRead => Inv'
<1> SUFFICES ASSUME Inv, Fixed, AllRead PROVE Inv'
  OBVIOUS
<1>1. /\ pc = "read" /\ pc' = "close" /\ index > Len(current)
      /\ current' = current /\ next' = next /\ index' = 1 /\ pos' = pos
      /\ matches' = matches /\ rc' = rc
  BY DEF AllRead
<1>2. \A q \in LiveAt(pos) : ByteTargets(nfa, q, text[pos + 1]) \subseteq StatesOf(next)
  <2> SUFFICES ASSUME NEW q \in LiveAt(pos)
               PROVE  ByteTargets(nfa, q, text[pos + 1]) \subseteq StatesOf(next)
    OBVIOUS
  <2>1. PICK i \in DOMAIN current : q = current[i].state
    BY <1>1 DEF Inv, Sets, StatesOf
  <2>2. i < index
    BY <1>1 DEF Inv, Types
  <2> QED
    BY <1>1, <2>1, <2>2 DEF Inv, Sets
<1>3. Types'
  BY <1>1, FixedFacts DEF Inv, Types, Fixed
<1>4. Expanded(next, index, pos + 1)'
  BY <1>1 DEF Expanded, Inv, Types
<1>5. Sets'
  BY <1>1, <1>2, <1>4, FixedFacts DEF Inv, Sets, Fixed, Single, StatesOf, LiveAt
<1>6. Paths'
  BY <1>1, FixedFacts DEF Inv, Paths, Fixed, OfPaths, ConfigsAt
<1> QED
  BY <1>3, <1>5, <1>6 DEF Inv

\* An item of the next set is handled.
LEMMA CloseItemStep == Inv /\ Fixed /\ CloseItem => Inv'
<1> SUFFICES ASSUME Inv, Fixed, CloseItem PROVE Inv'
  OBVIOUS
<1> DEFINE p == pos + 1
           q == next[index].state
           new == Expand(next, next[index], p)
<1>1. /\ Arguments /\ next \in Seq(Items) /\ index \in DOMAIN next
      /\ Single(next) /\ Expanded(next, index, p) /\ OfPaths(next, p)
      /\ index \in Nat \ {0} /\ pos \in start .. stop - 1
      /\ p \in start .. stop /\ p \in start .. Len(text)
      /\ StatesOf(next) \subseteq LiveAt(p) /\ pc = "close"
  BY DEF Inv, Types, Sets, Paths, CloseItem, Arguments
<1>2. /\ new \in Seq(Items) /\ Single(new) /\ Expanded(new, index + 1, p)
      /\ StatesOf(new) = StatesOf(next) \cup EpsAt(nfa, q, text, p)
      /\ OfPaths(new, p)
  <2> HIDE DEF p
  <2> QED BY <1>1, ExpandKeeps
<1> HIDE DEF new
<1>3. /\ pc' = pc /\ current' = current /\ next' = new /\ index' = index + 1
      /\ pos' = pos /\ matches' = matches /\ rc' = rc
  BY DEF CloseItem, new
<1>4. StatesOf(new) \subseteq LiveAt(p)
  <2> HIDE DEF p
  <2>1. q \in LiveAt(p)
    BY <1>1 DEF StatesOf
  <2>2. EpsAt(nfa, q, text, p) \subseteq LiveAt(p)
    BY <1>1, <2>1, LiveClosed DEF LiveAt, nfa, Arguments
  <2> QED
    BY <1>1, <1>2, <2>2
<1>5. Types'
  BY <1>1, <1>2, <1>3, FixedFacts DEF Inv, Types, Fixed
<1>6. Expanded(next, index, p)' /\ OfPaths(next, p)'
  BY <1>1, <1>2, <1>3, FixedFacts DEF Fixed, Expanded, StatesOf, OfPaths, ConfigsAt
<1>7. \A x \in LiveAt(pos) : ByteTargets(nfa, x, text[pos + 1]) \subseteq StatesOf(new)
  BY <1>1, <1>2 DEF Inv, Sets
<1>8. /\ StatesOf(next)' = StatesOf(new) /\ LiveAt(p)' = LiveAt(p)
      /\ LiveAt(pos)' = LiveAt(pos) /\ LiveAt(stop)' = LiveAt(stop)
      /\ StatesOf(current)' = StatesOf(current)
      /\ Single(current)' /\ Single(next)' /\ OfPaths(current, pos)'
  BY <1>1, <1>2, <1>3 DEF Inv, Sets, Paths, StatesOf, LiveAt, Fixed, Single,
                          OfPaths, ConfigsAt
<1>9. Sets'
  BY <1>1, <1>3, <1>4, <1>6, <1>7, <1>8, FixedFacts DEF Inv, Sets, Fixed
<1>10. Paths'
  BY <1>1, <1>3, <1>6, <1>8, FixedFacts DEF Inv, Paths, Fixed
<1> QED
  BY <1>5, <1>9, <1>10 DEF Inv

\* The sets change places.
LEMMA SwapStep == Inv /\ Fixed /\ Swap => Inv'
<1> SUFFICES ASSUME Inv, Fixed, Swap PROVE Inv'
  OBVIOUS
<1>1. /\ pc = "close" /\ pc' = "loop" /\ index > Len(next)
      /\ current' = next /\ next' = current /\ index' = index /\ pos' = pos + 1
      /\ matches' = matches /\ rc' = rc
  BY DEF Swap
<1>2. StatesOf(next) = LiveAt(pos + 1)
  BY <1>1, NextIsLive
<1>3. Types'
  BY <1>1, FixedFacts DEF Inv, Types, Sets, Fixed, Arguments
<1>4. Sets'
  BY <1>1, <1>2, FixedFacts DEF Inv, Sets, Fixed, Single, StatesOf, LiveAt
<1>5. Paths'
  BY <1>1, FixedFacts DEF Inv, Paths, Fixed, OfPaths, ConfigsAt
<1> QED
  BY <1>3, <1>4, <1>5 DEF Inv

\* The answer: the accepting state is there, and so are its groups.
LEMMA AnswerStep == Inv /\ Fixed /\ Answer => Inv'
<1> SUFFICES ASSUME Inv, Fixed, Answer PROVE Inv'
  OBVIOUS
<1>1. pc = "loop" /\ pos = stop /\ pc' = "done"
      /\ current' = current /\ next' = next /\ index' = index /\ pos' = pos
  BY DEF Answer
<1>2. /\ nfa.accept \in StatesOf(current) /\ OfPaths(current, stop)
      /\ matches = [g \in 1 .. nmatch - 1 |-> NoSpan]
  BY <1>1 DEF Inv, Sets, Paths
<1>3. PICK k \in DOMAIN current : current[k].state = nfa.accept
  BY <1>2 DEF StatesOf
<1> DEFINE item == CHOOSE i \in ToSet(current) : i.state = nfa.accept
<1>4. item \in ToSet(current) /\ item.state = nfa.accept
  <2>1. current[k] \in ToSet(current)
    BY DEF ToSet
  <2> QED
    BY <1>3, <2>1
<1>5. <<item.state, item.slots>> \in ConfigsAt(stop)
  <2>1. PICK i \in DOMAIN current : current[i] = item
    BY <1>4 DEF ToSet
  <2> HIDE DEF item
  <2> QED
    BY <1>2, <2>1 DEF OfPaths
<1>6. /\ rc' = "OK"
      /\ matches' = [g \in DOMAIN matches |->
                       IF g <= Groups THEN item.slots[g] ELSE matches[g]]
  BY <1>3 DEF Answer, Has
<1> HIDE DEF item
<1>7. \A g \in DOMAIN matches' :
        matches'[g] = IF g <= Groups THEN item.slots[g] ELSE NoSpan
  BY <1>2, <1>6
<1>8. \E c \in ConfigsAt(stop) :
        /\ c[1] = nfa.accept
        /\ \A g \in DOMAIN matches' :
             matches'[g] = IF g <= Groups THEN c[2][g] ELSE NoSpan
  <2> DEFINE c == <<item.state, item.slots>>
  <2>1. c \in ConfigsAt(stop) /\ c[1] = nfa.accept /\ c[2] = item.slots
    BY <1>4, <1>5
  <2> HIDE DEF c
  <2> QED
    BY <2>1, <1>7
<1>9. Types'
  BY <1>1, <1>6, FixedFacts DEF Inv, Types, Fixed
<1>10. Sets'
  BY <1>1, FixedFacts DEF Inv, Sets, Fixed, Single, LiveAt
<1>11. Paths'
  BY <1>1, <1>8, FixedFacts DEF Paths, Fixed, ConfigsAt
<1> QED
  BY <1>9, <1>10, <1>11 DEF Inv

\* An allocation fails; nothing was written.
LEMMA OutOfMemoryStep == Inv /\ Fixed /\ OutOfMemory => Inv'
<1> SUFFICES ASSUME Inv, Fixed, OutOfMemory PROVE Inv'
  OBVIOUS
<1>1. /\ pc # "call" /\ pc' = "done" /\ rc' = "ESPACE"
      /\ current' = current /\ next' = next /\ index' = index /\ pos' = pos
      /\ matches' = matches
  BY DEF OutOfMemory
<1>2. Types'
  BY <1>1, FixedFacts DEF Inv, Types, Fixed
<1>3. Sets'
  BY <1>1, FixedFacts DEF Inv, Sets, Fixed, Single, LiveAt
<1>4. Paths'
  BY <1>1 DEF Paths
<1> QED
  BY <1>2, <1>3, <1>4 DEF Inv

\* Nothing changes.
LEMMA StutterStep == Inv /\ UNCHANGED vars => Inv'
<1> SUFFICES ASSUME Inv, UNCHANGED vars PROVE Inv'
  OBVIOUS
<1>1. /\ Fixed /\ pc' = pc /\ current' = current /\ next' = next /\ index' = index
      /\ pos' = pos /\ matches' = matches /\ rc' = rc
  BY DEF vars, args, Fixed
<1>2. Types'
  BY <1>1, FixedFacts DEF Inv, Types, Fixed
<1>3. Sets'
  <2>1. /\ nfa' = nfa /\ \A p : LiveAt(p)' = LiveAt(p)
        /\ StatesOf(current)' = StatesOf(current) /\ StatesOf(next)' = StatesOf(next)
        /\ Single(current)' = Single(current) /\ Single(next)' = Single(next)
    BY <1>1, FixedFacts DEF Fixed, Single, StatesOf, LiveAt
  <2>2. /\ Expanded(current, index, start)' = Expanded(current, index, start)
        /\ Expanded(next, index, pos + 1)' = Expanded(next, index, pos + 1)
    BY <1>1, <2>1 DEF Fixed, Expanded, StatesOf
  <2> QED
    BY <1>1, <2>1, <2>2 DEF Inv, Sets, Fixed
<1>4. Paths'
  BY <1>1, FixedFacts DEF Inv, Paths, Fixed, OfPaths, ConfigsAt
<1> QED
  BY <1>2, <1>3, <1>4 DEF Inv

\* Every step keeps the invariant.
LEMMA InvStep == Inv /\ [Next]_vars => Inv'
<1> SUFFICES ASSUME Inv, [Next]_vars PROVE Inv'
  OBVIOUS
<1>1. CASE Call
  BY <1>1, CallStep
<1>2. CASE CloseFirst
  BY <1>2, CloseFirstStep DEF CloseFirst, args, Fixed
<1>3. CASE FirstClosed
  BY <1>3, FirstClosedStep DEF FirstClosed, args, Fixed
<1>4. CASE NextByte
  BY <1>4, NextByteStep DEF NextByte, args, Fixed
<1>5. CASE ReadItem
  BY <1>5, ReadItemStep DEF ReadItem, args, Fixed
<1>6. CASE AllRead
  BY <1>6, AllReadStep DEF AllRead, args, Fixed
<1>7. CASE CloseItem
  BY <1>7, CloseItemStep DEF CloseItem, args, Fixed
<1>8. CASE Swap
  BY <1>8, SwapStep DEF Swap, args, Fixed
<1>9. CASE Answer
  BY <1>9, AnswerStep DEF Answer, args, Fixed
<1>10. CASE OutOfMemory
  BY <1>10, OutOfMemoryStep DEF OutOfMemory, args, Fixed
<1>11. CASE Returned \/ UNCHANGED vars
  BY <1>11, StutterStep DEF Returned
<1> QED
  BY <1>1, <1>2, <1>3, <1>4, <1>5, <1>6, <1>7, <1>8, <1>9, <1>10, <1>11 DEF Next

-----------------------------------------------------------------------------
(* The theorems.                                                           *)

\* The second simulation arrives wherever the first one did: nfa_capture_span
\* never turns a match into RX_NOMATCH, and its sets are the live states, each
\* once.
THEOREM MatchIsNotLost == Spec => []NothingLost
<1>1. Init => Inv
  BY InvInit
<1>2. Inv /\ [Next]_vars => Inv'
  BY InvStep
<1>3. Inv => NothingLost
  BY InvMeans
<1> QED
  BY <1>1, <1>2, <1>3, PTL DEF Spec

\* The positions returned are those of one path from the start of the match to
\* its end, whatever the order of items and transitions.
THEOREM GroupsOfOnePath == Spec => []GroupsAreOfOnePath
<1>1. Init => Inv
  BY InvInit
<1>2. Inv /\ [Next]_vars => Inv'
  BY InvStep
<1>3. Inv => GroupsAreOfOnePath
  BY InvMeans
<1> QED
  BY <1>1, <1>2, <1>3, PTL DEF Spec
=============================================================================
