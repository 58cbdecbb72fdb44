--------------------------- MODULE AutomatonProofs ---------------------------
(***************************************************************************)
(* The two recursive functions of Automaton mean what they say: Closure is *)
(* the least set of states that contains its seeds and that no input-free  *)
(* transition leaves, and Live obeys the equation that defines it.         *)
(***************************************************************************)
EXTENDS Automaton, TLAPS, FiniteSetTheorems, WellFoundedInduction

\* Induction over the naturals for a set of them.
LEMMA NatSetInduction ==
  ASSUME NEW S, 0 \in S, \A k \in Nat : k \in S => k + 1 \in S
  PROVE  Nat \subseteq S
<1> DEFINE Bad == {k \in Nat : k \notin S}
           Below(k) == 0 .. k - 1
           Image == {Below(k) : k \in Bad}
<1> SUFFICES ASSUME Bad # {} PROVE FALSE
  OBVIOUS
<1>1. Image \subseteq FiniteSubsetsOf(Nat) /\ Image # {}
  <2>1. \A k \in Nat : k - 1 \in Int /\ Below(k) \subseteq Nat
    OBVIOUS
  <2>2. \A k \in Nat : IsFiniteSet(Below(k))
    BY <2>1, FS_Interval
  <2> QED
    BY <2>1, <2>2 DEF FiniteSubsetsOf
<1>2. PICK X \in Image : \A Y \in Image : <<Y, X>> \notin StrictSubsetOrdering(Nat)
  <2> HIDE DEF Image
  <2> QED BY <1>1, FS_StrictSubsetOrderingWellFounded, WFMin, Zenon
<1>3. PICK m \in Bad : X = Below(m)
  OBVIOUS
<1>4. m # 0 /\ m - 1 \in Nat /\ m = (m - 1) + 1
  BY <1>3
<1>5. m - 1 \in Bad
  BY <1>3, <1>4
<1>6. Below(m - 1) \subseteq Below(m) /\ m - 1 \in Below(m) /\ m - 1 \notin Below(m - 1)
  BY <1>4
<1>7. <<Below(m - 1), Below(m)>> \in StrictSubsetOrdering(Nat)
  BY <1>4, <1>6 DEF StrictSubsetOrdering
<1> QED
  BY <1>2, <1>3, <1>5, <1>7

\* A set of naturals that is not empty has a least element.
LEMMA NatLeast ==
  ASSUME NEW S \in SUBSET Nat, NEW m \in S
  PROVE  \E k \in S : \A l \in S : k <= l
<1> SUFFICES ASSUME \A k \in S : \E l \in S : l < k PROVE FALSE
  OBVIOUS
<1> DEFINE Free == {k \in Nat : \A l \in 0 .. k : l \notin S}
<1>1. 0 \in Free
  OBVIOUS
<1>2. ASSUME NEW k \in Nat, k \in Free PROVE k + 1 \in Free
  <2>1. k + 1 \notin S
    <3> SUFFICES ASSUME k + 1 \in S PROVE FALSE
      OBVIOUS
    <3>1. PICK l \in S : l < k + 1
      OBVIOUS
    <3>2. l \in 0 .. k
      BY <3>1
    <3> QED
      BY <1>2, <3>2
  <2>2. \A l \in 0 .. k + 1 : l = k + 1 \/ l \in 0 .. k
    OBVIOUS
  <2> QED
    BY <1>2, <2>1, <2>2
<1>3. m \in Free
  <2> HIDE DEF Free
  <2> QED BY <1>1, <1>2, NatSetInduction
<1> QED
  BY <1>3

-----------------------------------------------------------------------------
(* Sets that grow until nothing is new: the recursive function f, whose one *)
(* round is F, on the subsets of S.                                         *)
GrowsBy(S, F, f) ==
  f = [T \in SUBSET S |-> IF F[T] = T THEN T ELSE f[F[T]]]

\* A round takes nothing away, and gives no less to a larger set.
IsRound(S, F) ==
  /\ IsFiniteSet(S) /\ F \in [SUBSET S -> SUBSET S]
  /\ \A T \in SUBSET S : T \subseteq F[T]
  /\ \A T, U \in SUBSET S : T \subseteq U => F[T] \subseteq F[U]

\* The least set that contains T and in which a round finds nothing new.
Least(S, F, T) ==
  {x \in S : \A U \in SUBSET S : T \subseteq U /\ F[U] = U => x \in U}

\* A round does not change it.
LEMMA LeastRound ==
  ASSUME NEW S, NEW F, IsRound(S, F), NEW T \in SUBSET S
  PROVE  /\ F[T] = T => Least(S, F, T) = T
         /\ Least(S, F, F[T]) = Least(S, F, T)
<1>1. /\ F[T] \in SUBSET S /\ T \subseteq F[T]
      /\ \A U \in SUBSET S : T \subseteq U => F[T] \subseteq F[U]
  BY DEF IsRound
<1>2. ASSUME NEW U \in SUBSET S, T \subseteq U, F[U] = U PROVE F[T] \subseteq U
  BY <1>1, <1>2
<1> QED
  BY <1>1, <1>2 DEF Least

\* The recursion has a solution: the least such set.
LEMMA GrowsExists ==
  ASSUME NEW S, NEW F, IsRound(S, F)
  PROVE  \E f : GrowsBy(S, F, f)
<1> DEFINE f == [T \in SUBSET S |-> Least(S, F, T)]
<1>1. ASSUME NEW T \in SUBSET S
      PROVE  Least(S, F, T) = IF F[T] = T THEN T ELSE f[F[T]]
  <2>1. F[T] \in SUBSET S
    BY DEF IsRound
  <2> QED
    BY <2>1, LeastRound
<1>2. GrowsBy(S, F, f)
  BY <1>1, Zenon DEF GrowsBy
<1> QED
  BY <1>2

\* Every solution is: on a largest set where it were not, one more round would
\* give a larger one.
LEMMA GrowsLeast ==
  ASSUME NEW S, NEW F, IsRound(S, F), NEW f, GrowsBy(S, F, f), NEW I \in SUBSET S
  PROVE  f[I] = Least(S, F, I)
<1> DEFINE Bad == {T \in SUBSET S : f[T] # Least(S, F, T)}
           Rest(T) == S \ T
           Image == {Rest(T) : T \in Bad}
<1> SUFFICES ASSUME Bad # {} PROVE FALSE
  OBVIOUS
<1>1. Image \subseteq SUBSET S /\ Image # {}
  OBVIOUS
<1>2. IsWellFoundedOn(StrictSubsetOrdering(S), SUBSET S)
  BY FS_FiniteSubsetsOfFinite, FS_StrictSubsetOrderingWellFounded DEF IsRound
<1>3. PICK X \in Image : \A Y \in Image : <<Y, X>> \notin StrictSubsetOrdering(S)
  <2> HIDE DEF Image
  <2> QED BY <1>1, <1>2, WFMin, Zenon
<1>4. PICK T \in Bad : X = Rest(T)
  OBVIOUS
<1> DEFINE U == F[T]
<1>5. U \in SUBSET S /\ T \subseteq U
  BY <1>4 DEF IsRound
<1>6. f[T] = IF U = T THEN T ELSE f[U]
  BY <1>4 DEF GrowsBy
<1>7. U # T
  BY <1>4, <1>6, LeastRound
<1>8. U \notin Bad
  <2>1. Rest(U) \subseteq Rest(T) /\ Rest(U) # Rest(T)
    BY <1>5, <1>7
  <2>2. <<Rest(U), Rest(T)>> \in StrictSubsetOrdering(S)
    BY <2>1 DEF StrictSubsetOrdering
  <2> QED
    BY <2>2, <1>3, <1>4
<1>9. f[U] = Least(S, F, U)
  BY <1>5, <1>8
<1> QED
  BY <1>4, <1>6, <1>7, <1>9, LeastRound

\* The least such set contains T, and a round finds nothing new in it.
LEMMA LeastFacts ==
  ASSUME NEW S, NEW F, IsRound(S, F), NEW T \in SUBSET S
  PROVE  LET L == Least(S, F, T) IN
         /\ L \in SUBSET S /\ T \subseteq L /\ F[L] = L
         /\ \A U \in SUBSET S : T \subseteq U /\ F[U] = U => L \subseteq U
<1> DEFINE L == Least(S, F, T)
<1>1. L \in SUBSET S /\ T \subseteq L
  BY DEF Least
<1>2. \A U \in SUBSET S : T \subseteq U /\ F[U] = U => L \subseteq U
  BY DEF Least
<1>3. \A U \in SUBSET S : T \subseteq U /\ F[U] = U => F[L] \subseteq U
  BY <1>1, <1>2 DEF IsRound
<1>4. F[L] \in SUBSET S /\ L \subseteq F[L]
  BY <1>1 DEF IsRound
<1>5. F[L] \subseteq L
  BY <1>3, <1>4 DEF Least
<1> QED
  BY <1>1, <1>2, <1>4, <1>5

-----------------------------------------------------------------------------
(* T is closed when no transition that needs no input leaves it. *)
Closed(n, T, b, e) == \A q \in T : EpsTargets(n, q, b, e) \subseteq T

\* The texts are sequences of bytes, the empty one among them.
LEMMA TextsType == Texts \subseteq Seq(Byte) /\ <<>> \in Texts
<1>1. Texts \subseteq Seq(Byte)
  BY DEF Texts
<1>2. <<>> \in [1 .. 0 -> Byte] /\ 0 \in 0 .. MaxTextLen
  BY AutomatonAssumption
<1> QED
  BY <1>1, <1>2 DEF Texts

\* Spreading adds states of the automaton and takes none away.
LEMMA SpreadType ==
  ASSUME NEW n, CanBuild(n), NEW T \in SUBSET State(n), NEW b, NEW e
  PROVE  /\ Spread(n, T, b, e) \in SUBSET State(n)
         /\ T \subseteq Spread(n, T, b, e)
BY DEF CanBuild, Spread, EpsTargets

\* Spreading is at its end exactly when the set is closed.
LEMMA SpreadClosed ==
  ASSUME NEW n, NEW T, NEW b, NEW e
  PROVE  Spread(n, T, b, e) = T <=> Closed(n, T, b, e)
BY DEF Spread, Closed

\* A byte leads to states of the automaton, as dfa_can_build demands.
LEMMA MoveType ==
  ASSUME NEW n, CanBuild(n), NEW T \in SUBSET State(n), NEW c
  PROVE  Move(n, T, c) \in SUBSET State(n)
BY DEF CanBuild, Move, ByteTargets

\* The states of an automaton are finitely many, so that spreading ends.
LEMMA StateFinite ==
  ASSUME NEW n, CanBuild(n)
  PROVE  IsFiniteSet(State(n))
<1>1. 0 \in Int /\ n.len - 1 \in Int
  BY DEF CanBuild
<1> QED
  BY <1>1, FS_Interval, Zenon DEF State

\* One round of the closure loop.
Round(n, b, e) == [T \in SUBSET State(n) |-> Spread(n, T, b, e)]

\* It is a round in the sense above.
LEMMA RoundFacts ==
  ASSUME NEW n, CanBuild(n), NEW b, NEW e
  PROVE  IsRound(State(n), Round(n, b, e))
<1>1. \A T \in SUBSET State(n) : Round(n, b, e)[T] = Spread(n, T, b, e)
  BY DEF Round
<1>2. Round(n, b, e) \in [SUBSET State(n) -> SUBSET State(n)]
  BY SpreadType DEF Round
<1>3. \A T, U \in SUBSET State(n) : T \subseteq U =>
        Spread(n, T, b, e) \subseteq Spread(n, U, b, e)
  BY DEF Spread
<1> QED
  BY <1>1, <1>2, <1>3, SpreadType, StateFinite DEF IsRound

\* What Closure returns: epsilon_closure adds to its seeds exactly the states
\* that input-free transitions lead to.
THEOREM ClosureLeast ==
  ASSUME NEW n, CanBuild(n), NEW S \in SUBSET State(n), NEW b, NEW e
  PROVE  /\ Closure(n, S, b, e) \in SUBSET State(n)
         /\ S \subseteq Closure(n, S, b, e)
         /\ Closed(n, Closure(n, S, b, e), b, e)
         /\ \A U \in SUBSET State(n) :
              S \subseteq U /\ Closed(n, U, b, e) => Closure(n, S, b, e) \subseteq U
<1> DEFINE F == Round(n, b, e)
           Grows(g) == g = [T \in SUBSET State(n) |->
                              IF Spread(n, T, b, e) = T THEN T ELSE g[Spread(n, T, b, e)]]
           f == CHOOSE g : Grows(g)
<1>1. IsRound(State(n), F) /\ \A T \in SUBSET State(n) : F[T] = Spread(n, T, b, e)
  BY RoundFacts DEF Round
<1> HIDE DEF F
<1>2. \A g : Grows(g) <=> GrowsBy(State(n), F, g)
  <2> TAKE g
  <2>1. [T \in SUBSET State(n) |->
           IF Spread(n, T, b, e) = T THEN T ELSE g[Spread(n, T, b, e)]]
        = [T \in SUBSET State(n) |-> IF F[T] = T THEN T ELSE g[F[T]]]
    BY <1>1, Zenon
  <2> QED
    BY <2>1, Zenon DEF GrowsBy
<1>3. Closure(n, S, b, e) = f[S]
  BY Zenon DEF Closure
<1> HIDE DEF Grows
<1>4. Grows(f)
  BY <1>1, <1>2, GrowsExists, Zenon
<1>5. Closure(n, S, b, e) = Least(State(n), F, S)
  <2> HIDE DEF f
  <2> QED BY <1>1, <1>2, <1>3, <1>4, GrowsLeast
<1>6. \A U \in SUBSET State(n) : F[U] = U <=> Closed(n, U, b, e)
  BY <1>1, SpreadClosed
<1> QED
  BY <1>1, <1>5, <1>6, LeastFacts

-----------------------------------------------------------------------------
(* The two branches of Live. *)
LiveFirst(n, t, s) == Closure(n, {n.start}, s = 0, s = Len(t))
LiveStep(n, t, T, p) == Closure(n, Move(n, T, t[p]), FALSE, p = Len(t))

\* f obeys the equation of Live up to position m.
Steps(n, t, s, f, m) ==
  f = [p \in s .. m |->
         IF p = s THEN LiveFirst(n, t, s) ELSE LiveStep(n, t, f[p - 1], p)]

\* A solution of the equation of Live can be extended by one position.
LEMMA StepsExtend ==
  ASSUME NEW n, NEW t, NEW s \in Nat, NEW m \in Nat, s <= m,
         NEW f, Steps(n, t, s, f, m)
  PROVE  \E g : Steps(n, t, s, g, m + 1)
<1> DEFINE g == [p \in s .. m + 1 |->
                   IF p = m + 1 THEN LiveStep(n, t, f[m], m + 1) ELSE f[p]]
<1>1. ASSUME NEW p \in s .. m + 1
      PROVE  g[p] = IF p = s THEN LiveFirst(n, t, s) ELSE LiveStep(n, t, g[p - 1], p)
  <2>1. CASE p = m + 1
    <3>1. p # s /\ p - 1 = m /\ m \in s .. m + 1 /\ m # m + 1
      BY <2>1
    <3>2. g[p - 1] = f[m]
      BY <3>1
    <3> QED
      BY <2>1, <3>1, <3>2
  <2>2. CASE p = s
    <3>1. p \in s .. m /\ p # m + 1
      BY <2>2
    <3>2. g[p] = f[p]
      BY <3>1
    <3> QED
      BY <2>2, <3>1, <3>2 DEF Steps
  <2>3. CASE p # s /\ p # m + 1
    <3>1. p \in s .. m /\ p - 1 \in s .. m /\ p - 1 \in s .. m + 1 /\ p - 1 # m + 1
      BY <2>3
    <3>2. g[p] = f[p] /\ g[p - 1] = f[p - 1]
      BY <3>1, <2>3
    <3> QED
      BY <2>3, <3>1, <3>2 DEF Steps
  <2> QED
    BY <2>1, <2>2, <2>3
<1>2. Steps(n, t, s, g, m + 1)
  BY <1>1 DEF Steps
<1> QED
  BY <1>2

\* The equation of Live has a solution up to any position.
LEMMA StepsExist ==
  ASSUME NEW n, NEW t, NEW s \in Nat, NEW m \in Nat, s <= m
  PROVE  \E f : Steps(n, t, s, f, m)
<1> DEFINE Good == {k \in Nat : \E f : Steps(n, t, s, f, s + k)}
<1>1. 0 \in Good
  <2>1. Steps(n, t, s, [p \in s .. s |-> LiveFirst(n, t, s)], s)
    BY DEF Steps
  <2> QED
    BY <2>1
<1>2. \A k \in Nat : k \in Good => k + 1 \in Good
  <2> SUFFICES ASSUME NEW k \in Nat, NEW f, Steps(n, t, s, f, s + k)
               PROVE  \E g : Steps(n, t, s, g, s + (k + 1))
    OBVIOUS
  <2>1. \E g : Steps(n, t, s, g, (s + k) + 1)
    BY StepsExtend
  <2> QED
    BY <2>1
<1>3. m - s \in Good
  <2> HIDE DEF Good
  <2> QED BY <1>1, <1>2, NatSetInduction
<1>4. s + (m - s) = m
  OBVIOUS
<1> QED
  BY <1>3, <1>4

\* The states alive at a position follow from those alive one byte before.
LEMMA LiveEquation ==
  ASSUME NEW r \in Regex, NEW t \in Seq(Byte), NEW s \in 0 .. Len(t)
  PROVE  /\ Live(r, t, s)[s] = LiveFirst(Nfa[r], t, s)
         /\ \A p \in s + 1 .. Len(t) :
              Live(r, t, s)[p] = LiveStep(Nfa[r], t, Live(r, t, s)[p - 1], p)
<1> DEFINE n == Nfa[r]
           f == CHOOSE f : Steps(n, t, s, f, Len(t))
<1>1. Len(t) \in Nat /\ s \in Nat /\ s <= Len(t)
  OBVIOUS
<1>2. \E g : Steps(n, t, s, g, Len(t))
  <2> HIDE DEF n
  <2> QED BY <1>1, StepsExist
<1>3. Steps(n, t, s, f, Len(t))
  BY <1>2, Zenon
<1>4. Live(r, t, s) = f
  BY Zenon DEF Live, Steps, LiveFirst, LiveStep
<1> HIDE DEF f, n
<1>5. f[s] = LiveFirst(n, t, s)
  BY <1>1, <1>3 DEF Steps
<1>6. \A p \in s + 1 .. Len(t) : f[p] = LiveStep(n, t, f[p - 1], p)
  BY <1>1, <1>3 DEF Steps
<1> QED
  BY <1>4, <1>5, <1>6 DEF n

\* Both branches of the equation of Live yield states of the automaton.
LEMMA LiveBranches ==
  ASSUME NEW n, CanBuild(n), NEW t, NEW s, NEW p, NEW T \in SUBSET State(n)
  PROVE  /\ LiveFirst(n, t, s) \in SUBSET State(n)
         /\ LiveStep(n, t, T, p) \in SUBSET State(n)
         /\ T = {} => LiveStep(n, t, T, p) = {}
<1>1. {n.start} \in SUBSET State(n) /\ Move(n, T, t[p]) \in SUBSET State(n)
  BY MoveType DEF CanBuild
<1> DEFINE S0 == {n.start}
           M == Move(n, T, t[p])
<1> HIDE DEF S0, M
<1>2. LiveFirst(n, t, s) = Closure(n, S0, s = 0, s = Len(t))
  BY Zenon DEF LiveFirst, S0
<1>3. LiveStep(n, t, T, p) = Closure(n, M, FALSE, p = Len(t))
  BY Zenon DEF LiveStep, M
<1>4. S0 \in SUBSET State(n) /\ M \in SUBSET State(n)
  BY <1>1 DEF S0, M
<1>5. LiveFirst(n, t, s) \in SUBSET State(n)
  <2>1. \A b, e : Closure(n, S0, b, e) \in SUBSET State(n)
    BY <1>4, ClosureLeast
  <2> QED
    BY <1>2, <2>1
<1>6. LiveStep(n, t, T, p) \in SUBSET State(n)
  <2>1. \A b, e : Closure(n, M, b, e) \subseteq State(n)
    BY <1>4, ClosureLeast
  <2>2. Closure(n, M, FALSE, p = Len(t)) \subseteq State(n)
    BY <2>1, Zenon
  <2> QED
    BY <1>3, <2>2
<1>7. ASSUME T = {} PROVE LiveStep(n, t, T, p) = {}
  <2>1. {} \in SUBSET State(n) /\ M \subseteq {}
    BY <1>7 DEF Move, M
  <2>2. \A b, e : Closed(n, {}, b, e)
    BY DEF Closed
  <2>3. \A b, e : Closure(n, M, b, e) \subseteq {}
    BY <1>4, <2>1, <2>2, ClosureLeast
  <2> QED
    BY <1>3, <2>3
<1> QED
  BY <1>5, <1>6, <1>7

\* Only states of the automaton are alive, at every position.
LEMMA LiveType ==
  ASSUME NEW r \in Regex, NEW t \in Seq(Byte), NEW s \in 0 .. Len(t),
         NEW p \in s .. Len(t)
  PROVE  Live(r, t, s)[p] \in SUBSET State(Nfa[r])
<1> DEFINE n == Nfa[r]
           L == Live(r, t, s)
           Good == {k \in Nat : s + k <= Len(t) => L[s + k] \in SUBSET State(n)}
<1>1. CanBuild(n)
  BY AutomatonAssumption
<1>2. 0 \in Good
  <2>1. L[s] = LiveFirst(n, t, s) /\ s + 0 = s
    BY LiveEquation
  <2>2. LiveFirst(n, t, s) \in SUBSET State(n)
    BY <1>1, LiveBranches
  <2> HIDE DEF L, n
  <2> QED
    BY <2>1, <2>2
<1>3. ASSUME NEW k \in Nat, k \in Good PROVE k + 1 \in Good
  <2> SUFFICES ASSUME s + (k + 1) <= Len(t) PROVE L[s + (k + 1)] \in SUBSET State(n)
    OBVIOUS
  <2>1. s + (k + 1) \in s + 1 .. Len(t) /\ (s + (k + 1)) - 1 = s + k
    OBVIOUS
  <2>2. L[s + (k + 1)] = LiveStep(n, t, L[s + k], s + (k + 1))
    BY <2>1, LiveEquation
  <2>3. L[s + k] \in SUBSET State(n)
    BY <1>3
  <2> HIDE DEF L, n
  <2> QED
    BY <1>1, <2>2, <2>3, LiveBranches
<1>4. p - s \in Good
  <2> HIDE DEF Good
  <2> QED BY <1>2, <1>3, NatSetInduction
<1> QED
  BY <1>4

\* Nothing comes back to life.
LEMMA LiveDead ==
  ASSUME NEW r \in Regex, NEW t \in Seq(Byte), NEW s \in 0 .. Len(t),
         NEW p \in s .. Len(t), Live(r, t, s)[p] = {}, NEW q \in p .. Len(t)
  PROVE  Live(r, t, s)[q] = {}
<1> DEFINE n == Nfa[r]
           L == Live(r, t, s)
           Good == {k \in Nat : p + k <= Len(t) => L[p + k] = {}}
<1>1. CanBuild(n)
  BY AutomatonAssumption
<1>2. 0 \in Good
  OBVIOUS
<1>3. ASSUME NEW k \in Nat, k \in Good PROVE k + 1 \in Good
  <2> SUFFICES ASSUME p + (k + 1) <= Len(t) PROVE L[p + (k + 1)] = {}
    OBVIOUS
  <2>1. p + (k + 1) \in s + 1 .. Len(t) /\ (p + (k + 1)) - 1 = p + k
    OBVIOUS
  <2>2. L[p + (k + 1)] = LiveStep(n, t, L[p + k], p + (k + 1))
    BY <2>1, LiveEquation
  <2>3. L[p + k] = {}
    BY <1>3
  <2> QED
    BY <1>1, <2>2, <2>3, LiveBranches
<1>4. q - p \in Good
  <2> HIDE DEF Good
  <2> QED BY <1>2, <1>3, NatSetInduction
<1> QED
  BY <1>4

-----------------------------------------------------------------------------
(* The sets of live states as the engines build them: a state is alive only *)
(* if it is the start state, or an input-free transition or the last byte   *)
(* leads to it from a live state (LiveLeast), and all of these are alive    *)
(* (LiveClosed).                                                            *)
EpsAt(n, q, t, p) == EpsTargets(n, q, p = 0, p = Len(t))

\* The step of Live is the least closed set that contains the moved set.
LEMMA LiveStepClosed ==
  ASSUME NEW n, CanBuild(n), NEW t, NEW p \in Nat \ {0}, NEW T \in SUBSET State(n)
  PROVE  /\ Move(n, T, t[p]) \subseteq LiveStep(n, t, T, p)
         /\ \A q \in LiveStep(n, t, T, p) :
              EpsAt(n, q, t, p) \subseteq LiveStep(n, t, T, p)
         /\ \A U \in SUBSET State(n) :
              /\ Move(n, T, t[p]) \subseteq U
              /\ \A q \in U : EpsAt(n, q, t, p) \subseteq U
              => LiveStep(n, t, T, p) \subseteq U
<1> DEFINE M == Move(n, T, t[p])
           e == p = Len(t)
           C == Closure(n, M, FALSE, e)
<1>1. M \in SUBSET State(n)
  BY MoveType
<1>2. \A q : EpsAt(n, q, t, p) = EpsTargets(n, q, FALSE, e)
  BY DEF EpsAt, EpsTargets, CanTake
<1>3. LiveStep(n, t, T, p) = C
  BY Zenon DEF LiveStep
<1>4. \A b : /\ M \subseteq Closure(n, M, b, e)
             /\ Closed(n, Closure(n, M, b, e), b, e)
             /\ \A U \in SUBSET State(n) :
                  M \subseteq U /\ Closed(n, U, b, e) => Closure(n, M, b, e) \subseteq U
  <2> HIDE DEF M, e
  <2> QED BY <1>1, ClosureLeast
<1>5. /\ M \subseteq C
      /\ Closed(n, C, FALSE, e)
      /\ \A U \in SUBSET State(n) : M \subseteq U /\ Closed(n, U, FALSE, e) => C \subseteq U
  <2> HIDE DEF M, e
  <2> QED BY <1>4, Zenon
<1>6. \A U : Closed(n, U, FALSE, e) <=> \A q \in U : EpsAt(n, q, t, p) \subseteq U
  <2> HIDE DEF e
  <2> QED BY <1>2 DEF Closed
<1> HIDE DEF C, e
<1> QED
  BY <1>3, <1>5, <1>6

\* The first set of Live is the least closed one with the start state.
LEMMA LiveFirstClosed ==
  ASSUME NEW n, CanBuild(n), NEW t, NEW s \in Nat
  PROVE  /\ n.start \in LiveFirst(n, t, s)
         /\ \A q \in LiveFirst(n, t, s) :
              EpsAt(n, q, t, s) \subseteq LiveFirst(n, t, s)
         /\ \A U \in SUBSET State(n) :
              /\ n.start \in U
              /\ \A q \in U : EpsAt(n, q, t, s) \subseteq U
              => LiveFirst(n, t, s) \subseteq U
<1> DEFINE S == {n.start}
           b == s = 0
           e == s = Len(t)
           C == Closure(n, S, b, e)
<1>1. S \in SUBSET State(n)
  BY DEF CanBuild
<1>2. LiveFirst(n, t, s) = C
  BY Zenon DEF LiveFirst
<1>3. /\ S \subseteq C
      /\ Closed(n, C, b, e)
      /\ \A U \in SUBSET State(n) : S \subseteq U /\ Closed(n, U, b, e) => C \subseteq U
  <2> HIDE DEF S, b, e
  <2> QED BY <1>1, ClosureLeast
<1>4. \A U : Closed(n, U, b, e) <=> \A q \in U : EpsAt(n, q, t, s) \subseteq U
  BY Zenon DEF Closed, EpsAt
<1> HIDE DEF C, b, e
<1> QED
  BY <1>2, <1>3, <1>4

\* What a live state leads to, without input or with a byte, is alive.
LEMMA LiveClosed ==
  ASSUME NEW r \in Regex, NEW t \in Seq(Byte), NEW s \in 0 .. Len(t)
  PROVE  LET n == Nfa[r]  L == Live(r, t, s) IN
         /\ n.start \in L[s]
         /\ \A p \in s .. Len(t) : \A q \in L[p] : EpsAt(n, q, t, p) \subseteq L[p]
         /\ \A p \in s .. Len(t) - 1 : \A q \in L[p] :
              ByteTargets(n, q, t[p + 1]) \subseteq L[p + 1]
<1> DEFINE n == Nfa[r]
           L == Live(r, t, s)
<1>1. CanBuild(n) /\ \A p \in s .. Len(t) : L[p] \in SUBSET State(n)
  BY AutomatonAssumption, LiveType
<1>2. L[s] = LiveFirst(n, t, s)
  BY LiveEquation
<1>3. ASSUME NEW p \in s + 1 .. Len(t)
      PROVE  L[p] = LiveStep(n, t, L[p - 1], p) /\ L[p - 1] \in SUBSET State(n)
  <2>1. p - 1 \in s .. Len(t)
    OBVIOUS
  <2> QED
    BY <1>1, <2>1, LiveEquation
<1> HIDE DEF n, L
<1>4. n.start \in L[s]
  BY <1>1, <1>2, LiveFirstClosed
<1>5. ASSUME NEW p \in s .. Len(t), NEW q \in L[p] PROVE EpsAt(n, q, t, p) \subseteq L[p]
  <2>1. CASE p = s
    BY <2>1, <1>1, <1>2, <1>5, LiveFirstClosed
  <2>2. CASE p # s
    <3>1. p \in s + 1 .. Len(t) /\ p \in Nat \ {0}
      BY <2>2
    <3> QED
      BY <3>1, <1>1, <1>3, <1>5, LiveStepClosed
  <2> QED
    BY <2>1, <2>2
<1>6. ASSUME NEW p \in s .. Len(t) - 1, NEW q \in L[p]
      PROVE  ByteTargets(n, q, t[p + 1]) \subseteq L[p + 1]
  <2>1. p + 1 \in s + 1 .. Len(t) /\ (p + 1) - 1 = p /\ p + 1 \in Nat \ {0}
    OBVIOUS
  <2>2. L[p + 1] = LiveStep(n, t, L[p], p + 1) /\ L[p] \in SUBSET State(n)
    BY <2>1, <1>3
  <2>3. Move(n, L[p], t[p + 1]) \subseteq L[p + 1]
    BY <2>1, <2>2, <1>1, LiveStepClosed
  <2> QED
    BY <2>3, <1>6 DEF Move
<1> QED
  BY <1>4, <1>5, <1>6 DEF n, L

\* A set that is closed and contains what the byte leads to contains all that
\* is alive: add_closure, which adds nothing else, cannot fall short of it.
LEMMA LiveLeast ==
  ASSUME NEW r \in Regex, NEW t \in Seq(Byte), NEW s \in 0 .. Len(t),
         NEW U \in SUBSET State(Nfa[r])
  PROVE  LET n == Nfa[r]  L == Live(r, t, s) IN
         /\ /\ n.start \in U
            /\ \A q \in U : EpsAt(n, q, t, s) \subseteq U
            => L[s] \subseteq U
         /\ \A p \in s .. Len(t) - 1 :
              /\ \A q \in L[p] : ByteTargets(n, q, t[p + 1]) \subseteq U
              /\ \A q \in U : EpsAt(n, q, t, p + 1) \subseteq U
              => L[p + 1] \subseteq U
<1> DEFINE n == Nfa[r]
           L == Live(r, t, s)
<1>1. CanBuild(n) /\ \A p \in s .. Len(t) : L[p] \in SUBSET State(n)
  BY AutomatonAssumption, LiveType
<1>2. L[s] = LiveFirst(n, t, s) /\ U \in SUBSET State(n)
  BY LiveEquation
<1>3. \A p \in s + 1 .. Len(t) : L[p] = LiveStep(n, t, L[p - 1], p)
  BY LiveEquation
<1> HIDE DEF n, L
<1>4. ASSUME n.start \in U, \A q \in U : EpsAt(n, q, t, s) \subseteq U
      PROVE  L[s] \subseteq U
  BY <1>1, <1>2, <1>4, LiveFirstClosed
<1>5. ASSUME NEW p \in s .. Len(t) - 1,
             \A q \in L[p] : ByteTargets(n, q, t[p + 1]) \subseteq U,
             \A q \in U : EpsAt(n, q, t, p + 1) \subseteq U
      PROVE  L[p + 1] \subseteq U
  <2>1. /\ p + 1 \in s + 1 .. Len(t) /\ (p + 1) - 1 = p /\ p + 1 \in Nat \ {0}
        /\ p \in s .. Len(t)
    OBVIOUS
  <2>2. L[p + 1] = LiveStep(n, t, L[p], p + 1) /\ L[p] \in SUBSET State(n)
    BY <2>1, <1>1, <1>3
  <2>3. Move(n, L[p], t[p + 1]) \subseteq U
    BY <1>5 DEF Move
  <2> QED
    BY <2>1, <2>2, <2>3, <1>1, <1>2, <1>5, LiveStepClosed
<1> QED
  BY <1>4, <1>5 DEF n, L
=============================================================================
