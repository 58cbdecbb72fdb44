---------------------------- MODULE ParserProofs ----------------------------
(***************************************************************************)
(* rx_parse_pattern owns its nodes: whichever allocation fails, and        *)
(* whatever error ends the descent, no node is freed twice or used after   *)
(* it was freed, and none is lost but in the one place that                *)
(* OnlyGroupsLeak names.  The depth of the groups is counted along every   *)
(* path.  What is refused is refused for its first error, by the reference *)
(* of PatternErrors.  For every sequence of tokens and every limit.        *)
(***************************************************************************)
EXTENDS Parser, TLAPS, FiniteSetTheorems, WellFoundedInduction

-----------------------------------------------------------------------------
(* Nodes: what hangs below one, in any heap whose nodes are older than     *)
(* their parents.                                                          *)

\* A heap: a node is named by a number, its children are smaller.
IsHeap(hp) ==
  /\ DOMAIN hp \subseteq Nat \ {0}
  /\ \A y \in DOMAIN hp :
       /\ hp[y].left \in DOMAIN hp \cup {Null} /\ hp[y].left < y
       /\ hp[y].right \in DOMAIN hp \cup {Null} /\ hp[y].right < y

\* The recursion of Below.
Subs(hp, f) ==
  f = [y \in DOMAIN hp \cup {Null} |->
         IF y = Null THEN {} ELSE {y} \cup f[hp[y].left] \cup f[hp[y].right]]

BelowIn(hp, x) == (CHOOSE f : Subs(hp, f))[x]

\* x is a child of y.
Child(hp, x, y) == hp[y].left = x \/ hp[y].right = x

\* Below is the recursion in the heap of the parser.
LEMMA BelowIs == \A x : Below(x) = BelowIn(heap, x)
BY Zenon DEF Below, BelowIn, Subs

\* A set that is closed under taking children.
Downward(hp, U) ==
  \A y \in U : /\ hp[y].left \in U \cup {Null}
               /\ hp[y].right \in U \cup {Null}

\* The least one with x, none for no node.
Under(hp, x) ==
  {z \in DOMAIN hp : /\ x # Null
                     /\ \A U \in SUBSET DOMAIN hp : x \in U /\ Downward(hp, U) => z \in U}

\* The recursion has a solution.
LEMMA SubsExist ==
  ASSUME NEW hp, IsHeap(hp)
  PROVE  \E f : Subs(hp, f)
<1> DEFINE D == DOMAIN hp
           f == [y \in D \cup {Null} |-> Under(hp, y)]
<1>1. Under(hp, Null) = {} /\ Null \notin D
  BY DEF Under, IsHeap, Null
<1>2. ASSUME NEW y \in D
      PROVE  Under(hp, y) = {y} \cup Under(hp, hp[y].left) \cup Under(hp, hp[y].right)
  <2> DEFINE l == hp[y].left
             r == hp[y].right
             V == {y} \cup Under(hp, l) \cup Under(hp, r)
  <2>1. l \in D \cup {Null} /\ r \in D \cup {Null} /\ y # Null
    BY <1>1 DEF IsHeap
  <2>2. \A x \in D : x \in Under(hp, x)
    BY <1>1 DEF Under
  <2>3. \A x \in D \cup {Null} : Downward(hp, Under(hp, x))
    <3> SUFFICES ASSUME NEW x \in D \cup {Null}, NEW z \in Under(hp, x)
                 PROVE  /\ hp[z].left \in Under(hp, x) \cup {Null}
                        /\ hp[z].right \in Under(hp, x) \cup {Null}
      BY DEF Downward
    <3>1. z \in D
      BY DEF Under
    <3>2. hp[z].left \in D \cup {Null} /\ hp[z].right \in D \cup {Null}
      BY <3>1 DEF IsHeap
    <3>3. \A U \in SUBSET D : x \in U /\ Downward(hp, U) =>
            hp[z].left \in U \cup {Null} /\ hp[z].right \in U \cup {Null}
      BY DEF Under, Downward
    <3> QED
      BY <3>2, <3>3 DEF Under
  <2>4. V \in SUBSET D /\ y \in V
    BY DEF Under
  <2>5. Downward(hp, V)
    BY <2>1, <2>2, <2>3 DEF Downward
  <2>6. Under(hp, y) \subseteq V
    BY <2>4, <2>5 DEF Under
  <2>7. ASSUME NEW U \in SUBSET D, y \in U, Downward(hp, U) PROVE V \subseteq U
    <3>1. l \in U \cup {Null} /\ r \in U \cup {Null}
      BY <2>7 DEF Downward
    <3>2. Under(hp, l) \subseteq U /\ Under(hp, r) \subseteq U
      BY <1>1, <2>7, <3>1 DEF Under
    <3> QED
      BY <2>7, <3>2
  <2>8. V \subseteq Under(hp, y)
    BY <2>1, <2>4, <2>7 DEF Under
  <2> QED
    BY <2>6, <2>8
<1>3. \A y \in D : /\ f[y] = Under(hp, y)
                   /\ f[hp[y].left] = Under(hp, hp[y].left)
                   /\ f[hp[y].right] = Under(hp, hp[y].right)
  BY DEF IsHeap
<1>4. \A y \in D \cup {Null} :
        f[y] = IF y = Null THEN {} ELSE {y} \cup f[hp[y].left] \cup f[hp[y].right]
  BY <1>1, <1>2, <1>3
<1>5. f = [y \in D \cup {Null} |->
             IF y = Null THEN {} ELSE {y} \cup f[hp[y].left] \cup f[hp[y].right]]
  BY <1>4
<1> QED
  BY <1>5, Zenon DEF Subs

\* Induction over the names of nodes: what holds of a node if it holds of all
\* smaller ones holds of all.
LEMMA NameInduction ==
  ASSUME NEW S, \A n \in Nat : (\A m \in 0 .. n - 1 : m \in S) => n \in S
  PROVE  Nat \subseteq S
<1> DEFINE Bad == {n \in Nat : n \notin S}
           Smaller(n) == 0 .. n - 1
           Image == {Smaller(n) : n \in Bad}
<1> SUFFICES ASSUME Bad # {} PROVE FALSE
  OBVIOUS
<1>1. Image \subseteq FiniteSubsetsOf(Nat) /\ Image # {}
  <2>1. \A n \in Nat : n - 1 \in Int /\ Smaller(n) \subseteq Nat
    OBVIOUS
  <2>2. \A n \in Nat : IsFiniteSet(Smaller(n))
    BY <2>1, FS_Interval
  <2> QED
    BY <2>1, <2>2 DEF FiniteSubsetsOf
<1>2. PICK X \in Image : \A Y \in Image : <<Y, X>> \notin StrictSubsetOrdering(Nat)
  <2> HIDE DEF Image
  <2> QED BY <1>1, FS_StrictSubsetOrderingWellFounded, WFMin, Zenon
<1>3. PICK n \in Bad : X = Smaller(n)
  OBVIOUS
<1>4. PICK m \in 0 .. n - 1 : m \notin S
  OBVIOUS
<1>5. m \in Bad /\ n \in Nat /\ m < n
  BY <1>4
<1>6. /\ Smaller(m) \subseteq Smaller(n) /\ m \in Smaller(n) /\ m \notin Smaller(m)
      /\ Smaller(m) \in SUBSET Nat /\ Smaller(n) \in SUBSET Nat
  BY <1>5
<1>7. <<Smaller(m), Smaller(n)>> \in StrictSubsetOrdering(Nat)
  <2> HIDE DEF Smaller
  <2> QED BY <1>6 DEF StrictSubsetOrdering
<1> QED
  BY <1>2, <1>3, <1>5, <1>7

\* What is below a node: the node, with every node its children, and none but
\* the node that is not the child of another one.
LEMMA BelowFacts ==
  ASSUME NEW hp, IsHeap(hp), NEW x \in DOMAIN hp \cup {Null}
  PROVE  LET B == BelowIn(hp, x) IN
         /\ B \subseteq DOMAIN hp
         /\ x = Null => B = {}
         /\ x # Null => x \in B
         /\ Downward(hp, B)
         /\ \A z \in B : z = x \/ \E y \in B : Child(hp, z, y)
<1> DEFINE D == DOMAIN hp
           f == CHOOSE g : Subs(hp, g)
           Right(n) == LET B == f[n] IN
             /\ B \subseteq D /\ n \in B /\ Downward(hp, B)
             /\ \A z \in B : z = n \/ \E y \in B : Child(hp, z, y)
           Good == {n \in Nat : n \in D => Right(n)}
<1>1. Subs(hp, f)
  BY SubsExist, Zenon
<1>2. D \subseteq Nat \ {0} /\ Null = 0 /\ Null \notin D
  BY DEF IsHeap, Null
<1>3. f[Null] = {}
  <2> HIDE DEF f
  <2> QED BY <1>1, <1>2 DEF Subs
<1>4. \A n \in D : f[n] = {n} \cup f[hp[n].left] \cup f[hp[n].right]
  <2> HIDE DEF f
  <2> QED BY <1>1, <1>2 DEF Subs
<1> HIDE DEF f
<1>5. ASSUME NEW n \in Nat, \A m \in 0 .. n - 1 : m \in Good PROVE n \in Good
  <2> SUFFICES ASSUME n \in D PROVE Right(n)
    OBVIOUS
  <2> DEFINE l == hp[n].left
             r == hp[n].right
  <2>1. l \in D \cup {Null} /\ l \in 0 .. n - 1 /\ r \in D \cup {Null} /\ r \in 0 .. n - 1
    BY <1>2 DEF IsHeap
  <2>2. /\ l = Null \/ Right(l)
        /\ r = Null \/ Right(r)
    BY <1>5, <2>1
  <2> HIDE DEF l, r
  <2>3. f[n] = {n} \cup f[l] \cup f[r]
    BY <1>4 DEF l, r
  <2>4. /\ f[l] \subseteq D /\ f[r] \subseteq D
        /\ l \in f[l] \cup {Null} /\ r \in f[r] \cup {Null}
        /\ Downward(hp, f[l]) /\ Downward(hp, f[r])
    BY <1>3, <2>2 DEF Downward
  <2>5. Downward(hp, f[n])
    BY <2>3, <2>4 DEF Downward, l, r
  <2>6. ASSUME NEW z \in f[n], z # n PROVE \E y \in f[n] : Child(hp, z, y)
    <3>1. z = l \/ z = r => Child(hp, z, n)
      BY DEF Child, l, r
    <3>2. z \in f[l] /\ z # l => \E y \in f[l] : Child(hp, z, y)
      BY <1>3, <2>2
    <3>3. z \in f[r] /\ z # r => \E y \in f[r] : Child(hp, z, y)
      BY <1>3, <2>2
    <3> QED
      BY <2>3, <2>6, <3>1, <3>2, <3>3
  <2> QED
    BY <2>3, <2>4, <2>5, <2>6
<1>6. Nat \subseteq Good
  <2> HIDE DEF Good
  <2> QED BY <1>5, NameInduction
<1>7. BelowIn(hp, x) = f[x]
  BY Zenon DEF BelowIn, f
<1>8. x # Null => Right(x)
  BY <1>2, <1>6
<1> QED
  BY <1>2, <1>3, <1>7, <1>8 DEF Downward

-----------------------------------------------------------------------------
(* The forest: every node has at most one owner. *)

\* Who can hold a node: `tree', `ret', and `left' of the function i.
Holder == Nat \cup {-1}

Forest(H, hp) ==
  /\ IsHeap(hp) /\ H \in [Holder -> DOMAIN hp \cup {Null}]
  /\ \A h, k \in Holder : H[h] = H[k] /\ H[h] # Null => h = k
  /\ \A h \in Holder, y \in DOMAIN hp : H[h] # Null => ~ Child(hp, H[h], y)
  /\ \A x, y, z \in DOMAIN hp : Child(hp, z, x) /\ Child(hp, z, y) => x = y
  /\ \A y \in DOMAIN hp : hp[y].left = hp[y].right => hp[y].left = Null

\* The nodes that nobody owns.
Unowned(H, hp) ==
  {x \in DOMAIN hp : /\ \A h \in Holder : H[h] # x
                     /\ \A y \in DOMAIN hp : ~ Child(hp, x, y)}

\* A node passes from one variable to another.
Moved(H, h, k) ==
  [j \in Holder |-> IF j = k THEN H[h] ELSE IF j = h THEN Null ELSE H[j]]

\* The forest stays one, with the same nodes unowned.
LEMMA ForestMoved ==
  ASSUME NEW H, NEW hp, Forest(H, hp), NEW h \in Holder, NEW k \in Holder,
         h # k, H[k] = Null
  PROVE  /\ Forest(Moved(H, h, k), hp)
         /\ Unowned(Moved(H, h, k), hp) = Unowned(H, hp)
<1> DEFINE G == Moved(H, h, k)
<1>1. /\ G \in [Holder -> DOMAIN hp \cup {Null}]
      /\ G[k] = H[h] /\ G[h] = Null
      /\ \A j \in Holder : j # h /\ j # k => G[j] = H[j]
  BY DEF Forest, Moved
<1> HIDE DEF G
<1>2. Forest(G, hp)
  <2>1. \A i, j \in Holder : G[i] = G[j] /\ G[i] # Null => i = j
    BY <1>1 DEF Forest
  <2>2. \A j \in Holder : G[j] # Null => \E i \in Holder : G[j] = H[i]
    BY <1>1
  <2>3. \A j \in Holder, y \in DOMAIN hp : G[j] # Null => ~ Child(hp, G[j], y)
    BY <2>2 DEF Forest
  <2> QED
    BY <1>1, <2>1, <2>3 DEF Forest
<1>3. \A x \in DOMAIN hp : (\A j \in Holder : G[j] # x) <=> (\A j \in Holder : H[j] # x)
  BY <1>1 DEF IsHeap, Forest, Null
<1> QED
  BY <1>2, <1>3 DEF Unowned, G

\* Two trees, or one, or none, become the children of a new node.
Joined(H, h, k, m, n) ==
  [j \in Holder |-> IF j = m THEN n ELSE IF j \in {h, k} THEN Null ELSE H[j]]
Grown(hp, n, node) == [x \in DOMAIN hp \cup {n} |-> IF x = n THEN node ELSE hp[x]]

\* The forest stays one, with the same nodes unowned.
LEMMA ForestJoined ==
  ASSUME NEW H, NEW hp, Forest(H, hp), NEW h \in Holder, NEW k \in Holder, h # k,
         NEW m \in Holder, m \in {h, k} \/ H[m] = Null,
         NEW n \in Nat \ {0}, \A y \in DOMAIN hp : y < n,
         NEW node, node.left = H[h], node.right = H[k]
  PROVE  /\ Forest(Joined(H, h, k, m, n), Grown(hp, n, node))
         /\ Unowned(Joined(H, h, k, m, n), Grown(hp, n, node)) = Unowned(H, hp)
<1> DEFINE G == Joined(H, h, k, m, n)
           D == DOMAIN hp
           gr == Grown(hp, n, node)
<1>1. /\ D \subseteq Nat \ {0} /\ Null = 0 /\ n \notin D /\ n # Null
      /\ \A y \in D : hp[y].left \in D \cup {Null} /\ hp[y].right \in D \cup {Null}
      /\ H \in [Holder -> D \cup {Null}]
  BY DEF Forest, IsHeap, Null
<1>2. /\ DOMAIN gr = D \cup {n} /\ gr[n] = node /\ \A y \in D : gr[y] = hp[y]
  BY <1>1 DEF Grown
<1>3. /\ G \in [Holder -> D \cup {n, Null}]
      /\ G[m] = n
      /\ \A j \in Holder : j # m => G[j] # n
      /\ \A j \in Holder : j # m /\ j \in {h, k} => G[j] = Null
      /\ \A j \in Holder : j # m /\ j \notin {h, k} => G[j] = H[j]
  BY <1>1 DEF Joined
<1> HIDE DEF G, gr
<1>4. IsHeap(gr)
  <2>1. H[h] \in D \cup {Null} /\ H[k] \in D \cup {Null} /\ \A y \in D \cup {Null} : y < n
    BY <1>1
  <2> QED
    BY <1>1, <1>2, <2>1 DEF IsHeap, Forest
<1>5. \A x, y \in D : Child(gr, x, y) <=> Child(hp, x, y)
  BY <1>2 DEF Child
<1>6. \A x : Child(gr, x, n) <=> x = H[h] \/ x = H[k]
  BY <1>2 DEF Child
<1>7. \A y \in D \cup {n} : ~ Child(gr, n, y)
  BY <1>1, <1>2 DEF Child
<1>8. \A i, j \in Holder : G[i] = G[j] /\ G[i] # Null => i = j
  BY <1>1, <1>3 DEF Forest
<1>9. ASSUME NEW j \in Holder, NEW y \in D \cup {n}, G[j] # Null PROVE ~ Child(gr, G[j], y)
  <2>1. CASE j = m
    BY <1>3, <1>7, <2>1
  <2>2. CASE j # m
    <3>1. j \notin {h, k} /\ G[j] = H[j] /\ H[j] \in D
      BY <1>1, <1>3, <1>9, <2>2
    <3>2. y = n => ~ Child(gr, G[j], y)
      BY <1>1, <1>6, <3>1 DEF Forest
    <3>3. y \in D => ~ Child(gr, G[j], y)
      BY <1>1, <1>5, <3>1 DEF Forest
    <3> QED
      BY <3>2, <3>3
  <2> QED
    BY <2>1, <2>2
<1>10. ASSUME NEW x \in D \cup {n}, NEW y \in D \cup {n}, NEW z \in D \cup {n},
              Child(gr, z, x), Child(gr, z, y)
       PROVE  x = y
  <2>1. z \in D
    BY <1>7, <1>10
  <2>2. CASE x \in D /\ y \in D
    BY <1>5, <1>10, <2>1, <2>2 DEF Forest
  <2>3. ASSUME NEW v \in D, Child(gr, z, v), Child(gr, z, n) PROVE FALSE
    <3>1. Child(hp, z, v) /\ (z = H[h] \/ z = H[k]) /\ z # Null
      BY <1>1, <1>5, <1>6, <2>1, <2>3
    <3> QED
      BY <3>1 DEF Forest
  <2> QED
    BY <1>10, <2>2, <2>3
<1>11. \A y \in D \cup {n} : gr[y].left = gr[y].right => gr[y].left = Null
  BY <1>2 DEF Forest
<1>12. Forest(G, gr)
  BY <1>2, <1>3, <1>4, <1>8, <1>9, <1>10, <1>11 DEF Forest
<1>13. ASSUME NEW x \in D PROVE x \in Unowned(G, gr) <=> x \in Unowned(H, hp)
  <2>1. (\A y \in D \cup {n} : ~ Child(gr, x, y))
        <=> (\A y \in D : ~ Child(hp, x, y)) /\ x # H[h] /\ x # H[k]
    BY <1>5, <1>6
  <2>2. (\A j \in Holder : G[j] # x) /\ x # H[h] /\ x # H[k] <=> (\A j \in Holder : H[j] # x)
    BY <1>1, <1>3
  <2> QED
    BY <1>2, <2>1, <2>2 DEF Unowned
<1>14. n \notin Unowned(G, gr) /\ n \notin Unowned(H, hp)
  BY <1>1, <1>3 DEF Unowned
<1>15. Unowned(G, gr) \subseteq D \cup {n} /\ Unowned(H, hp) \subseteq D
  BY <1>2 DEF Unowned
<1> QED
  BY <1>12, <1>13, <1>14, <1>15 DEF G, gr

\* Trees are freed, with all that is below.
Freed(H, K) == [j \in Holder |-> IF j \in K THEN Null ELSE H[j]]
Gone(H, hp, K) == UNION {BelowIn(hp, H[j]) : j \in K}
Rest(hp, gone) == [x \in DOMAIN hp \ gone |-> hp[x]]

\* What is left is a forest, with the same nodes unowned.
LEMMA ForestFreed ==
  ASSUME NEW H, NEW hp, Forest(H, hp), NEW K \in SUBSET Holder
  PROVE  LET G == Freed(H, K)
             hq == Rest(hp, Gone(H, hp, K))
         IN  Forest(G, hq) /\ Unowned(G, hq) = Unowned(H, hp)
<1> DEFINE G == Freed(H, K)
           D == DOMAIN hp
           gone == Gone(H, hp, K)
           hq == Rest(hp, gone)
<1>1. /\ D \subseteq Nat \ {0} /\ Null = 0 /\ IsHeap(hp)
      /\ H \in [Holder -> D \cup {Null}]
  BY DEF Forest, IsHeap, Null
<1>2. ASSUME NEW z \in gone
      PROVE  /\ z \in D
             /\ hp[z].left \in gone \cup {Null} /\ hp[z].right \in gone \cup {Null}
             /\ (\E j \in K : z = H[j]) \/ (\E y \in gone : Child(hp, z, y))
  <2>1. PICK j \in K : z \in BelowIn(hp, H[j])
    BY DEF Gone
  <2>2. H[j] \in D \cup {Null} /\ BelowIn(hp, H[j]) \subseteq gone
    BY <1>1 DEF Gone
  <2> HIDE DEF gone
  <2>3. LET B == BelowIn(hp, H[j]) IN
        /\ B \subseteq D /\ Downward(hp, B)
        /\ z = H[j] \/ \E y \in B : Child(hp, z, y)
    BY <1>1, <2>1, <2>2, BelowFacts
  <2> QED
    BY <2>1, <2>2, <2>3 DEF Downward
<1>3. \A j \in K : H[j] # Null => H[j] \in gone
  <2> SUFFICES ASSUME NEW j \in K, H[j] # Null PROVE H[j] \in gone
    OBVIOUS
  <2>1. H[j] \in BelowIn(hp, H[j])
    BY <1>1, BelowFacts
  <2> QED
    BY <2>1 DEF Gone
<1> HIDE DEF gone
<1>4. gone \subseteq D
  BY <1>2
<1>5. \A j \in Holder \ K : H[j] \notin gone
  <2> SUFFICES ASSUME NEW j \in Holder \ K, H[j] \in gone PROVE FALSE
    OBVIOUS
  <2>1. H[j] \in D /\ H[j] # Null
    BY <1>1, <1>4
  <2>2. CASE \E k \in K : H[j] = H[k]
    BY <2>1, <2>2 DEF Forest
  <2>3. CASE \E y \in gone : Child(hp, H[j], y)
    BY <1>4, <2>1, <2>3 DEF Forest
  <2> QED
    BY <1>2, <2>2, <2>3
<1>6. ASSUME NEW y \in D \ gone, NEW z \in gone PROVE ~ Child(hp, z, y)
  <2> SUFFICES ASSUME Child(hp, z, y) PROVE FALSE
    OBVIOUS
  <2>1. z \in D /\ z # Null
    BY <1>1, <1>4
  <2>2. CASE \E k \in K : z = H[k]
    BY <2>1, <2>2 DEF Forest
  <2>3. CASE \E x \in gone : Child(hp, z, x)
    BY <1>4, <2>1, <2>3 DEF Forest
  <2> QED
    BY <1>2, <2>2, <2>3
<1>7. /\ DOMAIN hq = D \ gone
      /\ \A y \in D \ gone : hq[y] = hp[y]
  BY DEF Rest
<1>8. /\ G \in [Holder -> (D \ gone) \cup {Null}]
      /\ \A j \in K : G[j] = Null
      /\ \A j \in Holder \ K : G[j] = H[j]
  BY <1>1, <1>5 DEF Freed
<1> HIDE DEF G, hq
<1>9. IsHeap(hq)
  BY <1>1, <1>6, <1>7 DEF IsHeap, Child
<1>10. \A x : \A y \in D \ gone : Child(hq, x, y) <=> Child(hp, x, y)
  BY <1>7 DEF Child
<1>11. \A j, k \in Holder : G[j] = G[k] /\ G[j] # Null => j = k
  BY <1>8 DEF Forest
<1>12. \A j \in Holder, y \in D \ gone : G[j] # Null => ~ Child(hq, G[j], y)
  BY <1>8, <1>10 DEF Forest
<1>13. \A x, y, z \in D \ gone : Child(hq, z, x) /\ Child(hq, z, y) => x = y
  BY <1>10 DEF Forest
<1>14. \A y \in D \ gone : hq[y].left = hq[y].right => hq[y].left = Null
  BY <1>7 DEF Forest
<1>15. Forest(G, hq)
  BY <1>7, <1>8, <1>9, <1>11, <1>12, <1>13, <1>14 DEF Forest
<1>16. \A x \in gone : x \notin Unowned(H, hp)
  BY <1>2, <1>4 DEF Unowned
<1>17. ASSUME NEW x \in D \ gone PROVE x \in Unowned(G, hq) <=> x \in Unowned(H, hp)
  <2>1. (\A j \in Holder : G[j] # x) <=> (\A j \in Holder : H[j] # x)
    BY <1>1, <1>3, <1>8
  <2>2. \A y \in gone : ~ Child(hp, x, y)
    BY <1>1, <1>2 DEF Child
  <2>3. (\A y \in D \ gone : ~ Child(hq, x, y)) <=> (\A y \in D : ~ Child(hp, x, y))
    BY <1>10, <2>2
  <2> QED
    BY <1>7, <2>1, <2>3 DEF Unowned
<1>18. Unowned(G, hq) \subseteq D \ gone /\ Unowned(H, hp) \subseteq D
  BY <1>7 DEF Unowned
<1>19. Unowned(G, hq) = Unowned(H, hp)
  BY <1>16, <1>17, <1>18
<1> QED
  BY <1>15, <1>19 DEF G, hq, gone

\* A variable forgets its node.
LEMMA ForestForgets ==
  ASSUME NEW H, NEW hp, Forest(H, hp), NEW h \in Holder
  PROVE  /\ Forest(Freed(H, {h}), hp)
         /\ Unowned(Freed(H, {h}), hp) \subseteq Unowned(H, hp) \cup {H[h]}
<1> DEFINE G == Freed(H, {h})
<1>1. /\ G \in [Holder -> DOMAIN hp \cup {Null}]
      /\ G[h] = Null /\ \A j \in Holder : j # h => G[j] = H[j]
  BY DEF Freed, Forest
<1> HIDE DEF G
<1>2. Forest(G, hp)
  BY <1>1 DEF Forest
<1>3. Unowned(G, hp) \subseteq Unowned(H, hp) \cup {H[h]}
  BY <1>1 DEF Unowned
<1> QED
  BY <1>2, <1>3 DEF G

-----------------------------------------------------------------------------
(* The descent: which functions can be executed inside of each other.      *)

FrameSet == [fn : Function, left : Nat, group : Nat]

\* Whom a function calls.
Callee(fn) ==
  IF fn = "expr" THEN "concat"
  ELSE IF fn = "concat" THEN "repeat"
  ELSE IF fn = "repeat" THEN "atom"
  ELSE "expr"

\* How many functions are being executed besides four for each open group.
Level(s, r) ==
  IF s = <<>> THEN 0
  ELSE IF s[Len(s)].fn = "expr" THEN 1
  ELSE IF s[Len(s)].fn = "concat" THEN 2
  ELSE IF s[Len(s)].fn = "repeat" THEN 3
  ELSE IF r = None THEN 4 ELSE 0

Open(s) == {i \in DOMAIN s : s[i].group # 0}

\* The functions s with r returned to the last one, in d groups.
Descent(s, r, d) ==
  /\ s \in Seq(FrameSet) /\ r \in Nat \cup {None}
  /\ \A i \in 1 .. Len(s) :
       /\ s[i].fn = IF i = 1 THEN "expr" ELSE Callee(s[i - 1].fn)
       /\ s[i].fn \in {"repeat", "atom"} => s[i].left = Null
       /\ s[i].group # 0 <=> s[i].fn = "atom" /\ (i < Len(s) \/ r # None)
       /\ i = Len(s) /\ r = None /\ s[i].fn = "expr" => s[i].left # Null
  /\ IsFiniteSet(Open(s)) /\ d = Cardinality(Open(s))
  /\ Len(s) = 4 * d + Level(s, r)

\* Front is the sequence without its last element.
LEMMA FrontIs ==
  ASSUME NEW S, NEW s \in Seq(S), s # <<>>
  PROVE  /\ Front(s) \in Seq(S) /\ Len(Front(s)) = Len(s) - 1
         /\ Len(s) \in Nat \ {0}
         /\ \A i \in 1 .. Len(s) - 1 : Front(s)[i] = s[i]
<1>1. Len(s) \in Nat /\ Len(s) # 0
  OBVIOUS
<1>2. Front(s) = [i \in 1 .. Len(s) - 1 |-> s[i]]
  BY <1>1 DEF Front
<1> QED
  BY <1>1, <1>2

\* Two more elements at the end of a sequence.
LEMMA TwoMore ==
  ASSUME NEW S, NEW s \in Seq(S), NEW a \in S, NEW b \in S
  PROVE  LET t == s \o <<a, b>> IN
         /\ t \in Seq(S) /\ Len(t) = Len(s) + 2 /\ DOMAIN t = 1 .. Len(s) + 2
         /\ \A i \in 1 .. Len(s) : t[i] = s[i]
         /\ t[Len(s) + 1] = a /\ t[Len(s) + 2] = b
OBVIOUS

\* Where an index can be.
LEMMA IndexCases ==
  ASSUME NEW n \in Nat
  PROVE  /\ \A i \in 1 .. n : i < n \/ i = n
         /\ \A i \in 1 .. n + 2 : i \in 1 .. n \/ i = n + 1 \/ i = n + 2
         /\ \A i \in 1 .. n : i # n + 2 /\ i < n + 2 /\ (i # 1 => i - 1 \in 1 .. n)
         /\ n # 0 => n \in 1 .. n /\ n + 1 # 1 /\ n + 2 # 1
         /\ (n + 1) - 1 = n /\ (n + 2) - 1 = n + 1
         /\ n + 1 # n + 2 /\ n + 1 < n + 2 /\ ~ (n + 2 < n + 2)
OBVIOUS

\* No function is executed before the parser starts.
LEMMA DescentEmpty == Descent(<<>>, None, 0)
<1>1. Open(<<>>) = {}
  BY DEF Open
<1>2. IsFiniteSet({}) /\ Cardinality({}) = 0
  BY FS_EmptySet
<1>3. <<>> \in Seq(FrameSet) /\ Len(<<>>) = 0 /\ 1 .. Len(<<>>) = {}
  OBVIOUS
<1>4. Level(<<>>, None) = 0 /\ 0 = 4 * 0 + 0
  BY DEF Level
<1>5. /\ IsFiniteSet(Open(<<>>)) /\ 0 = Cardinality(Open(<<>>))
      /\ None \in Nat \cup {None}
      /\ Len(<<>>) = 4 * 0 + Level(<<>>, None)
  BY <1>1, <1>2, <1>3, <1>4
<1> QED
  BY <1>3, <1>5, Zenon DEF Descent

\* A function returns.
LEMMA DescentReturns ==
  ASSUME NEW s, NEW r, NEW d \in Nat, Descent(s, r, d), s # <<>>, NEW x \in Nat
  PROVE  Descent(Front(s), x, IF s[Len(s)].group # 0 THEN d - 1 ELSE d)
<1> DEFINE t == Front(s)
           n == Len(s)
           e == IF s[n].group # 0 THEN d - 1 ELSE d
<1>1. /\ s \in Seq(FrameSet) /\ n \in Nat \ {0} /\ t \in Seq(FrameSet) /\ Len(t) = n - 1
      /\ \A i \in 1 .. n - 1 : t[i] = s[i]
      /\ DOMAIN s = 1 .. n /\ DOMAIN t = 1 .. n - 1
  <2>1. s \in Seq(FrameSet)
    BY DEF Descent
  <2>2. /\ t \in Seq(FrameSet) /\ Len(t) = n - 1 /\ n \in Nat \ {0}
        /\ \A i \in 1 .. n - 1 : t[i] = s[i]
    BY <2>1, FrontIs, Zenon
  <2> HIDE DEF t
  <2> QED
    BY <2>1, <2>2
<1> HIDE DEF t
<1>2. x # None
  BY DEF None
<1>3. \A i \in 1 .. n - 1 :
         /\ t[i].fn = IF i = 1 THEN "expr" ELSE Callee(t[i - 1].fn)
         /\ t[i].fn \in {"repeat", "atom"} => t[i].left = Null
         /\ t[i].group # 0 <=> t[i].fn = "atom"
  BY <1>1 DEF Descent
<1>4. Open(t) = Open(s) \ {n} /\ (s[n].group # 0 <=> n \in Open(s))
  BY <1>1 DEF Open
<1>5. IsFiniteSet(Open(t)) /\ e = Cardinality(Open(t))
  <2>1. IsFiniteSet(Open(s)) /\ d = Cardinality(Open(s))
    BY DEF Descent
  <2>2. IsFiniteSet(Open(s) \ {n})
        /\ Cardinality(Open(s) \ {n}) = IF n \in Open(s) THEN Cardinality(Open(s)) - 1
                                        ELSE Cardinality(Open(s))
    BY <2>1, FS_RemoveElement
  <2> QED
    BY <1>4, <2>1, <2>2
<1>6. Len(t) = 4 * e + Level(t, x)
  <2>1. n = 4 * d + Level(s, r)
    BY DEF Descent
  <2>2. s[n].fn \in Function /\ (n > 1 => s[n - 1].fn \in Function)
    <3>1. \A i \in 1 .. n : s[i] \in FrameSet
      BY <1>1
    <3>2. n \in 1 .. n /\ (n > 1 => n - 1 \in 1 .. n)
      BY <1>1
    <3> QED
      BY <3>1, <3>2 DEF FrameSet
  <2>3. s[n].fn = IF n = 1 THEN "expr" ELSE Callee(s[n - 1].fn)
    BY <1>1 DEF Descent
  <2>4. s[n].group # 0 <=> s[n].fn = "atom" /\ r # None
    BY <1>1 DEF Descent
  <2>5. CASE n = 1
    BY <1>1, <2>1, <2>3, <2>4, <2>5 DEF Level
  <2>6. CASE n > 1
    <3>1. t # <<>> /\ t[n - 1] = s[n - 1] /\ Len(t) = n - 1 /\ e \in Int
      BY <1>1, <2>6
    <3>2. Level(t, x) = IF s[n - 1].fn = "expr" THEN 1
                        ELSE IF s[n - 1].fn = "concat" THEN 2
                        ELSE IF s[n - 1].fn = "repeat" THEN 3 ELSE 0
      BY <1>2, <3>1 DEF Level
    <3>3. n - 1 = 4 * e + Level(t, x)
      BY <1>1, <2>1, <2>2, <2>3, <2>4, <2>6, <3>2 DEF Level, Callee, Function
    <3> QED
      BY <3>1, <3>3
  <2> QED
    BY <1>1, <2>5, <2>6
<1> QED
  BY <1>1, <1>2, <1>3, <1>5, <1>6 DEF Descent, t

\* A function keeps what another one returned.
LEMMA DescentKeeps ==
  ASSUME NEW s, NEW r, NEW d \in Nat, Descent(s, r, d), s # <<>>, r # None,
         s[Len(s)].fn \in {"expr", "concat"}, NEW x \in Nat \ {Null}
  PROVE  Descent([s EXCEPT ![Len(s)].left = x], None, d)
<1> DEFINE n == Len(s)
           t == [s EXCEPT ![n].left = x]
<1>1. s \in Seq(FrameSet) /\ n \in Nat \ {0} /\ DOMAIN s = 1 .. n
  BY FrontIs DEF Descent
<1>2. /\ t \in Seq(FrameSet) /\ Len(t) = n /\ DOMAIN t = 1 .. n
      /\ \A i \in 1 .. n : /\ t[i].fn = s[i].fn /\ t[i].group = s[i].group
                           /\ t[i].left = IF i = n THEN x ELSE s[i].left
  <2>1. ASSUME NEW i \in 1 .. n
        PROVE  /\ t[i] \in FrameSet /\ t[i].fn = s[i].fn /\ t[i].group = s[i].group
               /\ t[i].left = IF i = n THEN x ELSE s[i].left
    <3>1. s[i] \in FrameSet
      BY <1>1
    <3>2. t[i] = IF i = n THEN [s[i] EXCEPT !.left = x] ELSE s[i]
      BY <1>1
    <3> HIDE DEF t
    <3> QED
      BY <3>1, <3>2 DEF FrameSet
  <2>2. DOMAIN t = 1 .. n /\ t = [i \in 1 .. n |-> t[i]]
    BY <1>1
  <2> HIDE DEF t
  <2>3. t \in Seq(FrameSet) /\ Len(t) = n
    BY <1>1, <2>1, <2>2
  <2> QED
    BY <2>1, <2>2, <2>3
<1> HIDE DEF t
<1>3. Open(t) = Open(s)
  BY <1>1, <1>2 DEF Open
<1>4. Level(t, None) = Level(s, r)
  <2>1. t # <<>> /\ t[n].fn = s[n].fn /\ n \in 1 .. n
    <3>1. n \in 1 .. n
      BY <1>1
    <3>2. t # <<>>
      BY <1>1, <1>2
    <3> QED
      BY <1>2, <3>1, <3>2
  <2> QED
    BY <1>2, <2>1 DEF Level
<1>5. \A i \in 1 .. n :
         /\ t[i].fn = IF i = 1 THEN "expr" ELSE Callee(t[i - 1].fn)
         /\ t[i].fn \in {"repeat", "atom"} => t[i].left = Null
         /\ t[i].group # 0 <=> t[i].fn = "atom" /\ i < n
         /\ i = n => t[i].left # Null
  BY <1>1, <1>2 DEF Descent
<1>6. /\ IsFiniteSet(Open(t)) /\ d = Cardinality(Open(t)) /\ n = 4 * d + Level(t, None)
  BY <1>3, <1>4 DEF Descent
<1> QED
  BY <1>1, <1>2, <1>5, <1>6 DEF Descent, t

\* rx_parse_pattern calls parse_expr, which calls parse_concat.
LEMMA DescentStarts ==
  LET s == <<>> \o <<Frame("expr"), Frame("concat")>> IN
  Descent(s, None, 0) /\ s # <<>> /\ s[Len(s)].fn = "concat"
<1> DEFINE s == <<>> \o <<Frame("expr"), Frame("concat")>>
<1>1. Frame("expr") \in FrameSet /\ Frame("concat") \in FrameSet
  BY DEF Frame, FrameSet, Function, Null
<1>2. /\ s \in Seq(FrameSet) /\ Len(s) = 2 /\ DOMAIN s = 1 .. 2
      /\ s[1] = Frame("expr") /\ s[2] = Frame("concat") /\ s # <<>>
  BY <1>1
<1> HIDE DEF s
<1>3. 1 .. 2 = {1, 2}
  OBVIOUS
<1>4. Open(s) = {}
  BY <1>2, <1>3 DEF Open, Frame
<1>5. IsFiniteSet(Open(s)) /\ 0 = Cardinality(Open(s))
  BY <1>4, FS_EmptySet
<1>6. \A i \in {1, 2} :
         /\ s[i].fn = IF i = 1 THEN "expr" ELSE Callee(s[i - 1].fn)
         /\ s[i].fn \in {"expr", "concat"} /\ s[i].group = 0
         /\ i = 2 => s[i].fn = "concat"
  BY <1>2 DEF Frame, Callee
<1>7. Level(s, None) = 2
  BY <1>2, <1>6 DEF Level
<1>8. Descent(s, None, 0)
  BY <1>2, <1>3, <1>5, <1>6, <1>7 DEF Descent
<1> QED
  BY <1>2, <1>6, <1>8 DEF s

\* parse_expr calls parse_concat.
LEMMA DescentCallsConcat ==
  ASSUME NEW s, NEW d \in Nat, Descent(s, None, d), s # <<>>, s[Len(s)].fn = "expr"
  PROVE  Descent(s \o <<Frame("concat")>>, None, d)
<1> DEFINE n == Len(s)
           t == s \o <<Frame("concat")>>
<1>1. s \in Seq(FrameSet) /\ n \in Nat \ {0} /\ DOMAIN s = 1 .. n
  BY FrontIs DEF Descent
<1>2. Frame("concat") \in FrameSet
  BY DEF Frame, FrameSet, Function, Null
<1>3. /\ t \in Seq(FrameSet) /\ Len(t) = n + 1 /\ DOMAIN t = 1 .. n + 1
      /\ \A i \in 1 .. n : t[i] = s[i]
      /\ t[n + 1] = Frame("concat")
  BY <1>1, <1>2
<1> HIDE DEF t
<1>4. Open(t) = Open(s)
  BY <1>1, <1>3 DEF Open, Frame
<1>5. \A i \in 1 .. n + 1 :
         /\ t[i].fn = IF i = 1 THEN "expr" ELSE Callee(t[i - 1].fn)
         /\ t[i].fn \in {"repeat", "atom"} => t[i].left = Null
         /\ t[i].group # 0 <=> t[i].fn = "atom" /\ i < n + 1
         /\ i = n + 1 => t[i].fn = "concat"
  <2>1. \A i \in 1 .. n : i # n + 1 /\ i - 1 # n + 1
    BY <1>1
  <2> QED
  BY <1>1, <1>3, <2>1 DEF Descent, Frame, Callee
<1>6. Level(t, None) = 2 /\ Level(s, None) = 1
  BY <1>1, <1>3 DEF Level, Frame
<1>7. IsFiniteSet(Open(t)) /\ d = Cardinality(Open(t)) /\ n + 1 = 4 * d + Level(t, None)
  BY <1>1, <1>4, <1>6 DEF Descent
<1> QED
  BY <1>1, <1>3, <1>5, <1>7 DEF Descent, t

\* parse_concat calls parse_repeat, which calls parse_atom.
LEMMA DescentCallsAtom ==
  ASSUME NEW s, NEW d \in Nat, Descent(s, None, d), s # <<>>, s[Len(s)].fn = "concat"
  PROVE  Descent(s \o <<Frame("repeat"), Frame("atom")>>, None, d)
<1> DEFINE n == Len(s)
           t == s \o <<Frame("repeat"), Frame("atom")>>
<1>1. s \in Seq(FrameSet) /\ n \in Nat \ {0} /\ DOMAIN s = 1 .. n
  BY FrontIs DEF Descent
<1>2. Frame("repeat") \in FrameSet /\ Frame("atom") \in FrameSet
  BY DEF Frame, FrameSet, Function, Null
<1>3. /\ t \in Seq(FrameSet) /\ Len(t) = n + 2 /\ DOMAIN t = 1 .. n + 2
      /\ \A i \in 1 .. n : t[i] = s[i]
      /\ t[n + 1] = Frame("repeat") /\ t[n + 2] = Frame("atom")
  BY <1>1, <1>2
<1> HIDE DEF t
<1>4. Open(t) = Open(s)
  BY <1>1, <1>3 DEF Open, Frame
<1>5. \A i \in 1 .. n + 2 :
         /\ t[i].fn = IF i = 1 THEN "expr" ELSE Callee(t[i - 1].fn)
         /\ t[i].fn \in {"repeat", "atom"} => t[i].left = Null
         /\ t[i].group # 0 <=> t[i].fn = "atom" /\ i < n + 2
         /\ i = n + 2 => t[i].fn = "atom"
  <2>1. /\ \A i \in 1 .. n : i # n + 2 /\ i < n + 2 /\ (i # 1 => i - 1 \in 1 .. n)
        /\ n + 1 # 1 /\ n + 2 # 1 /\ (n + 1) - 1 = n /\ (n + 2) - 1 = n + 1
        /\ n \in 1 .. n
        /\ n + 1 # n + 2 /\ n + 1 < n + 2 /\ ~ (n + 2 < n + 2)
    <3>1. n \in Nat /\ n # 0
      BY <1>1
    <3> QED
      BY <3>1, IndexCases, Zenon
  <2>2. \A i \in 1 .. n :
          /\ t[i].fn = IF i = 1 THEN "expr" ELSE Callee(t[i - 1].fn)
          /\ t[i].fn \in {"repeat", "atom"} => t[i].left = Null
          /\ t[i].group # 0 <=> t[i].fn = "atom"
    <3> SUFFICES ASSUME NEW i \in 1 .. n
                 PROVE  /\ t[i].fn = IF i = 1 THEN "expr" ELSE Callee(t[i - 1].fn)
                        /\ t[i].fn \in {"repeat", "atom"} => t[i].left = Null
                        /\ t[i].group # 0 <=> t[i].fn = "atom"
      OBVIOUS
    <3>1. /\ s[i].fn = IF i = 1 THEN "expr" ELSE Callee(s[i - 1].fn)
          /\ s[i].fn \in {"repeat", "atom"} => s[i].left = Null
          /\ s[i].group # 0 <=> s[i].fn = "atom" /\ i < n
      BY Zenon DEF Descent
    <3>2. i # 1 => t[i - 1].fn = s[i - 1].fn
      BY <1>1, <1>3, <2>1
    <3>3. i < n \/ i = n
      BY <1>1, IndexCases, Zenon
    <3> QED
      BY <1>1, <1>3, <2>1, <3>1, <3>2, <3>3
  <2>3. /\ t[n + 1].fn = Callee(t[n].fn) /\ t[n + 1].fn = "repeat"
        /\ t[n + 1].left = Null /\ t[n + 1].group = 0
    BY <1>3, <2>1 DEF Frame, Callee
  <2>4. /\ t[n + 2].fn = Callee(t[n + 1].fn) /\ t[n + 2].fn = "atom"
        /\ t[n + 2].left = Null /\ t[n + 2].group = 0
    BY <1>3 DEF Frame, Callee
  <2>5. \A i \in 1 .. n + 2 : i \in 1 .. n \/ i = n + 1 \/ i = n + 2
    BY <1>1, IndexCases, Zenon
  <2>6. \A i \in 1 .. n : i < n + 2 /\ i # n + 2
    BY <2>1
  <2>7. n + 2 # 1 /\ n + 1 # 1 /\ n + 1 < n + 2 /\ n + 1 # n + 2 /\ ~ (n + 2 < n + 2)
    BY <2>1
  <2>8. t[n + 1].fn = Callee(t[(n + 1) - 1].fn) /\ t[n + 2].fn = Callee(t[(n + 2) - 1].fn)
    BY <2>1, <2>3, <2>4
  <2> HIDE DEF n
  <2> SUFFICES ASSUME NEW i \in 1 .. n + 2
               PROVE  /\ t[i].fn = IF i = 1 THEN "expr" ELSE Callee(t[i - 1].fn)
                      /\ t[i].fn \in {"repeat", "atom"} => t[i].left = Null
                      /\ t[i].group # 0 <=> t[i].fn = "atom" /\ i < n + 2
                      /\ i = n + 2 => t[i].fn = "atom"
    OBVIOUS
  <2>9. CASE i \in 1 .. n
    BY <2>2, <2>6, <2>9, Zenon
  <2>10. CASE i = n + 1
    BY <2>3, <2>7, <2>8, <2>10
  <2>11. CASE i = n + 2
    BY <2>4, <2>7, <2>8, <2>11
  <2> QED
    BY <2>5, <2>9, <2>10, <2>11
<1>6. Level(t, None) = 4 /\ Level(s, None) = 2
  BY <1>1, <1>3 DEF Level, Frame
<1>7. IsFiniteSet(Open(t)) /\ d = Cardinality(Open(t)) /\ n + 2 = 4 * d + Level(t, None)
  BY <1>1, <1>4, <1>6 DEF Descent
<1> QED
  BY <1>1, <1>3, <1>5, <1>7 DEF Descent, t

\* parse_atom opens a group and calls parse_expr, which calls parse_concat.
LEMMA DescentOpensGroup ==
  ASSUME NEW s, NEW d \in Nat, Descent(s, None, d), s # <<>>, s[Len(s)].fn = "atom",
         NEW g \in Nat \ {0}
  PROVE  Descent([s EXCEPT ![Len(s)].group = g] \o <<Frame("expr"), Frame("concat")>>,
                 None, d + 1)
<1> DEFINE n == Len(s)
           u == [s EXCEPT ![n].group = g]
           t == u \o <<Frame("expr"), Frame("concat")>>
<1>1. s \in Seq(FrameSet) /\ n \in Nat \ {0} /\ DOMAIN s = 1 .. n
  BY FrontIs DEF Descent
<1>2. Frame("expr") \in FrameSet /\ Frame("concat") \in FrameSet
  BY DEF Frame, FrameSet, Function, Null
<1>3. /\ u \in Seq(FrameSet) /\ Len(u) = n
      /\ \A i \in 1 .. n : /\ u[i].fn = s[i].fn /\ u[i].left = s[i].left
                           /\ u[i].group = IF i = n THEN g ELSE s[i].group
  <2>1. ASSUME NEW i \in 1 .. n
        PROVE  /\ u[i] \in FrameSet /\ u[i].fn = s[i].fn /\ u[i].left = s[i].left
               /\ u[i].group = IF i = n THEN g ELSE s[i].group
    <3>1. s[i] \in FrameSet
      BY <1>1
    <3>2. u[i] = IF i = n THEN [s[i] EXCEPT !.group = g] ELSE s[i]
      BY <1>1
    <3> HIDE DEF u
    <3> QED
      BY <3>1, <3>2 DEF FrameSet
  <2>2. DOMAIN u = 1 .. n /\ u = [i \in 1 .. n |-> u[i]]
    BY <1>1
  <2> HIDE DEF u
  <2>3. u \in Seq(FrameSet) /\ Len(u) = n
    BY <1>1, <2>1, <2>2
  <2> QED
    BY <2>1, <2>2, <2>3
<1> HIDE DEF u
<1>4. /\ t \in Seq(FrameSet) /\ Len(t) = n + 2 /\ DOMAIN t = 1 .. n + 2
      /\ \A i \in 1 .. n : t[i] = u[i]
      /\ t[n + 1] = Frame("expr") /\ t[n + 2] = Frame("concat")
  <2> DEFINE a == Frame("expr")
             b == Frame("concat")
  <2>1. a \in FrameSet /\ b \in FrameSet /\ u \in Seq(FrameSet) /\ Len(u) = n
    BY <1>2, <1>3
  <2> HIDE DEF a, b, n
  <2>2. LET v == u \o <<a, b>> IN
        /\ v \in Seq(FrameSet) /\ Len(v) = n + 2 /\ DOMAIN v = 1 .. n + 2
        /\ \A i \in 1 .. n : v[i] = u[i]
        /\ v[n + 1] = a /\ v[n + 2] = b
    <3>1. LET v == u \o <<a, b>> IN
          /\ v \in Seq(FrameSet) /\ Len(v) = Len(u) + 2 /\ DOMAIN v = 1 .. Len(u) + 2
          /\ \A i \in 1 .. Len(u) : v[i] = u[i]
          /\ v[Len(u) + 1] = a /\ v[Len(u) + 2] = b
      BY <2>1, TwoMore
    <3> QED
      BY <2>1, <3>1
  <2> QED
    BY <2>2 DEF a, b
<1> HIDE DEF t
<1>5. Open(t) = Open(s) \cup {n} /\ n \notin Open(s)
  <2>1. n \in 1 .. n /\ n \in 1 .. n + 2 /\ ~ (n < n) /\ 1 .. n \subseteq 1 .. n + 2
        /\ \A i \in 1 .. n + 2 : i \in 1 .. n \/ i = n + 1 \/ i = n + 2
    BY <1>1
  <2>2. s[n].group = 0
    BY <2>1 DEF Descent
  <2>3. n \notin Open(s)
    BY <2>2 DEF Open
  <2>4. \A i \in 1 .. n : t[i].group = IF i = n THEN g ELSE s[i].group
    BY <1>3, <1>4
  <2>5. t[n + 1].group = 0 /\ t[n + 2].group = 0
    BY <1>4 DEF Frame
  <2>6. g # 0
    OBVIOUS
  <2> HIDE DEF n
  <2>7. \A i : i \in Open(t) <=> i \in Open(s) \cup {n}
    BY <1>1, <1>4, <2>1, <2>4, <2>5, <2>6 DEF Open
  <2> QED
    BY <2>3, <2>7
<1>6. \A i \in 1 .. n + 2 :
         /\ t[i].fn = IF i = 1 THEN "expr" ELSE Callee(t[i - 1].fn)
         /\ t[i].fn \in {"repeat", "atom"} => t[i].left = Null
         /\ t[i].group # 0 <=> t[i].fn = "atom" /\ i < n + 2
         /\ i = n + 2 => t[i].fn = "concat"
  <2>1. /\ \A i \in 1 .. n : i # n + 2 /\ i < n + 2 /\ (i # 1 => i - 1 \in 1 .. n)
        /\ n + 1 # 1 /\ n + 2 # 1 /\ (n + 1) - 1 = n /\ (n + 2) - 1 = n + 1
        /\ n \in 1 .. n
        /\ n + 1 # n + 2 /\ n + 1 < n + 2 /\ ~ (n + 2 < n + 2)
    <3>1. n \in Nat /\ n # 0
      BY <1>1
    <3> QED
      BY <3>1, IndexCases, Zenon
  <2>2. \A i \in 1 .. n :
          /\ t[i].fn = IF i = 1 THEN "expr" ELSE Callee(t[i - 1].fn)
          /\ t[i].fn \in {"repeat", "atom"} => t[i].left = Null
          /\ t[i].group # 0 <=> t[i].fn = "atom"
    <3> SUFFICES ASSUME NEW i \in 1 .. n
                 PROVE  /\ t[i].fn = IF i = 1 THEN "expr" ELSE Callee(t[i - 1].fn)
                        /\ t[i].fn \in {"repeat", "atom"} => t[i].left = Null
                        /\ t[i].group # 0 <=> t[i].fn = "atom"
      OBVIOUS
    <3>1. /\ s[i].fn = IF i = 1 THEN "expr" ELSE Callee(s[i - 1].fn)
          /\ s[i].fn \in {"repeat", "atom"} => s[i].left = Null
          /\ s[i].group # 0 <=> s[i].fn = "atom" /\ i < n
      BY Zenon DEF Descent
    <3>2. i # 1 => t[i - 1].fn = s[i - 1].fn
      BY <1>1, <1>3, <1>4, <2>1
    <3>3. i < n \/ i = n
      BY <1>1, IndexCases, Zenon
    <3> QED
      BY <1>1, <1>3, <1>4, <2>1, <3>1, <3>2, <3>3
  <2>3. /\ t[n + 1].fn = Callee(t[n].fn) /\ t[n + 1].fn = "expr"
        /\ t[n + 1].group = 0
    BY <1>3, <1>4, <2>1 DEF Frame, Callee
  <2>4. /\ t[n + 2].fn = Callee(t[n + 1].fn) /\ t[n + 2].fn = "concat"
        /\ t[n + 2].group = 0
    BY <1>4 DEF Frame, Callee
  <2>5. \A i \in 1 .. n + 2 : i \in 1 .. n \/ i = n + 1 \/ i = n + 2
    BY <1>1, IndexCases, Zenon
  <2> HIDE DEF n
  <2> QED
    BY <2>1, <2>2, <2>3, <2>4, <2>5
<1>7. Level(t, None) = 2 /\ Level(s, None) = 4
  BY <1>1, <1>4 DEF Level, Frame
<1>8. IsFiniteSet(Open(t)) /\ d + 1 = Cardinality(Open(t))
  <2>1. IsFiniteSet(Open(s)) /\ d = Cardinality(Open(s))
    BY DEF Descent
  <2>2. /\ IsFiniteSet(Open(s) \cup {n})
        /\ Cardinality(Open(s) \cup {n}) = IF n \in Open(s) THEN Cardinality(Open(s))
                                            ELSE Cardinality(Open(s)) + 1
    BY <2>1, FS_AddElement, Zenon
  <2> HIDE DEF n
  <2> QED
    BY <1>5, <2>1, <2>2, Zenon
<1>9. n + 2 = 4 * (d + 1) + Level(t, None)
  BY <1>1, <1>7 DEF Descent
<1> QED
  <2>1. Descent(t, None, d + 1)
    BY <1>1, <1>4, <1>6, <1>8, <1>9 DEF Descent
  <2> QED
    BY <2>1 DEF t, u

-----------------------------------------------------------------------------
(* The inductive invariant of the descent.                                 *)

\* While the parser runs, a function has returned none, or returns none, as
\* soon as there is an error and only then; the current token is one.
Running ==
  /\ at \in 1 .. Len(input)
  /\ ret # Null <=> status = "OK"
  /\ ret # Null => Current # "ERROR"
  /\ stack = <<>> => ret # None
  /\ stack # <<>> /\ Top.fn = "atom" /\ ret = None => Current \notin EndType

Control ==
  /\ input \in Inputs /\ at \in 0 .. Len(input) /\ status \in Status
  /\ nextGroup \in Nat \ {0} /\ captures \in Nat /\ tree \in Nat
  /\ allocs \in Nat /\ DOMAIN heap \subseteq 1 .. allocs
  /\ depth \in 0 .. MaxGroupDepth /\ Descent(stack, ret, depth)
  /\ pc \in {"start", "run", "parsed", "done"}
  /\ pc = "start" => at = 0 /\ status = "OK" /\ heap = <<>>
  /\ pc = "run" => Running
  /\ pc # "run" => stack = <<>> /\ ret = None
  /\ pc # "parsed" => tree = Null

\* What Control says of the function on top.
LEMMA TopFacts ==
  ASSUME Control, pc = "run", stack # <<>>
  PROVE  /\ stack \in Seq(FrameSet) /\ Len(stack) \in Nat \ {0}
         /\ Top.fn \in Function /\ Top.left \in Nat /\ Top.group \in Nat
         /\ Top.group # 0 <=> Top.fn = "atom" /\ ret # None
         /\ Top.fn \in {"repeat", "atom"} => Top.left = Null
         /\ Top.fn = "expr" /\ ret = None => Top.left # Null
         /\ ret \in Nat \cup {None}
<1>1. stack \in Seq(FrameSet) /\ Descent(stack, ret, depth) /\ ret \in Nat \cup {None}
  BY DEF Control, Descent
<1>2. Len(stack) \in Nat \ {0}
  BY <1>1, FrontIs, Zenon
<1>3. Len(stack) \in 1 .. Len(stack) /\ ~ (Len(stack) < Len(stack))
  BY <1>2
<1>4. Top \in FrameSet
  BY <1>1, <1>3 DEF Top
<1>5. Top.fn \in Function /\ Top.left \in Nat /\ Top.group \in Nat
  BY <1>4 DEF FrameSet
<1> QED
  BY <1>1, <1>2, <1>3, <1>5 DEF Descent, Top

\* A token that does not end the pattern is followed by another one.
LEMMA AheadFacts ==
  ASSUME Control, pc = "run", ret # Null, Current # "EOF"
  PROVE  /\ at + 1 \in 1 .. Len(input) /\ status = "OK"
         /\ Ahead.type \in TokenType
         /\ ~ AheadOk => Ahead.data \in LexerError
<1>1. at \in 1 .. Len(input) /\ Current # "ERROR" /\ status = "OK"
  BY DEF Control, Running
<1>2. /\ Len(input) \in Nat
      /\ \A i \in 1 .. Len(input) :
           /\ input[i].type \in TokenType
           /\ input[i].type \in {"EOF", "ERROR"} <=> i = Len(input)
           /\ input[i].type = "ERROR" => input[i].data \in LexerError
  BY ParserAssumption DEF ParserAssumption, Control
<1>3. at # Len(input)
  BY <1>1, <1>2 DEF Current
<1>4. at + 1 \in 1 .. Len(input)
  BY <1>1, <1>2, <1>3
<1> QED
  BY <1>1, <1>2, <1>4 DEF Ahead, AheadOk

\* A function returns; Control holds again when the rest of it does.
LEMMA ReturnStep ==
  ASSUME Control, pc = "run", stack # <<>>, NEW x \in Nat, Return(x),
         depth' = IF Top.fn = "atom" /\ ret # None THEN depth - 1 ELSE depth
  PROVE  /\ Descent(stack', ret', depth') /\ depth' \in 0 .. MaxGroupDepth
         /\ ret' = x /\ x # None
<1>1. depth \in Nat /\ Descent(stack, ret, depth) /\ depth <= MaxGroupDepth
      /\ MaxGroupDepth \in Nat
  BY ParserAssumption DEF ParserAssumption, Control
<1>2. depth' = IF stack[Len(stack)].group # 0 THEN depth - 1 ELSE depth
  BY TopFacts DEF Top
<1>3. Descent(Front(stack), x, depth')
  BY <1>1, <1>2, DescentReturns
<1>4. depth' \in Nat
  BY <1>3, FS_CardinalityType DEF Descent
<1> QED
  BY <1>1, <1>2, <1>3, <1>4 DEF Return, None

\* A function keeps a node.
LEMMA KeepStep ==
  ASSUME Control, pc = "run", stack # <<>>, ret # None, Top.fn \in {"expr", "concat"},
         NEW x \in Nat \ {Null}, Keep(x), depth' = depth
  PROVE  /\ Descent(stack', ret', depth') /\ depth' \in 0 .. MaxGroupDepth
         /\ ret' = None /\ stack' # <<>>
         /\ stack'[Len(stack')].fn = Top.fn
<1>1. depth \in Nat /\ Descent(stack, ret, depth) /\ depth \in 0 .. MaxGroupDepth
  BY ParserAssumption DEF ParserAssumption, Control
<1>2. stack \in Seq(FrameSet) /\ Len(stack) \in Nat \ {0}
  BY TopFacts
<1>3. stack' = [stack EXCEPT ![Len(stack)].left = x] /\ ret' = None
  BY DEF Keep
<1>4. Descent([stack EXCEPT ![Len(stack)].left = x], None, depth)
  BY <1>1, DescentKeeps DEF Top
<1>5. Len(stack') = Len(stack) /\ stack'[Len(stack)].fn = stack[Len(stack)].fn
  <2>1. Len(stack) \in DOMAIN stack
    BY <1>2
  <2>2. stack'[Len(stack)] = [stack[Len(stack)] EXCEPT !.left = x]
    BY <1>2, <1>3, <2>1
  <2>3. stack[Len(stack)] \in FrameSet
    BY <1>2
  <2>4. stack'[Len(stack)].fn = stack[Len(stack)].fn
    BY <2>2, <2>3 DEF FrameSet
  <2>5. Len(stack') = Len(stack)
    BY <1>2, <1>3
  <2> QED
    BY <2>4, <2>5
<1>6. stack' # <<>>
  BY <1>2, <1>5
<1> QED
  BY <1>1, <1>3, <1>4, <1>5, <1>6 DEF Top

\* The parser starts in Control.
LEMMA ControlInit == Init => Control
<1> SUFFICES ASSUME Init PROVE Control
  OBVIOUS
<1>1. Len(input) \in Nat /\ MaxGroupDepth \in Nat
  BY ParserAssumption DEF ParserAssumption, Init
<1>2. Descent(stack, ret, depth)
  BY DescentEmpty DEF Init
<1>3. DOMAIN heap = {}
  BY DEF Init
<1> QED
  BY <1>1, <1>2, <1>3 DEF Init, Control, Status, Null

\* What the heap's names are after a node was made, or trees were freed.
LEMMA NamesKept ==
  ASSUME Control
  PROVE  /\ \A op, left, right, data, group : New(op, left, right, data, group) =>
              allocs' \in Nat /\ DOMAIN heap' \subseteq 1 .. allocs'
         /\ \A trees : Free(trees) => allocs' \in Nat /\ DOMAIN heap' \subseteq 1 .. allocs'
         /\ UNCHANGED nodes => allocs' \in Nat /\ DOMAIN heap' \subseteq 1 .. allocs'
<1>1. allocs \in Nat /\ DOMAIN heap \subseteq 1 .. allocs
  BY DEF Control
<1>2. ASSUME NEW op, NEW left, NEW right, NEW data, NEW group,
             New(op, left, right, data, group)
      PROVE  allocs' \in Nat /\ DOMAIN heap' \subseteq 1 .. allocs'
  <2>1. DOMAIN heap' = DOMAIN heap \cup {allocs + 1} /\ allocs' = allocs + 1
    BY <1>2 DEF New
  <2> QED
    BY <1>1, <2>1
<1>3. ASSUME NEW trees, Free(trees)
      PROVE  allocs' \in Nat /\ DOMAIN heap' \subseteq 1 .. allocs'
  <2>1. DOMAIN heap' \subseteq DOMAIN heap /\ allocs' = allocs
    BY <1>3 DEF Free
  <2> QED
    BY <1>1, <2>1
<1> QED
  BY <1>1, <1>2, <1>3 DEF nodes

\* A step that makes the function on top return.
LEMMA ControlReturns ==
  ASSUME Control, pc = "run", stack # <<>>, NEW x \in Nat, Return(x),
         depth' = IF Top.fn = "atom" /\ ret # None THEN depth - 1 ELSE depth,
         UNCHANGED <<input, outs, pc>>, nextGroup' \in Nat \ {0},
         at' \in 1 .. Len(input), status' \in Status, x # Null <=> status' = "OK",
         x # Null => input[at'].type # "ERROR",
         allocs' \in Nat /\ DOMAIN heap' \subseteq 1 .. allocs'
  PROVE  Control'
<1>1. /\ Descent(stack', ret', depth') /\ depth' \in 0 .. MaxGroupDepth
      /\ ret' = x /\ x # None
  BY ReturnStep
<1>2. /\ input' = input /\ input \in Inputs /\ Len(input) \in Nat
      /\ tree' = tree /\ captures' = captures /\ pc' = "run"
      /\ captures \in Nat /\ tree = Null /\ Null \in Nat
  BY ParserAssumption DEF ParserAssumption, Control, outs, Null
<1>3. at' \in 0 .. Len(input)
  BY <1>2
<1>4. Running'
  BY <1>1, <1>2 DEF Running, Current, Top
<1> QED
  BY <1>1, <1>2, <1>3, <1>4 DEF Control

\* A step that makes it keep a node.
LEMMA ControlKeeps ==
  ASSUME Control, pc = "run", stack # <<>>, Top.fn \in {"expr", "concat"},
         ret # None, ret # Null, NEW x \in Nat \ {Null}, Keep(x),
         UNCHANGED <<input, at, status, fields, outs, pc>>,
         allocs' \in Nat /\ DOMAIN heap' \subseteq 1 .. allocs'
  PROVE  Control'
<1>1. depth' = depth /\ nextGroup' = nextGroup
  BY DEF fields
<1>2. /\ Descent(stack', ret', depth') /\ depth' \in 0 .. MaxGroupDepth
      /\ ret' = None /\ stack' # <<>> /\ stack'[Len(stack')].fn \in {"expr", "concat"}
  BY <1>1, KeepStep
<1>3. /\ tree' = tree /\ captures' = captures /\ pc' = "run"
  BY DEF outs
<1>4. /\ at \in 1 .. Len(input) /\ status = "OK" /\ Current # "ERROR"
  BY DEF Control, Running
<1>5. Running'
  BY <1>2, <1>4 DEF Running, Current, Top, None, Null
<1> QED
  BY <1>1, <1>2, <1>3, <1>5 DEF Control

\* Every step of the parser keeps Control.
LEMMA ControlNext == Control /\ [Next]_vars => Control'
<1> SUFFICES ASSUME Control, [Next]_vars PROVE Control'
  OBVIOUS
<1>1. /\ Len(input) \in Nat \ {0} /\ MaxGroupDepth \in Nat /\ input \in Inputs
      /\ at \in 0 .. Len(input) /\ status \in Status /\ nextGroup \in Nat \ {0}
      /\ allocs \in Nat /\ DOMAIN heap \subseteq 1 .. allocs
      /\ captures \in Nat /\ tree \in Nat /\ depth \in 0 .. MaxGroupDepth
  BY ParserAssumption DEF ParserAssumption, Control
<1>2. \A i \in 1 .. Len(input) : input[i].type = "ERROR" => input[i].data \in LexerError
  BY ParserAssumption DEF ParserAssumption, Control
<1>3. LexerError \subseteq Status \ {"OK"} /\ "OK" \in Status
  BY DEF LexerError, Status
<1>4. pc = "run" => at \in 1 .. Len(input) /\ (ret # Null <=> status = "OK")
                    /\ (ret # Null => Current # "ERROR")
  BY DEF Control, Running
<1>5. None # Null /\ None \notin Nat
  BY DEF None, Null
<1>6. NewNode \in Nat \ {Null}
  BY <1>1 DEF NewNode, Null
<1>7. CASE Start
  <2>1. /\ pc = "start" /\ at = 0 /\ status = "OK" /\ stack = <<>> /\ ret = None
        /\ Descent(<<>>, None, depth) /\ tree = Null /\ heap' = heap /\ allocs' = allocs
        /\ depth' = depth /\ nextGroup' = nextGroup /\ tree' = tree /\ captures' = captures
        /\ input' = input /\ at' = 1 /\ status' = Fetched
    BY <1>7, DescentEmpty DEF Start, Control, Advance, fields, nodes, outs
  <2>2. 1 \in 1 .. Len(input) /\ at' \in 0 .. Len(input)
    BY <1>1, <2>1
  <2>3. CASE AheadOk
    <3>1. pc' = "run" /\ stack' = <<>> \o <<Frame("expr"), Frame("concat")>> /\ ret' = None
          /\ status' = "OK"
      BY <1>7, <2>1, <2>3 DEF Start, Push, Fetched
    <3>2. depth = 0
      BY <2>1, FS_EmptySet DEF Descent, Open
    <3>3. Descent(stack', ret', depth') /\ stack' # <<>> /\ stack'[Len(stack')].fn = "concat"
      BY <2>1, <3>1, <3>2, DescentStarts
    <3>4. input'[at'].type # "ERROR"
      BY <2>1, <2>3 DEF AheadOk, Ahead
    <3>5. Running'
      BY <1>5, <2>1, <2>2, <3>1, <3>3, <3>4 DEF Running, Current, Top
    <3> QED
      BY <1>1, <1>5, <2>1, <2>2, <3>1, <3>3, <3>5 DEF Control
  <2>4. CASE ~ AheadOk
    <3>1. pc' = "done" /\ stack' = <<>> /\ ret' = None /\ status' \in LexerError
      BY <1>2, <1>7, <2>1, <2>2, <2>4 DEF Start, Fetched, AheadOk, Ahead
    <3> QED
      BY <1>1, <1>3, <2>1, <2>2, <3>1 DEF Control
  <2> QED
    BY <2>3, <2>4
<1>8. CASE Accept
  <2>1. /\ input' = input /\ at' = at /\ status' = status /\ nextGroup' = nextGroup
        /\ depth' = depth /\ stack' = <<>> /\ heap' = heap /\ allocs' = allocs
        /\ ret' = None /\ tree' = ret /\ captures' = nextGroup - 1 /\ pc' = "parsed"
        /\ stack = <<>> /\ pc = "run"
    BY <1>8 DEF Accept, fields, nodes
  <2>2. ret \in Nat /\ captures' \in Nat
    BY <1>1, <1>5, <2>1 DEF Control, Running, Descent
  <2>3. Descent(<<>>, None, depth)
    <3>1. depth = 0
      BY <2>1, FS_EmptySet DEF Control, Descent, Open
    <3> QED
      BY <3>1, DescentEmpty
  <2> QED
    BY <1>1, <2>1, <2>2, <2>3 DEF Control
<1>9. CASE Reject
  <2>1. /\ input' = input /\ at' = at /\ nextGroup' = nextGroup
        /\ depth' = depth /\ stack' = <<>> /\ stack = <<>> /\ pc = "run"
        /\ ret' = None /\ tree' = tree /\ captures' = captures /\ pc' = "done"
        /\ tree = Null
    BY <1>9 DEF Reject, fields, outs, Control
  <2>2. Descent(<<>>, None, depth)
    <3>1. depth = 0
      BY <2>1, FS_EmptySet DEF Control, Descent, Open
    <3> QED
      BY <3>1, DescentEmpty
  <2>3. allocs' \in Nat /\ DOMAIN heap' \subseteq 1 .. allocs'
    BY <1>9, NamesKept DEF Reject
  <2>4. status' \in Status
    BY <1>1, <1>9 DEF Reject, Error, Status
  <2> QED
    BY <1>1, <2>1, <2>2, <2>3, <2>4 DEF Control
<1>10. CASE Release
  <2>1. /\ input' = input /\ at' = at /\ nextGroup' = nextGroup /\ status' = status
        /\ depth' = depth /\ stack' = stack /\ pc = "parsed"
        /\ ret' = ret /\ tree' = Null /\ captures' = captures /\ pc' = "done"
    BY <1>10 DEF Release, fields
  <2>2. allocs' \in Nat /\ DOMAIN heap' \subseteq 1 .. allocs'
    BY <1>10, NamesKept DEF Release
  <2> QED
    BY <1>1, <2>1, <2>2 DEF Control, Null
<1>11. CASE Branch
  <2>1. pc = "run" /\ stack # <<>> /\ Top.fn = "expr" /\ ret # None
        /\ UNCHANGED <<input, at, fields, outs, pc>>
    BY <1>11 DEF Branch, Resumed
  <2>2. depth' = depth /\ nextGroup' = nextGroup /\ at' = at /\ ret \in Nat
    BY <2>1, TopFacts DEF fields
  <2>3. ASSUME Return(Null), status' \in Status, status' # "OK",
               allocs' \in Nat /\ DOMAIN heap' \subseteq 1 .. allocs'
        PROVE  Control'
    BY <1>1, <1>4, <2>1, <2>2, <2>3, ControlReturns DEF Null
  <2>4. CASE ret = Null
    BY <1>1, <1>4, <1>11, <2>1, <2>3, <2>4, NamesKept DEF Branch
  <2>5. CASE ret # Null /\ Top.left = Null
    BY <1>11, <2>1, <2>2, <2>5, NamesKept, ControlKeeps DEF Branch
  <2>6. CASE ret # Null /\ Top.left # Null
    <3>1. CASE Binary("ALT", Top.left, ret) /\ Keep(NewNode) /\ UNCHANGED status
      BY <1>6, <2>1, <2>6, <3>1, NamesKept, ControlKeeps DEF Binary
    <3>2. CASE Free({Top.left, ret}) /\ Return(Null) /\ Error("ESPACE")
      BY <1>4, <2>1, <2>3, <2>6, <3>2, NamesKept DEF Error, Status
    <3> QED
      BY <1>11, <2>6, <3>1, <3>2 DEF Branch
  <2> QED
    BY <2>4, <2>5, <2>6
<1>12. CASE NextBranch
  <2>1. /\ pc = "run" /\ stack # <<>> /\ Top.fn = "expr" /\ ret = None /\ Current = "ALT"
        /\ UNCHANGED <<input, fields, outs, pc>> /\ at' = at + 1 /\ status' = Fetched
    BY <1>12 DEF NextBranch, Entered, Advance
  <2>2. depth' = depth /\ nextGroup' = nextGroup
    BY <2>1 DEF fields
  <2>3. /\ at + 1 \in 1 .. Len(input) /\ status = "OK" /\ (~ AheadOk => Ahead.data \in LexerError)
    BY <1>5, <2>1, AheadFacts
  <2>4. CASE AheadOk
    <3>1. stack' = stack \o <<Frame("concat")>> /\ ret' = None /\ UNCHANGED nodes
          /\ status' = "OK" /\ input'[at'].type # "ERROR"
      BY <1>12, <2>1, <2>3, <2>4 DEF NextBranch, Push, Fetched, AheadOk, Ahead
    <3>2. Descent(stack, None, depth) /\ stack[Len(stack)].fn = "expr" /\ depth \in Nat
      BY <1>1, <2>1 DEF Control, Top
    <3>3. Descent(stack', ret', depth')
      BY <2>1, <2>2, <3>1, <3>2, DescentCallsConcat
    <3>4. stack' # <<>> /\ stack'[Len(stack')].fn = "concat"
      <4>1. stack \in Seq(FrameSet)
        BY <2>1, TopFacts
      <4> QED
        BY <3>1, <4>1 DEF Frame
    <3>5. Running'
      BY <1>5, <2>1, <2>3, <3>1, <3>4 DEF Running, Current, Top
    <3>6. at' \in 0 .. Len(input') /\ pc' = "run" /\ captures' = captures /\ tree' = Null
          /\ allocs' = allocs /\ heap' = heap
      BY <2>1, <2>3, <3>1 DEF Control, outs, nodes
    <3> QED
      BY <1>1, <1>3, <2>1, <2>2, <3>1, <3>3, <3>5, <3>6 DEF Control
  <2>5. CASE ~ AheadOk
    BY <1>3, <1>5, <1>12, <2>1, <2>2, <2>3, <2>5, NamesKept, ControlReturns, <1>1
       DEF NextBranch, Fetched, Null
  <2> QED
    BY <2>4, <2>5
<1>13. CASE LastBranch
  <2>1. /\ pc = "run" /\ stack # <<>> /\ Top.fn = "expr" /\ ret = None
        /\ UNCHANGED <<input, at, status, fields, nodes, outs, pc>> /\ Return(Top.left)
    BY <1>13 DEF LastBranch, Entered
  <2>2. depth' = depth /\ nextGroup' = nextGroup /\ Top.left \in Nat /\ Top.left # Null
    BY <2>1, TopFacts DEF fields
  <2> QED
    BY <1>1, <1>4, <1>5, <2>1, <2>2, NamesKept, ControlReturns DEF Current
<1>14. CASE NextItem
  <2>1. /\ pc = "run" /\ stack # <<>> /\ Top.fn = "concat" /\ ret = None
        /\ Current \notin EndType /\ UNCHANGED <<input, at, status, fields, nodes, outs, pc>>
        /\ stack' = stack \o <<Frame("repeat"), Frame("atom")>> /\ ret' = None
    BY <1>14 DEF NextItem, Entered, Push
  <2>2. Descent(stack, None, depth) /\ stack[Len(stack)].fn = "concat" /\ depth \in Nat
    BY <1>1, <2>1 DEF Control, Top
  <2>3. Descent(stack', ret', depth')
    BY <2>1, <2>2, DescentCallsAtom DEF fields
  <2>4. stack' # <<>>
    <3>1. stack \in Seq(FrameSet)
      BY <2>1, TopFacts
    <3> QED
      BY <2>1, <3>1
  <2>5. Running'
    BY <1>4, <1>5, <2>1, <2>4 DEF Running, Current, Top
  <2>6. pc' = "run" /\ captures' = captures /\ tree' = Null /\ allocs' = allocs
        /\ heap' = heap /\ nextGroup' = nextGroup /\ depth' = depth
    BY <2>1 DEF Control, outs, nodes, fields
  <2> QED
    BY <1>1, <2>1, <2>3, <2>5, <2>6 DEF Control
<1>15. CASE Item
  <2>1. pc = "run" /\ stack # <<>> /\ Top.fn = "concat" /\ ret # None
        /\ UNCHANGED <<input, at, fields, outs, pc>>
    BY <1>15 DEF Item, Resumed
  <2>2. depth' = depth /\ nextGroup' = nextGroup /\ at' = at /\ ret \in Nat
    BY <2>1, TopFacts DEF fields
  <2>3. ASSUME Return(Null), status' \in Status, status' # "OK",
               allocs' \in Nat /\ DOMAIN heap' \subseteq 1 .. allocs'
        PROVE  Control'
    BY <1>1, <1>4, <2>1, <2>2, <2>3, ControlReturns DEF Null
  <2>4. CASE ret = Null
    BY <1>1, <1>4, <1>15, <2>1, <2>3, <2>4, NamesKept DEF Item
  <2>5. CASE ret # Null /\ Top.left = Null
    BY <1>15, <2>1, <2>2, <2>5, NamesKept, ControlKeeps DEF Item
  <2>6. CASE ret # Null /\ Top.left # Null
    <3>1. CASE Binary("CONCAT", Top.left, ret) /\ Keep(NewNode) /\ UNCHANGED status
      BY <1>6, <2>1, <2>6, <3>1, NamesKept, ControlKeeps DEF Binary
    <3>2. CASE Free({Top.left, ret}) /\ Return(Null) /\ Error("ESPACE")
      BY <1>4, <2>1, <2>3, <2>6, <3>2, NamesKept DEF Error, Status
    <3> QED
      BY <1>15, <2>6, <3>1, <3>2 DEF Item
  <2> QED
    BY <2>4, <2>5, <2>6
<1>16. CASE LastItem
  <2>1. pc = "run" /\ stack # <<>> /\ Top.fn = "concat" /\ ret = None
        /\ UNCHANGED <<input, at, fields, outs, pc>>
    BY <1>16 DEF LastItem, Entered
  <2>2. depth' = depth /\ nextGroup' = nextGroup /\ at' = at /\ Top.left \in Nat
    BY <2>1, TopFacts DEF fields
  <2>3. ASSUME NEW x \in Nat \ {Null}, Return(x), UNCHANGED status,
               allocs' \in Nat /\ DOMAIN heap' \subseteq 1 .. allocs'
        PROVE  Control'
    BY <1>1, <1>4, <1>5, <2>1, <2>2, <2>3, ControlReturns DEF Current
  <2>4. CASE Top.left # Null
    BY <1>16, <2>2, <2>3, <2>4, NamesKept DEF LastItem
  <2>5. CASE Top.left = Null /\ New("EMPTY", Null, Null, {}, 0) /\ Return(NewNode)
             /\ UNCHANGED status
    BY <1>6, <2>3, <2>5, NamesKept
  <2>6. CASE Return(Null) /\ Error("ESPACE") /\ UNCHANGED nodes
    BY <1>1, <1>4, <1>5, <2>1, <2>2, <2>6, NamesKept, ControlReturns DEF Error, Status, Null
  <2> QED
    BY <1>16, <2>4, <2>5, <2>6 DEF LastItem
<1>17. CASE NoRepeat
  <2>1. pc = "run" /\ stack # <<>> /\ Top.fn = "repeat" /\ ret # None
        /\ UNCHANGED <<input, at, status, fields, nodes, outs, pc>> /\ Return(ret)
    BY <1>17 DEF NoRepeat, Resumed
  <2>2. depth' = depth /\ nextGroup' = nextGroup /\ ret \in Nat
    BY <2>1, TopFacts DEF fields
  <2> QED
    BY <1>1, <1>4, <2>1, <2>2, NamesKept, ControlReturns DEF Current
<1>18. CASE Repeat
  <2>1. pc = "run" /\ stack # <<>> /\ Top.fn = "repeat" /\ ret # None /\ ret # Null
        /\ Current # "EOF" /\ UNCHANGED <<input, fields, outs, pc>>
    BY <1>18 DEF Repeat, Resumed, RepeatType
  <2>2. depth' = depth /\ nextGroup' = nextGroup
    BY <2>1 DEF fields
  <2>3. /\ at + 1 \in 1 .. Len(input) /\ status = "OK" /\ (~ AheadOk => Ahead.data \in LexerError)
    BY <2>1, AheadFacts
  <2>4. ASSUME Return(Null), at' \in {at, at + 1}, status' \in Status, status' # "OK",
               allocs' \in Nat /\ DOMAIN heap' \subseteq 1 .. allocs'
        PROVE  Control'
    BY <1>1, <1>4, <2>1, <2>2, <2>3, <2>4, ControlReturns DEF Null
  <2>5. CASE /\ Advance /\ AheadOk /\ ~ SecondRepeat
             /\ New(Current, ret, Null, input[at].data, 0)
             /\ Return(NewNode)
    <3>1. at' = at + 1 /\ status' = "OK" /\ input[at'].type # "ERROR"
      BY <2>3, <2>5 DEF Advance, Fetched, AheadOk, Ahead
    <3> QED
      BY <1>1, <1>3, <1>6, <2>1, <2>2, <2>3, <2>5, <3>1, NamesKept, ControlReturns
  <2>6. CASE /\ at' = at + 1
             /\ IF AheadOk THEN SecondRepeat /\ Error("BADRPT") ELSE status' = Fetched
             /\ Free({ret}) /\ Return(Null)
    <3>1. status' \in Status /\ status' # "OK"
      BY <1>3, <2>3, <2>6 DEF Error, Fetched, Status
    <3> QED
      BY <2>4, <2>6, <3>1, NamesKept
  <2>7. CASE Free({ret}) /\ Return(Null) /\ Error("ESPACE") /\ UNCHANGED at
    <3>1. status' \in Status /\ status' # "OK"
      BY <2>3, <2>7 DEF Error, Status
    <3> QED
      BY <2>4, <2>7, <3>1, NamesKept
  <2> QED
    BY <1>18, <2>5, <2>6, <2>7 DEF Repeat
<1>19. CASE Leaf
  <2>1. pc = "run" /\ stack # <<>> /\ Top.fn = "atom" /\ ret = None
        /\ Current # "EOF" /\ UNCHANGED <<input, fields, outs, pc>> /\ at' = at + 1
    BY <1>19 DEF Leaf, Entered, LeafType
  <2>2. depth' = depth /\ nextGroup' = nextGroup
    BY <2>1 DEF fields
  <2>3. /\ at + 1 \in 1 .. Len(input) /\ status = "OK" /\ (~ AheadOk => Ahead.data \in LexerError)
    BY <1>5, <2>1, AheadFacts
  <2>4. CASE /\ AheadOk
             /\ New(Current, Null, Null, input[at].data, 0)
             /\ Return(NewNode)
             /\ UNCHANGED status
    <3>1. input[at'].type # "ERROR"
      BY <2>1, <2>4 DEF AheadOk, Ahead
    <3> QED
      BY <1>1, <1>3, <1>6, <2>1, <2>2, <2>3, <2>4, <3>1, NamesKept, ControlReturns
  <2>5. ASSUME Return(Null), UNCHANGED nodes, status' \in Status, status' # "OK"
        PROVE  Control'
    BY <1>1, <2>1, <2>2, <2>3, <2>5, NamesKept, ControlReturns DEF Null
  <2>6. CASE ~ AheadOk /\ status' = Fetched /\ Return(Null) /\ UNCHANGED nodes
    BY <1>3, <2>3, <2>5, <2>6 DEF Fetched
  <2>7. CASE AheadOk /\ Error("ESPACE") /\ Return(Null) /\ UNCHANGED nodes
    BY <2>3, <2>5, <2>7 DEF Error, Status
  <2> QED
    BY <1>19, <2>4, <2>6, <2>7 DEF Leaf
<1>20. CASE NoOperand \/ GroupTooDeep
  <2>1. pc = "run" /\ stack # <<>> /\ Top.fn = "atom" /\ ret = None
        /\ UNCHANGED <<input, at, fields, nodes, outs, pc>>
        /\ (Error("BADRPT") \/ Error("EUNSUPPORTED")) /\ Return(Null)
    BY <1>20 DEF NoOperand, GroupTooDeep, Entered
  <2>2. depth' = depth /\ nextGroup' = nextGroup
    BY <2>1 DEF fields
  <2>3. status' \in Status /\ status' # "OK"
    BY <1>4, <1>5, <2>1 DEF Error, Status
  <2> QED
    BY <1>1, <1>4, <2>1, <2>2, <2>3, NamesKept, ControlReturns DEF Null
<1>21. CASE GroupOpen
  <2>1. /\ pc = "run" /\ stack # <<>> /\ Top.fn = "atom" /\ ret = None /\ Current = "LPAREN"
        /\ ~ TooDeep /\ UNCHANGED <<input, nodes, outs, pc>> /\ nextGroup' = nextGroup + 1
        /\ at' = at + 1 /\ status' = Fetched
    BY <1>21 DEF GroupOpen, Entered, Advance
  <2>2. /\ at + 1 \in 1 .. Len(input) /\ status = "OK" /\ (~ AheadOk => Ahead.data \in LexerError)
    BY <1>5, <2>1, AheadFacts
  <2>3. nextGroup' \in Nat \ {0} /\ depth + 1 \in 0 .. MaxGroupDepth
    BY <1>1, <2>1 DEF TooDeep
  <2>4. CASE AheadOk
    <3>1. /\ stack' = [stack EXCEPT ![Len(stack)].group = nextGroup]
                        \o <<Frame("expr"), Frame("concat")>>
          /\ ret' = None /\ depth' = depth + 1
          /\ status' = "OK" /\ input'[at'].type # "ERROR"
      BY <1>21, <2>1, <2>2, <2>4 DEF GroupOpen, Fetched, AheadOk, Ahead
    <3>2. Descent(stack, None, depth) /\ stack[Len(stack)].fn = "atom" /\ depth \in Nat
      BY <1>1, <2>1 DEF Control, Top
    <3>3. Descent(stack', ret', depth')
      BY <1>1, <2>1, <3>1, <3>2, DescentOpensGroup
    <3>4. stack' # <<>> /\ stack'[Len(stack')].fn = "concat"
      <4>1. stack \in Seq(FrameSet) /\ Len(stack) \in Nat \ {0}
        BY <2>1, TopFacts
      <4> DEFINE u == [stack EXCEPT ![Len(stack)].group = nextGroup]
      <4>2. stack[Len(stack)] \in FrameSet
        BY <4>1
      <4>3. [stack[Len(stack)] EXCEPT !.group = nextGroup] \in FrameSet
        BY <1>1, <4>2 DEF FrameSet
      <4>4. u \in Seq(FrameSet) /\ Len(u) = Len(stack)
        BY <4>1, <4>2, <4>3
      <4> DEFINE a == Frame("expr")
                 b == Frame("concat")
                 v == u \o <<a, b>>
      <4>5. a \in FrameSet /\ b \in FrameSet /\ b.fn = "concat"
        BY DEF Frame, FrameSet, Function, Null
      <4> HIDE DEF u, a, b
      <4>6. Len(v) = Len(u) + 2 /\ v[Len(u) + 2] = b /\ Len(u) \in Nat
        BY <4>1, <4>4, <4>5
      <4> HIDE DEF v
      <4>7. v[Len(v)].fn = "concat" /\ v # <<>>
        BY <4>5, <4>6
      <4>8. stack' = v
        BY <3>1 DEF u, v, a, b
      <4> QED
        BY <4>7, <4>8
    <3>5. Running'
      BY <1>5, <2>1, <2>2, <3>1, <3>4 DEF Running, Current, Top
    <3>6. at' \in 0 .. Len(input') /\ pc' = "run" /\ captures' = captures /\ tree' = Null
          /\ allocs' = allocs /\ heap' = heap
      BY <2>1, <2>2 DEF Control, outs, nodes
    <3> QED
      BY <1>1, <1>3, <2>1, <2>3, <3>1, <3>3, <3>5, <3>6 DEF Control
  <2>5. CASE ~ AheadOk
    <3>1. Return(Null) /\ depth' = depth /\ status' \in Status /\ status' # "OK"
      BY <1>3, <1>21, <2>1, <2>2, <2>5 DEF GroupOpen, Fetched
    <3> QED
      BY <1>1, <2>1, <2>2, <2>3, <3>1, NamesKept, ControlReturns DEF Null
  <2> QED
    BY <2>4, <2>5
<1>22. CASE GroupBroken
  <2>1. pc = "run" /\ stack # <<>> /\ Top.fn = "atom" /\ ret # None
        /\ UNCHANGED <<input, at, nextGroup, outs, pc>> /\ Return(Null) /\ depth' = depth - 1
    BY <1>22 DEF GroupBroken, Resumed
  <2>2. /\ status' \in Status /\ status' # "OK"
        /\ allocs' \in Nat /\ DOMAIN heap' \subseteq 1 .. allocs'
    <3>1. CASE ret = Null
      BY <1>1, <1>4, <1>22, <2>1, <3>1, NamesKept DEF GroupBroken
    <3>2. CASE ret # Null
      BY <1>4, <1>22, <2>1, <3>2, NamesKept DEF GroupBroken, Error, Status
    <3> QED
      BY <3>1, <3>2
  <2> QED
    BY <1>1, <1>4, <2>1, <2>2, ControlReturns DEF Null
<1>23. CASE GroupClose
  <2>1. pc = "run" /\ stack # <<>> /\ Top.fn = "atom" /\ ret # None /\ ret # Null
        /\ Current = "RPAREN" /\ UNCHANGED <<input, nextGroup, outs, pc>>
        /\ depth' = depth - 1 /\ at' = at + 1
    BY <1>23 DEF GroupClose, Resumed
  <2>2. /\ at + 1 \in 1 .. Len(input) /\ status = "OK" /\ (~ AheadOk => Ahead.data \in LexerError)
    BY <2>1, AheadFacts
  <2>3. CASE /\ AheadOk
             /\ New("GROUP", ret, Null, {}, GroupNumber)
             /\ Return(NewNode)
             /\ UNCHANGED status
    <3>1. input[at'].type # "ERROR"
      BY <2>1, <2>3 DEF AheadOk, Ahead
    <3> QED
      BY <1>1, <1>3, <1>6, <2>1, <2>2, <2>3, <3>1, NamesKept, ControlReturns
  <2>4. CASE /\ (~ AheadOk /\ status' = Fetched) \/ (AheadOk /\ Error("ESPACE"))
             /\ Return(Null) /\ (Free({ret}) \/ UNCHANGED nodes)
    <3>1. status' \in Status /\ status' # "OK"
      BY <1>3, <2>2, <2>4 DEF Error, Fetched, Status
    <3> QED
      BY <1>1, <2>1, <2>2, <2>4, <3>1, NamesKept, ControlReturns DEF Null
  <2> QED
    BY <1>23, <2>3, <2>4 DEF GroupClose
<1>24. CASE Returned \/ UNCHANGED vars
  <2>1. UNCHANGED vars
    BY <1>24 DEF Returned
  <2>2. /\ input' = input /\ at' = at /\ status' = status /\ nextGroup' = nextGroup
        /\ depth' = depth /\ stack' = stack /\ ret' = ret /\ heap' = heap /\ allocs' = allocs
        /\ tree' = tree /\ captures' = captures /\ pc' = pc
    BY <2>1 DEF vars, fields, nodes, outs
  <2> QED
    BY <2>2 DEF Control, Running, Current, Top
<1> QED
  BY <1>7, <1>8, <1>9, <1>10, <1>11, <1>12, <1>13, <1>14, <1>15, <1>16, <1>17, <1>18,
     <1>19, <1>20, <1>21, <1>22, <1>23, <1>24 DEF Next

-----------------------------------------------------------------------------
(* The inductive invariant of the nodes.                                   *)

\* What the functions s, with r returned to the last one, and the caller hold.
Holding(s, r, t) ==
  [h \in Holder |-> IF h = -1 THEN t
                    ELSE IF h = 0 THEN (IF r = None THEN Null ELSE r)
                    ELSE IF h \in 1 .. Len(s) THEN s[h].left
                    ELSE Null]

Held == Holding(stack, ret, tree)

\* At most one node is owned by nobody, and only after there was no memory for
\* the node of a group that was closed.
Memory ==
  /\ Forest(Held, heap)
  /\ \A x, y \in Unowned(Held, heap) : x = y
  /\ Unowned(Held, heap) # {} =>
       /\ status = "ESPACE" /\ \E i \in 1 .. at : input[i].type = "RPAREN"
       /\ ret = Null \/ pc = "done"

\* What is held while the parser runs.
LEMMA HeldFacts ==
  ASSUME Control, pc = "run"
  PROVE  /\ Held[-1] = Null /\ -1 \in Holder
         /\ Held[0] = IF ret = None THEN Null ELSE ret
         /\ 0 \in Holder
         /\ stack # <<>> => /\ Len(stack) \in Holder \ {0, -1}
                            /\ Held[Len(stack)] = Top.left
<1>1. -1 \in Holder /\ 0 \in Holder /\ 0 # -1 /\ tree = Null
  BY DEF Holder, Control
<1>2. Held[-1] = Null /\ Held[0] = IF ret = None THEN Null ELSE ret
  BY <1>1 DEF Held, Holding
<1>3. ASSUME stack # <<>>
      PROVE  Len(stack) \in Holder \ {0, -1} /\ Held[Len(stack)] = Top.left
  <2>1. Len(stack) \in Nat \ {0}
    BY <1>3, TopFacts
  <2>2. Len(stack) \in Holder \ {0, -1} /\ Len(stack) \in 1 .. Len(stack)
    BY <2>1 DEF Holder
  <2> QED
    BY <2>2 DEF Held, Holding, Top
<1> QED
  BY <1>1, <1>2, <1>3

\* What is held after a function returned.
LEMMA HeldReturns ==
  ASSUME Control, pc = "run", stack # <<>>, NEW x \in Nat, Return(x), tree' = tree
  PROVE  Held' = [h \in Holder |-> IF h = 0 THEN x
                                   ELSE IF h = Len(stack) THEN Null
                                   ELSE Held[h]]
<1>1. /\ stack' = Front(stack) /\ ret' = x /\ x # None
  BY DEF Return, None
<1>2. /\ Len(Front(stack)) = Len(stack) - 1 /\ Len(stack) \in Nat \ {0}
      /\ \A i \in 1 .. Len(stack) - 1 : Front(stack)[i] = stack[i]
  BY TopFacts, FrontIs, Zenon
<1>3. Held' = Holding(Front(stack), x, tree)
  BY <1>1 DEF Held
<1>4. ASSUME NEW h \in Holder
      PROVE  Holding(Front(stack), x, tree)[h]
               = IF h = 0 THEN x ELSE IF h = Len(stack) THEN Null ELSE Held[h]
  <2> DEFINE n == Len(stack)
             t == Front(stack)
  <2>1. Len(t) = n - 1 /\ n \in Nat \ {0} /\ \A i \in 1 .. n - 1 : t[i] = stack[i]
    BY <1>2
  <2> HIDE DEF n, t
  <2>2. h \in 1 .. n <=> h \in 1 .. n - 1 \/ h = n
    BY <2>1 DEF Holder
  <2>3. h = n => h # 0 /\ h # -1 /\ h \notin 1 .. n - 1
    BY <2>1 DEF Holder
  <2>4. 0 # -1 /\ 0 \notin 1 .. n
    BY <2>1
  <2>5. Holding(t, x, tree)[h] = IF h = -1 THEN tree
                                 ELSE IF h = 0 THEN x
                                 ELSE IF h \in 1 .. n - 1 THEN t[h].left
                                 ELSE Null
    BY <1>1, <2>1 DEF Holding
  <2>6. Held[h] = IF h = -1 THEN tree
                  ELSE IF h = 0 THEN (IF ret = None THEN Null ELSE ret)
                  ELSE IF h \in 1 .. n THEN stack[h].left
                  ELSE Null
    BY DEF Held, Holding, n
  <2>7. Holding(t, x, tree)[h] = IF h = 0 THEN x ELSE IF h = n THEN Null ELSE Held[h]
    BY <2>1, <2>2, <2>3, <2>4, <2>5, <2>6
  <2> QED
    BY <2>7 DEF n, t
<1>5. DOMAIN Holding(Front(stack), x, tree) = Holder
      /\ Holding(Front(stack), x, tree) = [h \in Holder |-> Holding(Front(stack), x, tree)[h]]
  BY DEF Holding
<1> QED
  BY <1>3, <1>4, <1>5

\* What is held after a function kept a node.
LEMMA HeldKeeps ==
  ASSUME Control, pc = "run", stack # <<>>, NEW x, Keep(x), tree' = tree
  PROVE  Held' = [h \in Holder |-> IF h = 0 THEN Null
                                   ELSE IF h = Len(stack) THEN x
                                   ELSE Held[h]]
<1> DEFINE n == Len(stack)
           t == [stack EXCEPT ![n].left = x]
<1>1. stack' = t /\ ret' = None
  BY DEF Keep
<1>2. stack \in Seq(FrameSet) /\ n \in Nat \ {0} /\ DOMAIN stack = 1 .. n
  BY TopFacts
<1>3. Len(t) = n /\ \A i \in 1 .. n : t[i].left = IF i = n THEN x ELSE stack[i].left
  <2>1. Len(t) = n
    BY <1>2
  <2>2. ASSUME NEW i \in 1 .. n PROVE t[i].left = IF i = n THEN x ELSE stack[i].left
    <3>1. stack[i] \in FrameSet
      BY <1>2
    <3>2. t[i] = IF i = n THEN [stack[i] EXCEPT !.left = x] ELSE stack[i]
      BY <1>2
    <3> HIDE DEF t
    <3> QED
      BY <3>1, <3>2 DEF FrameSet
  <2> QED
    BY <2>1, <2>2
<1>4. Held' = Holding(t, None, tree)
  BY <1>1 DEF Held
<1> HIDE DEF t
<1>5. ASSUME NEW h \in Holder
      PROVE  Holding(t, None, tree)[h]
               = IF h = 0 THEN Null ELSE IF h = n THEN x ELSE Held[h]
  <2>1. Holding(t, None, tree)[h] = IF h = -1 THEN tree
                                    ELSE IF h = 0 THEN Null
                                    ELSE IF h \in 1 .. n THEN t[h].left
                                    ELSE Null
    BY <1>3 DEF Holding
  <2>2. Held[h] = IF h = -1 THEN tree
                  ELSE IF h = 0 THEN (IF ret = None THEN Null ELSE ret)
                  ELSE IF h \in 1 .. n THEN stack[h].left
                  ELSE Null
    BY DEF Held, Holding
  <2>3. 0 # -1 /\ n # -1 /\ n # 0 /\ n \in 1 .. n
    BY <1>2
  <2> HIDE DEF n
  <2> QED
    BY <1>3, <2>1, <2>2, <2>3
<1>6. Holding(t, None, tree) = [h \in Holder |-> Holding(t, None, tree)[h]]
  BY DEF Holding
<1> QED
  BY <1>4, <1>5, <1>6

\* Calls of functions hold nothing new.
LEMMA HeldCalls ==
  ASSUME Control, pc = "run", stack # <<>>, ret = None, ret' = None, tree' = tree,
         Len(stack') \in Nat, Len(stack) <= Len(stack'),
         \A i \in 1 .. Len(stack') :
           stack'[i].left = IF i \in 1 .. Len(stack) THEN stack[i].left ELSE Null
  PROVE  Held' = Held
<1>1. Len(stack) \in Nat
  BY TopFacts
<1> DEFINE n == Len(stack)
           m == Len(stack')
<1>2. 1 .. n \subseteq 1 .. m
  BY <1>1
<1>3. Held' = Holding(stack', None, tree)
  BY DEF Held
<1>4. ASSUME NEW h \in Holder PROVE Holding(stack', None, tree)[h] = Held[h]
  <2>1. Holding(stack', None, tree)[h] = IF h = -1 THEN tree
                                    ELSE IF h = 0 THEN Null
                                    ELSE IF h \in 1 .. m THEN stack'[h].left
                                    ELSE Null
    BY DEF Holding
  <2>2. Held[h] = IF h = -1 THEN tree
                  ELSE IF h = 0 THEN Null
                  ELSE IF h \in 1 .. n THEN stack[h].left
                  ELSE Null
    BY DEF Held, Holding
  <2>3. \A i \in 1 .. m : stack'[i].left = IF i \in 1 .. n THEN stack[i].left ELSE Null
    OBVIOUS
  <2> HIDE DEF n, m
  <2> QED
    BY <1>2, <2>1, <2>2, <2>3
<1>5. /\ Holding(stack', None, tree) = [h \in Holder |-> Holding(stack', None, tree)[h]]
      /\ Held = [h \in Holder |-> Held[h]]
  BY DEF Holding, Held
<1> QED
  BY <1>3, <1>4, <1>5

\* Freeing what some variables hold, which are not used any more.
LEMMA MemoryFrees ==
  ASSUME Forest(Held, heap), NEW K \in SUBSET Holder,
         Free({Held[j] : j \in K}), Held' = Freed(Held, K)
  PROVE  /\ Forest(Held', heap')
         /\ Unowned(Held', heap') = Unowned(Held, heap)
<1>1. UNION {Below(x) : x \in {Held[j] : j \in K}} = Gone(Held, heap, K)
  BY BelowIs DEF Gone
<1>2. heap' = Rest(heap, Gone(Held, heap, K))
  BY <1>1 DEF Free, Rest
<1> QED
  BY <1>2, ForestFreed

\* Making a node of what two variables hold, for one of them or another one.
LEMMA MemoryGrows ==
  ASSUME Control, Forest(Held, heap), NEW h \in Holder, NEW k \in Holder, h # k,
         NEW m \in Holder, m \in {h, k} \/ Held[m] = Null,
         NEW op, NEW data, NEW group, New(op, Held[h], Held[k], data, group),
         Held' = Joined(Held, h, k, m, NewNode)
  PROVE  /\ Forest(Held', heap')
         /\ Unowned(Held', heap') = Unowned(Held, heap)
<1> DEFINE node == [op |-> op, left |-> Held[h], right |-> Held[k],
                    data |-> data, group |-> group]
<1>1. heap' = Grown(heap, NewNode, node)
  BY DEF New, Grown, NewNode
<1>2. node.left = Held[h] /\ node.right = Held[k]
  OBVIOUS
<1>3. NewNode \in Nat \ {0} /\ \A y \in DOMAIN heap : y < NewNode
  BY DEF Control, NewNode
<1> HIDE DEF node
<1> QED
  BY <1>1, <1>2, <1>3, ForestJoined

\* Nothing more is lost in a step that leaves the same nodes unowned.
LEMMA LossKept ==
  ASSUME Memory, Forest(Held', heap'), Unowned(Held', heap') = Unowned(Held, heap),
         input' = input,
         \/ ret # Null /\ pc # "done"
         \/ status' = status /\ at' = at /\ (ret' = Null \/ pc' = "done")
  PROVE  Memory'
<1>1. /\ \A x, y \in Unowned(Held, heap) : x = y
      /\ Unowned(Held, heap) # {} =>
           /\ status = "ESPACE" /\ \E i \in 1 .. at : input[i].type = "RPAREN"
           /\ ret = Null \/ pc = "done"
  BY DEF Memory
<1>2. Unowned(Held, heap) # {} =>
        /\ status' = "ESPACE" /\ \E i \in 1 .. at' : input'[i].type = "RPAREN"
        /\ ret' = Null \/ pc' = "done"
  BY <1>1
<1> QED
  BY <1>1, <1>2 DEF Memory

\* No node, and nothing lost, when the parser starts.
LEMMA MemoryInit == Init => Memory
<1> SUFFICES ASSUME Init PROVE Memory
  OBVIOUS
<1>1. DOMAIN heap = {} /\ stack = <<>> /\ ret = None /\ tree = Null
  BY DEF Init
<1>2. Held = [h \in Holder |-> Null]
  BY <1>1 DEF Held, Holding
<1>3. Forest(Held, heap) /\ Unowned(Held, heap) = {}
  BY <1>1, <1>2 DEF Forest, IsHeap, Unowned
<1> QED
  BY <1>3 DEF Memory

\* Every step of the parser keeps the nodes in order.
LEMMA MemoryNext == Control /\ Memory /\ [Next]_vars => Memory'
<1> SUFFICES ASSUME Control, Memory, [Next]_vars PROVE Memory'
  OBVIOUS
<1>1. /\ Forest(Held, heap) /\ DOMAIN heap \subseteq Nat \ {0}
      /\ Held \in [Holder -> DOMAIN heap \cup {Null}]
  BY DEF Memory, Forest, IsHeap
<1>2. Null = 0 /\ None = -1 /\ None # Null
  BY DEF Null, None
<1>3. NewNode \in Nat /\ pc \in {"start", "run", "parsed", "done"}
  BY DEF Control, NewNode
<1>4. ASSUME NEW op, NEW left, NEW right, Binary(op, left, right)
      PROVE  New(op, left, right, {}, 0)
  BY <1>4 DEF Binary
<1>5. CASE Start
  <2>1. /\ pc = "start" /\ stack = <<>> /\ ret = None /\ tree' = tree /\ heap' = heap
        /\ input' = input /\ ret' = None
    BY <1>5 DEF Start, Control, Push, outs, nodes, Advance
  <2>2. Held' = Held
    <3>1. CASE AheadOk
      <4>1. stack' = <<>> \o <<Frame("expr"), Frame("concat")>>
        BY <1>5, <2>1, <3>1 DEF Start, Push
      <4>2. Len(stack') = 2 /\ \A i \in 1 .. 2 : stack'[i].left = Null
        BY <4>1 DEF Frame
      <4>3. Held = [h \in Holder |-> IF h = -1 THEN tree ELSE Null]
        BY <2>1 DEF Held, Holding
      <4>4. Held' = [h \in Holder |-> IF h = -1 THEN tree ELSE Null]
        BY <2>1, <4>2 DEF Held, Holding
      <4> QED
        BY <4>3, <4>4
    <3>2. CASE ~ AheadOk
      BY <1>5, <2>1, <3>2 DEF Start, Held
    <3> QED
      BY <3>1, <3>2
  <2> QED
    BY <1>1, <1>2, <2>1, <2>2, LossKept
<1>6. CASE Accept
  <2>1. /\ pc = "run" /\ stack = <<>> /\ stack' = stack /\ ret # Null /\ ret' = None
        /\ tree' = ret /\ heap' = heap /\ input' = input
    BY <1>6 DEF Accept, nodes
  <2>2. ret # None
    BY <2>1 DEF Control, Running
  <2>3. /\ Held = [h \in Holder |-> IF h = -1 THEN Null ELSE IF h = 0 THEN ret ELSE Null]
        /\ Held' = [h \in Holder |-> IF h = -1 THEN ret ELSE Null]
    BY <2>1, <2>2 DEF Held, Holding, Control
  <2>4. 0 \in Holder /\ -1 \in Holder /\ Held[0] = ret /\ Held[-1] = Null /\ 0 # -1
    BY <2>3, <1>2 DEF Holder
  <2>5. Held' = Moved(Held, 0, -1)
    BY <2>3, <2>4 DEF Moved
  <2>6. Forest(Held', heap') /\ Unowned(Held', heap') = Unowned(Held, heap)
    BY <1>1, <2>1, <2>4, <2>5, ForestMoved
  <2> QED
    BY <1>2, <2>1, <2>6, LossKept
<1>7. CASE Reject
  <2>1. /\ pc = "run" /\ stack = <<>> /\ stack' = stack /\ ret' = None
        /\ tree' = tree /\ input' = input /\ at' = at /\ pc' = "done"
    BY <1>7 DEF Reject, outs
  <2>2. ret # None
    BY <2>1 DEF Control, Running
  <2>3. /\ Held[-1] = Null /\ Held[0] = ret /\ 0 \in Holder /\ -1 \in Holder
    BY <2>1, <2>2, HeldFacts
  <2>4. Held' = Freed(Held, {0})
    BY <2>1, <2>2, <1>2 DEF Held, Holding, Freed
  <2>5. CASE ret = Null
    <3>1. heap' = heap /\ status' = status
      BY <1>7, <2>5 DEF Reject, nodes
    <3>2. Held' = Held
      BY <1>1, <2>3, <2>4, <2>5 DEF Freed
    <3> QED
      BY <1>1, <2>1, <3>1, <3>2, LossKept
  <2>6. CASE ret # Null
    <3>1. Free({Held[j] : j \in {0}}) /\ {0} \in SUBSET Holder
      <4>1. {Held[j] : j \in {0}} = {ret}
        BY <2>3
      <4> QED
        BY <1>7, <2>3, <2>6, <4>1 DEF Reject
    <3> QED
      BY <1>1, <2>1, <2>4, <2>6, <3>1, MemoryFrees, LossKept
  <2> QED
    BY <2>5, <2>6
<1>8. CASE Release
  <2>1. /\ pc = "parsed" /\ Free({tree}) /\ tree' = Null /\ stack' = stack /\ ret' = ret
        /\ input' = input /\ ret = None
    BY <1>8 DEF Release, Control
  <2>2. Held[-1] = tree /\ -1 \in Holder
    BY DEF Held, Holding, Holder
  <2>3. Held' = Freed(Held, {-1})
    BY <2>1 DEF Held, Holding, Freed
  <2>4. {Held[j] : j \in {-1}} = {tree} /\ {-1} \in SUBSET Holder
    BY <2>2
  <2> QED
    BY <1>1, <1>2, <2>1, <2>3, <2>4, MemoryFrees, LossKept
<1>9. ASSUME pc = "run", stack # <<>>, tree' = tree, input' = input, at' = at,
             Top.fn \in {"expr", "concat"}, Resumed(Top.fn),
             CASE ret = Null ->
                    Free({Top.left}) /\ Return(Null) /\ UNCHANGED status
               [] ret # Null /\ Top.left = Null ->
                    Keep(ret) /\ UNCHANGED <<nodes, status>>
               [] OTHER ->
                    \/ \E op : Binary(op, Top.left, ret) /\ Keep(NewNode)
                    \/ Free({Top.left, ret}) /\ Return(Null)
      PROVE  Memory'
  <2> DEFINE n == Len(stack)
  <2>1. /\ ret # None /\ n \in Holder \ {0, -1} /\ 0 \in Holder /\ -1 \in Holder /\ 0 # -1
        /\ Held[n] = Top.left /\ Held[0] = ret /\ Held[-1] = Null
    BY <1>9, HeldFacts DEF Resumed
  <2> HIDE DEF n
  <2>2. Return(Null) => Held' = [h \in Holder |-> IF h = 0 THEN Null
                                                  ELSE IF h = n THEN Null
                                                  ELSE Held[h]]
    BY <1>2, <1>9, HeldReturns DEF n
  <2>3. \A x : Keep(x) => Held' = [h \in Holder |-> IF h = 0 THEN Null
                                                    ELSE IF h = n THEN x
                                                    ELSE Held[h]]
    BY <1>9, HeldKeeps DEF n
  <2>4. CASE ret = Null
    <3>1. Free({Top.left}) /\ Return(Null) /\ UNCHANGED status
      BY <1>9, <2>4
    <3>2. Held' = Freed(Held, {n})
      BY <2>1, <2>2, <2>4, <3>1 DEF Freed
    <3>3. {Held[j] : j \in {n}} = {Top.left} /\ {n} \in SUBSET Holder
      BY <2>1
    <3>4. Forest(Held', heap') /\ Unowned(Held', heap') = Unowned(Held, heap)
      BY <1>1, <3>1, <3>2, <3>3, MemoryFrees
    <3>5. ret' = Null
      BY <3>1 DEF Return
    <3> QED
      BY <1>9, <3>1, <3>4, <3>5, LossKept
  <2>5. CASE ret # Null /\ Top.left = Null
    <3>1. Keep(ret) /\ heap' = heap
      BY <1>9, <2>5 DEF nodes
    <3>2. Held' = Moved(Held, 0, n)
      BY <2>1, <2>3, <2>5, <3>1 DEF Moved
    <3>3. Forest(Held', heap') /\ Unowned(Held', heap') = Unowned(Held, heap)
      BY <1>1, <2>1, <2>5, <3>1, <3>2, ForestMoved
    <3> QED
      BY <1>9, <2>5, <3>3, LossKept
  <2>6. CASE ret # Null /\ Top.left # Null
    <3>1. CASE \E op : Binary(op, Top.left, ret) /\ Keep(NewNode)
      <4>1. PICK op : New(op, Held[n], Held[0], {}, 0) /\ Keep(NewNode)
        BY <1>4, <2>1, <3>1
      <4>2. Held' = Joined(Held, n, 0, n, NewNode)
        BY <2>1, <2>3, <4>1 DEF Joined
      <4>3. Forest(Held', heap') /\ Unowned(Held', heap') = Unowned(Held, heap)
        BY <1>1, <2>1, <4>1, <4>2, MemoryGrows
      <4> QED
        BY <1>9, <2>6, <4>3, LossKept
    <3>2. CASE Free({Top.left, ret}) /\ Return(Null)
      <4>1. Held' = Freed(Held, {n, 0})
        BY <2>1, <2>2, <3>2 DEF Freed
      <4>2. {Held[j] : j \in {n, 0}} = {Top.left, ret} /\ {n, 0} \in SUBSET Holder
        BY <2>1
      <4>3. Forest(Held', heap') /\ Unowned(Held', heap') = Unowned(Held, heap)
        BY <1>1, <3>2, <4>1, <4>2, MemoryFrees
      <4> QED
        BY <1>9, <2>6, <4>3, LossKept
    <3> QED
      BY <1>9, <2>6, <3>1, <3>2
  <2> QED
    BY <2>4, <2>5, <2>6
<1>10. CASE Branch \/ Item
  <2>1. /\ pc = "run" /\ stack # <<>> /\ Top.fn \in {"expr", "concat"} /\ Resumed(Top.fn)
        /\ tree' = tree /\ input' = input /\ at' = at
    BY <1>10 DEF Branch, Item, Resumed, outs
  <2>2. CASE ret = Null
    BY <1>9, <1>10, <2>1, <2>2 DEF Branch, Item
  <2>3. CASE ret # Null /\ Top.left = Null
    BY <1>9, <1>10, <2>1, <2>3 DEF Branch, Item
  <2>4. CASE ret # Null /\ Top.left # Null
    BY <1>9, <1>10, <2>1, <2>4 DEF Branch, Item
  <2> QED
    BY <2>2, <2>3, <2>4
\* The steps of a function that was called, or that only returns.
<1>11. ASSUME pc = "run", stack # <<>>, tree' = tree, input' = input,
              ret # Null, heap' = heap, Held' = Held
       PROVE  Memory'
  BY <1>1, <1>11, LossKept
<1>12. ASSUME pc = "run", stack # <<>>, tree' = tree, input' = input,
              ret # Null, Top.fn \in {"repeat", "atom"} \/ ret = None,
              NEW K \in SUBSET {0, Len(stack)}, Free({Held[j] : j \in K}), Return(Null),
              \A h \in {0, Len(stack)} \ K : Held[h] = Null
       PROVE  Memory'
  <2>1. Held' = [h \in Holder |-> IF h = 0 THEN Null
                                  ELSE IF h = Len(stack) THEN Null
                                  ELSE Held[h]]
    BY <1>2, <1>12, HeldReturns
  <2>2. Held' = Freed(Held, K) /\ K \in SUBSET Holder
    BY <1>12, <2>1, HeldFacts DEF Freed
  <2> QED
    BY <1>1, <1>2, <1>12, <2>2, MemoryFrees, LossKept
<1>13. CASE NextBranch
  <2>1. /\ pc = "run" /\ stack # <<>> /\ ret = None /\ ret # Null /\ tree' = tree
        /\ input' = input
    BY <1>2, <1>13 DEF NextBranch, Entered, outs
  <2>2. CASE AheadOk
    <3>1. stack' = stack \o <<Frame("concat")>> /\ ret' = None /\ heap' = heap
      BY <1>13, <2>2 DEF NextBranch, Push, nodes
    <3>2. stack \in Seq(FrameSet) /\ Len(stack) \in Nat \ {0}
      BY <2>1, TopFacts
    <3>3. /\ Len(stack') = Len(stack) + 1
          /\ \A i \in 1 .. Len(stack) + 1 :
               stack'[i].left = IF i \in 1 .. Len(stack) THEN stack[i].left ELSE Null
      BY <3>1, <3>2 DEF Frame
    <3>4. Held' = Held
      BY <2>1, <3>1, <3>2, <3>3, HeldCalls
    <3> QED
      BY <1>11, <2>1, <3>1, <3>4
  <2>3. CASE ~ AheadOk
    <3>1. Free({Top.left}) /\ Return(Null)
      BY <1>13, <2>3 DEF NextBranch
    <3>2. {Held[j] : j \in {Len(stack)}} = {Top.left} /\ Held[0] = Null
      BY <2>1, HeldFacts
    <3> QED
      BY <1>12, <2>1, <3>1, <3>2
  <2> QED
    BY <2>2, <2>3
<1>14. ASSUME pc = "run", stack # <<>>, tree' = tree, input' = input,
              ret # Null, Top.left = Null,
              NEW op, NEW data, NEW group, New(op, Held[0], Null, data, group),
              Return(NewNode)
       PROVE  Memory'
  <2> DEFINE n == Len(stack)
  <2>1. /\ n \in Holder \ {0, -1} /\ 0 \in Holder /\ -1 \in Holder /\ 0 # -1
        /\ Held[n] = Null /\ Held[-1] = Null
    BY <1>14, HeldFacts
  <2>2. Held' = [h \in Holder |-> IF h = 0 THEN NewNode
                                  ELSE IF h = n THEN Null
                                  ELSE Held[h]]
    BY <1>3, <1>14, HeldReturns
  <2> HIDE DEF n
  <2>3. Held' = Joined(Held, 0, -1, 0, NewNode)
    BY <2>1, <2>2 DEF Joined
  <2>4. New(op, Held[0], Held[-1], data, group)
    BY <1>14, <2>1
  <2>5. Forest(Held', heap') /\ Unowned(Held', heap') = Unowned(Held, heap)
    BY <1>1, <2>1, <2>3, <2>4, MemoryGrows
  <2> QED
    BY <1>14, <2>5, LossKept
<1>15. ASSUME pc = "run", stack # <<>>, tree' = tree, input' = input,
              ret = None, Return(Top.left), heap' = heap
       PROVE  Memory'
  <2> DEFINE n == Len(stack)
  <2>1. /\ n \in Holder \ {0, -1} /\ 0 \in Holder
        /\ Held[n] = Top.left /\ Held[0] = Null
    BY <1>15, HeldFacts
  <2>2. Top.left \in Nat
    BY <1>15, TopFacts
  <2>3. Held' = [h \in Holder |-> IF h = 0 THEN Top.left
                                  ELSE IF h = n THEN Null
                                  ELSE Held[h]]
    BY <1>15, <2>2, HeldReturns
  <2> HIDE DEF n
  <2>4. Held' = Moved(Held, n, 0)
    BY <2>1, <2>3 DEF Moved
  <2>5. Forest(Held', heap') /\ Unowned(Held', heap') = Unowned(Held, heap)
    BY <1>1, <1>15, <2>1, <2>4, ForestMoved
  <2> QED
    BY <1>2, <1>15, <2>5, LossKept
<1>16. ASSUME pc = "run", stack # <<>>, tree' = tree, Top.left = Null,
              ret \in {None, Null}, Return(Null)
       PROVE  Held' = Held
  <2>1. Held' = [h \in Holder |-> IF h = 0 THEN Null
                                  ELSE IF h = Len(stack) THEN Null
                                  ELSE Held[h]]
    BY <1>2, <1>16, HeldReturns
  <2>2. Held[0] = Null /\ Held[Len(stack)] = Null
    BY <1>16, HeldFacts
  <2>3. \A h \in Holder : Held[h] = IF h = 0 THEN Null
                                    ELSE IF h = Len(stack) THEN Null
                                    ELSE Held[h]
    BY <2>2
  <2>4. Held = [h \in Holder |-> Held[h]]
    BY <1>1
  <2> QED
    BY <2>1, <2>3, <2>4
<1>17. CASE LastBranch
  BY <1>15, <1>17 DEF LastBranch, Entered, outs, nodes
<1>18. CASE NextItem
  <2>1. /\ pc = "run" /\ stack # <<>> /\ ret = None /\ ret # Null /\ tree' = tree
        /\ input' = input /\ heap' = heap /\ ret' = None
        /\ stack' = stack \o <<Frame("repeat"), Frame("atom")>>
    BY <1>2, <1>18 DEF NextItem, Entered, outs, nodes, Push
  <2>2. stack \in Seq(FrameSet) /\ Len(stack) \in Nat \ {0}
    BY <2>1, TopFacts
  <2>3. /\ Len(stack') = Len(stack) + 2
        /\ \A i \in 1 .. Len(stack) + 2 :
             stack'[i].left = IF i \in 1 .. Len(stack) THEN stack[i].left ELSE Null
    BY <2>1, <2>2 DEF Frame
  <2>4. Held' = Held
    BY <2>1, <2>2, <2>3, HeldCalls
  <2> QED
    BY <1>11, <2>1, <2>4
<1>19. CASE LastItem
  <2>1. /\ pc = "run" /\ stack # <<>> /\ ret = None /\ ret # Null /\ tree' = tree
        /\ input' = input /\ Held[0] = Null
    BY <1>2, <1>19, HeldFacts DEF LastItem, Entered, outs
  <2>2. CASE Top.left # Null
    BY <1>15, <1>19, <2>1, <2>2 DEF LastItem, nodes
  <2>3. CASE Top.left = Null /\ New("EMPTY", Null, Null, {}, 0) /\ Return(NewNode)
    BY <1>14, <2>1, <2>3
  <2>4. CASE Top.left = Null /\ Return(Null) /\ UNCHANGED nodes
    BY <1>11, <1>16, <2>1, <2>4 DEF nodes
  <2> QED
    BY <1>19, <2>2, <2>3, <2>4 DEF LastItem
<1>20. CASE NoRepeat
  <2>1. /\ pc = "run" /\ stack # <<>> /\ ret # None /\ Top.fn = "repeat" /\ tree' = tree
        /\ input' = input /\ heap' = heap /\ Return(ret) /\ status' = status /\ at' = at
    BY <1>20 DEF NoRepeat, Resumed, outs, nodes
  <2>2. Top.left = Null /\ ret \in Nat
    BY <2>1, TopFacts
  <2>3. Held[0] = ret /\ Held[Len(stack)] = Null
    BY <2>1, <2>2, HeldFacts
  <2>4. Held' = Held
    <3>1. Held' = [h \in Holder |-> IF h = 0 THEN ret
                                    ELSE IF h = Len(stack) THEN Null
                                    ELSE Held[h]]
      BY <2>1, <2>2, HeldReturns
    <3>2. \A h \in Holder : Held[h] = IF h = 0 THEN ret
                                      ELSE IF h = Len(stack) THEN Null
                                      ELSE Held[h]
      BY <2>3
    <3>3. Held = [h \in Holder |-> Held[h]]
      BY <1>1
    <3> QED
      BY <3>1, <3>2, <3>3
  <2>5. ret' = ret
    BY <2>1 DEF Return
  <2> QED
    BY <1>1, <2>1, <2>4, <2>5, LossKept
<1>21. CASE Repeat
  <2>1. /\ pc = "run" /\ stack # <<>> /\ ret # None /\ ret # Null /\ Top.fn = "repeat"
        /\ tree' = tree /\ input' = input
    BY <1>21 DEF Repeat, Resumed, outs
  <2>2. Top.left = Null /\ Held[0] = ret /\ Held[Len(stack)] = Null
    BY <2>1, HeldFacts, TopFacts
  <2>3. CASE New(Current, ret, Null, input[at].data, 0) /\ Return(NewNode)
    BY <1>14, <2>1, <2>2, <2>3
  <2>4. CASE Free({ret}) /\ Return(Null)
    <3>1. {Held[j] : j \in {0}} = {ret}
      BY <2>2
    <3> QED
      BY <1>12, <2>1, <2>2, <2>4, <3>1
  <2> QED
    BY <1>21, <2>3, <2>4 DEF Repeat
<1>22. CASE Leaf
  <2>1. /\ pc = "run" /\ stack # <<>> /\ ret = None /\ ret # Null /\ Top.fn = "atom"
        /\ tree' = tree /\ input' = input
    BY <1>2, <1>22 DEF Leaf, Entered, outs
  <2>2. Top.left = Null /\ Held[0] = Null
    BY <2>1, HeldFacts, TopFacts
  <2>3. CASE New(Current, Null, Null, input[at].data, 0) /\ Return(NewNode)
    BY <1>14, <2>1, <2>2, <2>3
  <2>4. CASE Return(Null) /\ UNCHANGED nodes
    BY <1>11, <1>16, <2>1, <2>2, <2>4 DEF nodes
  <2> QED
    BY <1>22, <2>3, <2>4 DEF Leaf
<1>23. CASE NoOperand \/ GroupTooDeep
  <2>1. /\ pc = "run" /\ stack # <<>> /\ ret = None /\ ret # Null /\ Top.fn = "atom"
        /\ tree' = tree /\ input' = input /\ Return(Null) /\ heap' = heap
    BY <1>2, <1>23 DEF NoOperand, GroupTooDeep, Entered, outs, nodes
  <2>2. Top.left = Null
    BY <2>1, TopFacts
  <2> QED
    BY <1>11, <1>16, <2>1, <2>2
<1>24. CASE GroupOpen
  <2>1. /\ pc = "run" /\ stack # <<>> /\ ret = None /\ ret # Null /\ Top.fn = "atom"
        /\ tree' = tree /\ input' = input /\ heap' = heap /\ Top.left = Null
    BY <1>2, <1>24, TopFacts DEF GroupOpen, Entered, outs, nodes
  <2>2. CASE AheadOk
    <3> DEFINE n == Len(stack)
               u == [stack EXCEPT ![n].group = nextGroup]
               a == Frame("expr")
               b == Frame("concat")
    <3>1. stack' = u \o <<a, b>> /\ ret' = None
      BY <1>24, <2>2 DEF GroupOpen
    <3>2. stack \in Seq(FrameSet) /\ n \in Nat \ {0} /\ nextGroup \in Nat
      BY <2>1, TopFacts DEF Control
    <3>3. ASSUME NEW i \in 1 .. n PROVE u[i] \in FrameSet /\ u[i].left = stack[i].left
      <4>1. stack[i] \in FrameSet
        BY <3>2
      <4>2. u[i] = IF i = n THEN [stack[i] EXCEPT !.group = nextGroup] ELSE stack[i]
        BY <3>2
      <4> HIDE DEF u
      <4> QED
        BY <3>2, <4>1, <4>2 DEF FrameSet
    <3>4. DOMAIN u = 1 .. n /\ u = [i \in 1 .. n |-> u[i]]
      BY <3>2
    <3> HIDE DEF u
    <3>5. u \in Seq(FrameSet) /\ Len(u) = n
      BY <3>2, <3>3, <3>4
    <3>6. a \in FrameSet /\ b \in FrameSet /\ a.left = Null /\ b.left = Null
      BY DEF Frame, FrameSet, Function, Null
    <3> HIDE DEF a, b, n
    <3>7. /\ Len(stack') = n + 2
          /\ \A i \in 1 .. n + 2 :
               stack'[i].left = IF i \in 1 .. n THEN stack[i].left ELSE Null
      BY <3>1, <3>2, <3>3, <3>5, <3>6
    <3>8. Held' = Held
      <4>1. Len(stack') \in Nat /\ n <= Len(stack')
        BY <3>2, <3>7
      <4>2. \A i \in 1 .. Len(stack') :
              stack'[i].left = IF i \in 1 .. n THEN stack[i].left ELSE Null
        BY <3>7
      <4> QED
        BY <2>1, <3>1, <4>1, <4>2, HeldCalls DEF n
    <3> QED
      BY <1>11, <2>1, <3>8
  <2>3. CASE ~ AheadOk
    BY <1>11, <1>16, <1>24, <2>1, <2>3 DEF GroupOpen
  <2> QED
    BY <2>2, <2>3
<1>25. CASE GroupBroken
  <2>1. /\ pc = "run" /\ stack # <<>> /\ ret # None /\ Top.fn = "atom" /\ at' = at
        /\ tree' = tree /\ input' = input /\ Return(Null) /\ Top.left = Null
    BY <1>25, TopFacts DEF GroupBroken, Resumed, outs
  <2>2. Held[0] = ret /\ Held[Len(stack)] = Null /\ ret' = Null
    BY <2>1, HeldFacts DEF Return
  <2>3. CASE ret = Null
    <3>1. status' = status /\ heap' = heap
      BY <1>25, <2>3 DEF GroupBroken, nodes
    <3> QED
      BY <1>1, <1>16, <2>1, <2>2, <2>3, <3>1, LossKept
  <2>4. CASE ret # Null
    <3>1. Free({ret}) /\ {Held[j] : j \in {0}} = {ret}
      BY <1>25, <2>2, <2>4 DEF GroupBroken
    <3> QED
      BY <1>12, <2>1, <2>2, <2>4, <3>1
  <2> QED
    BY <2>3, <2>4
<1>26. CASE GroupClose
  <2>1. /\ pc = "run" /\ stack # <<>> /\ ret # None /\ ret # Null /\ Top.fn = "atom"
        /\ Current = "RPAREN" /\ at' = at + 1 /\ tree' = tree /\ input' = input
        /\ Top.left = Null
    BY <1>26, TopFacts DEF GroupClose, Resumed, outs
  <2>2. Held[0] = ret /\ 0 \in Holder /\ Held[Len(stack)] = Null
    BY <2>1, HeldFacts
  <2>3. CASE New("GROUP", ret, Null, {}, GroupNumber) /\ Return(NewNode)
    BY <1>14, <2>1, <2>2, <2>3
  <2>4. CASE Free({ret}) /\ Return(Null)
    <3>1. {Held[j] : j \in {0}} = {ret}
      BY <2>2
    <3> QED
      BY <1>12, <2>1, <2>2, <2>4, <3>1
  <2>5. CASE Error("ESPACE") /\ Return(Null) /\ UNCHANGED nodes
    <3>1. heap' = heap /\ ret' = Null /\ status' = "ESPACE" /\ at \in 1 .. Len(input)
          /\ input[at].type = "RPAREN"
      BY <2>1, <2>5 DEF nodes, Return, Error, Control, Running, Current
    <3>2. Held' = Freed(Held, {0})
      <4>1. Held' = [h \in Holder |-> IF h = 0 THEN Null
                                      ELSE IF h = Len(stack) THEN Null
                                      ELSE Held[h]]
        BY <1>2, <2>1, <2>5, HeldReturns
      <4> QED
        BY <2>2, <4>1 DEF Freed
    <3>3. Forest(Held', heap') /\ Unowned(Held', heap') \subseteq Unowned(Held, heap) \cup {ret}
      BY <1>1, <2>2, <3>1, <3>2, ForestForgets
    <3>4. Unowned(Held, heap) = {}
      BY <2>1 DEF Memory
    <3>5. \E i \in 1 .. at' : input'[i].type = "RPAREN"
      BY <2>1, <3>1
    <3> QED
      BY <3>1, <3>3, <3>4, <3>5 DEF Memory
  <2> QED
    BY <1>26, <2>3, <2>4, <2>5 DEF GroupClose
<1>27. CASE Returned \/ UNCHANGED vars
  <2>1. UNCHANGED vars
    BY <1>27 DEF Returned
  <2>2. /\ input' = input /\ at' = at /\ status' = status /\ stack' = stack /\ ret' = ret
        /\ heap' = heap /\ tree' = tree /\ pc' = pc
    BY <2>1 DEF vars, nodes, outs
  <2>3. Held' = Held
    BY <2>2 DEF Held
  <2> QED
    BY <2>2, <2>3 DEF Memory
<1> QED
  BY <1>5, <1>6, <1>7, <1>8, <1>10, <1>13, <1>17, <1>18, <1>19, <1>20, <1>21, <1>22,
     <1>23, <1>24, <1>25, <1>26, <1>27 DEF Next

-----------------------------------------------------------------------------
(* The first error.  Its inductive invariant says that everything before   *)
(* the current token is right, and where in an expression the token stands *)
(* by the function that looks at it.                                       *)

\* Nothing is wrong at the k-th token.
RightAt(k) == WrongAt(Tokens, k, MaxGroupDepth) = "OK"

\* The first error of the pattern, or "OK".
FirstStatus == StatusOf(Tokens, MaxGroupDepth)

\* Everything before the current token is right, the groups that are open there
\* are counted.
Prefix ==
  /\ \A k \in 1 .. at - 1 : RightAt(k)
  /\ depth = Nesting(Tokens, at - 1)

\* An operand has to be here.
Operand == at = 1 \/ input[at - 1].type \in {"LPAREN", "ALT"}

\* An operator may be here.
Operator == at > 1 /\ input[at - 1].type \notin RepeatType \cup {"LPAREN", "ALT"}

\* What the function fn, with the node x, knows of the current token when r was
\* returned to it.
Knows(fn, x, r) ==
  /\ fn = "expr" => Current \in EndType
  /\ fn = "concat" => IF x = Null /\ r = None THEN Operand ELSE Current \notin RepeatType
  /\ fn = "repeat" => Operator
  /\ fn = "atom" =>
       IF r = None THEN Current \in RepeatType => Operand ELSE Current \in {"EOF", "RPAREN"}

\* The same for the function on top, or for rx_parse_pattern when all returned.
Place ==
  /\ stack = <<>> => Current \in {"EOF", "RPAREN"}
  /\ stack # <<>> => Knows(Top.fn, Top.left, ret)

\* An error is the first one, or that of the memory; without one all is right so
\* far, and in the end everywhere.
FirstError ==
  /\ status \in {"OK", "ESPACE", FirstStatus}
  /\ pc = "run" /\ status = "OK" => Prefix /\ Place
  /\ pc \in {"parsed", "done"} /\ status = "OK" => FirstStatus = "OK"

\* One more token is counted, or not.
LEMMA CountStep ==
  ASSUME NEW t, NEW type, NEW k \in Nat
  PROVE  /\ Count(t, type, k) \in Nat /\ Count(t, type, 0) = 0
         /\ Count(t, type, k + 1) = Count(t, type, k) + (IF t[k + 1].type = type THEN 1 ELSE 0)
<1> DEFINE S(n) == {i \in 1 .. n : t[i].type = type}
<1>1. IsFiniteSet(S(k))
  <2>1. IsFiniteSet(1 .. k) /\ S(k) \subseteq 1 .. k
    BY FS_Interval
  <2> QED
    BY <2>1, FS_Subset
<1>2. S(0) = {} /\ Cardinality({}) = 0
  BY FS_EmptySet
<1>3. S(k + 1) = (IF t[k + 1].type = type THEN S(k) \cup {k + 1} ELSE S(k)) /\ k + 1 \notin S(k)
  OBVIOUS
<1>4. Cardinality(S(k)) \in Nat
  BY <1>1, FS_CardinalityType
<1> HIDE DEF S
<1>5. Cardinality(S(k) \cup {k + 1}) = Cardinality(S(k)) + 1
  BY <1>1, <1>3, FS_AddElement
<1>6. Cardinality(S(k + 1)) = Cardinality(S(k)) + (IF t[k + 1].type = type THEN 1 ELSE 0)
  BY <1>3, <1>4, <1>5
<1>7. \A n : Count(t, type, n) = Cardinality(S(n))
  BY Zenon DEF Count, S
<1> QED
  BY <1>2, <1>4, <1>6, <1>7

\* What is open before the first token, and behind the next one.
LEMMA NestingStep ==
  ASSUME NEW t, NEW k \in Nat
  PROVE  /\ Nesting(t, k) \in Int /\ Nesting(t, 0) = 0
         /\ t[k + 1].type = "LPAREN" => Nesting(t, k + 1) = Nesting(t, k) + 1
         /\ t[k + 1].type = "RPAREN" => Nesting(t, k + 1) = Nesting(t, k) - 1
         /\ t[k + 1].type \notin {"LPAREN", "RPAREN"} => Nesting(t, k + 1) = Nesting(t, k)
<1>1. /\ Count(t, "LPAREN", k) \in Nat /\ Count(t, "LPAREN", 0) = 0
      /\ Count(t, "LPAREN", k + 1) =
           Count(t, "LPAREN", k) + (IF t[k + 1].type = "LPAREN" THEN 1 ELSE 0)
  BY CountStep
<1>2. /\ Count(t, "RPAREN", k) \in Nat /\ Count(t, "RPAREN", 0) = 0
      /\ Count(t, "RPAREN", k + 1) =
           Count(t, "RPAREN", k) + (IF t[k + 1].type = "RPAREN" THEN 1 ELSE 0)
  BY CountStep
<1> QED
  BY <1>1, <1>2 DEF Nesting

\* The tokens are those of the input, up to its EOF.
LEMMA TokensAre ==
  ASSUME input \in Inputs
  PROVE  LET n == Len(input) IN
         /\ n \in Nat \ {0}
         /\ Len(Tokens) = IF input[n].type = "EOF" THEN n - 1 ELSE n
         /\ \A i \in 1 .. Len(Tokens) : Tokens[i] = input[i]
         /\ \A i \in 1 .. n : /\ input[i].type \in TokenType
                              /\ input[i].type \in {"EOF", "ERROR"} <=> i = n
                              /\ input[i].type = "ERROR" => input[i].data \in LexerError
<1> DEFINE n == Len(input)
<1>1. /\ n \in Nat \ {0}
      /\ \A i \in 1 .. n : /\ input[i].type \in TokenType
                           /\ input[i].type \in {"EOF", "ERROR"} <=> i = n
                           /\ input[i].type = "ERROR" => input[i].data \in LexerError
  BY ParserAssumption DEF ParserAssumption
<1>2. Tokens = IF input[n].type = "EOF" THEN Front(input) ELSE input
  BY DEF Tokens, Last
<1>3. Len(Front(input)) = n - 1 /\ \A i \in 1 .. n - 1 : Front(input)[i] = input[i]
  <2>1. input \in Seq(Range(input)) /\ input # <<>>
    BY <1>1, ParserAssumption DEF ParserAssumption
  <2> QED
    BY <2>1, FrontIs
<1> HIDE DEF n
<1>4. CASE input[n].type = "EOF"
  BY <1>1, <1>2, <1>3, <1>4 DEF n
<1>5. CASE input[n].type # "EOF"
  BY <1>1, <1>2, <1>5 DEF n
<1> QED
  BY <1>4, <1>5

\* What is wrong at a token, by its type.
LEMMA WrongCases ==
  ASSUME input \in Inputs, NEW k \in 1 .. Len(input)
  PROVE  LET type == input[k].type
             wrong == WrongAt(Tokens, k, MaxGroupDepth)
         IN
         /\ k \in 1 .. Len(Tokens) + 1
         /\ type = "EOF" => /\ k = Len(Tokens) + 1
                            /\ wrong = IF Nesting(Tokens, k - 1) > 0 THEN "EPAREN" ELSE "OK"
         /\ type # "EOF" => k \in 1 .. Len(Tokens)
         /\ type = "ERROR" => wrong = input[k].data /\ wrong \in LexerError
         /\ type \in RepeatType =>
              wrong = IF k = 1 \/ input[k - 1].type \in RepeatType \cup {"LPAREN", "ALT"}
                        THEN "BADRPT" ELSE "OK"
         /\ type = "RPAREN" => wrong = IF Nesting(Tokens, k) < 0 THEN "EPAREN" ELSE "OK"
         /\ type = "LPAREN" =>
              wrong = IF Nesting(Tokens, k) > MaxGroupDepth THEN "EUNSUPPORTED" ELSE "OK"
         /\ type \in LeafType \cup {"ALT"} => wrong = "OK"
<1> DEFINE type == input[k].type
           n == Len(input)
           m == Len(Tokens)
           wrong == WrongAt(Tokens, k, MaxGroupDepth)
           open == Nesting(Tokens, k)
<1>1. /\ n \in Nat \ {0} /\ m = (IF input[n].type = "EOF" THEN n - 1 ELSE n)
      /\ type \in TokenType /\ (type \in {"EOF", "ERROR"} <=> k = n)
      /\ (type = "ERROR" => input[k].data \in LexerError)
  BY TokensAre
<1>2. \A i \in 1 .. m : Tokens[i] = input[i]
  BY TokensAre
<1> HIDE DEF n, m
<1>3. k \in 1 .. n
  BY DEF n
<1>4. CASE type = "EOF"
  <2>1. k = n /\ m = n - 1 /\ k > m /\ k = m + 1
    BY <1>1, <1>3, <1>4
  <2>2. wrong = IF Nesting(Tokens, m) > 0 THEN "EPAREN" ELSE "OK"
    BY <2>1 DEF WrongAt, m
  <2>3. k - 1 = m /\ k \in 1 .. m + 1
    BY <1>1, <1>3, <2>1
  <2> QED
    BY <1>4, <2>1, <2>2, <2>3 DEF m, RepeatType, LeafType
<1>5. CASE type # "EOF"
  <2>1. k \in 1 .. m /\ ~ (k > m) /\ k \in 1 .. m + 1
    BY <1>1, <1>3, <1>5
  <2>2. Tokens[k] = input[k] /\ (k # 1 => Tokens[k - 1] = input[k - 1])
    BY <1>1, <1>2, <1>3, <2>1
  <2>3. wrong = CASE type = "ERROR" -> input[k].data
                  [] type \in Repeats ->
                       IF k = 1 \/ input[k - 1].type \in Repeats \cup {"LPAREN", "ALT"}
                         THEN "BADRPT" ELSE "OK"
                  [] type = "RPAREN" /\ open < 0 -> "EPAREN"
                  [] type = "LPAREN" /\ open > MaxGroupDepth -> "EUNSUPPORTED"
                  [] OTHER -> "OK"
    BY <2>1, <2>2 DEF WrongAt, m
  <2> HIDE DEF type, wrong, open
  <2>4. Repeats = RepeatType
    BY DEF Repeats, RepeatType
  <2>5. /\ type = "ERROR" => wrong = input[k].data /\ wrong \in LexerError
        /\ type = "RPAREN" => wrong = IF open < 0 THEN "EPAREN" ELSE "OK"
        /\ type = "LPAREN" => wrong = IF open > MaxGroupDepth THEN "EUNSUPPORTED" ELSE "OK"
    BY <1>1, <2>3 DEF Repeats
  <2>6. type \in RepeatType =>
          wrong = IF k = 1 \/ input[k - 1].type \in RepeatType \cup {"LPAREN", "ALT"}
                    THEN "BADRPT" ELSE "OK"
    BY <2>3, <2>4 DEF RepeatType
  <2>7. type \in LeafType \cup {"ALT"} => wrong = "OK"
    BY <2>3 DEF Repeats, LeafType
  <2> QED
    BY <1>5, <2>1, <2>5, <2>6, <2>7 DEF type, wrong, open, m
<1> QED
  BY <1>4, <1>5

\* The first token that is wrong gives the status.
LEMMA FirstWrong ==
  ASSUME input \in Inputs, NEW k \in 1 .. Len(Tokens) + 1,
         \A j \in 1 .. k - 1 : RightAt(j), ~ RightAt(k)
  PROVE  FirstStatus = WrongAt(Tokens, k, MaxGroupDepth)
<1> DEFINE W == {j \in 1 .. Len(Tokens) + 1 : WrongAt(Tokens, j, MaxGroupDepth) # "OK"}
<1>1. Len(Tokens) \in Nat
  BY TokensAre
<1>2. k \in W /\ \A j \in W : k <= j /\ j \in Int
  BY <1>1 DEF RightAt
<1>3. FirstStatus = IF W = {} THEN "OK" ELSE WrongAt(Tokens, Min(W), MaxGroupDepth)
  BY Zenon DEF FirstStatus, StatusOf
<1>4. Min(W) = k
  <2>1. \E x \in W : \A y \in W : x <= y
    BY <1>2
  <2>2. Min(W) \in W /\ \A y \in W : Min(W) <= y
    BY <2>1, Zenon DEF Min
  <2> HIDE DEF W
  <2>3. k \in Int /\ Min(W) \in Int /\ k <= Min(W) /\ Min(W) <= k
    BY <1>2, <2>2, Zenon
  <2> QED
    BY <2>3
<1> HIDE DEF W
<1> QED
  BY <1>2, <1>3, <1>4

\* Where none is, there is no error.
LEMMA NoneWrong ==
  ASSUME \A j \in 1 .. Len(Tokens) + 1 : RightAt(j)
  PROVE  FirstStatus = "OK"
BY DEF FirstStatus, StatusOf, RightAt
\* What a parser without an error knows of the current token, and what is wrong
\* with it, if anything.
LEMMA HereFacts ==
  ASSUME Control, FirstError, pc = "run", ret # Null
  PROVE  LET wrong == WrongAt(Tokens, at, MaxGroupDepth) IN
         /\ status = "OK" /\ Prefix /\ Place
         /\ at \in 1 .. Len(input) /\ at \in Nat \ {0} /\ at \in 1 .. Len(Tokens) + 1
         /\ depth \in 0 .. MaxGroupDepth /\ MaxGroupDepth \in Nat
         /\ Current \in TokenType \ {"ERROR"}
         /\ Current \in LeafType \cup {"ALT"} => RightAt(at)
         /\ Current \in RepeatType =>
              /\ Operator => RightAt(at)
              /\ Operand => wrong = "BADRPT"
         /\ Current = "RPAREN" => IF depth > 0 THEN RightAt(at) ELSE wrong = "EPAREN"
         /\ Current = "LPAREN" =>
              IF depth < MaxGroupDepth THEN RightAt(at) ELSE wrong = "EUNSUPPORTED"
         /\ Current = "EOF" => /\ at = Len(Tokens) + 1
                               /\ IF depth > 0 THEN wrong = "EPAREN" ELSE RightAt(at)
         /\ Current # "EOF" =>
              Nesting(Tokens, at) = IF Current = "LPAREN" THEN depth + 1
                                    ELSE IF Current = "RPAREN" THEN depth - 1 ELSE depth
<1> DEFINE wrong == WrongAt(Tokens, at, MaxGroupDepth)
<1>1. /\ status = "OK" /\ Prefix /\ Place /\ at \in 1 .. Len(input) /\ input \in Inputs
      /\ depth \in 0 .. MaxGroupDepth /\ Current # "ERROR"
  BY DEF Control, Running, FirstError
<1>2. /\ Len(input) \in Nat \ {0} /\ Current \in TokenType
      /\ \A i \in 1 .. Len(Tokens) : Tokens[i] = input[i]
      /\ MaxGroupDepth \in Nat
  BY <1>1, TokensAre, ParserAssumption DEF Current, ParserAssumption
<1>3. at \in Nat \ {0} /\ at - 1 \in Nat /\ (at - 1) + 1 = at /\ depth \in Nat
      /\ (at > 1 => at # 1)
  BY <1>1, <1>2
<1>4. /\ at \in 1 .. Len(Tokens) + 1
      /\ Current = "EOF" => /\ at = Len(Tokens) + 1
                            /\ wrong = IF Nesting(Tokens, at - 1) > 0 THEN "EPAREN" ELSE "OK"
      /\ Current # "EOF" => at \in 1 .. Len(Tokens)
      /\ Current \in RepeatType =>
           wrong = IF at = 1 \/ input[at - 1].type \in RepeatType \cup {"LPAREN", "ALT"}
                     THEN "BADRPT" ELSE "OK"
      /\ Current = "RPAREN" => wrong = IF Nesting(Tokens, at) < 0 THEN "EPAREN" ELSE "OK"
      /\ Current = "LPAREN" =>
           wrong = IF Nesting(Tokens, at) > MaxGroupDepth THEN "EUNSUPPORTED" ELSE "OK"
      /\ Current \in LeafType \cup {"ALT"} => wrong = "OK"
  BY <1>1, WrongCases DEF Current
<1>5. depth = Nesting(Tokens, at - 1)
  BY <1>1 DEF Prefix
<1>6. Current # "EOF" =>
        Nesting(Tokens, at) = IF Current = "LPAREN" THEN depth + 1
                              ELSE IF Current = "RPAREN" THEN depth - 1 ELSE depth
  <2> SUFFICES ASSUME Current # "EOF"
               PROVE  Nesting(Tokens, at) = IF Current = "LPAREN" THEN depth + 1
                                            ELSE IF Current = "RPAREN" THEN depth - 1 ELSE depth
    OBVIOUS
  <2>1. Tokens[at].type = Current
    BY <1>2, <1>4 DEF Current
  <2>2. /\ Tokens[(at - 1) + 1].type = "LPAREN" =>
             Nesting(Tokens, (at - 1) + 1) = Nesting(Tokens, at - 1) + 1
        /\ Tokens[(at - 1) + 1].type = "RPAREN" =>
             Nesting(Tokens, (at - 1) + 1) = Nesting(Tokens, at - 1) - 1
        /\ Tokens[(at - 1) + 1].type \notin {"LPAREN", "RPAREN"} =>
             Nesting(Tokens, (at - 1) + 1) = Nesting(Tokens, at - 1)
    BY <1>3, NestingStep, Zenon
  <2> QED
    BY <1>3, <1>5, <2>1, <2>2
<1>7. RightAt(at) <=> wrong = "OK"
  BY DEF RightAt
<1> HIDE DEF wrong
<1>8. Current \in RepeatType => (Operator => RightAt(at)) /\ (Operand => wrong = "BADRPT")
  BY <1>3, <1>4, <1>7 DEF Operator, Operand
<1>9. /\ Current = "RPAREN" => IF depth > 0 THEN RightAt(at) ELSE wrong = "EPAREN"
      /\ Current = "LPAREN" =>
           IF depth < MaxGroupDepth THEN RightAt(at) ELSE wrong = "EUNSUPPORTED"
      /\ Current = "EOF" => IF depth > 0 THEN wrong = "EPAREN" ELSE RightAt(at)
  BY <1>2, <1>3, <1>4, <1>5, <1>6, <1>7
<1> QED
  BY <1>1, <1>2, <1>3, <1>4, <1>6, <1>7, <1>8, <1>9 DEF wrong

\* A current token that is wrong is the first that is.
LEMMA HereWrong ==
  ASSUME Control, FirstError, pc = "run", ret # Null,
         WrongAt(Tokens, at, MaxGroupDepth) # "OK"
  PROVE  FirstStatus = WrongAt(Tokens, at, MaxGroupDepth)
<1>1. at \in 1 .. Len(Tokens) + 1 /\ Prefix /\ input \in Inputs
  BY HereFacts DEF Control
<1> QED
  BY <1>1, FirstWrong DEF Prefix, RightAt

\* Behind a current token that is right: the lexer's error is the first, and so
\* is a second operator; otherwise everything is right so far.
LEMMA AheadWrong ==
  ASSUME Control, FirstError, pc = "run", ret # Null, Current # "EOF", RightAt(at)
  PROVE  /\ at + 1 \in Nat \ {0} /\ (at + 1) - 1 = at
         /\ \A k \in 1 .. (at + 1) - 1 : RightAt(k)
         /\ ~ AheadOk => FirstStatus = Fetched
         /\ Current \in RepeatType /\ Ahead.type \in RepeatType => FirstStatus = "BADRPT"
<1>1. /\ at \in Nat \ {0} /\ Prefix /\ input \in Inputs
      /\ at + 1 \in 1 .. Len(input)
  BY HereFacts, AheadFacts DEF Control
<1>2. at + 1 \in Nat \ {0} /\ (at + 1) - 1 = at /\ at + 1 # 1
  BY <1>1
<1>3. \A k \in 1 .. at : RightAt(k)
  BY <1>1 DEF Prefix
<1>4. LET wrong == WrongAt(Tokens, at + 1, MaxGroupDepth) IN
      /\ at + 1 \in 1 .. Len(Tokens) + 1
      /\ Ahead.type = "ERROR" => wrong = Ahead.data /\ wrong \in LexerError
      /\ Ahead.type \in RepeatType =>
           wrong = IF at + 1 = 1 \/ input[(at + 1) - 1].type \in RepeatType \cup {"LPAREN", "ALT"}
                     THEN "BADRPT" ELSE "OK"
  BY <1>1, WrongCases DEF Ahead
<1>5. WrongAt(Tokens, at + 1, MaxGroupDepth) # "OK" =>
        FirstStatus = WrongAt(Tokens, at + 1, MaxGroupDepth)
  BY <1>1, <1>2, <1>3, <1>4, FirstWrong DEF RightAt
<1>6. ~ AheadOk => FirstStatus = Fetched
  BY <1>4, <1>5 DEF AheadOk, Fetched, LexerError
<1>7. Current \in RepeatType /\ Ahead.type \in RepeatType => FirstStatus = "BADRPT"
  BY <1>2, <1>4, <1>5 DEF Current
<1> QED
  BY <1>2, <1>3, <1>6, <1>7

\* Where a function returns to.
LEMMA CallerIs ==
  ASSUME Control, pc = "run", stack # <<>>, NEW x, Return(x)
  PROVE  /\ stack' # <<>> => /\ stack'[Len(stack')].fn \in Function
                             /\ Top.fn = Callee(stack'[Len(stack')].fn)
         /\ stack' = <<>> => Top.fn = "expr"
<1> DEFINE n == Len(stack)
<1>1. stack \in Seq(FrameSet) /\ n \in Nat \ {0}
  BY TopFacts
<1>2. stack' \in Seq(FrameSet) /\ Len(stack') = n - 1 /\ \A i \in 1 .. n - 1 : stack'[i] = stack[i]
  BY <1>1, FrontIs DEF Return
<1>3. \A i \in 1 .. n : stack[i].fn = IF i = 1 THEN "expr" ELSE Callee(stack[i - 1].fn)
  BY DEF Control, Descent
<1>4. n \in 1 .. n /\ (n # 1 => n - 1 \in 1 .. n - 1)
  BY <1>1
<1>5. ASSUME stack' # <<>>
      PROVE  stack'[Len(stack')].fn \in Function /\ Top.fn = Callee(stack'[Len(stack')].fn)
  <2>1. Len(stack') # 0
    BY <1>2, <1>5
  <2>2. n # 1 /\ stack'[n - 1] = stack[n - 1] /\ stack[n - 1] \in FrameSet
    BY <1>1, <1>2, <1>4, <2>1
  <2> QED
    BY <1>2, <1>3, <1>4, <2>2 DEF Top, FrameSet
<1>6. ASSUME stack' = <<>> PROVE Top.fn = "expr"
  <2>1. n = 1
    BY <1>1, <1>2, <1>6
  <2> QED
    BY <1>3, <1>4, <2>1 DEF Top
<1> QED
  BY <1>5, <1>6
\* A step that ends in an error, which is the first one or that of the memory.
LEMMA ErrorStep ==
  ASSUME UNCHANGED input, status' \in {"ESPACE", FirstStatus}, status' # "OK"
  PROVE  FirstError'
<1>1. FirstStatus' = FirstStatus
  BY DEF FirstStatus, Tokens
<1> QED
  BY <1>1 DEF FirstError

\* The prefix of the next state, while the input is the same.
LEMMA PrefixNext ==
  ASSUME UNCHANGED input, \A k \in 1 .. at' - 1 : RightAt(k), depth' = Nesting(Tokens, at' - 1)
  PROVE  Prefix'
<1>1. Tokens' = Tokens
  BY DEF Tokens
<1> QED
  BY <1>1 DEF Prefix, RightAt

\* A step without an error.
LEMMA GoodStep ==
  ASSUME UNCHANGED input, pc' = "run", status' = "OK", Prefix', Place'
  PROVE  FirstError'
BY DEF FirstError

\* A function returns a tree to its caller, who finds the current token where
\* it expects one.
LEMMA ReturnsTree ==
  ASSUME Control, pc = "run", stack # <<>>, NEW x \in Nat, Return(x),
         UNCHANGED <<input, pc>>, status' = "OK", Prefix',
         Top.fn = "expr" => Current' \in {"EOF", "RPAREN"},
         Top.fn = "concat" => Current' \in EndType,
         Top.fn = "repeat" => Current' \notin RepeatType,
         Top.fn = "atom" => Operator'
  PROVE  FirstError'
<1>1. ret' = x /\ x # None
  BY DEF Return, None
<1>2. CASE stack' = <<>>
  <2>1. Place'
    BY <1>2, CallerIs DEF Place
  <2> QED
    BY <2>1, GoodStep
<1>3. CASE stack' # <<>>
  <2>1. Top'.fn \in Function /\ Top.fn = Callee(Top'.fn)
    BY <1>3, CallerIs DEF Top
  <2>2. /\ Top'.fn = "expr" => Current' \in EndType
        /\ Top'.fn = "concat" => Current' \notin RepeatType
        /\ Top'.fn = "repeat" => Operator'
        /\ Top'.fn = "atom" => Current' \in {"EOF", "RPAREN"}
    BY <2>1 DEF Callee, Function
  <2>3. Place'
    BY <1>1, <1>3, <2>2 DEF Place, Knows
  <2> QED
    BY <2>3, GoodStep
<1> QED
  BY <1>2, <1>3

\* A function keeps a tree.
LEMMA KeepsTree ==
  ASSUME Control, FirstError, pc = "run", stack # <<>>, Top.fn \in {"expr", "concat"},
         ret # None, ret # Null, NEW x \in Nat \ {Null}, Keep(x),
         UNCHANGED <<input, at, status, fields, pc>>
  PROVE  FirstError'
<1>1. stack' # <<>> /\ Top'.fn = Top.fn /\ Top'.left = x /\ ret' = None
  <2>1. stack \in Seq(FrameSet) /\ Len(stack) \in Nat \ {0}
    BY TopFacts
  <2>2. stack' = [stack EXCEPT ![Len(stack)].left = x] /\ ret' = None
    BY DEF Keep
  <2>3. Len(stack) \in DOMAIN stack /\ stack[Len(stack)] \in FrameSet
    BY <2>1
  <2>4. stack'[Len(stack)] = [stack[Len(stack)] EXCEPT !.left = x] /\ Len(stack') = Len(stack)
    BY <2>1, <2>2, <2>3
  <2>5. Top' = [Top EXCEPT !.left = x] /\ Top \in FrameSet
    BY <2>3, <2>4 DEF Top
  <2> QED
    BY <2>1, <2>2, <2>4, <2>5 DEF FrameSet
<1>2. /\ status = "OK" /\ Prefix /\ Knows(Top.fn, Top.left, ret)
      /\ depth' = depth /\ Current' = Current
  BY HereFacts DEF Place, fields, Current
<1>3. Prefix'
  BY <1>2, PrefixNext DEF Prefix
<1>4. Top'.fn = "expr" => Current' \in EndType
  BY <1>1, <1>2 DEF Knows
<1>5. Top'.fn = "concat" => Current' \notin RepeatType
  BY <1>1, <1>2 DEF Knows
<1>6. Place'
  BY <1>1, <1>4, <1>5 DEF Place, Knows, Null
<1> QED
  BY <1>2, <1>3, <1>6, GoodStep

\* A function calls others; the last of them knows what it has to.
LEMMA CallsFunction ==
  ASSUME UNCHANGED input, pc' = "run", status' = "OK", Prefix', ret' = None,
         NEW fn \in {"concat", "atom"},
         stack' # <<>>, stack'[Len(stack')] = Frame(fn),
         fn = "concat" \/ Current' \in RepeatType => Operand'
  PROVE  FirstError'
<1>1. Top'.fn = fn /\ Top'.left = Null
  BY DEF Top, Frame
<1>2. Place'
  BY <1>1 DEF Place, Knows
<1> QED
  BY <1>2, GoodStep

\* The error of a function is the first, or that of the memory.
LEMMA ErrorIs ==
  ASSUME status = "OK", NEW s, Error(s)
  PROVE  status' = s
BY DEF Error
\* The parser starts without an error.
LEMMA FirstErrorInit == Init => FirstError
BY DEF Init, FirstError

\* Every step keeps the invariant.
LEMMA FirstErrorNext == Control /\ FirstError /\ [Next]_vars => FirstError'
<1> SUFFICES ASSUME Control, FirstError, [Next]_vars PROVE FirstError'
  OBVIOUS
<1>1. /\ None # Null /\ None \notin Nat /\ Null \in Nat /\ NewNode \in Nat \ {Null}
      /\ pc = "run" => (ret # Null <=> status = "OK")
      /\ pc = "run" /\ stack # <<>> => Top.left \in Nat /\ ret \in Nat \cup {None}
  BY TopFacts DEF None, Null, NewNode, Control, Running
<1>2. ASSUME UNCHANGED <<input, status>>, pc = "run", ret = Null PROVE FirstError'
  BY <1>1, <1>2, ErrorStep DEF FirstError
<1>3. ASSUME pc = "run", ret # Null, UNCHANGED input, Error("ESPACE") PROVE FirstError'
  BY <1>1, <1>3, ErrorIs, ErrorStep
<1>4. ASSUME pc = "run", ret # Null, UNCHANGED <<input, at, fields>>, UNCHANGED status
      PROVE  /\ Prefix' /\ status' = "OK" /\ Current' = Current /\ (Operator <=> Operator')
             /\ (Operand <=> Operand')
  BY <1>4, HereFacts, PrefixNext DEF Prefix, fields, Current, Operator, Operand
<1>5. ASSUME pc = "run", ret # Null, UNCHANGED input, at' = at + 1, AheadOk, RightAt(at),
             Current # "EOF", depth' = Nesting(Tokens, at), status' = status
      PROVE  /\ Prefix' /\ status' = "OK" /\ Current' = Ahead.type
             /\ at' > 1 /\ input'[at' - 1].type = Current
  <2>1. /\ at + 1 \in Nat \ {0} /\ (at + 1) - 1 = at /\ \A k \in 1 .. (at + 1) - 1 : RightAt(k)
        /\ at \in Nat \ {0} /\ status = "OK"
    BY <1>5, AheadWrong, HereFacts
  <2>2. Prefix'
    BY <1>5, <2>1, PrefixNext
  <2> QED
    BY <1>5, <2>1, <2>2 DEF Current, Ahead
<1>6. ASSUME pc = "run", ret # Null, UNCHANGED input, ~ AheadOk, RightAt(at),
             Current # "EOF", status' = Fetched
      PROVE  FirstError'
  <2>1. status' = FirstStatus
    BY <1>6, AheadWrong
  <2>2. status' # "OK"
    BY <1>6, AheadFacts DEF Fetched, LexerError
  <2> QED
    BY <1>6, <2>1, <2>2, ErrorStep
<1>7. ASSUME pc = "run", ret # Null, UNCHANGED input, NEW s, Error(s),
             WrongAt(Tokens, at, MaxGroupDepth) = s, s # "OK"
      PROVE  FirstError'
  <2>1. status' = s
    BY <1>1, <1>7, ErrorIs
  <2>2. FirstStatus = s
    BY <1>7, HereWrong
  <2> QED
    BY <1>7, <2>1, <2>2, ErrorStep
<1>8. CASE Start
  <2>1. /\ at = 0 /\ status = "OK" /\ depth = 0 /\ stack = <<>> /\ input \in Inputs
        /\ UNCHANGED <<input, fields>> /\ at' = 1 /\ status' = Fetched /\ depth' = 0
        /\ 1 \in 1 .. Len(input) /\ Ahead = input[1]
    <3>1. depth = Cardinality(Open(<<>>)) /\ Open(<<>>) = {} /\ Len(input) \in Nat \ {0}
      BY <1>8, TokensAre DEF Start, Control, Descent, Open
    <3>2. at = 0 /\ status = "OK" /\ stack = <<>> /\ input \in Inputs
      BY <1>8 DEF Start, Control
    <3>3. UNCHANGED <<input, fields>> /\ at' = at + 1 /\ status' = Fetched /\ depth' = depth
      BY <1>8 DEF Start, Advance, fields
    <3>4. depth = 0
      BY <3>1, FS_EmptySet
    <3>5. at + 1 = 1 /\ 1 \in 1 .. Len(input)
      BY <3>1, <3>2
    <3> QED
      BY <3>2, <3>3, <3>4, <3>5 DEF Ahead
  <2>2. CASE AheadOk
    <3>1. pc' = "run" /\ stack' = <<>> \o <<Frame("expr"), Frame("concat")>> /\ ret' = None
          /\ status' = "OK"
      BY <1>8, <2>1, <2>2 DEF Start, Push, Fetched
    <3>2. stack' # <<>> /\ stack'[Len(stack')] = Frame("concat")
      BY <3>1
    <3>3. Nesting(Tokens, 0) = 0
      BY NestingStep
    <3>4. Prefix' /\ Operand'
      BY <2>1, <3>3, PrefixNext DEF Operand
    <3> QED
      BY <2>1, <3>1, <3>2, <3>4, CallsFunction
  <2>3. CASE ~ AheadOk
    <3>1. WrongAt(Tokens, 1, MaxGroupDepth) = Fetched /\ Fetched # "OK"
          /\ 1 \in 1 .. Len(Tokens) + 1
      BY <2>1, <2>3, WrongCases DEF AheadOk, Fetched, LexerError
    <3>2. FirstStatus = Fetched
      BY <2>1, <3>1, FirstWrong DEF RightAt
    <3> QED
      BY <2>1, <3>1, <3>2, ErrorStep
  <2> QED
    BY <2>2, <2>3
<1>9. CASE Accept
  <2>1. /\ pc = "run" /\ stack = <<>> /\ ret # Null /\ Current = "EOF" /\ pc' = "parsed"
        /\ status' = status /\ input' = input
    BY <1>9 DEF Accept
  <2>2. depth = 0
    BY <2>1, FS_EmptySet DEF Control, Descent, Open
  <2>3. Prefix /\ RightAt(at) /\ at = Len(Tokens) + 1 /\ at \in Nat /\ status = "OK"
    BY <2>1, <2>2, HereFacts
  <2>4. \A j \in 1 .. Len(Tokens) + 1 : RightAt(j)
    BY <2>3 DEF Prefix
  <2>5. FirstStatus = "OK" /\ FirstStatus' = FirstStatus
    BY <2>1, <2>4, NoneWrong DEF FirstStatus, Tokens
  <2> QED
    BY <2>1, <2>3, <2>5 DEF FirstError
<1>10. CASE Reject
  <2>1. pc = "run" /\ stack = <<>> /\ input' = input /\ (ret = Null \/ Current # "EOF")
    BY <1>10 DEF Reject
  <2>2. CASE ret = Null
    BY <1>2, <1>10, <2>1, <2>2 DEF Reject
  <2>3. CASE ret # Null
    <3>1. depth = 0
      BY <2>1, FS_EmptySet DEF Control, Descent, Open
    <3>2. Current = "RPAREN" /\ WrongAt(Tokens, at, MaxGroupDepth) = "EPAREN"
      BY <2>1, <2>3, <3>1, HereFacts DEF Place
    <3>3. Error("EPAREN")
      BY <1>10, <2>3, <3>2 DEF Reject
    <3> QED
      BY <1>7, <2>1, <2>3, <3>2, <3>3
  <2> QED
    BY <2>2, <2>3
<1>11. CASE Release
  <2>1. input' = input /\ status' = status /\ pc = "parsed" /\ pc' = "done"
        /\ FirstStatus' = FirstStatus
    BY <1>11 DEF Release, FirstStatus, Tokens
  <2> QED
    BY <2>1 DEF FirstError
<1>12. CASE Branch \/ Item
  <2>1. /\ pc = "run" /\ stack # <<>> /\ ret # None /\ Top.fn \in {"expr", "concat"}
        /\ UNCHANGED <<input, at, fields, outs, pc>>
    BY <1>12 DEF Branch, Item, Resumed
  <2>2. CASE ret = Null
    BY <1>2, <1>12, <2>1, <2>2 DEF Branch, Item
  <2>3. CASE ret # Null
    <3>1. \/ \E x \in Nat \ {Null} : Keep(x) /\ UNCHANGED status
          \/ Error("ESPACE")
      BY <1>1, <1>12, <2>1, <2>3 DEF Branch, Item
    <3> QED
      BY <1>3, <2>1, <2>3, <3>1, KeepsTree
  <2> QED
    BY <2>2, <2>3
<1>13. CASE NextBranch
  <2>1. /\ pc = "run" /\ stack # <<>> /\ ret = None /\ Current = "ALT"
        /\ UNCHANGED <<input, pc>> /\ at' = at + 1 /\ status' = Fetched /\ depth' = depth
    BY <1>13 DEF NextBranch, Entered, Advance, fields
  <2>2. RightAt(at) /\ Nesting(Tokens, at) = depth
    BY <1>1, <2>1, HereFacts
  <2>3. CASE AheadOk
    <3>1. stack' = stack \o <<Frame("concat")>> /\ ret' = None /\ status' = status
      BY <1>13, <2>1, <2>3 DEF NextBranch, Push, Fetched
    <3>2. stack' # <<>> /\ stack'[Len(stack')] = Frame("concat")
      <4>1. stack \in Seq(FrameSet)
        BY <2>1, TopFacts
      <4> QED
        BY <3>1, <4>1
    <3>3. Prefix' /\ status' = "OK" /\ Operand'
      BY <1>1, <1>5, <2>1, <2>2, <2>3, <3>1 DEF Operand
    <3> QED
      BY <2>1, <3>1, <3>2, <3>3, CallsFunction
  <2>4. CASE ~ AheadOk
    BY <1>1, <1>6, <2>1, <2>2, <2>4
  <2> QED
    BY <2>3, <2>4
<1>14. CASE LastBranch
  <2>1. /\ pc = "run" /\ stack # <<>> /\ Top.fn = "expr" /\ ret = None /\ Current # "ALT"
        /\ UNCHANGED <<input, at, status, fields, nodes, outs, pc>> /\ Return(Top.left)
    BY <1>14 DEF LastBranch, Entered
  <2>2. Knows(Top.fn, Top.left, ret)
    BY <1>1, <2>1, HereFacts DEF Place
  <2>3. Current \in {"EOF", "RPAREN"}
    BY <2>1, <2>2 DEF Knows, EndType
  <2>4. Prefix' /\ status' = "OK" /\ Current' = Current
    BY <1>1, <1>4, <2>1
  <2> QED
    BY <1>1, <2>1, <2>3, <2>4, ReturnsTree
<1>15. CASE NextItem
  <2>1. /\ pc = "run" /\ stack # <<>> /\ Top.fn = "concat" /\ ret = None
        /\ UNCHANGED <<input, at, status, fields, nodes, outs, pc>>
        /\ stack' = stack \o <<Frame("repeat"), Frame("atom")>> /\ ret' = None
    BY <1>15 DEF NextItem, Entered, Push
  <2>2. Knows(Top.fn, Top.left, ret)
    BY <1>1, <2>1, HereFacts DEF Place
  <2>3. Current \in RepeatType => Operand
    BY <2>1, <2>2 DEF Knows
  <2>4. Prefix' /\ status' = "OK" /\ Current' = Current /\ (Operand <=> Operand')
    BY <1>1, <1>4, <2>1
  <2>5. stack' # <<>> /\ stack'[Len(stack')] = Frame("atom")
    <3>1. stack \in Seq(FrameSet)
      BY <2>1, TopFacts
    <3> QED
      BY <2>1, <3>1
  <2> QED
    BY <2>1, <2>3, <2>4, <2>5, CallsFunction
<1>16. CASE LastItem
  <2>1. /\ pc = "run" /\ stack # <<>> /\ Top.fn = "concat" /\ ret = None
        /\ Current \in EndType /\ UNCHANGED <<input, at, fields, outs, pc>>
    BY <1>16 DEF LastItem, Entered
  <2>2. \/ \E x \in Nat : Return(x) /\ UNCHANGED status
        \/ Error("ESPACE")
    BY <1>1, <1>16, <2>1 DEF LastItem
  <2>3. ASSUME NEW x \in Nat, Return(x), UNCHANGED status PROVE FirstError'
    <3>1. Prefix' /\ status' = "OK" /\ Current' = Current
      BY <1>1, <1>4, <2>1, <2>3
    <3> QED
      BY <2>1, <2>3, <3>1, ReturnsTree
  <2> QED
    BY <1>1, <1>3, <2>1, <2>2, <2>3
<1>17. CASE NoRepeat
  <2>1. /\ pc = "run" /\ stack # <<>> /\ Top.fn = "repeat" /\ ret # None
        /\ (ret = Null \/ Current \notin RepeatType)
        /\ UNCHANGED <<input, at, status, fields, nodes, outs, pc>> /\ Return(ret)
    BY <1>17 DEF NoRepeat, Resumed
  <2>2. CASE ret = Null
    BY <1>2, <2>1, <2>2
  <2>3. CASE ret # Null
    <3>1. Prefix' /\ status' = "OK" /\ Current' = Current /\ ret \in Nat
      BY <1>1, <1>4, <2>1, <2>3
    <3> QED
      BY <2>1, <2>3, <3>1, ReturnsTree
  <2> QED
    BY <2>2, <2>3
<1>18. CASE Repeat
  <2>1. /\ pc = "run" /\ stack # <<>> /\ Top.fn = "repeat" /\ ret # None /\ ret # Null
        /\ Current \in RepeatType /\ UNCHANGED <<input, fields, outs, pc>>
        /\ Current \notin {"EOF", "LPAREN", "RPAREN"} /\ depth' = depth
    BY <1>18 DEF Repeat, Resumed, RepeatType, fields
  <2>2. Knows(Top.fn, Top.left, ret)
    BY <2>1, HereFacts DEF Place
  <2>3. RightAt(at) /\ Nesting(Tokens, at) = depth /\ status = "OK"
    BY <2>1, <2>2, HereFacts DEF Knows
  <2>4. CASE /\ Advance /\ AheadOk /\ ~ SecondRepeat
             /\ New(Current, ret, Null, input[at].data, 0)
             /\ Return(NewNode)
    <3>1. at' = at + 1 /\ status' = status
      BY <2>4 DEF Advance, Fetched
    <3>2. Prefix' /\ status' = "OK" /\ Current' = Ahead.type
      BY <1>5, <2>1, <2>3, <2>4, <3>1
    <3>3. Current' \notin RepeatType
      BY <2>4, <3>2 DEF SecondRepeat
    <3> QED
      BY <1>1, <2>1, <2>4, <3>2, <3>3, ReturnsTree
  <2>5. CASE AheadOk /\ SecondRepeat /\ Error("BADRPT")
    <3>1. FirstStatus = "BADRPT" /\ status' = "BADRPT"
      BY <2>1, <2>3, <2>5, AheadWrong, ErrorIs DEF SecondRepeat
    <3> QED
      BY <2>1, <3>1, ErrorStep
  <2>6. CASE ~ AheadOk /\ status' = Fetched
    BY <1>6, <2>1, <2>3, <2>6
  <2>7. CASE Error("ESPACE")
    BY <1>3, <2>1, <2>7
  <2> QED
    BY <1>18, <2>4, <2>5, <2>6, <2>7 DEF Repeat
<1>19. CASE Leaf
  <2>1. /\ pc = "run" /\ stack # <<>> /\ Top.fn = "atom" /\ ret = None
        /\ Current \in LeafType /\ UNCHANGED <<input, fields, outs, pc>> /\ at' = at + 1
        /\ Current \notin {"EOF", "LPAREN", "RPAREN", "ALT"} \cup RepeatType /\ depth' = depth
    BY <1>19 DEF Leaf, Entered, LeafType, RepeatType, fields
  <2>2. RightAt(at) /\ Nesting(Tokens, at) = depth
    BY <1>1, <2>1, HereFacts
  <2>3. CASE AheadOk /\ Return(NewNode) /\ UNCHANGED status
    <3>1. Prefix' /\ status' = "OK" /\ Operator'
      BY <1>1, <1>5, <2>1, <2>2, <2>3 DEF Operator
    <3> QED
      BY <1>1, <2>1, <2>3, <3>1, ReturnsTree
  <2>4. CASE ~ AheadOk /\ status' = Fetched
    BY <1>1, <1>6, <2>1, <2>2, <2>4
  <2>5. CASE Error("ESPACE")
    BY <1>1, <1>3, <2>1, <2>5
  <2> QED
    BY <1>19, <2>3, <2>4, <2>5 DEF Leaf
<1>20. CASE NoOperand
  <2>1. /\ pc = "run" /\ stack # <<>> /\ Top.fn = "atom" /\ ret = None
        /\ Current \in RepeatType /\ UNCHANGED input /\ Error("BADRPT")
    BY <1>20 DEF NoOperand, Entered
  <2>2. Operand
    BY <1>1, <2>1, HereFacts DEF Place, Knows
  <2>3. WrongAt(Tokens, at, MaxGroupDepth) = "BADRPT"
    BY <1>1, <2>1, <2>2, HereFacts
  <2> QED
    BY <1>1, <1>7, <2>1, <2>3
<1>21. CASE GroupTooDeep
  <2>1. /\ pc = "run" /\ ret = None /\ Current = "LPAREN" /\ depth >= MaxGroupDepth
        /\ UNCHANGED input /\ Error("EUNSUPPORTED")
    BY <1>21 DEF GroupTooDeep, Entered, TooDeep
  <2>2. WrongAt(Tokens, at, MaxGroupDepth) = "EUNSUPPORTED"
    BY <1>1, <2>1, HereFacts
  <2> QED
    BY <1>1, <1>7, <2>1, <2>2
<1>22. CASE GroupOpen
  <2>1. /\ pc = "run" /\ stack # <<>> /\ Top.fn = "atom" /\ ret = None /\ Current = "LPAREN"
        /\ ~ (depth >= MaxGroupDepth) /\ UNCHANGED <<input, pc>>
        /\ at' = at + 1 /\ status' = Fetched
    BY <1>22 DEF GroupOpen, Entered, Advance, TooDeep
  <2>2. RightAt(at) /\ Nesting(Tokens, at) = depth + 1
    BY <1>1, <2>1, HereFacts
  <2>3. CASE AheadOk
    <3> DEFINE u == [stack EXCEPT ![Len(stack)].group = nextGroup]
               a == Frame("expr")
               b == Frame("concat")
               v == u \o <<a, b>>
    <3>1. stack' = v /\ ret' = None /\ depth' = depth + 1 /\ status' = status
      BY <1>22, <2>1, <2>3 DEF GroupOpen, Fetched
    <3>2. stack' # <<>> /\ stack'[Len(stack')] = Frame("concat")
      <4>1. stack \in Seq(FrameSet) /\ Len(stack) \in Nat \ {0} /\ nextGroup \in Nat
        BY <2>1, TopFacts DEF Control
      <4>2. stack[Len(stack)] \in FrameSet
        BY <4>1
      <4>3. [stack[Len(stack)] EXCEPT !.group = nextGroup] \in FrameSet
        BY <4>1, <4>2 DEF FrameSet
      <4>4. u \in Seq(FrameSet) /\ Len(u) = Len(stack)
        BY <4>1, <4>2, <4>3
      <4>5. a \in FrameSet /\ b \in FrameSet
        BY DEF Frame, FrameSet, Function, Null
      <4> HIDE DEF u, a, b
      <4>6. Len(v) = Len(u) + 2 /\ v[Len(u) + 2] = b /\ Len(u) \in Nat
        BY <4>1, <4>4, <4>5
      <4> HIDE DEF v
      <4>7. v[Len(v)] = b /\ v # <<>>
        BY <4>6
      <4> QED
        BY <3>1, <4>7 DEF b
    <3> HIDE DEF v
    <3>3. Prefix' /\ status' = "OK" /\ Operand'
      BY <1>1, <1>5, <2>1, <2>2, <2>3, <3>1 DEF Operand
    <3> QED
      BY <2>1, <3>1, <3>2, <3>3, CallsFunction
  <2>4. CASE ~ AheadOk
    BY <1>1, <1>6, <2>1, <2>2, <2>4
  <2> QED
    BY <2>3, <2>4
<1>23. CASE GroupBroken \/ GroupClose
  <2>1. /\ pc = "run" /\ stack # <<>> /\ Top.fn = "atom" /\ ret # None
        /\ UNCHANGED <<input, outs, pc>> /\ depth' = depth - 1
        /\ \E x \in Nat : Return(x)
    BY <1>1, <1>23 DEF GroupBroken, GroupClose, Resumed
  <2>2. depth > 0
    <3>1. PICK x \in Nat : Return(x)
      BY <2>1
    <3>2. depth - 1 \in 0 .. MaxGroupDepth
      BY <2>1, <3>1, ReturnStep
    <3>3. depth \in Nat /\ MaxGroupDepth \in Nat
      BY ParserAssumption DEF ParserAssumption, Control
    <3> QED
      BY <3>2, <3>3
  <2>3. CASE ret = Null
    BY <1>2, <1>23, <2>1, <2>3 DEF GroupBroken, GroupClose
  <2>4. CASE ret # Null /\ GroupBroken
    <3>1. Current = "EOF"
      <4>1. Current \in {"EOF", "RPAREN"}
        BY <2>1, <2>4, HereFacts DEF Place, Knows
      <4> QED
        BY <2>4, <4>1 DEF GroupBroken
    <3>2. WrongAt(Tokens, at, MaxGroupDepth) = "EPAREN" /\ Error("EPAREN")
      BY <2>1, <2>2, <2>4, <3>1, HereFacts DEF GroupBroken
    <3> QED
      BY <1>7, <2>1, <2>4, <3>2
  <2>5. CASE ret # Null /\ GroupClose
    <3>1. Current = "RPAREN" /\ at' = at + 1
      BY <2>5 DEF GroupClose
    <3>2. RightAt(at) /\ Nesting(Tokens, at) = depth - 1
      BY <2>1, <2>2, <2>5, <3>1, HereFacts
    <3>3. CASE AheadOk /\ Return(NewNode) /\ UNCHANGED status
      <4>1. Prefix' /\ status' = "OK" /\ Operator'
        BY <1>5, <2>1, <2>5, <3>1, <3>2, <3>3 DEF Operator, RepeatType
      <4> QED
        BY <1>1, <2>1, <3>3, <4>1, ReturnsTree
    <3>4. CASE ~ AheadOk /\ status' = Fetched
      BY <1>6, <2>1, <2>5, <3>1, <3>2, <3>4
    <3>5. CASE Error("ESPACE")
      BY <1>3, <2>1, <2>5, <3>5
    <3> QED
      BY <2>5, <3>3, <3>4, <3>5 DEF GroupClose
  <2> QED
    BY <1>23, <2>3, <2>4, <2>5
<1>24. CASE Returned \/ UNCHANGED vars
  <2>1. /\ input' = input /\ at' = at /\ status' = status /\ depth' = depth
        /\ stack' = stack /\ ret' = ret /\ pc' = pc
    BY <1>24 DEF Returned, vars, fields
  <2> QED
    BY <2>1 DEF FirstError, FirstStatus, Tokens, Prefix, RightAt, Place, Knows, Top, Current,
                Operand, Operator
<1> QED
  BY <1>8, <1>9, <1>10, <1>11, <1>12, <1>13, <1>14, <1>15, <1>16, <1>17, <1>18, <1>19,
     <1>20, <1>21, <1>22, <1>23, <1>24 DEF Next

-----------------------------------------------------------------------------
(* The theorems.                                                           *)

\* Both invariants hold always.
THEOREM ParserInvariant == Spec => [](Control /\ Memory)
<1>1. Init => Control /\ Memory
  BY ControlInit, MemoryInit
<1>2. Control /\ Memory /\ [Next]_vars => (Control /\ Memory)'
  BY ControlNext, MemoryNext
<1> QED
  BY <1>1, <1>2, PTL DEF Spec

\* The types hold, and parse_atom is never called for a token that ends a
\* concatenation, so that its answers to these are not needed.
THEOREM ParserTypes == Spec => []TypeOK
<1>1. Control => TypeOK
  <2> SUFFICES ASSUME Control PROVE TypeOK
    OBVIOUS
  <2>1. \A i \in DOMAIN stack : stack[i].fn \in Function
    <3>1. stack \in Seq(FrameSet)
      BY DEF Control, Descent
    <3>2. \A i \in DOMAIN stack : stack[i] \in FrameSet
      BY <3>1
    <3> QED
      BY <3>2 DEF FrameSet
  <2>2. Entered("atom") => Current \notin EndType
    BY DEF Control, Running, Entered
  <2>3. ret \in Nat \cup {None}
    BY DEF Control, Descent
  <2> QED
    BY <2>1, <2>2, <2>3 DEF Control, TypeOK
<1> QED
  BY <1>1, ParserInvariant, PTL

\* group_depth is the number of groups that are being parsed, on every path, and
\* the recursion is as deep as the limit allows and no deeper.
THEOREM DepthHolds == Spec => []DepthIsTracked
<1>1. Control => DepthIsTracked
  <2> SUFFICES ASSUME Control PROVE DepthIsTracked
    OBVIOUS
  <2>1. depth = Cardinality(OpenGroups)
    BY DEF Control, Descent, Open, OpenGroups
  <2>2. depth \in 0 .. MaxGroupDepth /\ MaxGroupDepth \in Nat
    BY ParserAssumption DEF ParserAssumption, Control
  <2>3. Len(stack) = 4 * depth + Level(stack, ret) /\ Level(stack, ret) \in 0 .. 4
    BY DEF Control, Descent, Level
  <2>4. Len(stack) <= 4 * (MaxGroupDepth + 1)
    BY <2>2, <2>3
  <2> QED
    BY <2>1, <2>2, <2>4 DEF DepthIsTracked
<1> QED
  BY <1>1, ParserInvariant, PTL

\* A set of at most one element has at most one, and none if it is empty.
LEMMA AtMostOne ==
  ASSUME NEW S, \A a, b \in S : a = b
  PROVE  /\ Cardinality(S) \in {0, 1}
         /\ Cardinality(S) = 0 <=> S = {}
         /\ IsFiniteSet(S)
<1>1. CASE S = {}
  BY <1>1, FS_EmptySet
<1>2. CASE S # {}
  <2>1. PICK a \in S : S = {a}
    BY <1>2
  <2> QED
    BY <2>1, FS_Singleton
<1> QED
  BY <1>1, <1>2

\* Who owns a node of the forest.
LEMMA OwnersAre ==
  ASSUME Control, Memory, NEW x \in DOMAIN heap
  PROVE  /\ Owners(x) \in {0, 1}
         /\ Owners(x) = 0 <=> x \in Unowned(Held, heap)
<1> DEFINE A == {i \in DOMAIN stack : stack[i].left = x}
           B == {v \in {ret, tree} : v = x}
           C == {y \in DOMAIN heap : heap[y].left = x}
           E == {y \in DOMAIN heap : heap[y].right = x}
<1>1. /\ stack \in Seq(FrameSet) /\ x \in Nat \ {0} /\ Null = 0 /\ None = -1
      /\ Held \in [Holder -> DOMAIN heap \cup {Null}]
  BY DEF Control, Descent, Memory, Forest, IsHeap, Null, None
<1>2. \A i \in DOMAIN stack : i \in Holder \ {0, -1} /\ Held[i] = stack[i].left
  <2>1. DOMAIN stack = 1 .. Len(stack) /\ Len(stack) \in Nat
    BY <1>1
  <2> QED
    BY <2>1 DEF Held, Holding, Holder
<1>3. /\ 0 \in Holder /\ -1 \in Holder /\ 0 # -1
      /\ Held[-1] = tree /\ Held[0] = IF ret = None THEN Null ELSE ret
  BY DEF Held, Holding, Holder
<1>4. \A h \in Holder : Held[h] = x => h = -1 \/ h = 0 \/ h \in DOMAIN stack
  <2>1. DOMAIN stack = 1 .. Len(stack)
    BY <1>1
  <2> QED
    BY <1>1, <2>1 DEF Held, Holding
<1>5. /\ \A h, k \in Holder : Held[h] = x /\ Held[k] = x => h = k
      /\ \A h \in Holder, y \in DOMAIN heap : Held[h] = x => ~ Child(heap, x, y)
      /\ \A y, z \in DOMAIN heap : Child(heap, x, y) /\ Child(heap, x, z) => y = z
      /\ \A y \in DOMAIN heap : heap[y].left = heap[y].right => heap[y].left # x
  BY <1>1 DEF Memory, Forest
<1>6. (\E h \in Holder : Held[h] = x) <=> A # {} \/ B # {}
  <2>1. (ret = x \/ tree = x) <=> B # {}
    OBVIOUS
  <2>2. (ret = x \/ tree = x) <=> (Held[0] = x \/ Held[-1] = x)
    BY <1>1, <1>3
  <2>3. (\E i \in DOMAIN stack : Held[i] = x) <=> A # {}
    BY <1>2
  <2> QED
    BY <1>2, <1>3, <1>4, <2>1, <2>2, <2>3
<1>7. (\E y \in DOMAIN heap : Child(heap, x, y)) <=> C # {} \/ E # {}
  BY DEF Child
<1>8. /\ \A a, b \in A : a = b
      /\ \A a, b \in B : a = b
      /\ \A a, b \in C : a = b
      /\ \A a, b \in E : a = b
  BY <1>2, <1>5 DEF Child
<1>9. A = {} \/ B = {}
  <2> SUFFICES ASSUME A # {}, B # {} PROVE FALSE
    OBVIOUS
  <2>1. PICK i \in DOMAIN stack : stack[i].left = x
    OBVIOUS
  <2>2. Held[0] = x \/ Held[-1] = x
    BY <1>1, <1>3
  <2> QED
    BY <1>2, <1>3, <1>5, <2>1, <2>2
<1>10. C = {} \/ E = {}
  BY <1>5 DEF Child
<1>11. (A = {} /\ B = {}) \/ (C = {} /\ E = {})
  <2>1. ~ ((\E h \in Holder : Held[h] = x) /\ (\E y \in DOMAIN heap : Child(heap, x, y)))
    BY <1>5
  <2> HIDE DEF A, B, C, E
  <2> QED
    BY <1>6, <1>7, <2>1, Zenon
<1>12. /\ Cardinality(A) \in {0, 1} /\ (Cardinality(A) = 0 <=> A = {})
       /\ Cardinality(B) \in {0, 1} /\ (Cardinality(B) = 0 <=> B = {})
       /\ Cardinality(C) \in {0, 1} /\ (Cardinality(C) = 0 <=> C = {})
       /\ Cardinality(E) \in {0, 1} /\ (Cardinality(E) = 0 <=> E = {})
  <2> HIDE DEF A, B, C, E
  <2> QED BY <1>8, AtMostOne
<1>13. x \in Unowned(Held, heap) <=> A = {} /\ B = {} /\ C = {} /\ E = {}
  <2>1. x \in Unowned(Held, heap)
          <=> ~ (\E h \in Holder : Held[h] = x) /\ ~ (\E y \in DOMAIN heap : Child(heap, x, y))
    BY DEF Unowned
  <2> HIDE DEF A, B, C, E
  <2> QED BY <1>6, <1>7, <2>1
<1>14. Owners(x) = Cardinality(A) + Cardinality(B) + Cardinality(C) + Cardinality(E)
  BY DEF Owners
<1> HIDE DEF A, B, C, E
<1> QED
  BY <1>9, <1>10, <1>11, <1>12, <1>13, <1>14

\* Every node has at most one owner and no pointer leads to a node that was
\* freed: nothing is freed twice, or used after it was freed.
THEOREM OneOwnerHolds == Spec => []OneOwner
<1>1. Control /\ Memory => OneOwner
  <2> SUFFICES ASSUME Control, Memory PROVE OneOwner
    OBVIOUS
  <2>1. /\ IsHeap(heap) /\ Held \in [Holder -> DOMAIN heap \cup {Null}]
        /\ stack \in Seq(FrameSet)
    BY DEF Memory, Forest, Control, Descent
  <2>2. Locals \subseteq DOMAIN heap \cup {Null, None}
    <3>1. \A i \in DOMAIN stack : i \in Holder /\ Held[i] = stack[i].left
      <4>1. DOMAIN stack = 1 .. Len(stack) /\ Len(stack) \in Nat
        BY <2>1
      <4> QED
        BY <4>1 DEF Held, Holding, Holder
    <3>2. /\ 0 \in Holder /\ -1 \in Holder /\ 0 # -1
          /\ Held[-1] = tree /\ Held[0] = IF ret = None THEN Null ELSE ret
      BY DEF Held, Holding, Holder
    <3> QED
      BY <2>1, <3>1, <3>2 DEF Locals
  <2>3. Children \subseteq DOMAIN heap \cup {Null}
    BY <2>1 DEF IsHeap, Children
  <2>4. \A x \in DOMAIN heap : Owners(x) <= 1
    BY OwnersAre
  <2> QED
    BY <2>2, <2>3, <2>4 DEF OneOwner
<1> QED
  BY <1>1, ParserInvariant, PTL

\* Only what is inside of one group is ever lost, for whose node there was no
\* memory; every other node is freed in the end.
THEOREM OnlyGroupsAreLost == Spec => []OnlyGroupsLeak
<1>1. Control /\ Memory => OnlyGroupsLeak
  <2> SUFFICES ASSUME Control, Memory PROVE OnlyGroupsLeak
    OBVIOUS
  <2>1. Lost = Unowned(Held, heap)
    <3>1. Unowned(Held, heap) \subseteq DOMAIN heap
      BY DEF Unowned
    <3> QED
      BY <3>1, OwnersAre DEF Lost
  <2>2. Cardinality(Lost) <= 1
    <3>1. Cardinality(Lost) \in {0, 1}
      BY <2>1, AtMostOne DEF Memory
    <3> QED
      BY <3>1
  <2>3. Lost # {} => status = "ESPACE" /\ \E i \in 1 .. at : input[i].type = "RPAREN"
    BY <2>1 DEF Memory
  <2>4. ASSUME pc = "done" PROVE DOMAIN heap = UNION {Below(x) : x \in Lost}
    <3> DEFINE D == DOMAIN heap
               W == UNION {BelowIn(heap, x) : x \in Lost}
               Good == {n \in Nat : allocs - n \in D => allocs - n \in W}
    <3>1. /\ IsHeap(heap) /\ allocs \in Nat /\ D \subseteq 1 .. allocs
          /\ Lost \subseteq D
      BY DEF Memory, Forest, Control, Lost
    <3>2. \A x \in Lost : x \in W /\ BelowIn(heap, x) \subseteq D /\ Downward(heap, BelowIn(heap, x))
      <4> SUFFICES ASSUME NEW x \in Lost
                   PROVE  /\ x \in BelowIn(heap, x) /\ BelowIn(heap, x) \subseteq D
                          /\ Downward(heap, BelowIn(heap, x))
        OBVIOUS
      <4>1. x \in D \cup {Null} /\ x # Null
        BY <3>1 DEF IsHeap, Null
      <4> QED
        BY <3>1, <4>1, BelowFacts
    <3>3. \A h \in Holder : Held[h] = Null
      BY <2>4 DEF Control, Held, Holding
    <3>4. \A x \in D : x \in Lost \/ \E y \in D : Child(heap, x, y)
      BY <2>1, <3>1, <3>3 DEF Unowned, IsHeap, Null
    <3>5. ASSUME NEW y \in W, NEW x \in D, Child(heap, x, y) PROVE x \in W
      <4>1. PICK v \in Lost : y \in BelowIn(heap, v)
        OBVIOUS
      <4>2. x # Null
        BY <3>1 DEF IsHeap, Null
      <4>3. x \in BelowIn(heap, v)
        BY <3>2, <3>5, <4>1, <4>2 DEF Downward, Child
      <4> QED
        BY <4>1, <4>3
    <3> HIDE DEF W
    <3>6. ASSUME NEW n \in Nat, \A m \in 0 .. n - 1 : m \in Good PROVE n \in Good
      <4> SUFFICES ASSUME allocs - n \in D PROVE allocs - n \in W
        OBVIOUS
      <4>1. CASE allocs - n \in Lost
        BY <3>2, <4>1
      <4>2. CASE allocs - n \notin Lost
        <5>1. PICK y \in D : Child(heap, allocs - n, y)
          BY <3>4, <4>2
        <5>2. allocs - n < y /\ y \in 1 .. allocs
          BY <3>1, <5>1 DEF IsHeap, Child
        <5>3. allocs - y \in 0 .. n - 1 /\ allocs - (allocs - y) = y
          BY <3>1, <5>2
        <5>4. y \in W
          BY <3>6, <5>3
        <5> QED
          BY <3>5, <5>1, <5>4
      <4> QED
        BY <4>1, <4>2
    <3>7. Nat \subseteq Good
      <4> HIDE DEF Good
      <4> QED BY <3>6, NameInduction
    <3>8. \A x \in D : allocs - x \in Nat /\ allocs - (allocs - x) = x
      BY <3>1
    <3>9. D \subseteq W
      BY <3>7, <3>8
    <3>10. W \subseteq D
      BY <3>2 DEF W
    <3>11. W = UNION {Below(x) : x \in Lost}
      BY BelowIs DEF W
    <3> QED
      BY <3>9, <3>10, <3>11
  <2> QED
    BY <2>2, <2>3, <2>4 DEF OnlyGroupsLeak
<1> QED
  BY <1>1, ParserInvariant, PTL

\* A pattern is refused for the first thing that is wrong with it, whatever comes
\* later, and only then, unless memory runs out.
THEOREM FirstErrorHolds == Spec => []FirstErrorIsReported
<1>1. Init => Control /\ FirstError
  BY ControlInit, FirstErrorInit
<1>2. Control /\ FirstError /\ [Next]_vars => (Control /\ FirstError)'
  BY ControlNext, FirstErrorNext
<1>3. FirstError => FirstErrorIsReported
  BY DEF FirstError, FirstErrorIsReported, FirstStatus
<1> QED
  BY <1>1, <1>2, <1>3, PTL DEF Spec
=============================================================================
