---------------------------- MODULE NfaRunProofs ----------------------------
(***************************************************************************)
(* nfa_run_from keeps its promise, for every automaton dfa_can_build would *)
(* accept, every text and every start; and nfa_compile_ast builds, of      *)
(* every syntax tree, an automaton that accepts what the tree denotes.     *)
(* Together: the answers are the longest matches of the expression.        *)
(*                                                                         *)
(* The inductive invariant Inv adds to the invariants TLC checks what the  *)
(* phases leave untouched.  The construction is proved right by pieces: a  *)
(* piece is a set of states with a way in and a way out, known only by     *)
(* the relation between the places in the text where one can enter it and  *)
(* where one can leave it; each operator of the syntax joins pieces and    *)
(* their relations, and the nodes of a tree follow by induction.           *)
(***************************************************************************)
EXTENDS CompiledRun, AutomatonProofs

\* What each phase has yet to write.
Untouched ==
  /\ pc = "call" => rc = "IDLE"
  /\ pc \in {"call", "init", "close"} =>
       pos = start /\ best = start /\ found = FALSE
  /\ pc \in {"call", "init", "loop", "break"} => pending = {}
  /\ pc \notin {"call", "done"} => rc = "RUN"
  /\ pc # "done" => end = 0

\* The inductive invariant.
Inv == TypeOK /\ SetsAreLive /\ BestIsLongest /\ Untouched

\* Transitions lead to states.
LEMMA TargetsType ==
  ASSUME NEW n, CanBuild(n), NEW q \in State(n), NEW c, NEW b, NEW e
  PROVE  /\ EpsTargets(n, q, b, e) \subseteq State(n)
         /\ ByteTargets(n, q, c) \subseteq State(n)
BY DEF CanBuild, EpsTargets, ByteTargets

\* The types hold initially ...
LEMMA TypeInit == Init => TypeOK
<1> SUFFICES ASSUME Init PROVE TypeOK
  OBVIOUS
<1>1. text \in Seq(Byte) /\ Len(text) \in Nat /\ start \in 0 .. Len(text)
  BY TextsType DEF Init
<1>2. pos \in start .. Len(text) /\ best \in start .. Len(text) /\ end \in Nat
  BY <1>1 DEF Init
<1>3. rc = "IDLE" /\ found \in BOOLEAN /\ pc = "call" /\ text \in Texts
  BY TextsType DEF Init
<1> QED
  BY <1>1, <1>2, <1>3 DEF Init, TypeOK

\* ... and every step keeps them.
LEMMA TypeStep == TypeOK /\ [Next]_vars => TypeOK'
<1> SUFFICES ASSUME TypeOK, [Next]_vars PROVE TypeOK'
  OBVIOUS
<1>0. CanBuild(nfa) /\ nfa.start \in State(nfa) /\ text \in Seq(Byte)
  BY TextsType, AutomatonAssumption DEF TypeOK, nfa, CanBuild
<1>1. \A q \in State(nfa) : \A p : Expand(q, p) \subseteq State(nfa)
  BY <1>0, TargetsType DEF Expand
<1>2. \A q \in State(nfa) : \A c : ByteTargets(nfa, q, c) \subseteq State(nfa)
  BY <1>0, TargetsType
<1> USE DEF TypeOK, args, nfa
<1>z. CASE Call
  <2>1. text' \in Seq(Byte) /\ Len(text') \in Nat /\ start' \in 0 .. Len(text')
    BY <1>z, TextsType DEF Call
  <2> QED
    BY <1>z, <2>1 DEF Call
<1>a. CASE SetInit
  BY <1>a, <1>0 DEF SetInit
<1>b. ASSUME NEW q \in pending, CloseCur(q) \/ CloseNext(q) PROVE TypeOK'
  BY <1>b, <1>1 DEF CloseCur, CloseNext
<1>c. CASE StartClosed
  BY <1>c DEF StartClosed
<1>d. CASE NextByte
  BY <1>d DEF NextByte
<1>e. ASSUME NEW q \in unread, Read(q) PROVE TypeOK'
  BY <1>e, <1>2 DEF Read
<1>f. CASE Die
  BY <1>f DEF Die
<1>g. CASE Swap
  BY <1>g DEF Swap
<1>h. CASE Return
  BY <1>h, <1>0 DEF Return
<1>i. CASE OutOfMemory
  BY <1>i DEF OutOfMemory
<1>j. CASE Returned \/ UNCHANGED vars
  BY <1>j DEF Returned, vars
<1> QED
  BY <1>z, <1>a, <1>b, <1>c, <1>d, <1>e, <1>f, <1>g, <1>h, <1>i, <1>j DEF Next

-----------------------------------------------------------------------------
(* What the proofs need to know of the live states. *)
\* LiveClosed, LiveLeast and LiveDead in the terms of NfaRun.
LEMMA LiveFacts ==
  ASSUME TypeOK
  PROVE  /\ nfa.start \in LiveAt(start)
         /\ \A p \in start .. Len(text) : LiveAt(p) \in SUBSET State(nfa)
         /\ \A p \in start .. Len(text) : \A q \in LiveAt(p) :
              Expand(q, p) \subseteq LiveAt(p)
         /\ \A p \in start .. Len(text) - 1 : \A q \in LiveAt(p) :
              ByteTargets(nfa, q, text[p + 1]) \subseteq LiveAt(p + 1)
         /\ \A U \in SUBSET State(nfa) :
              /\ nfa.start \in U
              /\ \A q \in U : Expand(q, start) \subseteq U
              => LiveAt(start) \subseteq U
         /\ \A U \in SUBSET State(nfa), p \in start .. Len(text) - 1 :
              /\ \A q \in LiveAt(p) : ByteTargets(nfa, q, text[p + 1]) \subseteq U
              /\ \A q \in U : Expand(q, p + 1) \subseteq U
              => LiveAt(p + 1) \subseteq U
         /\ \A p \in start .. Len(text) : LiveAt(p) = {} =>
              \A k \in p .. Len(text) : LiveAt(k) = {}
<1>1. re \in Regex /\ text \in Seq(Byte) /\ start \in 0 .. Len(text)
  BY TextsType DEF TypeOK
<1>2. \A q, p : Expand(q, p) = EpsAt(nfa, q, text, p)
  BY Zenon DEF Expand, EpsAt
<1>3. \A p : LiveAt(p) = Live(re, text, start)[p]
  BY Zenon DEF LiveAt
<1>4. /\ nfa.start \in LiveAt(start)
      /\ \A p \in start .. Len(text) : \A q \in LiveAt(p) :
           Expand(q, p) \subseteq LiveAt(p)
      /\ \A p \in start .. Len(text) - 1 : \A q \in LiveAt(p) :
           ByteTargets(nfa, q, text[p + 1]) \subseteq LiveAt(p + 1)
  BY <1>1, <1>2, <1>3, LiveClosed DEF nfa
<1>5. ASSUME NEW U \in SUBSET State(nfa)
      PROVE  /\ /\ nfa.start \in U
                /\ \A q \in U : Expand(q, start) \subseteq U
                => LiveAt(start) \subseteq U
             /\ \A p \in start .. Len(text) - 1 :
                  /\ \A q \in LiveAt(p) : ByteTargets(nfa, q, text[p + 1]) \subseteq U
                  /\ \A q \in U : Expand(q, p + 1) \subseteq U
                  => LiveAt(p + 1) \subseteq U
  BY <1>1, <1>2, <1>3, LiveLeast DEF nfa
<1>6. \A p \in start .. Len(text) : LiveAt(p) \in SUBSET State(nfa)
  BY <1>1, <1>3, LiveType DEF nfa
<1>7. \A p \in start .. Len(text) : LiveAt(p) = {} =>
        \A k \in p .. Len(text) : LiveAt(k) = {}
  BY <1>1, <1>3, LiveDead
<1> QED
  BY <1>4, <1>5, <1>6, <1>7

-----------------------------------------------------------------------------
(* The invariant is inductive. *)
\* The invariant holds before the call.
LEMMA InvInit == Init => Inv
<1> SUFFICES ASSUME Init PROVE SetsAreLive /\ BestIsLongest /\ Untouched
  BY TypeInit DEF Inv
<1> QED
  BY DEF Init, SetsAreLive, BestIsLongest, Untouched

\* The call itself leaves nothing to be shown but the types.
LEMMA CallStep == Inv /\ Call => Inv'
BY TypeStep DEF Inv, Call, Next, SetsAreLive, BestIsLongest, Untouched

\* One step per action; in each, what the action can disturb.
LEMMA InvStep == Inv /\ [Next]_vars => Inv'
<1> SUFFICES ASSUME Inv, [Next]_vars, ~ Call PROVE Inv'
  BY CallStep
<1>1. TypeOK /\ SetsAreLive /\ BestIsLongest /\ Untouched /\ TypeOK'
  BY TypeStep DEF Inv
<1>2. /\ text \in Seq(Byte) /\ Len(text) \in Nat /\ start \in 0 .. Len(text)
      /\ CanBuild(nfa) /\ nfa.start \in State(nfa)
  <2>1. text \in Seq(Byte) /\ re \in Regex /\ start \in 0 .. Len(text)
    BY <1>1, TextsType DEF TypeOK
  <2>2. CanBuild(nfa)
    BY <2>1, AutomatonAssumption DEF nfa
  <2> QED
    BY <2>1, <2>2 DEF CanBuild
<1>3. /\ UNCHANGED args /\ UNCHANGED nfa
      /\ \A p : LiveAt(p)' = LiveAt(p)
      /\ \A q, p : Expand(q, p)' = Expand(q, p)
  <2>1. re' = re /\ text' = text /\ start' = start
    BY DEF Next, SetInit, CloseCur, CloseNext, StartClosed, NextByte, Read, Die,
           Swap, Return, OutOfMemory, Returned, args, vars
  <2> QED
    BY <2>1, Zenon DEF args, nfa, LiveAt, Expand
<1> USE <1>1, <1>2, <1>3 DEF args
<1>a. CASE SetInit
  <2>1. SetsAreLive'
    BY <1>a, LiveFacts DEF SetInit, SetsAreLive, Filling
  <2>2. BestIsLongest' /\ Untouched'
    BY <1>a DEF SetInit, BestIsLongest, Untouched
  <2> QED
    BY <2>1, <2>2 DEF Inv
<1>b. ASSUME NEW q \in pending, CloseCur(q) PROVE Inv'
  <2>1. q \in LiveAt(start) /\ start \in start .. Len(text)
    BY <1>b DEF CloseCur, SetsAreLive, Filling
  <2>2. Expand(q, start) \subseteq LiveAt(start)
    BY <2>1, LiveFacts
  <2>3. SetsAreLive'
    BY <1>b, <2>2 DEF CloseCur, SetsAreLive, Filling
  <2>4. BestIsLongest' /\ Untouched'
    BY <1>b DEF CloseCur, BestIsLongest, Untouched
  <2> QED
    BY <2>3, <2>4 DEF Inv
<1>c. CASE StartClosed
  <2>1. cur = LiveAt(start)
    <3>1. /\ cur \subseteq LiveAt(start) /\ cur \in SUBSET State(nfa)
          /\ nfa.start \in cur /\ \A q \in cur : Expand(q, start) \subseteq cur
      BY <1>c DEF StartClosed, SetsAreLive, Filling, TypeOK
    <3> QED
      BY <3>1, LiveFacts
  <2>2. SetsAreLive'
    BY <1>c, <2>1 DEF StartClosed, SetsAreLive, Untouched
  <2>3. Passed' = {p \in start .. start : nfa.accept \in LiveAt(p)}
    BY <1>c DEF StartClosed, Passed, Untouched
  <2>4. Passed' = IF nfa.accept \in cur THEN {start} ELSE {}
    BY <2>1, <2>3
  <2>5. BestIsLongest'
    <3>1. found' <=> Passed' # {}
      BY <1>c, <2>4 DEF StartClosed
    <3>2. Passed' \subseteq {start} /\ best' = start
      BY <1>c, <2>4 DEF StartClosed, Untouched
    <3>3. start <= start
      OBVIOUS
    <3>4. Passed' # {} => best' \in Passed' /\ \A p \in Passed' : p <= best'
      BY <3>2, <3>3, Zenon
    <3> QED
      BY <3>1, <3>4 DEF BestIsLongest
  <2>6. Untouched'
    BY <1>c DEF StartClosed, Untouched
  <2> QED
    BY <2>2, <2>5, <2>6 DEF Inv
<1>d. CASE NextByte
  <2>1. SetsAreLive'
    BY <1>d DEF NextByte, SetsAreLive, Filling, Untouched
  <2>2. Passed' = Passed
    BY <1>d DEF NextByte, Passed
  <2>3. BestIsLongest' /\ Untouched'
    BY <1>d, <2>2 DEF NextByte, BestIsLongest, Untouched
  <2> QED
    BY <2>1, <2>3 DEF Inv
<1>e. ASSUME NEW q \in unread, Read(q) PROVE Inv'
  <2>1. q \in LiveAt(pos) /\ pos \in start .. Len(text) - 1
    BY <1>e DEF Read, SetsAreLive, TypeOK
  <2>2. ByteTargets(nfa, q, text[pos + 1]) \subseteq LiveAt(pos + 1)
    BY <2>1, LiveFacts
  <2>3. SetsAreLive'
    BY <1>e, <2>2 DEF Read, SetsAreLive, Filling
  <2>4. Passed' = Passed
    BY <1>e DEF Read, Passed
  <2>5. BestIsLongest' /\ Untouched'
    BY <1>e, <2>4 DEF Read, BestIsLongest, Untouched
  <2> QED
    BY <2>3, <2>5 DEF Inv
<1>f. ASSUME NEW q \in pending, CloseNext(q) PROVE Inv'
  <2>1. q \in LiveAt(pos + 1) /\ pos + 1 \in start .. Len(text)
    BY <1>f DEF CloseNext, SetsAreLive, Filling, TypeOK
  <2>2. Expand(q, pos + 1) \subseteq LiveAt(pos + 1)
    BY <2>1, LiveFacts
  <2>3. SetsAreLive'
    BY <1>f, <2>2 DEF CloseNext, SetsAreLive, Filling
  <2>4. Passed' = Passed
    BY <1>f DEF CloseNext, Passed
  <2>5. BestIsLongest'
    BY <1>f, <2>4 DEF CloseNext, BestIsLongest
  <2>6. Untouched'
    BY <1>f DEF CloseNext, Untouched
  <2> QED
    BY <2>3, <2>5, <2>6 DEF Inv
<1>g. ASSUME pc = "move", pending = {}, unread = {} PROVE next = LiveAt(pos + 1)
  <2>1. /\ next \subseteq LiveAt(pos + 1) /\ next \in SUBSET State(nfa)
        /\ pos \in start .. Len(text) - 1
        /\ \A q \in LiveAt(pos) : ByteTargets(nfa, q, text[pos + 1]) \subseteq next
        /\ \A q \in next : Expand(q, pos + 1) \subseteq next
    BY <1>g DEF SetsAreLive, Filling, TypeOK
  <2>2. LiveAt(pos + 1) \subseteq next
    BY <2>1, LiveFacts
  <2> QED
    BY <2>1, <2>2
<1>h. CASE Die
  <2>1. SetsAreLive'
    BY <1>h, <1>g DEF Die, SetsAreLive, TypeOK
  <2>2. Passed' = Passed
    BY <1>h DEF Die, Passed
  <2>3. BestIsLongest'
    BY <1>h, <2>2 DEF Die, BestIsLongest
  <2>4. Untouched'
    BY <1>h DEF Die, Untouched
  <2> QED
    BY <2>1, <2>3, <2>4 DEF Inv
<1>i. CASE Swap
  <2>1. SetsAreLive'
    BY <1>i, <1>g DEF Swap, SetsAreLive
  <2>2. Passed' = Passed \cup (IF nfa.accept \in next THEN {pos + 1} ELSE {})
    BY <1>i, <1>g DEF Swap, Passed, TypeOK
  <2>3. \A p \in Passed : p <= pos + 1
    BY DEF Passed, TypeOK
  <2>4. ASSUME nfa.accept \in next PROVE BestIsLongest'
    <3>1. found' = TRUE /\ best' = pos + 1 /\ Passed' = Passed \cup {pos + 1}
      BY <1>i, <2>2, <2>4 DEF Swap
    <3> QED
      BY <2>3, <3>1 DEF BestIsLongest
  <2>5. ASSUME nfa.accept \notin next PROVE BestIsLongest'
    <3>1. (found' <=> found) /\ best' = best /\ Passed' = Passed /\ pc = "move"
      BY <1>i, <2>2, <2>5 DEF Swap
    <3> QED
      BY <3>1 DEF BestIsLongest
  <2>6. Untouched'
    BY <1>i DEF Swap, Untouched
  <2> QED
    BY <2>1, <2>4, <2>5, <2>6 DEF Inv
<1>j. CASE Return \/ OutOfMemory
  BY <1>j DEF Return, OutOfMemory, Inv, SetsAreLive, BestIsLongest, Untouched
<1>k. CASE Returned \/ UNCHANGED vars
  <2>1. SetsAreLive' /\ Passed' = Passed
    BY <1>k DEF Returned, vars, SetsAreLive, Filling, Passed
  <2>2. BestIsLongest' /\ Untouched'
    BY <1>k, <2>1 DEF Returned, vars, BestIsLongest, Untouched
  <2> QED
    BY <2>1, <2>2 DEF Inv
<1> QED
  BY <1>a, <1>b, <1>c, <1>d, <1>e, <1>f, <1>h, <1>i, <1>j, <1>k DEF Next

\* TLC's three invariants of nfa_run_from, for all automata and texts.
THEOREM Invariance == Spec => [](TypeOK /\ SetsAreLive /\ BestIsLongest)
<1>1. Inv => TypeOK /\ SetsAreLive /\ BestIsLongest
  BY DEF Inv
<1> QED
  BY InvInit, InvStep, <1>1, PTL DEF Spec

\* The state sets stay within the automaton, and pos, best and every index that
\* nfa_run_from uses within the text.
THEOREM TypesHold == Spec => []TypeOK
<1>1. Inv => TypeOK
  BY DEF Inv
<1> QED
  BY InvInit, InvStep, <1>1, PTL DEF Spec

-----------------------------------------------------------------------------
(* The refinement of LongestMatch. *)
\* Where a match can end, in the contract and in the terms of NfaRun.
LEMMA PromiseEnds ==
  Promise!Ends(re, text, start) = {p \in start .. Len(text) : nfa.accept \in LiveAt(p)}
BY Zenon DEF Promise!Ends, Promise!Live, Promise!Closure, Promise!Move,
   Promise!Spread, Promise!EpsTargets, Promise!ByteTargets, Promise!CanTake,
   Promise!Consumes, Promise!Out, Promise!State, Promise!Nfa, Promise!Regex,
   LiveAt, Live, Closure, Move, Spread, EpsTargets, ByteTargets, CanTake,
   Consumes, Out, State, nfa, Nfa, Regex

\* When the loop is over, no match ends behind pos.
LEMMA NothingAhead ==
  ASSUME Inv, pc = "break" \/ (pc = "loop" /\ pos = Len(text))
  PROVE  Promise!Ends(re, text, start) = Passed
<1>1. text \in Seq(Byte) /\ start \in 0 .. Len(text) /\ pos \in start .. Len(text)
      /\ Len(text) \in Nat
  BY TextsType DEF Inv, TypeOK
<1>2. CASE pc = "loop" /\ pos = Len(text)
  BY <1>2, PromiseEnds DEF Passed
<1>3. CASE pc = "break"
  <2>1. pos + 1 \in start .. Len(text) /\ LiveAt(pos + 1) = {}
    BY <1>1, <1>3 DEF Inv, SetsAreLive
  <2>2. \A k \in pos + 1 .. Len(text) : LiveAt(k) = {}
    BY <2>1, LiveFacts DEF Inv
  <2>3. \A k \in start .. Len(text) : nfa.accept \in LiveAt(k) => k \in start .. pos
    BY <1>1, <2>2
  <2>4. \A k \in start .. pos : k \in start .. Len(text)
    BY <1>1
  <2> QED
    BY <2>3, <2>4, PromiseEnds DEF Passed
<1> QED
  BY <1>2, <1>3

\* The contract speaks of the same texts.
LEMMA TextsSame == Promise!Texts = Texts
BY DEF Promise!Texts, Promise!Byte, Texts, Byte

\* A step of the simulation is a step of the contract or changes nothing of it.
LEMMA PromiseStep == Inv /\ [Next]_vars => [Promise!Next]_(Promise!vars)
<1> SUFFICES ASSUME Inv, [Next]_vars PROVE [Promise!Next]_(Promise!vars)
  OBVIOUS
<1>1. pc \notin {"call", "done"} => rc = "RUN"
  BY DEF Inv, Untouched
<1>0. CASE Call
  <2>1. Promise!Call
    BY <1>0, TextsSame DEF Call, Promise!Call, Inv, Untouched
  <2> QED
    BY <2>1 DEF Promise!Next
<1>2. CASE Return
  <2>1. rc = "RUN" /\ UNCHANGED <<re, text, start>>
    BY <1>1, <1>2 DEF Return, args
  <2>2. Promise!Ends(re, text, start) = Passed
    BY <1>2, NothingAhead DEF Return
  <2>3. /\ found <=> Passed # {}
        /\ found => best \in Passed /\ \A p \in Passed : p <= best
    BY <1>2 DEF Return, Inv, BestIsLongest
  <2>4. ASSUME found PROVE Promise!Succeed
    <3>1. rc' = "OK" /\ end' = best
      BY <1>2, <2>4 DEF Return
    <3> QED
      BY <2>1, <2>2, <2>3, <2>4, <3>1 DEF Promise!Succeed
  <2>5. ASSUME ~ found PROVE Promise!Fail
    <3>1. rc' = "NOMATCH" /\ end' = end
      BY <1>2, <2>5 DEF Return
    <3> QED
      BY <2>1, <2>2, <2>3, <2>5, <3>1 DEF Promise!Fail
  <2> QED
    BY <2>4, <2>5 DEF Promise!Next
<1>3. CASE OutOfMemory
  <2>1. Promise!OutOfMemory
    BY <1>1, <1>3 DEF OutOfMemory, Promise!OutOfMemory, args
  <2> QED
    BY <2>1 DEF Promise!Next
<1>4. CASE ~ Call /\ ~ Return /\ ~ OutOfMemory
  <2>1. UNCHANGED <<re, text, start, rc, end>>
    BY <1>4 DEF Next, SetInit, CloseCur, CloseNext, StartClosed, NextByte, Read,
                Die, Swap, Returned, args, vars
  <2> QED
    BY <2>1 DEF Promise!vars
<1> QED
  BY <1>0, <1>2, <1>3, <1>4

\* nfa_run_from implements its contract: every behaviour of the simulation is
\* one of LongestMatch.
THEOREM Refinement == Spec => KeepsPromise
<1>1. Init => Promise!Init
  BY DEF Init, Promise!Init, Promise!Regex, Promise!Texts, Promise!Byte, Regex, Texts, Byte
<1> QED
  BY <1>1, InvInit, InvStep, PromiseStep, PTL DEF Spec, KeepsPromise, Promise!Spec

-----------------------------------------------------------------------------
(* Ways through an automaton.  A spot <<q, i>> is a state and a place in a  *)
(* text, an edge <<q, i, r, j>> leads from one spot to the next.            *)
Spots(t) == Nat \X Place(t)

\* No edge of E leaves U.
Stays(E, U) ==
  \A q, i, r, j : <<q, i>> \in U /\ <<q, i, r, j>> \in E => <<r, j>> \in U

\* The spots one can reach from <<s, i>>: the least set with it that no edge leaves.
Reach(t, E, s, i) ==
  {x \in Spots(t) : \A U \in SUBSET Spots(t) : <<s, i>> \in U /\ Stays(E, U) => x \in U}

\* Edges between the states Q, through which one gets from s to e as R says.
Piece(t, Q, E, s, e, R) ==
  /\ Q \subseteq Nat /\ s \in Q /\ e \in Q
  /\ R \subseteq Place(t) \X Place(t)
  /\ \A q, i, r, j : <<q, i, r, j>> \in E =>
       q \in Q /\ i \in Place(t) /\ r \in Q /\ j \in Place(t)
  /\ \A i, j \in Place(t) : <<e, j>> \in Reach(t, E, s, i) <=> <<i, j>> \in R

\* What one can reach is in every set with the spot that no edge leaves.
LEMMA ReachWithin ==
  ASSUME NEW t, NEW E, NEW s, NEW i, NEW x \in Reach(t, E, s, i),
         NEW U \in SUBSET Spots(t), <<s, i>> \in U, Stays(E, U)
  PROVE  x \in U
BY DEF Reach

\* What can be reached: the spot itself and what edges lead to, and no more.
LEMMA ReachFacts ==
  ASSUME NEW t, NEW Q \in SUBSET Nat, NEW E, NEW s \in Q, NEW i \in Place(t),
         \A q, k, r, j : <<q, k, r, j>> \in E =>
           q \in Q /\ k \in Place(t) /\ r \in Q /\ j \in Place(t)
  PROVE  /\ Reach(t, E, s, i) \subseteq Spots(t)
         /\ \A q, k : <<q, k>> \in Reach(t, E, s, i) => q \in Q /\ k \in Place(t)
         /\ <<s, i>> \in Reach(t, E, s, i)
         /\ Stays(E, Reach(t, E, s, i))
<1>1. <<s, i>> \in Reach(t, E, s, i)
  BY DEF Reach, Spots
<1>2. \A U \in SUBSET Spots(t) :
        <<s, i>> \in U /\ Stays(E, U) => Reach(t, E, s, i) \subseteq U
  BY DEF Reach
<1>3. Stays(E, Reach(t, E, s, i))
  <2> SUFFICES ASSUME NEW q, NEW k, NEW r, NEW j, <<q, k>> \in Reach(t, E, s, i),
                      <<q, k, r, j>> \in E
               PROVE  <<r, j>> \in Reach(t, E, s, i)
    BY Zenon DEF Stays
  <2>1. <<r, j>> \in Spots(t)
    BY DEF Spots
  <2>2. ASSUME NEW U \in SUBSET Spots(t), <<s, i>> \in U, Stays(E, U)
        PROVE  <<r, j>> \in U
    <3>1. <<q, k>> \in U
      BY <1>2, <2>2, Zenon
    <3> QED
      BY <2>2, <3>1, Zenon DEF Stays
  <2> QED
    BY <2>1, <2>2, Zenon DEF Reach
<1>4. Reach(t, E, s, i) \subseteq Q \X Place(t)
  <2>1. Q \X Place(t) \in SUBSET Spots(t) /\ <<s, i>> \in Q \X Place(t)
    BY DEF Spots
  <2>2. Stays(E, Q \X Place(t))
    BY DEF Stays
  <2> QED
    BY <1>2, <2>1, <2>2, Zenon
<1>5. \A q, k : <<q, k>> \in Reach(t, E, s, i) => q \in Q /\ k \in Place(t)
  BY <1>4
<1>6. Reach(t, E, s, i) \subseteq Spots(t)
  BY DEF Reach
<1> QED
  BY <1>1, <1>3, <1>5, <1>6, Zenon

\* What one can reach from <<s, i>> through a piece: all of it in the piece, with
\* <<s, i>>, never to be left by its edges, and as R says at the end.
Region(t, Q, E, s, e, R, i) ==
  /\ \A q, k : <<q, k>> \in Reach(t, E, s, i) => q \in Q /\ k \in Place(t)
  /\ <<s, i>> \in Reach(t, E, s, i)
  /\ Stays(E, Reach(t, E, s, i))
  /\ \A j \in Place(t) : <<e, j>> \in Reach(t, E, s, i) <=> <<i, j>> \in R

\* The same for a piece.
LEMMA PieceFacts ==
  ASSUME NEW t, NEW Q, NEW E, NEW s, NEW e, NEW R, Piece(t, Q, E, s, e, R),
         NEW i \in Place(t)
  PROVE  Region(t, Q, E, s, e, R, i)
<1>1. /\ Q \in SUBSET Nat /\ s \in Q
      /\ \A q, k, r, j : <<q, k, r, j>> \in E =>
           q \in Q /\ k \in Place(t) /\ r \in Q /\ j \in Place(t)
      /\ \A j \in Place(t) : <<e, j>> \in Reach(t, E, s, i) <=> <<i, j>> \in R
  BY Zenon DEF Piece
<1> QED
  BY <1>1, ReachFacts, Zenon DEF Region

\* Where the edges of a piece are, one gets through it as R says.
LEMMA PieceAcross ==
  ASSUME NEW t, NEW Q, NEW E, NEW s, NEW e, NEW R, Piece(t, Q, E, s, e, R),
         NEW i \in Place(t), NEW j \in Place(t), <<i, j>> \in R, NEW F,
         \A q, k, r, l : <<q, k, r, l>> \in E => <<q, k, r, l>> \in F,
         NEW U \in SUBSET Spots(t), Stays(F, U), <<s, i>> \in U
  PROVE  <<e, j>> \in U
<1>1. Stays(E, U)
  BY Zenon DEF Stays
<1>2. <<e, j>> \in Reach(t, E, s, i)
  BY Zenon DEF Piece
<1> QED
  BY <1>1, <1>2, ReachWithin, Zenon

\* R, then S, pair by pair.
LEMMA ThenFacts ==
  ASSUME NEW t, NEW R, NEW S
  PROVE  /\ Then(t, R, S) \subseteq Place(t) \X Place(t)
         /\ \A i, k \in Place(t) : <<i, k>> \in Then(t, R, S) <=>
              \E j \in Place(t) : <<i, j>> \in R /\ <<j, k>> \in S
<1>1. ASSUME NEW i \in Place(t), NEW k \in Place(t)
      PROVE  <<i, k>> \in Place(t) \X Place(t) /\ <<i, k>>[1] = i /\ <<i, k>>[2] = k
  OBVIOUS
<1>2. \A x : x \in Then(t, R, S) <=>
        /\ x \in Place(t) \X Place(t)
        /\ \E j \in Place(t) : <<x[1], j>> \in R /\ <<j, x[2]>> \in S
  BY Zenon DEF Then
<1>3. \A i, k \in Place(t) :
        <<i, k>> \in Then(t, R, S) <=>
          /\ <<i, k>> \in Place(t) \X Place(t)
          /\ \E j \in Place(t) : <<<<i, k>>[1], j>> \in R /\ <<j, <<i, k>>[2]>> \in S
  BY <1>2, Zenon
<1> QED
  BY <1>1, <1>2, <1>3

\* A single link.
LEMMA PieceLink ==
  ASSUME NEW t, NEW R, R \subseteq Place(t) \X Place(t),
         NEW s \in Nat, NEW e \in Nat, s # e, NEW E,
         \A q, i, r, j : <<q, i, r, j>> \in E <=> q = s /\ r = e /\ <<i, j>> \in R
  PROVE  Piece(t, {s, e}, E, s, e, R)
<1>0. \A i, j : <<i, j>> \in R => i \in Place(t) /\ j \in Place(t)
  OBVIOUS
<1>1. /\ {s, e} \in SUBSET Nat /\ s \in {s, e}
      /\ \A q, i, r, j : <<q, i, r, j>> \in E =>
           q \in {s, e} /\ i \in Place(t) /\ r \in {s, e} /\ j \in Place(t)
  BY <1>0
<1>2. ASSUME NEW i \in Place(t), NEW j \in Place(t), <<i, j>> \in R
      PROVE  <<e, j>> \in Reach(t, E, s, i)
  <2>1. <<s, i>> \in Reach(t, E, s, i) /\ Stays(E, Reach(t, E, s, i))
    BY <1>1, ReachFacts, Zenon
  <2>2. <<s, i, e, j>> \in E
    BY <1>1, <1>2
  <2> QED
    BY <2>1, <2>2 DEF Stays
<1>3. ASSUME NEW i \in Place(t), NEW j \in Place(t), <<e, j>> \in Reach(t, E, s, i)
      PROVE  <<i, j>> \in R
  <2> DEFINE U == {x \in Spots(t) : x = <<s, i>> \/ (x[1] = e /\ <<i, x[2]>> \in R)}
  <2>1. <<s, i>> \in U
    BY DEF Spots
  <2>2. Stays(E, U)
    <3> SUFFICES ASSUME NEW q, NEW k, NEW r, NEW l, <<q, k>> \in U, <<q, k, r, l>> \in E
                 PROVE  <<r, l>> \in U
      BY Zenon DEF Stays
    <3>1. q = s /\ r = e /\ <<k, l>> \in R /\ l \in Place(t)
      BY <1>1
    <3>2. k = i
      BY <3>1
    <3> QED
      BY <3>1, <3>2 DEF Spots
  <2>3. <<e, j>> \in U
    <3>1. U \in SUBSET Spots(t)
      OBVIOUS
    <3> HIDE DEF U
    <3> QED BY <1>3, <2>1, <2>2, <3>1, ReachWithin, Zenon
  <2> QED
    BY <2>3
<1> QED
  BY <1>1, <1>2, <1>3 DEF Piece

\* The edges of A and of B, and a way from m to n.
Joined(t, E, A, B, m, n) ==
  \A q, i, r, j : <<q, i, r, j>> \in E <=>
    \/ <<q, i, r, j>> \in A \/ <<q, i, r, j>> \in B
    \/ q = m /\ r = n /\ i = j /\ i \in Place(t)

\* One piece behind another.
LEMMA PieceConcat ==
  ASSUME NEW t, NEW Q, NEW A, NEW s, NEW m, NEW R, Piece(t, Q, A, s, m, R),
         NEW Z, NEW B, NEW n, NEW e, NEW S, Piece(t, Z, B, n, e, S),
         Q \cap Z = {}, NEW E, Joined(t, E, A, B, m, n)
  PROVE  Piece(t, Q \cup Z, E, s, e, Then(t, R, S))
<1> DEFINE W == Q \cup Z
<1>1. /\ s \in W /\ W \in SUBSET Nat /\ e \in W
      /\ \A q : q \in W <=> q \in Q \/ q \in Z
      /\ m \in Q /\ n \in Z /\ e \in Z /\ s \in Q
      /\ \A q : ~ (q \in Q /\ q \in Z)
  BY DEF Piece
<1>2. /\ \A q, i, r, j : <<q, i, r, j>> \in A =>
           q \in Q /\ i \in Place(t) /\ r \in Q /\ j \in Place(t)
      /\ \A q, i, r, j : <<q, i, r, j>> \in B =>
           q \in Z /\ i \in Place(t) /\ r \in Z /\ j \in Place(t)
  BY Zenon DEF Piece
<1> HIDE DEF W
<1>3. \A q, i, r, j : <<q, i, r, j>> \in E =>
        q \in W /\ i \in Place(t) /\ r \in W /\ j \in Place(t)
  BY <1>1, <1>2 DEF Joined
<1>4. \A q, i, r, j : <<q, i, r, j>> \in A \/ <<q, i, r, j>> \in B => <<q, i, r, j>> \in E
  BY DEF Joined
<1>5. ASSUME NEW i \in Place(t), NEW k \in Place(t), <<i, k>> \in Then(t, R, S)
      PROVE  <<e, k>> \in Reach(t, E, s, i)
  <2> DEFINE U == Reach(t, E, s, i)
  <2>1. <<s, i>> \in U /\ Stays(E, U) /\ U \subseteq Spots(t)
    BY <1>1, <1>3, ReachFacts
  <2>2. PICK j \in Place(t) : <<i, j>> \in R /\ <<j, k>> \in S
    BY <1>5 DEF Then
  <2> HIDE DEF U
  <2>3. <<m, j>> \in U
    BY <1>4, <2>1, <2>2, PieceAcross
  <2>4. <<n, j>> \in U
    <3>1. <<m, j, n, j>> \in E
      BY DEF Joined
    <3> QED
      BY <2>1, <2>3, <3>1, Zenon DEF Stays
  <2>5. <<e, k>> \in U
    BY <1>4, <2>1, <2>2, <2>4, PieceAcross
  <2> QED
    BY <2>5 DEF U
<1>6. ASSUME NEW i \in Place(t), NEW k \in Place(t), <<e, k>> \in Reach(t, E, s, i)
      PROVE  <<i, k>> \in Then(t, R, S)
  <2>1. Region(t, Q, A, s, m, R, i) /\ \A p \in Place(t) : Region(t, Z, B, n, e, S, p)
    BY PieceFacts
  <2> DEFINE U == {x \in Spots(t) :
                     \/ x \in Reach(t, A, s, i)
                     \/ \E p \in Place(t) : <<i, p>> \in R /\ x \in Reach(t, B, n, p)}
  <2>3. /\ U \in SUBSET Spots(t)
        /\ \A q, j : <<q, j>> \in U <=>
             /\ <<q, j>> \in Spots(t)
             /\ \/ <<q, j>> \in Reach(t, A, s, i)
                \/ \E p \in Place(t) : <<i, p>> \in R /\ <<q, j>> \in Reach(t, B, n, p)
    OBVIOUS
  <2> HIDE DEF U
  <2>4. <<s, i>> \in U
    BY <1>1, <2>1, <2>3 DEF Spots, Region
  <2>5. ASSUME NEW q, NEW j, NEW r, NEW l, <<q, j>> \in U, <<q, j, r, l>> \in E
        PROVE  <<r, l>> \in U
    <3>1. <<r, l>> \in Spots(t)
      BY <1>1, <1>3, <2>5 DEF Spots
    <3>2. CASE <<q, j, r, l>> \in A
      <4>1. <<q, j>> \in Reach(t, A, s, i)
        BY <1>1, <1>2, <2>1, <2>3, <2>5, <3>2, Zenon DEF Region
      <4>2. <<r, l>> \in Reach(t, A, s, i)
        BY <2>1, <3>2, <4>1, Zenon DEF Stays, Region
      <4> QED
        BY <2>3, <3>1, <4>2, Zenon
    <3>3. CASE <<q, j, r, l>> \in B
      <4>1. PICK p \in Place(t) : <<i, p>> \in R /\ <<q, j>> \in Reach(t, B, n, p)
        BY <1>1, <1>2, <2>1, <2>3, <2>5, <3>3, Zenon DEF Region
      <4>2. <<r, l>> \in Reach(t, B, n, p)
        BY <2>1, <3>3, <4>1, Zenon DEF Stays, Region
      <4> QED
        BY <2>3, <3>1, <4>1, <4>2, Zenon
    <3>4. CASE q = m /\ r = n /\ j = l /\ j \in Place(t)
      <4>1. <<m, j>> \in Reach(t, A, s, i)
        BY <1>1, <2>1, <2>3, <2>5, <3>4, Zenon DEF Region
      <4>2. <<i, j>> \in R /\ <<n, j>> \in Reach(t, B, n, j)
        BY <2>1, <3>4, <4>1, Zenon DEF Region
      <4> QED
        BY <2>3, <3>1, <3>4, <4>2, Zenon
    <3> QED
      BY <2>5, <3>2, <3>3, <3>4 DEF Joined
  <2>6. <<e, k>> \in U
    <3>1. Stays(E, U)
      BY <2>5, Zenon DEF Stays
    <3> QED
      BY <1>6, <2>3, <2>4, <3>1, ReachWithin, Zenon
  <2>7. PICK p \in Place(t) : <<i, p>> \in R /\ <<e, k>> \in Reach(t, B, n, p)
    BY <1>1, <2>1, <2>3, <2>6, Zenon DEF Region
  <2> QED
    BY <2>1, <2>7, ThenFacts, Zenon DEF Region
<1>7. Then(t, R, S) \subseteq Place(t) \X Place(t)
  BY ThenFacts
<1> QED
  BY <1>1, <1>3, <1>5, <1>6, <1>7, Zenon DEF Piece, W

\* The edges of A and of B, and ways from s into both and from both to e.
Forked(t, E, A, B, s, e, a0, a1, b0, b1) ==
  \A q, i, r, j : <<q, i, r, j>> \in E <=>
    \/ <<q, i, r, j>> \in A \/ <<q, i, r, j>> \in B
    \/ q = s /\ r = a0 /\ i = j /\ i \in Place(t)
    \/ q = s /\ r = b0 /\ i = j /\ i \in Place(t)
    \/ q = a1 /\ r = e /\ i = j /\ i \in Place(t)
    \/ q = b1 /\ r = e /\ i = j /\ i \in Place(t)

\* Two pieces side by side.
LEMMA PieceAlt ==
  ASSUME NEW t, NEW Q, NEW A, NEW a0, NEW a1, NEW R, Piece(t, Q, A, a0, a1, R),
         NEW Z, NEW B, NEW b0, NEW b1, NEW S, Piece(t, Z, B, b0, b1, S),
         Q \cap Z = {}, NEW s \in Nat, NEW e \in Nat, s # e,
         s \notin Q \cup Z, e \notin Q \cup Z,
         NEW E, Forked(t, E, A, B, s, e, a0, a1, b0, b1)
  PROVE  Piece(t, (Q \cup Z) \cup {s, e}, E, s, e, R \cup S)
<1> DEFINE W == (Q \cup Z) \cup {s, e}
<1>1. /\ s \in W /\ W \in SUBSET Nat /\ e \in W
      /\ \A q : q \in W <=> q \in Q \/ q \in Z \/ q = s \/ q = e
      /\ a0 \in Q /\ a1 \in Q /\ b0 \in Z /\ b1 \in Z
      /\ \A q : ~ (q \in Q /\ q \in Z)
      /\ s \notin Q /\ s \notin Z /\ e \notin Q /\ e \notin Z
  BY DEF Piece
<1>2. /\ \A q, i, r, j : <<q, i, r, j>> \in A =>
           q \in Q /\ i \in Place(t) /\ r \in Q /\ j \in Place(t)
      /\ \A q, i, r, j : <<q, i, r, j>> \in B =>
           q \in Z /\ i \in Place(t) /\ r \in Z /\ j \in Place(t)
  BY Zenon DEF Piece
<1> HIDE DEF W
<1>3. \A q, i, r, j : <<q, i, r, j>> \in E =>
        q \in W /\ i \in Place(t) /\ r \in W /\ j \in Place(t)
  BY <1>1, <1>2 DEF Forked
<1>4. /\ \A q, i, r, j : <<q, i, r, j>> \in A => <<q, i, r, j>> \in E
      /\ \A q, i, r, j : <<q, i, r, j>> \in B => <<q, i, r, j>> \in E
      /\ \A i \in Place(t) : /\ <<s, i, a0, i>> \in E /\ <<s, i, b0, i>> \in E
                             /\ <<a1, i, e, i>> \in E /\ <<b1, i, e, i>> \in E
  BY DEF Forked
<1>5. ASSUME NEW i \in Place(t), NEW k \in Place(t), <<i, k>> \in R \cup S
      PROVE  <<e, k>> \in Reach(t, E, s, i)
  <2> DEFINE U == Reach(t, E, s, i)
  <2>1. <<s, i>> \in U /\ Stays(E, U) /\ U \subseteq Spots(t)
    BY <1>1, <1>3, ReachFacts
  <2> HIDE DEF U
  <2>2. <<a0, i>> \in U /\ <<b0, i>> \in U
    BY <1>4, <2>1, Zenon DEF Stays
  <2>3. CASE <<i, k>> \in R
    <3>1. <<a1, k>> \in U
      BY <1>4, <2>1, <2>2, <2>3, PieceAcross
    <3> QED
      BY <1>4, <2>1, <3>1, Zenon DEF Stays, U
  <2>4. CASE <<i, k>> \in S
    <3>1. <<b1, k>> \in U
      BY <1>4, <2>1, <2>2, <2>4, PieceAcross
    <3> QED
      BY <1>4, <2>1, <3>1, Zenon DEF Stays, U
  <2> QED
    BY <1>5, <2>3, <2>4
<1>6. ASSUME NEW i \in Place(t), NEW k \in Place(t), <<e, k>> \in Reach(t, E, s, i)
      PROVE  <<i, k>> \in R \cup S
  <2>1. Region(t, Q, A, a0, a1, R, i) /\ Region(t, Z, B, b0, b1, S, i)
    BY PieceFacts
  <2> DEFINE U == {x \in Spots(t) :
                     \/ x = <<s, i>>
                     \/ x \in Reach(t, A, a0, i)
                     \/ x \in Reach(t, B, b0, i)
                     \/ x[1] = e /\ <<i, x[2]>> \in R \cup S}
  <2>4. /\ U \in SUBSET Spots(t)
        /\ \A q, j : <<q, j>> \in U <=>
             /\ <<q, j>> \in Spots(t)
             /\ \/ q = s /\ j = i
                \/ <<q, j>> \in Reach(t, A, a0, i)
                \/ <<q, j>> \in Reach(t, B, b0, i)
                \/ q = e /\ (<<i, j>> \in R \/ <<i, j>> \in S)
    OBVIOUS
  <2> HIDE DEF U
  <2>2. <<s, i>> \in U
    BY <2>4 DEF Spots
  <2>3. \A q, j : <<q, j>> \in U =>
          /\ q \in Q => <<q, j>> \in Reach(t, A, a0, i)
          /\ q \in Z => <<q, j>> \in Reach(t, B, b0, i)
          /\ q = e => <<i, j>> \in R \/ <<i, j>> \in S
    BY <1>1, <2>1, <2>4 DEF Region
  <2>9. \A j : <<s, j>> \in U => j = i
    BY <1>1, <2>1, <2>4 DEF Region
  <2>5. ASSUME NEW j, <<a1, j>> \in U PROVE j \in Place(t) /\ <<i, j>> \in R
    BY <1>1, <2>1, <2>3, <2>5, Zenon DEF Region
  <2>6. ASSUME NEW j, <<b1, j>> \in U PROVE j \in Place(t) /\ <<i, j>> \in S
    BY <1>1, <2>1, <2>3, <2>6, Zenon DEF Region
  <2>7. ASSUME NEW q, NEW j, NEW r, NEW l, <<q, j>> \in U, <<q, j, r, l>> \in E
        PROVE  <<r, l>> \in U
    <3>1. <<r, l>> \in Spots(t)
      BY <1>1, <1>3, <2>7 DEF Spots
    <3>2. CASE <<q, j, r, l>> \in A
      <4>1. <<q, j>> \in Reach(t, A, a0, i)
        BY <1>2, <2>3, <2>7, <3>2, Zenon
      <4>2. <<r, l>> \in Reach(t, A, a0, i)
        BY <2>1, <3>2, <4>1, Zenon DEF Stays, Region
      <4> QED
        BY <2>4, <3>1, <4>2, Zenon
    <3>3. CASE <<q, j, r, l>> \in B
      <4>1. <<q, j>> \in Reach(t, B, b0, i)
        BY <1>2, <2>3, <2>7, <3>3, Zenon
      <4>2. <<r, l>> \in Reach(t, B, b0, i)
        BY <2>1, <3>3, <4>1, Zenon DEF Stays, Region
      <4> QED
        BY <2>4, <3>1, <4>2, Zenon
    <3>4. CASE q = s /\ (r = a0 \/ r = b0) /\ j = l
      <4>0. <<s, j>> \in U
        BY <2>7, <3>4
      <4>1. j = i
        BY <2>9, <4>0
      <4>2. <<a0, i>> \in Reach(t, A, a0, i) /\ <<b0, i>> \in Reach(t, B, b0, i)
        BY <2>1, Zenon DEF Region
      <4> QED
        BY <2>4, <3>1, <3>4, <4>1, <4>2
    <3>5. CASE q = a1 /\ r = e /\ j = l /\ j \in Place(t)
      <4>1. <<i, l>> \in R
        BY <2>5, <2>7, <3>5
      <4> QED
        BY <2>4, <3>1, <3>5, <4>1
    <3>6. CASE q = b1 /\ r = e /\ j = l /\ j \in Place(t)
      <4>1. <<i, l>> \in S
        BY <2>6, <2>7, <3>6
      <4> QED
        BY <2>4, <3>1, <3>6, <4>1
    <3> QED
      BY <2>7, <3>2, <3>3, <3>4, <3>5, <3>6 DEF Forked
  <2>8. <<e, k>> \in U
    <3>1. Stays(E, U)
      BY <2>7, Zenon DEF Stays
    <3> QED
      BY <1>6, <2>2, <2>4, <3>1, ReachWithin, Zenon
  <2> QED
    BY <2>3, <2>8
<1>7. R \cup S \subseteq Place(t) \X Place(t)
  BY DEF Piece
<1> QED
  BY <1>1, <1>3, <1>5, <1>6, <1>7, Zenon DEF Piece, W

-----------------------------------------------------------------------------
\* The edges of A, ways from s into it and from it to e, perhaps one past it and
\* one back.
Enclosed(t, E, A, s, e, a0, a1, past, again) ==
  \A q, i, r, j : <<q, i, r, j>> \in E <=>
    \/ <<q, i, r, j>> \in A
    \/ q = s /\ r = a0 /\ i = j /\ i \in Place(t)
    \/ past /\ q = s /\ r = e /\ i = j /\ i \in Place(t)
    \/ again /\ q = a1 /\ r = a0 /\ i = j /\ i \in Place(t)
    \/ q = a1 /\ r = e /\ i = j /\ i \in Place(t)

\* How one gets to the next round: at once, or through any number of rounds.
Rounds(t, R, again) == IF again THEN Often(t, R) ELSE Here(t)

\* What an enclosed piece matches.
Around(t, R, past, again) ==
  Then(t, Rounds(t, R, again), R) \cup (IF past THEN Here(t) ELSE {})

\* Any number of rounds: none, or one more.
LEMMA OftenFacts ==
  ASSUME NEW t, NEW R, R \subseteq Place(t) \X Place(t)
  PROVE  /\ \A i \in Place(t) : <<i, i>> \in Often(t, R)
         /\ \A i, j, k \in Place(t) :
              <<i, j>> \in Often(t, R) /\ <<j, k>> \in R => <<i, k>> \in Often(t, R)
         /\ \A i, k \in Place(t), U \in SUBSET Place(t) :
              /\ <<i, k>> \in Often(t, R) /\ i \in U
              /\ \A l, j \in Place(t) : l \in U /\ <<l, j>> \in R => j \in U
              => k \in U
<1>1. \A i, k \in Place(t) : <<i, k>> \in Often(t, R) <=>
        \A U \in SUBSET Place(t) :
          i \in U /\ (\A y \in R : y[1] \in U => y[2] \in U) => k \in U
  BY DEF Often
<1>2. \A U : (\A y \in R : y[1] \in U => y[2] \in U) <=>
             (\A l, j \in Place(t) : l \in U /\ <<l, j>> \in R => j \in U)
  OBVIOUS
<1>3. \A i \in Place(t) : <<i, i>> \in Often(t, R)
  BY <1>1, Zenon
<1>4. ASSUME NEW i \in Place(t), NEW j \in Place(t), NEW k \in Place(t),
             <<i, j>> \in Often(t, R), <<j, k>> \in R
      PROVE  <<i, k>> \in Often(t, R)
  BY <1>1, <1>2, <1>4, Zenon
<1>5. ASSUME NEW i \in Place(t), NEW k \in Place(t), NEW U \in SUBSET Place(t),
             <<i, k>> \in Often(t, R), i \in U,
             \A l, j \in Place(t) : l \in U /\ <<l, j>> \in R => j \in U
      PROVE  k \in U
  BY <1>1, <1>2, <1>5, Zenon
<1> QED
  BY <1>3, <1>4, <1>5, Zenon

\* An enclosed piece.
LEMMA PieceAround ==
  ASSUME NEW t, NEW Q, NEW A, NEW a0, NEW a1, NEW R, Piece(t, Q, A, a0, a1, R),
         NEW s \in Nat, NEW e \in Nat, s # e, s \notin Q, e \notin Q,
         NEW past \in BOOLEAN, NEW again \in BOOLEAN,
         NEW E, Enclosed(t, E, A, s, e, a0, a1, past, again)
  PROVE  Piece(t, Q \cup {s, e}, E, s, e, Around(t, R, past, again))
<1> DEFINE W == Q \cup {s, e}
           M == Rounds(t, R, again)
           X == Around(t, R, past, again)
<1>1. /\ s \in W /\ W \in SUBSET Nat /\ e \in W
      /\ \A q : q \in W <=> q \in Q \/ q = s \/ q = e
      /\ a0 \in Q /\ a1 \in Q
  BY DEF Piece
<1>2. \A q, i, r, j : <<q, i, r, j>> \in A =>
           q \in Q /\ i \in Place(t) /\ r \in Q /\ j \in Place(t)
  BY Zenon DEF Piece
<1> HIDE DEF W
<1>3. \A q, i, r, j : <<q, i, r, j>> \in E =>
        q \in W /\ i \in Place(t) /\ r \in W /\ j \in Place(t)
  BY <1>1, <1>2 DEF Enclosed
<1>4. /\ \A q, i, r, j : <<q, i, r, j>> \in A => <<q, i, r, j>> \in E
      /\ \A i \in Place(t) : /\ <<s, i, a0, i>> \in E /\ <<a1, i, e, i>> \in E
                             /\ past => <<s, i, e, i>> \in E
                             /\ again => <<a1, i, a0, i>> \in E
  BY DEF Enclosed
<1>5. R \subseteq Place(t) \X Place(t)
  BY DEF Piece
<1>6. /\ \A i, k \in Place(t) : <<i, k>> \in Here(t) <=> i = k
      /\ Here(t) \subseteq Place(t) \X Place(t)
  BY DEF Here
<1>7. \A i \in Place(t) : <<i, i>> \in M
  BY <1>5, <1>6, OftenFacts DEF Rounds
<1>8. again => \A i, j, k \in Place(t) : <<i, j>> \in M /\ <<j, k>> \in R => <<i, k>> \in M
  BY <1>5, OftenFacts, Zenon DEF Rounds
<1>9. \A i, k \in Place(t) : <<i, k>> \in X <=>
        \/ \E j \in Place(t) : <<i, j>> \in M /\ <<j, k>> \in R
        \/ past /\ i = k
  <2>1. \A i, k : <<i, k>> \in X <=>
          <<i, k>> \in Then(t, M, R) \/ (past /\ <<i, k>> \in Here(t))
    BY DEF Around
  <2> HIDE DEF M, X
  <2>2. \A i, k \in Place(t) : <<i, k>> \in Then(t, M, R) <=>
          \E j \in Place(t) : <<i, j>> \in M /\ <<j, k>> \in R
    BY ThenFacts, Zenon
  <2> QED
    BY <1>6, <2>1, <2>2, Zenon
<1>10. X \subseteq Place(t) \X Place(t)
  BY <1>6, ThenFacts DEF Around
<1> HIDE DEF X
<1>11. ASSUME NEW i \in Place(t), NEW k \in Place(t), <<i, k>> \in X
       PROVE  <<e, k>> \in Reach(t, E, s, i)
  <2> DEFINE U == Reach(t, E, s, i)
  <2>1. <<s, i>> \in U /\ Stays(E, U) /\ U \subseteq Spots(t)
    BY <1>1, <1>3, ReachFacts
  <2> HIDE DEF U
  <2>2. <<a0, i>> \in U
    BY <1>4, <2>1, Zenon DEF Stays
  <2>3. ASSUME NEW j \in Place(t), <<a0, j>> \in U, NEW l \in Place(t), <<j, l>> \in R
        PROVE  <<a1, l>> \in U
    BY <1>4, <2>1, <2>3, PieceAcross
  <2>4. ASSUME NEW j \in Place(t), <<i, j>> \in M PROVE <<a0, j>> \in U
    <3>1. CASE again
      <4> DEFINE V == {l \in Place(t) : <<a0, l>> \in U}
      <4>1. /\ V \in SUBSET Place(t) /\ i \in V
            /\ \A l, m \in Place(t) : l \in V /\ <<l, m>> \in R => m \in V
        <5>1. ASSUME NEW l \in Place(t), NEW m \in Place(t), l \in V, <<l, m>> \in R
              PROVE  <<a0, m>> \in U
          <6>1. <<a1, m>> \in U
            BY <2>3, <5>1
          <6> QED
            BY <1>4, <2>1, <3>1, <6>1, Zenon DEF Stays
        <5> QED
          BY <2>2, <5>1
      <4>2. <<i, j>> \in Often(t, R)
        BY <2>4, <3>1 DEF Rounds
      <4>3. j \in V
        <5> HIDE DEF V
        <5> QED BY <1>5, <4>1, <4>2, OftenFacts, Zenon
      <4> QED
        BY <4>3
    <3>2. CASE ~ again
      BY <1>6, <2>2, <2>4, <3>2 DEF Rounds
    <3> QED
      BY <3>1, <3>2
  <2>5. ASSUME NEW j \in Place(t), <<i, j>> \in M, <<j, k>> \in R PROVE <<e, k>> \in U
    <3>1. <<a1, k>> \in U
      BY <2>3, <2>4, <2>5
    <3> QED
      BY <1>4, <2>1, <3>1, Zenon DEF Stays
  <2>6. ASSUME past, i = k PROVE <<e, k>> \in U
    <3>1. <<s, i, e, i>> \in E
      BY <1>4, <2>6
    <3>2. <<e, i>> \in U
      BY <2>1, <3>1, Zenon DEF Stays
    <3> QED
      BY <2>6, <3>2
  <2> HIDE DEF M
  <2> QED
    BY <1>9, <1>11, <2>5, <2>6, Zenon DEF U
<1>12. ASSUME NEW i \in Place(t), NEW k \in Place(t), <<e, k>> \in Reach(t, E, s, i)
       PROVE  <<i, k>> \in X
  <2>1. \A p \in Place(t) : Region(t, Q, A, a0, a1, R, p)
    BY PieceFacts
  <2> HIDE DEF M
  <2> DEFINE U == {x \in Spots(t) :
                     \/ x = <<s, i>>
                     \/ \E p \in Place(t) : <<i, p>> \in M /\ x \in Reach(t, A, a0, p)
                     \/ x[1] = e /\ <<i, x[2]>> \in X}
  <2>4. /\ U \in SUBSET Spots(t)
        /\ \A q, j : <<q, j>> \in U <=>
             /\ <<q, j>> \in Spots(t)
             /\ \/ q = s /\ j = i
                \/ \E p \in Place(t) : <<i, p>> \in M /\ <<q, j>> \in Reach(t, A, a0, p)
                \/ q = e /\ <<i, j>> \in X
    OBVIOUS
  <2> HIDE DEF U
  <2>2. <<s, i>> \in U
    BY <2>4 DEF Spots
  <2>0. \A p \in Place(t) : \A q, j : <<q, j>> \in Reach(t, A, a0, p) => q \in Q
    BY <2>1, Zenon DEF Region
  <2>3. \A q, j : <<q, j>> \in U =>
          /\ q \in Q => \E p \in Place(t) : <<i, p>> \in M /\ <<q, j>> \in Reach(t, A, a0, p)
          /\ q = e => <<i, j>> \in X
    <3> SUFFICES ASSUME NEW q, NEW j, <<q, j>> \in U
                 PROVE  /\ q \in Q => \E p \in Place(t) :
                             <<i, p>> \in M /\ <<q, j>> \in Reach(t, A, a0, p)
                        /\ q = e => <<i, j>> \in X
      BY Zenon
    <3>1. \/ q = s /\ j = i
          \/ \E p \in Place(t) : <<i, p>> \in M /\ <<q, j>> \in Reach(t, A, a0, p)
          \/ q = e /\ <<i, j>> \in X
      BY <2>4, Zenon
    <3>2. (\E p \in Place(t) : <<i, p>> \in M /\ <<q, j>> \in Reach(t, A, a0, p)) => q \in Q
      BY <2>0, Zenon
    <3> QED
      BY <3>1, <3>2
  <2>9. \A j : <<s, j>> \in U => j = i
    BY <2>0, <2>4
  <2>5. ASSUME NEW j \in Place(t), <<a1, j>> \in U
        PROVE  \E p \in Place(t) : <<i, p>> \in M /\ <<p, j>> \in R
    <3>1. PICK p \in Place(t) : <<i, p>> \in M /\ <<a1, j>> \in Reach(t, A, a0, p)
      BY <1>1, <2>3, <2>5, Zenon
    <3> QED
      BY <2>1, <2>5, <3>1, Zenon DEF Region
  <2>7. ASSUME NEW q, NEW j, NEW r, NEW l, <<q, j>> \in U, <<q, j, r, l>> \in E
        PROVE  <<r, l>> \in U
    <3>1. <<r, l>> \in Spots(t) /\ l \in Place(t)
      BY <1>1, <1>3, <2>7 DEF Spots
    <3>2. CASE <<q, j, r, l>> \in A
      <4>1. PICK p \in Place(t) : <<i, p>> \in M /\ <<q, j>> \in Reach(t, A, a0, p)
        BY <1>2, <2>3, <2>7, <3>2, Zenon
      <4>2. <<r, l>> \in Reach(t, A, a0, p)
        BY <2>1, <3>2, <4>1, Zenon DEF Stays, Region
      <4> QED
        BY <2>4, <3>1, <4>1, <4>2, Zenon
    <3>3. ASSUME <<i, l>> \in M, r = a0 PROVE <<r, l>> \in U
      <4>1. <<a0, l>> \in Reach(t, A, a0, l)
        BY <2>1, <3>1, Zenon DEF Region
      <4> QED
        BY <2>4, <3>1, <3>3, <4>1
    <3>4. CASE q = s /\ j = l
      <4>0. <<s, j>> \in U
        BY <2>7, <3>4
      <4>1. j = i
        BY <2>9, <4>0
      <4>2. r = a0 \/ (past /\ r = e)
        BY <1>1, <1>2, <2>7, <3>4 DEF Enclosed
      <4>3. CASE r = a0
        BY <1>7, <3>3, <3>4, <4>1, <4>3
      <4>4. CASE past /\ r = e
        <5>1. <<i, l>> \in X
          BY <1>9, <3>4, <4>1, <4>4
        <5> QED
          BY <2>4, <3>1, <4>4, <5>1
      <4> QED
        BY <4>2, <4>3, <4>4
    <3>5. CASE q = a1 /\ r = e /\ j = l
      <4>1. \E p \in Place(t) : <<i, p>> \in M /\ <<p, l>> \in R
        BY <2>5, <2>7, <3>1, <3>5
      <4>2. <<i, l>> \in X
        BY <1>9, <3>1, <4>1
      <4> QED
        BY <2>4, <3>1, <3>5, <4>2
    <3>6. CASE again /\ q = a1 /\ r = a0 /\ j = l
      <4>1. PICK p \in Place(t) : <<i, p>> \in M /\ <<p, l>> \in R
        BY <2>5, <2>7, <3>1, <3>6
      <4>2. <<i, l>> \in M
        BY <1>8, <3>1, <3>6, <4>1
      <4> QED
        BY <3>3, <3>6, <4>2
    <3> QED
      BY <2>7, <3>2, <3>4, <3>5, <3>6 DEF Enclosed
  <2>8. <<e, k>> \in U
    <3>1. Stays(E, U)
      BY <2>7, Zenon DEF Stays
    <3> QED
      BY <1>12, <2>2, <2>4, <3>1, ReachWithin, Zenon
  <2> QED
    BY <2>3, <2>8
<1> QED
  BY <1>1, <1>3, <1>10, <1>11, <1>12, Zenon DEF Piece, W, X

-----------------------------------------------------------------------------
(* The edges of an automaton. *)
Trans == [to : Nat, type : TransType, cls : SUBSET Byte, group : Nat]

\* What a transition can be taken for in the text t.
Passes(t, tr, i, j) ==
  /\ i \in Place(t) /\ j \in Place(t)
  /\ \/ j = i /\ CanTake(tr, i = 0, i = Len(t))
     \/ j = i + 1 /\ Consumes(tr, t[j])

Edges(t, trans) ==
  {x \in (DOMAIN trans) \X Place(t) \X Nat \X Place(t) :
     \E k \in DOMAIN trans[x[1]] :
       trans[x[1]][k].to = x[3] /\ Passes(t, trans[x[1]][k], x[2], x[4])}

\* Sequences of transitions for the states Q, all of which lead to Q again.
Wired(trans, Q) ==
  /\ Q \subseteq Nat
  /\ trans \in [Q -> Seq(Trans)]
  /\ \A q \in Q : \A k \in DOMAIN trans[q] : trans[q][k].to \in Q

\* An edge is a way to take a transition of a state in Q.
EdgeFrom(t, trans, Q, q, i, r, j) ==
  <<q, i, r, j>> \in Edges(t, trans) <=>
    q \in Q /\ \E k \in DOMAIN trans[q] :
                 r = trans[q][k].to /\ Passes(t, trans[q][k], i, j)

\* The edges, one by one.
LEMMA EdgesAre ==
  ASSUME NEW t, NEW trans, NEW Q, Wired(trans, Q), NEW q, NEW i, NEW r, NEW j
  PROVE  EdgeFrom(t, trans, Q, q, i, r, j)
<1>1. DOMAIN trans = Q
  BY DEF Wired
<1>2. \A p \in Q : \A k \in DOMAIN trans[p] : trans[p][k].to \in Nat
  BY DEF Wired
<1>3. \A tr, m, l : Passes(t, tr, m, l) => m \in Place(t) /\ l \in Place(t)
  BY DEF Passes
<1> DEFINE x == <<q, i, r, j>>
<1>4. /\ x \in Edges(t, trans) <=>
           /\ x \in Q \X Place(t) \X Nat \X Place(t)
           /\ \E k \in DOMAIN trans[x[1]] :
                trans[x[1]][k].to = x[3] /\ Passes(t, trans[x[1]][k], x[2], x[4])
      /\ x[1] = q /\ x[2] = i /\ x[3] = r /\ x[4] = j
  <2>1. \A y : y \in Edges(t, trans) <=>
           /\ y \in Q \X Place(t) \X Nat \X Place(t)
           /\ \E k \in DOMAIN trans[y[1]] :
                trans[y[1]][k].to = y[3] /\ Passes(t, trans[y[1]][k], y[2], y[4])
    BY <1>1, Zenon DEF Edges
  <2>2. x[1] = q /\ x[2] = i /\ x[3] = r /\ x[4] = j
    OBVIOUS
  <2> QED
    BY <2>1, <2>2, Zenon
<1>5. x \in Q \X Place(t) \X Nat \X Place(t) <=>
        q \in Q /\ i \in Place(t) /\ r \in Nat /\ j \in Place(t)
  OBVIOUS
<1> HIDE DEF x
<1> QED
  BY <1>2, <1>3, <1>4, <1>5 DEF x, EdgeFrom

\* A transition more is an edge more for each way to take it.
LEMMA AddEdges ==
  ASSUME NEW t, NEW trans, NEW Q, Wired(trans, Q),
         NEW from \in Q, NEW tr \in Trans, tr.to \in Q
  PROVE  /\ Wired(Add(trans, from, tr), Q)
         /\ \A q, i, r, j : <<q, i, r, j>> \in Edges(t, Add(trans, from, tr)) <=>
              \/ <<q, i, r, j>> \in Edges(t, trans)
              \/ q = from /\ r = tr.to /\ Passes(t, tr, i, j)
<1> DEFINE new == Add(trans, from, tr)
<1>1. /\ trans \in [Q -> Seq(Trans)] /\ new \in [Q -> Seq(Trans)]
      /\ \A q \in Q : q # from => new[q] = trans[q]
      /\ new[from] = Append(trans[from], tr)
  <2>1. trans \in [Q -> Seq(Trans)]
    BY Zenon DEF Wired
  <2> DEFINE longer == Append(trans[from], tr)
  <2>2. longer \in Seq(Trans)
    <3>1. trans[from] \in Seq(Trans)
      BY <2>1
    <3> QED
      BY <3>1
  <2>3. new = [trans EXCEPT ![from] = longer]
    BY Zenon DEF Add
  <2> HIDE DEF new, longer
  <2>4. /\ new \in [Q -> Seq(Trans)] /\ new[from] = longer
        /\ \A q \in Q : q # from => new[q] = trans[q]
    BY <2>1, <2>2, <2>3
  <2> QED
    BY <2>1, <2>4, Zenon DEF longer
<1>2. LET s == trans[from]  u == new[from] IN
        /\ DOMAIN u = (DOMAIN s) \cup {Len(s) + 1}
        /\ \A k \in DOMAIN s : u[k] = s[k]
        /\ u[Len(s) + 1] = tr
  BY <1>1
<1> HIDE DEF new
<1>3. Wired(new, Q)
  <2>1. ASSUME NEW q \in Q, NEW k \in DOMAIN new[q] PROVE new[q][k].to \in Q
    <3>1. CASE q # from
      BY <1>1, <2>1, <3>1 DEF Wired
    <3>2. CASE q = from
      <4>1. CASE k \in DOMAIN trans[from]
        BY <1>2, <3>2, <4>1 DEF Wired
      <4>2. CASE k = Len(trans[from]) + 1
        BY <1>2, <3>2, <4>2
      <4> QED
        BY <1>2, <2>1, <3>2, <4>1, <4>2
    <3> QED
      BY <3>1, <3>2
  <2> QED
    BY <1>1, <2>1 DEF Wired
<1>4. ASSUME NEW q, NEW i, NEW r, NEW j
      PROVE  <<q, i, r, j>> \in Edges(t, new) <=>
               \/ <<q, i, r, j>> \in Edges(t, trans)
               \/ q = from /\ r = tr.to /\ Passes(t, tr, i, j)
  <2>1. /\ <<q, i, r, j>> \in Edges(t, new) <=>
             q \in Q /\ \E k \in DOMAIN new[q] :
                          r = new[q][k].to /\ Passes(t, new[q][k], i, j)
        /\ <<q, i, r, j>> \in Edges(t, trans) <=>
             q \in Q /\ \E k \in DOMAIN trans[q] :
                          r = trans[q][k].to /\ Passes(t, trans[q][k], i, j)
    <3>1. EdgeFrom(t, new, Q, q, i, r, j) /\ EdgeFrom(t, trans, Q, q, i, r, j)
      BY <1>3, EdgesAre
    <3> QED
      BY <3>1, Zenon DEF EdgeFrom
  <2>2. CASE q = from
    BY <1>2, <2>1, <2>2
  <2>3. CASE q # from
    BY <1>1, <2>1, <2>3
  <2> QED
    BY <2>2, <2>3
<1> QED
  BY <1>3, <1>4 DEF new

\* Edges more from a to b, that need no input.
More(t, new, old, a, b) ==
  \A q, i, r, j : <<q, i, r, j>> \in Edges(t, new) <=>
    \/ <<q, i, r, j>> \in Edges(t, old)
    \/ q = a /\ r = b /\ i = j /\ i \in Place(t)

\* An empty transition leads from every place to the same place.
LEMMA EpsEdges ==
  ASSUME NEW t, NEW trans, NEW Q, Wired(trans, Q), NEW from \in Q, NEW to \in Q
  PROVE  /\ Wired(AddEps(trans, from, to), Q)
         /\ More(t, AddEps(trans, from, to), trans, from, to)
<1> DEFINE tr == Transition(to, "EPS", {}, 0)
<1>1. tr \in Trans /\ tr.to = to
  BY DEF Wired, Transition, Trans, TransType
<1>2. \A i, j : Passes(t, tr, i, j) <=> i = j /\ i \in Place(t)
  BY DEF Passes, Transition, CanTake, Consumes
<1>3. AddEps(trans, from, to) = Add(trans, from, tr)
  BY DEF AddEps
<1> HIDE DEF tr
<1>4. /\ Wired(Add(trans, from, tr), Q)
      /\ \A q, i, r, j : <<q, i, r, j>> \in Edges(t, Add(trans, from, tr)) <=>
           \/ <<q, i, r, j>> \in Edges(t, trans)
           \/ q = from /\ r = tr.to /\ Passes(t, tr, i, j)
  BY <1>1, AddEdges
<1> QED
  BY <1>1, <1>2, <1>3, <1>4 DEF More

\* Two automata side by side.
LEMMA BothEdges ==
  ASSUME NEW t, NEW a, NEW Q, Wired(a, Q), NEW b, NEW Z, Wired(b, Z), Q \cap Z = {}
  PROVE  /\ Wired(Both(a, b), Q \cup Z)
         /\ \A q, i, r, j : <<q, i, r, j>> \in Edges(t, Both(a, b)) <=>
              <<q, i, r, j>> \in Edges(t, a) \/ <<q, i, r, j>> \in Edges(t, b)
<1> DEFINE c == Both(a, b)
<1>1. /\ c \in [Q \cup Z -> Seq(Trans)]
      /\ \A q \in Q : c[q] = a[q]
      /\ \A q \in Z : c[q] = b[q]
  BY DEF Wired, Both
<1> HIDE DEF c
<1>2. Wired(c, Q \cup Z)
  BY <1>1 DEF Wired
<1>4. ASSUME NEW q, NEW i, NEW r, NEW j
      PROVE  <<q, i, r, j>> \in Edges(t, c) <=>
               <<q, i, r, j>> \in Edges(t, a) \/ <<q, i, r, j>> \in Edges(t, b)
  <2>0. /\ <<q, i, r, j>> \in Edges(t, c) <=>
             q \in Q \cup Z /\ \E k \in DOMAIN c[q] :
                                 r = c[q][k].to /\ Passes(t, c[q][k], i, j)
        /\ <<q, i, r, j>> \in Edges(t, a) <=>
             q \in Q /\ \E k \in DOMAIN a[q] : r = a[q][k].to /\ Passes(t, a[q][k], i, j)
        /\ <<q, i, r, j>> \in Edges(t, b) <=>
             q \in Z /\ \E k \in DOMAIN b[q] : r = b[q][k].to /\ Passes(t, b[q][k], i, j)
    <3>1. /\ EdgeFrom(t, c, Q \cup Z, q, i, r, j)
          /\ EdgeFrom(t, a, Q, q, i, r, j) /\ EdgeFrom(t, b, Z, q, i, r, j)
      BY <1>2, EdgesAre
    <3> QED
      BY <3>1, Zenon DEF EdgeFrom
  <2>1. CASE q \in Q
    BY <1>1, <2>0, <2>1
  <2>2. CASE q \in Z
    BY <1>1, <2>0, <2>2
  <2>3. CASE q \notin Q \cup Z
    BY <2>0, <2>3
  <2> QED
    BY <2>1, <2>2, <2>3
<1> QED
  BY <1>2, <1>4, Zenon DEF c

-----------------------------------------------------------------------------
(* Fragments. *)
\* The states of a fragment that was compiled from n states on.
Own(n, f) == n .. f.len - 1

\* A fragment that matches R.
IsFrag(t, n, f, R) ==
  /\ n \in Nat /\ f.len \in Nat /\ n < f.len
  /\ Wired(f.trans, Own(n, f))
  /\ Piece(t, Own(n, f), Edges(t, f.trans), f.start, f.accept, R)

\* Two states more.
LEMMA StatesEdges ==
  ASSUME NEW t, NEW trans, NEW Q, Wired(trans, Q), NEW s \in Nat,
         s \notin Q, s + 1 \notin Q
  PROVE  /\ Wired(AddStates(trans, s), Q \cup {s, s + 1})
         /\ \A q, i, r, j : <<q, i, r, j>> \in Edges(t, AddStates(trans, s)) <=>
              <<q, i, r, j>> \in Edges(t, trans)
<1> DEFINE two == [q \in {s, s + 1} |-> <<>>]
           Z == {s, s + 1}
<1>1. Wired(two, Z) /\ \A q \in Z : DOMAIN two[q] = {}
  BY DEF Wired
<1>2. Q \cap Z = {}
  OBVIOUS
<1> HIDE DEF two, Z
<1>3. ASSUME NEW q, NEW i, NEW r, NEW j PROVE <<q, i, r, j>> \notin Edges(t, two)
  <2>1. EdgeFrom(t, two, Z, q, i, r, j)
    BY <1>1, EdgesAre
  <2> QED
    BY <1>1, <2>1 DEF EdgeFrom
<1>4. /\ Wired(Both(trans, two), Q \cup Z)
      /\ \A q, i, r, j : <<q, i, r, j>> \in Edges(t, Both(trans, two)) <=>
           <<q, i, r, j>> \in Edges(t, trans) \/ <<q, i, r, j>> \in Edges(t, two)
  BY <1>1, <1>2, BothEdges
<1>5. AddStates(trans, s) = Both(trans, two)
  BY Zenon DEF AddStates, two
<1> QED
  BY <1>3, <1>4, <1>5, Zenon DEF Z

\* A fragment behind another one.
LEMMA FragChain ==
  ASSUME NEW t, NEW n, NEW a, NEW R, IsFrag(t, n, a, R),
         NEW b, NEW S, IsFrag(t, a.len, b, S)
  PROVE  IsFrag(t, n, Chain(a, b), Then(t, R, S))
<1> DEFINE c == Chain(a, b)
           Q == Own(n, a)
           Z == Own(a.len, b)
           W == Q \cup Z
           trans == Both(a.trans, b.trans)
           A == Edges(t, a.trans)
           B == Edges(t, b.trans)
           E == Edges(t, c.trans)
<1>1. /\ c.trans = AddEps(trans, a.accept, b.start) /\ c.len = b.len
      /\ c.start = a.start /\ c.accept = b.accept
  BY DEF Chain, Frag
<1>2. /\ Own(n, c) = W /\ Q \cap Z = {}
      /\ n \in Nat /\ c.len \in Nat /\ n < c.len
  BY <1>1 DEF IsFrag, Own
<1>3. /\ Wired(a.trans, Q) /\ Piece(t, Q, A, a.start, a.accept, R)
      /\ Wired(b.trans, Z) /\ Piece(t, Z, B, b.start, b.accept, S)
  BY Zenon DEF IsFrag
<1>4. a.accept \in W /\ b.start \in W
  BY <1>3 DEF Piece
<1> HIDE DEF Q, Z, A, B
<1>5. /\ Wired(trans, W)
      /\ \A q, i, r, j : <<q, i, r, j>> \in Edges(t, trans) <=>
           <<q, i, r, j>> \in A \/ <<q, i, r, j>> \in B
  BY <1>2, <1>3, BothEdges, Zenon DEF A, B
<1> HIDE DEF W, trans
<1>6. Wired(c.trans, W) /\ More(t, c.trans, trans, a.accept, b.start)
  BY <1>1, <1>4, <1>5, EpsEdges
<1> HIDE DEF c
<1>7. Joined(t, E, A, B, a.accept, b.start)
  BY <1>5, <1>6, Zenon DEF Joined, More, E
<1> HIDE DEF E
<1>8. Piece(t, W, E, a.start, b.accept, Then(t, R, S))
  BY <1>2, <1>3, <1>7, PieceConcat, Zenon DEF W
<1> QED
  BY <1>1, <1>2, <1>6, <1>8, Zenon DEF IsFrag, c, E

\* One fragment or the other.
LEMMA FragAlt ==
  ASSUME NEW t, NEW n, NEW a, NEW R, IsFrag(t, n, a, R),
         NEW b, NEW S, IsFrag(t, a.len, b, S)
  PROVE  IsFrag(t, n, CompileAlt(a, b), R \cup S)
<1> DEFINE c == CompileAlt(a, b)
           s == b.len
           e == b.len + 1
           Q == Own(n, a)
           Z == Own(a.len, b)
           V == Q \cup Z
           W == V \cup {s, e}
           both == Both(a.trans, b.trans)
           t0 == AddStates(both, s)
           t1 == AddEps(t0, s, a.start)
           t2 == AddEps(t1, s, b.start)
           t3 == AddEps(t2, a.accept, e)
           t4 == AddEps(t3, b.accept, e)
           A == Edges(t, a.trans)
           B == Edges(t, b.trans)
           E == Edges(t, c.trans)
<1>1. c.trans = t4 /\ c.len = s + 2 /\ c.start = s /\ c.accept = e
  BY DEF CompileAlt, Ended, Frag
<1>2. /\ Own(n, c) = W /\ Q \cap Z = {}
      /\ n \in Nat /\ c.len \in Nat /\ n < c.len
      /\ s \in Nat /\ e \in Nat /\ s # e /\ s \notin V /\ e \notin V /\ e = s + 1
  <2>1. n \in Nat /\ a.len \in Nat /\ n < a.len /\ b.len \in Nat /\ a.len < b.len
    BY Zenon DEF IsFrag
  <2>2. Q = n .. a.len - 1 /\ Z = a.len .. b.len - 1 /\ Own(n, c) = n .. c.len - 1
    BY Zenon DEF Own
  <2>3. V = Q \cup Z /\ W = V \cup {s, e} /\ s = b.len /\ e = b.len + 1
    OBVIOUS
  <2> HIDE DEF Q, Z, V, W, s, e, c
  <2> QED
    BY <1>1, <2>1, <2>2, <2>3
<1>3. /\ Wired(a.trans, Q) /\ Piece(t, Q, A, a.start, a.accept, R)
      /\ Wired(b.trans, Z) /\ Piece(t, Z, B, b.start, b.accept, S)
  BY Zenon DEF IsFrag
<1>4. /\ a.start \in W /\ a.accept \in W /\ b.start \in W /\ b.accept \in W
      /\ s \in W /\ e \in W
  BY <1>3 DEF Piece
<1> HIDE DEF Q, Z, A, B
<1>5. /\ Wired(both, V)
      /\ \A q, i, r, j : <<q, i, r, j>> \in Edges(t, both) <=>
           <<q, i, r, j>> \in A \/ <<q, i, r, j>> \in B
  BY <1>2, <1>3, BothEdges, Zenon DEF A, B
<1> HIDE DEF V, both
<1>6. /\ Wired(t0, W)
      /\ \A q, i, r, j : <<q, i, r, j>> \in Edges(t, t0) <=> <<q, i, r, j>> \in Edges(t, both)
  BY <1>2, <1>5, StatesEdges
<1> HIDE DEF W, t0, s, e
<1>7. Wired(t1, W) /\ More(t, t1, t0, s, a.start)
  BY <1>4, <1>6, EpsEdges
<1> HIDE DEF t1
<1>8. Wired(t2, W) /\ More(t, t2, t1, s, b.start)
  BY <1>4, <1>7, EpsEdges
<1> HIDE DEF t2
<1>9. Wired(t3, W) /\ More(t, t3, t2, a.accept, e)
  BY <1>4, <1>8, EpsEdges
<1> HIDE DEF t3
<1>10. Wired(t4, W) /\ More(t, t4, t3, b.accept, e)
  BY <1>4, <1>9, EpsEdges
<1> HIDE DEF t4, c
<1>11. Forked(t, E, A, B, s, e, a.start, a.accept, b.start, b.accept)
  <2> SUFFICES ASSUME NEW q, NEW i, NEW r, NEW j
               PROVE  <<q, i, r, j>> \in Edges(t, t4) <=>
                        \/ <<q, i, r, j>> \in A \/ <<q, i, r, j>> \in B
                        \/ q = s /\ r = a.start /\ i = j /\ i \in Place(t)
                        \/ q = s /\ r = b.start /\ i = j /\ i \in Place(t)
                        \/ q = a.accept /\ r = e /\ i = j /\ i \in Place(t)
                        \/ q = b.accept /\ r = e /\ i = j /\ i \in Place(t)
    BY <1>1, Zenon DEF Forked, E
  <2> DEFINE x == <<q, i, r, j>>
             hop == i = j /\ i \in Place(t)
  <2>1. /\ x \in Edges(t, t1) <=>
             (x \in A \/ x \in B) \/ (q = s /\ r = a.start /\ hop)
        /\ x \in Edges(t, t2) <=> x \in Edges(t, t1) \/ (q = s /\ r = b.start /\ hop)
        /\ x \in Edges(t, t3) <=> x \in Edges(t, t2) \/ (q = a.accept /\ r = e /\ hop)
        /\ x \in Edges(t, t4) <=> x \in Edges(t, t3) \/ (q = b.accept /\ r = e /\ hop)
    BY <1>5, <1>6, <1>7, <1>8, <1>9, <1>10 DEF More
  <2> HIDE DEF x, hop
  <2> QED
    BY <2>1 DEF x, hop
<1> HIDE DEF E
<1>12. Piece(t, W, E, s, e, R \cup S)
  BY <1>2, <1>3, <1>11, PieceAlt, Zenon DEF W, V
<1> QED
  BY <1>1, <1>2, <1>10, <1>12, Zenon DEF IsFrag, c, E

\* A fragment enclosed in two states more, as CompileLoop does it.
LEMMA FragLoop ==
  ASSUME NEW t, NEW n, NEW f, NEW R, IsFrag(t, n, f, R), NEW op \in Loops
  PROVE  IsFrag(t, n, CompileLoop(f, op), Around(t, R, op # "PLUS", op # "QUESTION"))
<1> DEFINE c == CompileLoop(f, op)
           s == f.len
           e == f.len + 1
           Q == Own(n, f)
           W == Q \cup {s, e}
           t0 == AddStates(f.trans, s)
           t1 == AddEps(t0, s, f.start)
           t2 == AddEpsIf(op # "PLUS", t1, s, e)
           t3 == AddEpsIf(op # "QUESTION", t2, f.accept, f.start)
           t4 == AddEps(t3, f.accept, e)
           A == Edges(t, f.trans)
           E == Edges(t, c.trans)
<1>1. c.trans = t4 /\ c.len = s + 2 /\ c.start = s /\ c.accept = e
  BY DEF CompileLoop, Ended, Frag
<1>2. /\ Own(n, c) = W
      /\ n \in Nat /\ c.len \in Nat /\ n < c.len
      /\ s \in Nat /\ e \in Nat /\ s # e /\ s \notin Q /\ e \notin Q /\ e = s + 1
  BY <1>1 DEF IsFrag, Own
<1>3. Wired(f.trans, Q) /\ Piece(t, Q, A, f.start, f.accept, R)
  BY Zenon DEF IsFrag
<1>4. f.start \in W /\ f.accept \in W /\ s \in W /\ e \in W
  BY <1>3 DEF Piece
<1> HIDE DEF Q
<1>6. /\ Wired(t0, W)
      /\ \A q, i, r, j : <<q, i, r, j>> \in Edges(t, t0) <=> <<q, i, r, j>> \in A
  BY <1>2, <1>3, StatesEdges
<1> HIDE DEF W, t0, s, e, A
<1>7. Wired(t1, W) /\ More(t, t1, t0, s, f.start)
  BY <1>4, <1>6, EpsEdges
<1> HIDE DEF t1
<1>8. /\ Wired(t2, W)
      /\ op = "PLUS" => t2 = t1
      /\ op # "PLUS" => More(t, t2, t1, s, e)
  <2>1. Wired(AddEps(t1, s, e), W) /\ More(t, AddEps(t1, s, e), t1, s, e)
    BY <1>4, <1>7, EpsEdges
  <2>2. CASE op = "PLUS"
    BY <1>7, <2>2 DEF AddEpsIf
  <2>3. CASE op # "PLUS"
    BY <2>1, <2>3 DEF AddEpsIf
  <2> QED
    BY <2>2, <2>3
<1> HIDE DEF t2
<1>9. /\ Wired(t3, W)
      /\ op = "QUESTION" => t3 = t2
      /\ op # "QUESTION" => More(t, t3, t2, f.accept, f.start)
  <2>1. /\ Wired(AddEps(t2, f.accept, f.start), W)
        /\ More(t, AddEps(t2, f.accept, f.start), t2, f.accept, f.start)
    BY <1>4, <1>8, EpsEdges
  <2>2. CASE op = "QUESTION"
    BY <1>8, <2>2 DEF AddEpsIf
  <2>3. CASE op # "QUESTION"
    BY <2>1, <2>3 DEF AddEpsIf
  <2> QED
    BY <2>2, <2>3
<1> HIDE DEF t3
<1>10. Wired(t4, W) /\ More(t, t4, t3, f.accept, e)
  BY <1>4, <1>9, EpsEdges
<1> HIDE DEF t4, c
<1> DEFINE past == op # "PLUS"
           again == op # "QUESTION"
<1>11. Enclosed(t, E, A, s, e, f.start, f.accept, past, again)
  <2> SUFFICES ASSUME NEW q, NEW i, NEW r, NEW j
               PROVE  <<q, i, r, j>> \in Edges(t, t4) <=>
                        \/ <<q, i, r, j>> \in A
                        \/ q = s /\ r = f.start /\ i = j /\ i \in Place(t)
                        \/ past /\ q = s /\ r = e /\ i = j /\ i \in Place(t)
                        \/ again /\ q = f.accept /\ r = f.start /\ i = j /\ i \in Place(t)
                        \/ q = f.accept /\ r = e /\ i = j /\ i \in Place(t)
    BY <1>1, Zenon DEF Enclosed, E
  <2> DEFINE x == <<q, i, r, j>>
             hop == i = j /\ i \in Place(t)
  <2>1. x \in Edges(t, t1) <=> x \in A \/ (q = s /\ r = f.start /\ hop)
    BY <1>6, <1>7 DEF More
  <2>2. x \in Edges(t, t2) <=> x \in Edges(t, t1) \/ (past /\ q = s /\ r = e /\ hop)
    BY <1>8 DEF More
  <2>3. x \in Edges(t, t3) <=>
          x \in Edges(t, t2) \/ (again /\ q = f.accept /\ r = f.start /\ hop)
    BY <1>9 DEF More
  <2>4. x \in Edges(t, t4) <=> x \in Edges(t, t3) \/ (q = f.accept /\ r = e /\ hop)
    BY <1>10 DEF More
  <2> HIDE DEF x, hop, past, again
  <2> QED
    BY <2>1, <2>2, <2>3, <2>4 DEF x, hop
<1>12. past \in BOOLEAN /\ again \in BOOLEAN
  OBVIOUS
<1> HIDE DEF E, past, again
<1>13. Piece(t, W, E, s, e, Around(t, R, past, again))
  BY <1>2, <1>3, <1>11, <1>12, PieceAround DEF W
<1> QED
  BY <1>1, <1>2, <1>10, <1>13, Zenon DEF IsFrag, c, E, past, again

\* A capture transition is an empty one.
LEMMA CaptureEdges ==
  ASSUME NEW t, NEW trans, NEW Q, Wired(trans, Q), NEW from \in Q, NEW to \in Q,
         NEW type \in {"CAPTURE_BEGIN", "CAPTURE_END"}, NEW k \in Nat
  PROVE  /\ Wired(Add(trans, from, Transition(to, type, {}, k)), Q)
         /\ More(t, Add(trans, from, Transition(to, type, {}, k)), trans, from, to)
<1> DEFINE tr == Transition(to, type, {}, k)
<1>1. tr \in Trans /\ tr.to = to
  BY DEF Wired, Transition, Trans, TransType
<1>2. \A i, j : Passes(t, tr, i, j) <=> i = j /\ i \in Place(t)
  BY DEF Passes, Transition, CanTake, Consumes
<1> HIDE DEF tr
<1>4. /\ Wired(Add(trans, from, tr), Q)
      /\ \A q, i, r, j : <<q, i, r, j>> \in Edges(t, Add(trans, from, tr)) <=>
           \/ <<q, i, r, j>> \in Edges(t, trans)
           \/ q = from /\ r = tr.to /\ Passes(t, tr, i, j)
  BY <1>1, AddEdges
<1> QED
  BY <1>1, <1>2, <1>4 DEF tr, More

\* A fragment in a group.
LEMMA FragGroup ==
  ASSUME NEW t, NEW n, NEW f, NEW R, IsFrag(t, n, f, R), NEW k \in Nat
  PROVE  IsFrag(t, n, CompileGroup(f, k), Around(t, R, FALSE, FALSE))
<1> DEFINE c == CompileGroup(f, k)
           s == f.len
           e == f.len + 1
           Q == Own(n, f)
           W == Q \cup {s, e}
           t0 == AddStates(f.trans, s)
           t1 == Add(t0, s, Transition(f.start, "CAPTURE_BEGIN", {}, k))
           t2 == Add(t1, f.accept, Transition(e, "CAPTURE_END", {}, k))
           A == Edges(t, f.trans)
           E == Edges(t, c.trans)
<1>1. c.trans = t2 /\ c.len = s + 2 /\ c.start = s /\ c.accept = e
  BY DEF CompileGroup, Ended, Frag
<1>2. /\ Own(n, c) = W
      /\ n \in Nat /\ c.len \in Nat /\ n < c.len
      /\ s \in Nat /\ e \in Nat /\ s # e /\ s \notin Q /\ e \notin Q /\ e = s + 1
  BY <1>1 DEF IsFrag, Own
<1>3. Wired(f.trans, Q) /\ Piece(t, Q, A, f.start, f.accept, R)
  BY Zenon DEF IsFrag
<1>4. f.start \in W /\ f.accept \in W /\ s \in W /\ e \in W
  BY <1>3 DEF Piece
<1> HIDE DEF Q
<1>6. /\ Wired(t0, W)
      /\ \A q, i, r, j : <<q, i, r, j>> \in Edges(t, t0) <=> <<q, i, r, j>> \in A
  BY <1>2, <1>3, StatesEdges
<1> HIDE DEF W, t0, s, e, A
<1>7. Wired(t1, W) /\ More(t, t1, t0, s, f.start)
  BY <1>4, <1>6, CaptureEdges
<1> HIDE DEF t1
<1>8. Wired(t2, W) /\ More(t, t2, t1, f.accept, e)
  BY <1>4, <1>7, CaptureEdges
<1> HIDE DEF t2, c
<1>9. Enclosed(t, E, A, s, e, f.start, f.accept, FALSE, FALSE)
  <2> SUFFICES ASSUME NEW q, NEW i, NEW r, NEW j
               PROVE  <<q, i, r, j>> \in Edges(t, t2) <=>
                        \/ <<q, i, r, j>> \in A
                        \/ q = s /\ r = f.start /\ i = j /\ i \in Place(t)
                        \/ q = f.accept /\ r = e /\ i = j /\ i \in Place(t)
    BY <1>1, Zenon DEF Enclosed, E
  <2> DEFINE x == <<q, i, r, j>>
             hop == i = j /\ i \in Place(t)
  <2>1. x \in Edges(t, t1) <=> x \in A \/ (q = s /\ r = f.start /\ hop)
    BY <1>6, <1>7 DEF More
  <2>2. x \in Edges(t, t2) <=> x \in Edges(t, t1) \/ (q = f.accept /\ r = e /\ hop)
    BY <1>8 DEF More
  <2> HIDE DEF x, hop
  <2> QED
    BY <2>1, <2>2 DEF x, hop
<1> HIDE DEF E
<1>10. Piece(t, W, E, s, e, Around(t, R, FALSE, FALSE))
  BY <1>2, <1>3, <1>9, PieceAround, Zenon DEF W, A
<1> QED
  BY <1>1, <1>2, <1>8, <1>10, Zenon DEF IsFrag, c, E

\* A single transition between two states.
LEMMA FragLink ==
  ASSUME NEW t, NEW n \in Nat, NEW tr \in Trans, tr.to = n + 1,
         NEW R, R \subseteq Place(t) \X Place(t),
         \A i, j : <<i, j>> \in R <=> Passes(t, tr, i, j)
  PROVE  IsFrag(t, n, Ended(Add(AddStates(<<>>, n), n, tr), n), R)
<1> DEFINE c == Ended(Add(AddStates(<<>>, n), n, tr), n)
           s == n
           e == n + 1
           W == {s, e}
           t0 == AddStates(<<>>, n)
           t1 == Add(t0, n, tr)
           E == Edges(t, c.trans)
<1>1. c.trans = t1 /\ c.len = n + 2 /\ c.start = s /\ c.accept = e
  BY DEF Ended, Frag
<1>2. Own(n, c) = W /\ c.len \in Nat /\ n < c.len /\ s \in Nat /\ e \in Nat /\ s # e
  BY <1>1 DEF Own
<1>3. Wired(<<>>, {})
  BY DEF Wired
<1>4. \A q, i, r, j : <<q, i, r, j>> \notin Edges(t, <<>>)
  <2> SUFFICES ASSUME NEW q, NEW i, NEW r, NEW j PROVE <<q, i, r, j>> \notin Edges(t, <<>>)
    OBVIOUS
  <2>1. EdgeFrom(t, <<>>, {}, q, i, r, j)
    BY <1>3, EdgesAre
  <2> QED
    BY <2>1 DEF EdgeFrom
<1>5. /\ Wired(t0, {} \cup {n, n + 1})
      /\ \A q, i, r, j : <<q, i, r, j>> \in Edges(t, t0) <=>
           <<q, i, r, j>> \in Edges(t, <<>>)
  <2>1. n \notin {} /\ n + 1 \notin {}
    OBVIOUS
  <2>2. ASSUME NEW u, NEW Q, Wired(u, Q), n \notin Q, n + 1 \notin Q
        PROVE  /\ Wired(AddStates(u, n), Q \cup {n, n + 1})
               /\ \A q, i, r, j : <<q, i, r, j>> \in Edges(t, AddStates(u, n)) <=>
                    <<q, i, r, j>> \in Edges(t, u)
    BY <2>2, StatesEdges
  <2> HIDE DEF W
  <2> QED
    BY <1>3, <2>1, <2>2 DEF t0
<1>6. {} \cup {n, n + 1} = W /\ n \in W /\ tr.to \in W
  OBVIOUS
<1> HIDE DEF W, t0
<1>7. /\ Wired(t1, W)
      /\ \A q, i, r, j : <<q, i, r, j>> \in Edges(t, t1) <=>
           \/ <<q, i, r, j>> \in Edges(t, t0)
           \/ q = n /\ r = tr.to /\ Passes(t, tr, i, j)
  <2>1. Wired(t0, W)
    BY <1>5, <1>6
  <2> QED
    BY <2>1, <1>6, AddEdges
<1> HIDE DEF t1, c
<1>8. \A q, i, r, j : <<q, i, r, j>> \in E <=> q = s /\ r = e /\ <<i, j>> \in R
  <2>1. \A q, i, r, j : <<q, i, r, j>> \in Edges(t, t1) <=>
          q = n /\ r = tr.to /\ Passes(t, tr, i, j)
    BY <1>4, <1>5, <1>7, Zenon
  <2> QED
    BY <1>1, <2>1, Zenon DEF E
<1> HIDE DEF E
<1>9. Piece(t, W, E, s, e, R)
  BY <1>2, <1>8, PieceLink DEF W
<1> QED
  BY <1>1, <1>2, <1>7, <1>9, Zenon DEF IsFrag, c, E

\* A leaf.
LEMMA FragLeaf ==
  ASSUME NEW t, t \in Seq(Byte), NEW n \in Nat, NEW op \in Leaves,
         NEW data, op = "CLASS" => data \in SUBSET Byte, NEW node, node.op = op, node.data = data,
         NEW R, NEW S
  PROVE  IsFrag(t, n, CompileLeaf(n, op, data), DenoteNode(t, node, R, S))
<1> DEFINE type == CASE op = "EMPTY" -> "EPS"
                     [] op = "DOT"   -> "ANY"
                     [] OTHER        -> op
           cls == IF op = "CLASS" THEN data ELSE {}
           tr == Transition(n + 1, type, cls, 0)
           D == DenoteNode(t, node, R, S)
<1>1. CompileLeaf(n, op, data) = Ended(Add(AddStates(<<>>, n), n, tr), n)
  BY Zenon DEF CompileLeaf
<1>2. tr \in Trans /\ tr.to = n + 1 /\ tr.type = type /\ tr.cls = cls
  BY DEF Transition, Trans, TransType, Leaves
<1>3. Len(t) \in Nat /\ \A i : i \in Place(t) <=> i \in 0 .. Len(t)
  BY DEF Place
<1> HIDE DEF tr
<1>4. D \subseteq Place(t) \X Place(t) /\ \A i, j : <<i, j>> \in D <=> Passes(t, tr, i, j)
  <2>1. CASE op = "EMPTY"
    <3>1. D = Here(t) /\ type = "EPS"
      BY <2>1 DEF DenoteNode
    <3>2. D \subseteq Place(t) \X Place(t) /\ \A i, j : <<i, j>> \in D <=> i = j /\ i \in Place(t)
      BY <3>1 DEF Here
    <3> QED
      BY <1>2, <3>1, <3>2 DEF Passes, CanTake, Consumes
  <2>2. CASE op = "CLASS"
    <3>1. D = {x \in Place(t) \X Place(t) : x[2] = x[1] + 1 /\ t[x[2]] \in data}
          /\ type = "CLASS" /\ cls = data
      BY <2>2 DEF DenoteNode
    <3>2. D \subseteq Place(t) \X Place(t)
          /\ \A i, j : <<i, j>> \in D <=> i \in Place(t) /\ j \in Place(t) /\ j = i + 1 /\ t[j] \in data
      BY <3>1
    <3> QED
      BY <1>2, <3>1, <3>2 DEF Passes, CanTake, Consumes
  <2>3. CASE op = "DOT"
    <3>1. D = {x \in Place(t) \X Place(t) : x[2] = x[1] + 1} /\ type = "ANY"
      BY <2>3 DEF DenoteNode
    <3>2. D \subseteq Place(t) \X Place(t)
          /\ \A i, j : <<i, j>> \in D <=> i \in Place(t) /\ j \in Place(t) /\ j = i + 1
      BY <3>1
    <3> QED
      BY <1>2, <3>1, <3>2 DEF Passes, CanTake, Consumes
  <2>4. CASE op = "ANCHOR_BEGIN"
    <3>1. D = {<<0, 0>>} /\ type = "ANCHOR_BEGIN"
      BY <2>4 DEF DenoteNode
    <3>2. \A i, j : <<i, j>> \in D <=> i = 0 /\ j = 0
      BY <3>1
    <3>3. 0 \in Place(t) /\ D \subseteq Place(t) \X Place(t)
      BY <1>3, <3>1
    <3> QED
      BY <1>2, <3>1, <3>2, <3>3 DEF Passes, CanTake, Consumes
  <2>5. CASE op = "ANCHOR_END"
    <3>1. D = {<<Len(t), Len(t)>>} /\ type = "ANCHOR_END"
      BY <2>5 DEF DenoteNode
    <3>2. \A i, j : <<i, j>> \in D <=> i = Len(t) /\ j = Len(t)
      BY <3>1
    <3>3. Len(t) \in Place(t) /\ D \subseteq Place(t) \X Place(t)
      BY <1>3, <3>1
    <3> QED
      BY <1>2, <3>1, <3>2, <3>3 DEF Passes, CanTake, Consumes
  <2> QED
    BY <2>1, <2>2, <2>3, <2>4, <2>5 DEF Leaves
<1> HIDE DEF D
<1>5. IsFrag(t, n, Ended(Add(AddStates(<<>>, n), n, tr), n), D)
  BY <1>2, <1>4, FragLink
<1> QED
  BY <1>1, <1>5 DEF D

-----------------------------------------------------------------------------
(* The relations. *)
Between(t, R) == R \subseteq Place(t) \X Place(t)

\* Two relations between places are the same if they hold of the same places.
LEMMA SameRelation ==
  ASSUME NEW t, NEW R, NEW S, Between(t, R), Between(t, S),
         \A i, j \in Place(t) : <<i, j>> \in R <=> <<i, j>> \in S
  PROVE  R = S
<1>1. \A x : x \in Place(t) \X Place(t) =>
        x[1] \in Place(t) /\ x[2] \in Place(t) /\ x = <<x[1], x[2]>>
  OBVIOUS
<1>2. ASSUME NEW x PROVE x \in R <=> x \in S
  <2>1. CASE x \in Place(t) \X Place(t)
    BY <1>1, <2>1
  <2>2. CASE x \notin Place(t) \X Place(t)
    BY <2>2 DEF Between
  <2> QED
    BY <2>1, <2>2
<1> QED
  BY <1>2

\* What the reference relates are places.
LEMMA Relations ==
  ASSUME NEW t
  PROVE  /\ Between(t, Here(t))
         /\ \A i, j : <<i, j>> \in Here(t) <=> i = j /\ i \in Place(t)
         /\ \A R, S : Between(t, Then(t, R, S))
         /\ \A R : Between(t, Often(t, R))
         /\ \A R, k : Between(t, Times(t, R, k))
         /\ \A R, S : Between(t, R) /\ Between(t, S) => Between(t, R \cup S)
<1>1. Between(t, Here(t)) /\ \A i, j : <<i, j>> \in Here(t) <=> i = j /\ i \in Place(t)
  BY DEF Here, Between
<1>2. \A R, S : Between(t, Then(t, R, S))
  BY ThenFacts DEF Between
<1>3. \A R : Between(t, Often(t, R))
  BY DEF Often, Between
<1>4. \A R, k : Between(t, Times(t, R, k))
  BY DEF Times, Between
<1> QED
  BY <1>1, <1>2, <1>3, <1>4 DEF Between

\* To be here first changes nothing.
LEMMA HereThen ==
  ASSUME NEW t, NEW R, Between(t, R)
  PROVE  Then(t, Here(t), R) = R
<1>1. ASSUME NEW i \in Place(t), NEW j \in Place(t)
      PROVE  <<i, j>> \in Then(t, Here(t), R) <=> <<i, j>> \in R
  <2>1. <<i, j>> \in Then(t, Here(t), R) <=>
          \E k \in Place(t) : <<i, k>> \in Here(t) /\ <<k, j>> \in R
    BY ThenFacts
  <2>2. \A k \in Place(t) : <<i, k>> \in Here(t) <=> i = k
    BY Relations
  <2> QED
    BY <2>1, <2>2
<1>2. Between(t, Then(t, Here(t), R))
  BY Relations
<1> QED
  BY <1>1, <1>2, SameRelation

\* A group matches what is in it.
LEMMA AroundGroup ==
  ASSUME NEW t, NEW R, Between(t, R)
  PROVE  Around(t, R, FALSE, FALSE) = R
BY HereThen DEF Around, Rounds

\* An option.
LEMMA AroundQuestion ==
  ASSUME NEW t, NEW R, Between(t, R)
  PROVE  Around(t, R, TRUE, FALSE) = Here(t) \cup R
BY HereThen DEF Around, Rounds

\* None or more.
LEMMA AroundStar ==
  ASSUME NEW t, NEW R, Between(t, R)
  PROVE  Around(t, R, TRUE, TRUE) = Often(t, R)
<1> DEFINE O == Often(t, R)
           A == Then(t, O, R) \cup Here(t)
<1>1. Between(t, O) /\ Between(t, A)
  BY Relations
<1>2. \A i, k \in Place(t) : <<i, k>> \in A <=>
        i = k \/ \E j \in Place(t) : <<i, j>> \in O /\ <<j, k>> \in R
  <2>1. \A i, k \in Place(t) : <<i, k>> \in Then(t, O, R) <=>
          \E j \in Place(t) : <<i, j>> \in O /\ <<j, k>> \in R
    BY ThenFacts
  <2>2. \A i, k \in Place(t) : <<i, k>> \in Here(t) <=> i = k
    BY Relations
  <2> QED
    BY <2>1, <2>2
<1>3. /\ \A i \in Place(t) : <<i, i>> \in O
      /\ \A i, j, k \in Place(t) : <<i, j>> \in O /\ <<j, k>> \in R => <<i, k>> \in O
      /\ \A i, k \in Place(t), U \in SUBSET Place(t) :
           /\ <<i, k>> \in O /\ i \in U
           /\ \A l, j \in Place(t) : l \in U /\ <<l, j>> \in R => j \in U
           => k \in U
  BY OftenFacts DEF Between
<1> HIDE DEF O, A
<1>4. ASSUME NEW i \in Place(t), NEW k \in Place(t), <<i, k>> \in O
      PROVE  <<i, k>> \in A
  <2> DEFINE U == {j \in Place(t) : <<i, j>> \in A}
  <2>1. U \in SUBSET Place(t) /\ i \in U
    BY <1>2
  <2>2. \A l, j \in Place(t) : l \in U /\ <<l, j>> \in R => j \in U
    BY <1>2, <1>3
  <2>3. k \in U
    BY <1>3, <1>4, <2>1, <2>2, Zenon
  <2> QED
    BY <2>3
<1>5. \A i, k \in Place(t) : <<i, k>> \in A <=> <<i, k>> \in O
  BY <1>2, <1>3, <1>4
<1>6. A = O
  BY <1>1, <1>5, SameRelation, Zenon
<1> QED
  BY <1>6 DEF Around, Rounds, A, O

\* One or more.
LEMMA AroundPlus ==
  ASSUME NEW t, NEW R, Between(t, R)
  PROVE  Around(t, R, FALSE, TRUE) = Then(t, R, Often(t, R))
<1> DEFINE O == Often(t, R)
           A == Then(t, O, R)
           B == Then(t, R, O)
<1>1. Between(t, A) /\ Between(t, B)
  BY Relations
<1>2. \A i, k \in Place(t) :
        /\ <<i, k>> \in A <=> \E j \in Place(t) : <<i, j>> \in O /\ <<j, k>> \in R
        /\ <<i, k>> \in B <=> \E j \in Place(t) : <<i, j>> \in R /\ <<j, k>> \in O
  BY ThenFacts
<1>3. /\ \A i \in Place(t) : <<i, i>> \in O
      /\ \A i, j, k \in Place(t) : <<i, j>> \in O /\ <<j, k>> \in R => <<i, k>> \in O
      /\ \A i, k \in Place(t), U \in SUBSET Place(t) :
           /\ <<i, k>> \in O /\ i \in U
           /\ \A l, j \in Place(t) : l \in U /\ <<l, j>> \in R => j \in U
           => k \in U
  BY OftenFacts DEF Between
<1> HIDE DEF O, A, B
<1>4. ASSUME NEW i \in Place(t), NEW k \in Place(t), <<i, k>> \in A
      PROVE  <<i, k>> \in B
  <2> DEFINE U == {j \in Place(t) : j = i \/ <<i, j>> \in B}
  <2>0. PICK j \in Place(t) : <<i, j>> \in O /\ <<j, k>> \in R
    BY <1>2, <1>4
  <2>1. U \in SUBSET Place(t) /\ i \in U
    OBVIOUS
  <2>2. ASSUME NEW l \in Place(t), NEW m \in Place(t), l \in U, <<l, m>> \in R
        PROVE  m \in U
    <3>1. CASE l = i
      <4>1. <<i, m>> \in R /\ <<m, m>> \in O
        BY <1>3, <2>2, <3>1
      <4> QED
        BY <1>2, <4>1
    <3>2. CASE <<i, l>> \in B
      <4>1. PICK o \in Place(t) : <<i, o>> \in R /\ <<o, l>> \in O
        BY <1>2, <3>2
      <4>2. <<o, m>> \in O
        BY <1>3, <2>2, <4>1
      <4> QED
        BY <1>2, <4>1, <4>2
    <3> QED
      BY <2>2, <3>1, <3>2
  <2>3. j \in U
    <3> HIDE DEF U
    <3>1. \A V \in SUBSET Place(t) :
            /\ i \in V
            /\ \A l, m \in Place(t) : l \in V /\ <<l, m>> \in R => m \in V
            => j \in V
      BY <1>3, <2>0, Zenon
    <3>2. \A l, m \in Place(t) : l \in U /\ <<l, m>> \in R => m \in U
      BY <2>2
    <3> QED
      BY <2>1, <3>1, <3>2, Zenon
  <2>4. CASE j = i
    <3>1. <<i, k>> \in R /\ <<k, k>> \in O
      BY <1>3, <2>0, <2>4
    <3> QED
      BY <1>2, <3>1
  <2>5. CASE <<i, j>> \in B
    <3>1. PICK o \in Place(t) : <<i, o>> \in R /\ <<o, j>> \in O
      BY <1>2, <2>5
    <3>2. <<o, k>> \in O
      BY <1>3, <2>0, <3>1
    <3> QED
      BY <1>2, <3>1, <3>2
  <2> QED
    BY <2>3, <2>4, <2>5
<1>5. ASSUME NEW i \in Place(t), NEW k \in Place(t), <<i, k>> \in B
      PROVE  <<i, k>> \in A
  <2> DEFINE U == {j \in Place(t) : <<i, j>> \in A}
  <2>0. PICK j \in Place(t) : <<i, j>> \in R /\ <<j, k>> \in O
    BY <1>2, <1>5
  <2>1. U \in SUBSET Place(t) /\ j \in U
    BY <1>2, <1>3, <2>0
  <2>2. ASSUME NEW l \in Place(t), NEW m \in Place(t), l \in U, <<l, m>> \in R
        PROVE  m \in U
    <3>1. PICK o \in Place(t) : <<i, o>> \in O /\ <<o, l>> \in R
      BY <1>2, <2>2
    <3>2. <<i, l>> \in O
      BY <1>3, <3>1
    <3> QED
      BY <1>2, <2>2, <3>2
  <2>3. k \in U
    <3> HIDE DEF U
    <3>1. \A V \in SUBSET Place(t) :
            /\ j \in V
            /\ \A l, m \in Place(t) : l \in V /\ <<l, m>> \in R => m \in V
            => k \in V
      BY <1>3, <2>0, Zenon
    <3>2. \A l, m \in Place(t) : l \in U /\ <<l, m>> \in R => m \in U
      BY <2>2
    <3> QED
      BY <2>1, <3>1, <3>2, Zenon
  <2> QED
    BY <2>3
<1>6. A = B
  BY <1>1, <1>4, <1>5, SameRelation, Zenon
<1>7. Around(t, R, FALSE, TRUE) = A
  BY DEF Around, Rounds, A, O
<1> QED
  BY <1>6, <1>7, Zenon DEF B, O

\* No time at all.
LEMMA TimesNone ==
  ASSUME NEW t, NEW R
  PROVE  Times(t, R, 0) = Here(t)
<1>1. Between(t, Times(t, R, 0)) /\ Between(t, Here(t))
  BY Relations
<1>2. ASSUME NEW i \in Place(t), NEW j \in Place(t)
      PROVE  <<i, j>> \in Times(t, R, 0) <=> i = j
  <2>1. <<i, j>> \in Times(t, R, 0) <=>
          \E path \in [0 .. 0 -> Place(t)] : path[0] = i /\ path[0] = j
    BY DEF Times
  <2>2. [l \in 0 .. 0 |-> i] \in [0 .. 0 -> Place(t)] /\ [l \in 0 .. 0 |-> i][0] = i
    OBVIOUS
  <2> QED
    BY <2>1, <2>2, Zenon
<1> QED
  BY <1>1, <1>2, SameRelation, Relations

\* Once more.
LEMMA TimesMore ==
  ASSUME NEW t, NEW R, NEW k \in Nat
  PROVE  Times(t, R, k + 1) = Then(t, Times(t, R, k), R)
<1> DEFINE Path(path, n, i, j) ==
             /\ path \in [0 .. n -> Place(t)]
             /\ path[0] = i /\ path[n] = j
             /\ \A l \in 0 .. n - 1 : <<path[l], path[l + 1]>> \in R
<1>1. /\ Between(t, Times(t, R, k + 1))
      /\ Between(t, Then(t, Times(t, R, k), R))
  BY Relations
<1>2. \A n : \A i, j \in Place(t) :
        <<i, j>> \in Times(t, R, n) <=> \E path : Path(path, n, i, j)
  BY DEF Times
<1>3. ASSUME NEW i \in Place(t), NEW j \in Place(t)
      PROVE  <<i, j>> \in Times(t, R, k + 1) <=> <<i, j>> \in Then(t, Times(t, R, k), R)
  <2>1. <<i, j>> \in Then(t, Times(t, R, k), R) <=>
          \E m \in Place(t) : <<i, m>> \in Times(t, R, k) /\ <<m, j>> \in R
    BY ThenFacts
  <2>2. ASSUME NEW path, Path(path, k + 1, i, j)
        PROVE  \E m \in Place(t) : <<i, m>> \in Times(t, R, k) /\ <<m, j>> \in R
    <3> DEFINE p == [l \in 0 .. k |-> path[l]]
    <3>1. path[k] \in Place(t) /\ <<path[k], j>> \in R
      BY <2>2
    <3>2. Path(p, k, i, path[k])
      BY <2>2
    <3> HIDE DEF Path, p
    <3>3. <<i, path[k]>> \in Times(t, R, k)
      BY <1>2, <3>1, <3>2
    <3> QED
      BY <3>1, <3>3
  <2>3. ASSUME NEW m \in Place(t), <<i, m>> \in Times(t, R, k), <<m, j>> \in R
        PROVE  <<i, j>> \in Times(t, R, k + 1)
    <3>1. PICK path : Path(path, k, i, m)
      <4> HIDE DEF Path
      <4> QED
        BY <1>2, <2>3
    <3> DEFINE p == [l \in 0 .. k + 1 |-> IF l = k + 1 THEN j ELSE path[l]]
    <3>2. Path(p, k + 1, i, j)
      <4>1. p \in [0 .. k + 1 -> Place(t)] /\ p[0] = i /\ p[k + 1] = j
        BY <3>1
      <4>2. ASSUME NEW l \in 0 .. (k + 1) - 1 PROVE <<p[l], p[l + 1]>> \in R
        <5>1. CASE l = k
          <6>1. p[l] = m /\ p[l + 1] = j
            BY <3>1, <5>1
          <6> QED
            BY <2>3, <6>1
        <5>2. CASE l # k
          <6>1. l \in 0 .. k - 1 /\ p[l] = path[l] /\ p[l + 1] = path[l + 1]
            BY <5>2
          <6> QED
            BY <3>1, <6>1
        <5> QED
          BY <5>1, <5>2
      <4> QED
        BY <4>1, <4>2
    <3> HIDE DEF Path, p
    <3> QED
      BY <1>2, <3>2
  <2> HIDE DEF Path
  <2> QED
    BY <1>2, <2>1, <2>2, <2>3, Zenon
<1> QED
  BY <1>1, <1>3, SameRelation

-----------------------------------------------------------------------------
(* Repetition. *)
IsBounds(bounds) ==
  /\ bounds.min \in Nat /\ bounds.unbounded \in BOOLEAN
  /\ ~ bounds.unbounded => bounds.max \in Nat /\ bounds.min <= bounds.max

\* What the k-th copy matches, and what the first k copies do.
CopyOf(t, R, bounds, k) ==
  IF k <= bounds.min THEN R
  ELSE IF bounds.unbounded THEN Often(t, R) ELSE Here(t) \cup R

CopiesOf(t, R, bounds, k) ==
  IF k <= bounds.min THEN Times(t, R, k)
  ELSE IF bounds.unbounded THEN Then(t, Times(t, R, bounds.min), Often(t, R))
  ELSE UNION {Times(t, R, j) : j \in bounds.min .. k}

\* All three are relations between places.
LEMMA CopiesBetween ==
  ASSUME NEW t, NEW R, Between(t, R), NEW bounds, NEW k
  PROVE  Between(t, CopyOf(t, R, bounds, k)) /\ Between(t, CopiesOf(t, R, bounds, k))
<1>1. /\ Between(t, Often(t, R)) /\ Between(t, Here(t) \cup R)
      /\ \A j : Between(t, Times(t, R, j))
      /\ Between(t, Then(t, Times(t, R, bounds.min), Often(t, R)))
  BY Relations
<1>2. Between(t, UNION {Times(t, R, j) : j \in bounds.min .. k})
  BY <1>1 DEF Between
<1> QED
  BY <1>1, <1>2 DEF CopyOf, CopiesOf

\* Once is once.
LEMMA TimesOnce ==
  ASSUME NEW t, NEW R, Between(t, R)
  PROVE  Times(t, R, 1) = R
<1>1. Times(t, R, 0 + 1) = Then(t, Times(t, R, 0), R)
  BY TimesMore
<1> QED
  BY <1>1, TimesNone, HereThen

\* The first copy.
LEMMA CopiesFirst ==
  ASSUME NEW t, NEW R, Between(t, R), NEW bounds, IsBounds(bounds)
  PROVE  CopiesOf(t, R, bounds, 1) = CopyOf(t, R, bounds, 1)
<1>1. CASE 1 <= bounds.min
  BY <1>1, TimesOnce DEF CopiesOf, CopyOf
<1>2. CASE ~ (1 <= bounds.min)
  <2>1. bounds.min = 0 /\ bounds.min .. 1 = {0, 1}
    BY <1>2 DEF IsBounds
  <2>2. Times(t, R, 0) = Here(t) /\ Times(t, R, 1) = R
    BY TimesNone, TimesOnce
  <2>3. CASE bounds.unbounded
    <3>1. Then(t, Here(t), Often(t, R)) = Often(t, R)
      BY HereThen, Relations
    <3> QED
      BY <1>2, <2>1, <2>2, <2>3, <3>1 DEF CopiesOf, CopyOf
  <2>4. CASE ~ bounds.unbounded
    <3>1. UNION {Times(t, R, j) : j \in {0, 1}} = Times(t, R, 0) \cup Times(t, R, 1)
      OBVIOUS
    <3> QED
      BY <1>2, <2>1, <2>2, <2>4, <3>1 DEF CopiesOf, CopyOf
  <2> QED
    BY <2>3, <2>4
<1> QED
  BY <1>1, <1>2

\* One copy more.
LEMMA CopiesMore ==
  ASSUME NEW t, NEW R, Between(t, R), NEW bounds, IsBounds(bounds),
         NEW k \in Nat, k + 1 <= Copies(bounds)
  PROVE  Then(t, CopiesOf(t, R, bounds, k), CopyOf(t, R, bounds, k + 1)) =
           CopiesOf(t, R, bounds, k + 1)
<1>0. bounds.min \in Nat
  BY DEF IsBounds
<1>1. CASE k + 1 <= bounds.min
  <2>1. k <= bounds.min
    BY <1>0, <1>1
  <2> QED
    BY <1>1, <2>1, TimesMore DEF CopiesOf, CopyOf
<1>2. CASE ~ (k + 1 <= bounds.min) /\ bounds.unbounded
  <2>1. k = bounds.min
    BY <1>0, <1>2 DEF Copies
  <2> QED
    BY <1>0, <1>2, <2>1 DEF CopiesOf, CopyOf
<1>3. CASE ~ (k + 1 <= bounds.min) /\ ~ bounds.unbounded
  <2> DEFINE A == CopiesOf(t, R, bounds, k)
             C == UNION {Times(t, R, j) : j \in bounds.min .. k + 1}
             B == Then(t, A, Here(t) \cup R)
  <2>1. A = UNION {Times(t, R, j) : j \in bounds.min .. k}
    <3>1. CASE k <= bounds.min
      <4>1. k = bounds.min /\ bounds.min .. k = {k}
        BY <1>0, <1>3, <3>1
      <4> QED
        BY <3>1, <4>1 DEF CopiesOf
    <3>2. CASE ~ (k <= bounds.min)
      BY <1>3, <3>2 DEF CopiesOf
    <3> QED
      BY <3>1, <3>2
  <2>2. Between(t, B) /\ Between(t, C) /\ Between(t, A)
    <3>1. Between(t, B) /\ \A j : Between(t, Times(t, R, j))
      BY Relations
    <3>2. Between(t, C)
      BY <3>1 DEF Between
    <3> QED
      BY <3>1, <3>2, CopiesBetween
  <2>3. \A x : x \in A <=> \E j \in bounds.min .. k : x \in Times(t, R, j)
    BY <2>1
  <2>4. \A x : x \in C <=> \E j \in bounds.min .. k + 1 : x \in Times(t, R, j)
    OBVIOUS
  <2> HIDE DEF A, C
  <2>5. /\ \A x, y \in Place(t) : <<x, y>> \in B <=>
             \E j \in Place(t) : <<x, j>> \in A /\ <<j, y>> \in Here(t) \cup R
        /\ \A l \in Nat : \A x, y \in Place(t) : <<x, y>> \in Times(t, R, l + 1) <=>
             \E j \in Place(t) : <<x, j>> \in Times(t, R, l) /\ <<j, y>> \in R
    <3>1. \A S, Z : \A x, y \in Place(t) : <<x, y>> \in Then(t, S, Z) <=>
            \E j \in Place(t) : <<x, j>> \in S /\ <<j, y>> \in Z
      BY ThenFacts, Zenon
    <3>2. \A l \in Nat : Times(t, R, l + 1) = Then(t, Times(t, R, l), R)
      BY TimesMore
    <3>3. ASSUME NEW l \in Nat, NEW x \in Place(t), NEW y \in Place(t)
          PROVE  <<x, y>> \in Times(t, R, l + 1) <=>
                   \E j \in Place(t) : <<x, j>> \in Times(t, R, l) /\ <<j, y>> \in R
      <4>1. <<x, y>> \in Then(t, Times(t, R, l), R) <=>
              \E j \in Place(t) : <<x, j>> \in Times(t, R, l) /\ <<j, y>> \in R
        BY <3>1, Zenon
      <4>2. Times(t, R, l + 1) = Then(t, Times(t, R, l), R)
        BY <3>2
      <4> QED
        BY <4>1, <4>2
    <3> QED
      BY <3>1, <3>3, Zenon DEF B
  <2>6. \A x, y : <<x, y>> \in Here(t) <=> x = y /\ x \in Place(t)
    BY Relations
  <2> HIDE DEF B
  <2>7. ASSUME NEW x \in Place(t), NEW y \in Place(t), <<x, y>> \in B
        PROVE  <<x, y>> \in C
    <3>1. PICK j \in Place(t) : <<x, j>> \in A /\ (j = y \/ <<j, y>> \in R)
      BY <2>5, <2>6, <2>7
    <3>2. PICK l \in bounds.min .. k : <<x, j>> \in Times(t, R, l)
      BY <2>3, <3>1
    <3>3. l \in Nat /\ l \in bounds.min .. k + 1 /\ l + 1 \in bounds.min .. k + 1
      BY <1>0
    <3>4. CASE j = y
      BY <2>4, <3>2, <3>3, <3>4
    <3>5. CASE <<j, y>> \in R
      <4>1. <<x, y>> \in Times(t, R, l + 1)
        BY <2>5, <3>2, <3>3, <3>5
      <4> QED
        BY <2>4, <3>3, <4>1
    <3> QED
      BY <3>1, <3>4, <3>5
  <2>8. ASSUME NEW x \in Place(t), NEW y \in Place(t), <<x, y>> \in C
        PROVE  <<x, y>> \in B
    <3>1. PICK l \in bounds.min .. k + 1 : <<x, y>> \in Times(t, R, l)
      BY <2>4, <2>8
    <3>2. CASE l \in bounds.min .. k
      <4>1. <<x, y>> \in A /\ <<y, y>> \in Here(t)
        BY <2>3, <2>6, <3>1, <3>2
      <4> QED
        BY <2>5, <4>1
    <3>3. CASE l = k + 1
      <4>1. PICK j \in Place(t) : <<x, j>> \in Times(t, R, k) /\ <<j, y>> \in R
        BY <2>5, <3>1, <3>3
      <4>2. k \in bounds.min .. k
        BY <1>0, <1>3
      <4>3. <<x, j>> \in A
        BY <2>3, <4>1, <4>2
      <4> QED
        BY <2>5, <4>1, <4>3
    <3> QED
      BY <1>0, <3>1, <3>2, <3>3
  <2>9. B = C
    BY <2>2, <2>7, <2>8, SameRelation, Zenon
  <2> QED
    BY <1>3, <2>9 DEF CopiesOf, CopyOf, A, B, C
<1> QED
  BY <1>1, <1>2, <1>3

\* All the copies.
LEMMA CopiesAll ==
  ASSUME NEW t, NEW R, Between(t, R), NEW bounds, IsBounds(bounds)
  PROVE  CopiesOf(t, R, bounds, Copies(bounds)) =
           IF bounds.unbounded THEN Then(t, Times(t, R, bounds.min), Often(t, R))
           ELSE UNION {Times(t, R, k) : k \in bounds.min .. bounds.max}
<1>1. CASE bounds.unbounded
  <2>1. ~ (bounds.min + 1 <= bounds.min)
    BY DEF IsBounds
  <2> QED
    BY <1>1, <2>1 DEF Copies, CopiesOf
<1>2. CASE ~ bounds.unbounded
  <2>1. CASE bounds.max <= bounds.min
    <3>1. bounds.max = bounds.min /\ bounds.min .. bounds.max = {bounds.max}
      BY <1>2, <2>1 DEF IsBounds
    <3> QED
      BY <1>2, <2>1, <3>1 DEF Copies, CopiesOf
  <2>2. CASE ~ (bounds.max <= bounds.min)
    BY <1>2, <2>2 DEF Copies, CopiesOf
  <2> QED
    BY <2>1, <2>2
<1> QED
  BY <1>1, <1>2

\* What a fragment matches is a relation between places.
LEMMA FragBetween ==
  ASSUME NEW t, NEW n, NEW f, NEW R, IsFrag(t, n, f, R)
  PROVE  Between(t, R)
BY DEF IsFrag, Piece, Between

\* A copy.
LEMMA FragCopy ==
  ASSUME NEW t, NEW n, NEW f, NEW R, IsFrag(t, n, f, R), NEW bounds, NEW k
  PROVE  IsFrag(t, n, Copy(bounds, f, k), CopyOf(t, R, bounds, k))
<1>0. Between(t, R)
  BY FragBetween
<1>1. IsFrag(t, n, CompileLoop(f, "STAR"), Often(t, R))
  <2>1. IsFrag(t, n, CompileLoop(f, "STAR"), Around(t, R, "STAR" # "PLUS", "STAR" # "QUESTION"))
    BY FragLoop DEF Loops
  <2>2. ("STAR" # "PLUS") = TRUE /\ ("STAR" # "QUESTION") = TRUE
    OBVIOUS
  <2> QED
    BY <1>0, <2>1, <2>2, AroundStar
<1>2. IsFrag(t, n, CompileLoop(f, "QUESTION"), Here(t) \cup R)
  <2>1. IsFrag(t, n, CompileLoop(f, "QUESTION"),
               Around(t, R, "QUESTION" # "PLUS", "QUESTION" # "QUESTION"))
    BY FragLoop DEF Loops
  <2>2. ("QUESTION" # "PLUS") = TRUE /\ ("QUESTION" # "QUESTION") = FALSE
    OBVIOUS
  <2> QED
    BY <1>0, <2>1, <2>2, AroundQuestion
<1> QED
  BY <1>1, <1>2 DEF Copy, CopyOf

-----------------------------------------------------------------------------
(* The repetition of nfa_compile_ast, copy by copy. *)
NextCopy(n, bounds, inner, before, k) ==
  IF k = 0 THEN CompileLeaf(n, "EMPTY", {})
  ELSE Join(k > 1, before, Copy(bounds, inner[IF k = 1 THEN n ELSE before.len], k))

\* f obeys the equation of `copies' up to m.
Copying(n, bounds, inner, f, m) ==
  f = [k \in 0 .. m |-> IF k = 0 THEN CompileLeaf(n, "EMPTY", {})
                        ELSE Join(k > 1, f[k - 1],
                                  Copy(bounds, inner[IF k = 1 THEN n ELSE f[k - 1].len], k))]

\* The equation has a solution.
LEMMA CopyingExists ==
  ASSUME NEW n, NEW bounds, NEW inner, NEW m \in Nat
  PROVE  \E f : Copying(n, bounds, inner, f, m)
<1> DEFINE Good == {k \in Nat : \E f : Copying(n, bounds, inner, f, k)}
<1>0. \A f, k : Copying(n, bounds, inner, f, k) <=>
        f = [j \in 0 .. k |-> NextCopy(n, bounds, inner, f[j - 1], j)]
  BY Zenon DEF Copying, NextCopy
<1>1. 0 \in Good
  <2> DEFINE f == [j \in 0 .. 0 |-> CompileLeaf(n, "EMPTY", {})]
  <2>1. f = [j \in 0 .. 0 |-> NextCopy(n, bounds, inner, f[j - 1], j)]
    BY DEF NextCopy
  <2> QED
    BY <1>0, <2>1
<1>2. ASSUME NEW k \in Nat, k \in Good PROVE k + 1 \in Good
  <2>1. PICK f : Copying(n, bounds, inner, f, k)
    BY <1>2
  <2> DEFINE g == [j \in 0 .. k + 1 |->
                     IF j = k + 1 THEN NextCopy(n, bounds, inner, f[k], k + 1) ELSE f[j]]
  <2>2. f = [j \in 0 .. k |-> NextCopy(n, bounds, inner, f[j - 1], j)]
    BY <1>0, <2>1
  <2>3. ASSUME NEW j \in 0 .. k + 1
        PROVE  g[j] = NextCopy(n, bounds, inner, g[j - 1], j)
    <3>1. CASE j = k + 1
      <4>1. g[j - 1] = f[k]
        BY <3>1
      <4> QED
        BY <3>1, <4>1
    <3>2. CASE j # k + 1 /\ j # 0
      <4>1. j \in 0 .. k /\ j - 1 \in 0 .. k /\ j - 1 # k + 1
        BY <3>2
      <4>2. g[j] = f[j] /\ g[j - 1] = f[j - 1]
        BY <4>1, <3>2
      <4> QED
        BY <2>2, <4>1, <4>2
    <3>3. CASE j = 0
      <4>1. \A x, y : NextCopy(n, bounds, inner, x, 0) = NextCopy(n, bounds, inner, y, 0)
        BY DEF NextCopy
      <4>2. g[0] = f[0] /\ f[0] = NextCopy(n, bounds, inner, f[0 - 1], 0)
        BY <2>2
      <4> QED
        BY <3>3, <4>1, <4>2
    <3> QED
      BY <3>1, <3>2, <3>3
  <2>4. g = [j \in 0 .. k + 1 |-> NextCopy(n, bounds, inner, g[j - 1], j)]
    BY <2>3
  <2> HIDE DEF g
  <2>5. Copying(n, bounds, inner, g, k + 1)
    BY <1>0, <2>4
  <2> QED
    BY <2>5
<1> HIDE DEF Good
<1>3. m \in Good
  BY <1>1, <1>2, NatSetInduction
<1> QED
  BY <1>3 DEF Good

\* The copies, one after the other.
LEMMA FragCopies ==
  ASSUME NEW t, t \in Seq(Byte), NEW n \in Nat, NEW bounds, IsBounds(bounds), NEW inner, NEW R,
         \A m \in Nat : IsFrag(t, m, inner[m], R),
         NEW f, NEW m, m = Copies(bounds), Copying(n, bounds, inner, f, m)
  PROVE  IsFrag(t, n, f[m], CopiesOf(t, R, bounds, m))
<1>0. m \in Nat /\ bounds.min \in Nat
  BY DEF Copies, IsBounds
<1>1. Between(t, R)
  <2>1. IsFrag(t, n, inner[n], R)
    OBVIOUS
  <2> QED
    BY <2>1, FragBetween
<1>2. /\ f[0] = CompileLeaf(n, "EMPTY", {})
      /\ m >= 1 => f[1] = Copy(bounds, inner[n], 1)
      /\ \A k \in 2 .. m : f[k] = Chain(f[k - 1], Copy(bounds, inner[f[k - 1].len], k))
  <2> DEFINE part(k) == Copy(bounds, inner[IF k = 1 THEN n ELSE f[k - 1].len], k)
  <2>1. \A k \in 0 .. m : f[k] = IF k = 0 THEN CompileLeaf(n, "EMPTY", {})
                                 ELSE Join(k > 1, f[k - 1], part(k))
    BY Zenon DEF Copying
  <2>2. part(1) = Copy(bounds, inner[n], 1)
    OBVIOUS
  <2>3. \A k \in 2 .. m : part(k) = Copy(bounds, inner[f[k - 1].len], k)
    BY <1>0
  <2> HIDE DEF part
  <2> QED
    BY <1>0, <2>1, <2>2, <2>3 DEF Join
<1> DEFINE Good == {k \in Nat : k + 1 <= m =>
                       IsFrag(t, n, f[k + 1], CopiesOf(t, R, bounds, k + 1))}
<1>3. 0 \in Good
  <2> SUFFICES ASSUME 1 <= m PROVE IsFrag(t, n, f[1], CopiesOf(t, R, bounds, 1))
    OBVIOUS
  <2>1. IsFrag(t, n, inner[n], R)
    OBVIOUS
  <2>2. IsFrag(t, n, Copy(bounds, inner[n], 1), CopyOf(t, R, bounds, 1))
    BY <2>1, FragCopy
  <2>3. CopiesOf(t, R, bounds, 1) = CopyOf(t, R, bounds, 1)
    BY <1>1, CopiesFirst
  <2>4. f[1] = Copy(bounds, inner[n], 1)
    BY <1>2, <1>0
  <2> QED
    BY <2>2, <2>3, <2>4
<1>4. ASSUME NEW l \in Nat, l \in Good PROVE l + 1 \in Good
  <2> DEFINE k == l + 1
  <2> SUFFICES ASSUME k + 1 <= m PROVE IsFrag(t, n, f[k + 1], CopiesOf(t, R, bounds, k + 1))
    OBVIOUS
  <2>1. k \in Nat /\ k + 1 \in 2 .. m /\ (k + 1) - 1 = k /\ k <= m
    BY <1>0
  <2>2. IsFrag(t, n, f[k], CopiesOf(t, R, bounds, k))
    BY <1>4, <2>1
  <2>3. f[k + 1] = Chain(f[k], Copy(bounds, inner[f[k].len], k + 1))
    BY <1>2, <2>1
  <2> HIDE DEF k
  <2>4. f[k].len \in Nat
    BY <2>2 DEF IsFrag
  <2>5. IsFrag(t, f[k].len, inner[f[k].len], R)
    BY <2>4
  <2>6. IsFrag(t, f[k].len, Copy(bounds, inner[f[k].len], k + 1), CopyOf(t, R, bounds, k + 1))
    BY <2>5, FragCopy
  <2>7. IsFrag(t, n, f[k + 1],
               Then(t, CopiesOf(t, R, bounds, k), CopyOf(t, R, bounds, k + 1)))
    BY <2>2, <2>3, <2>6, FragChain
  <2>8. Then(t, CopiesOf(t, R, bounds, k), CopyOf(t, R, bounds, k + 1)) =
          CopiesOf(t, R, bounds, k + 1)
    BY <1>1, <2>1, CopiesMore
  <2> QED
    BY <2>7, <2>8
<1> HIDE DEF Good
<1>5. Nat \subseteq Good
  BY <1>3, <1>4, NatSetInduction
<1>6. CASE m = 0
  <2> DEFINE node == [op |-> "EMPTY", data |-> {}]
  <2>1. node.op = "EMPTY" /\ node.data = {} /\ "EMPTY" \in Leaves
    BY DEF Leaves
  <2>2. DenoteNode(t, node, {}, {}) = Here(t)
    BY DEF DenoteNode
  <2> HIDE DEF node
  <2>3. IsFrag(t, n, CompileLeaf(n, "EMPTY", {}), DenoteNode(t, node, {}, {}))
    BY <2>1, FragLeaf
  <2>4. CopiesOf(t, R, bounds, 0) = Here(t)
    BY <1>0, TimesNone DEF CopiesOf
  <2> QED
    BY <1>2, <1>6, <2>2, <2>3, <2>4
<1>7. CASE m # 0
  <2>1. m - 1 \in Good /\ (m - 1) + 1 = m
    BY <1>0, <1>5, <1>7
  <2> QED
    BY <2>1 DEF Good
<1> QED
  BY <1>6, <1>7

\* A repetition.
LEMMA FragRepeat ==
  ASSUME NEW t, t \in Seq(Byte), NEW n \in Nat, NEW bounds, IsBounds(bounds), NEW inner, NEW R,
         \A m \in Nat : IsFrag(t, m, inner[m], R)
  PROVE  IsFrag(t, n, CompileRepeat(n, bounds, inner), CopiesOf(t, R, bounds, Copies(bounds)))
<1> DEFINE m == Copies(bounds)
           f == CHOOSE g : Copying(n, bounds, inner, g, m)
<1>1. m \in Nat
  BY DEF Copies, IsBounds
<1>2. CompileRepeat(n, bounds, inner) = f[m]
  BY Zenon DEF CompileRepeat, Copying
<1> HIDE DEF m
<1>3. Copying(n, bounds, inner, f, m)
  BY <1>1, CopyingExists, Zenon
<1> HIDE DEF f
<1>4. IsFrag(t, n, f[m], CopiesOf(t, R, bounds, m))
  BY <1>3, FragCopies, Zenon DEF m
<1> QED
  BY <1>2, <1>4 DEF m

-----------------------------------------------------------------------------
(* Trees. *)
\* A node whose children are compiled right is compiled right.
LEMMA FragNode ==
  ASSUME NEW t, t \in Seq(Byte), NEW n \in Nat, NEW node, IsNode(node),
         NEW left, NEW right, NEW R, NEW S,
         node.op \in Unary \cup Binary => \A m \in Nat : IsFrag(t, m, left[m], R),
         node.op \in Binary => \A m \in Nat : IsFrag(t, m, right[m], S)
  PROVE  IsFrag(t, n, CompileNode(n, node, left, right), DenoteNode(t, node, R, S))
<1>1. CASE node.op \in Leaves
  <2>1. CompileNode(n, node, left, right) = CompileLeaf(n, node.op, node.data)
    BY <1>1 DEF CompileNode, Leaves, Loops
  <2>2. node.op = "CLASS" => node.data \in SUBSET Byte
    BY DEF IsNode
  <2> QED
    BY <1>1, <2>1, <2>2, FragLeaf
<1>2. CASE node.op = "GROUP"
  <2>1. IsFrag(t, n, left[n], R) /\ node.group \in Nat
    BY <1>2 DEF IsNode, Unary
  <2>2. Around(t, R, FALSE, FALSE) = R
    BY <2>1, FragBetween, AroundGroup
  <2>3. IsFrag(t, n, CompileGroup(left[n], node.group), R)
    BY <2>1, <2>2, FragGroup
  <2>4. /\ CompileNode(n, node, left, right) = CompileGroup(left[n], node.group)
        /\ DenoteNode(t, node, R, S) = R
    BY <1>2 DEF CompileNode, DenoteNode, Loops
  <2> QED
    BY <2>3, <2>4
<1>3. CASE node.op \in Loops
  <2>1. IsFrag(t, n, left[n], R)
    BY <1>3 DEF Unary
  <2>2. Between(t, R)
    BY <2>1, FragBetween
  <2>3. IsFrag(t, n, CompileLoop(left[n], node.op),
               Around(t, R, node.op # "PLUS", node.op # "QUESTION"))
    BY <1>3, <2>1, FragLoop
  <2>4. CompileNode(n, node, left, right) = CompileLoop(left[n], node.op)
    BY <1>3 DEF CompileNode, Loops
  <2>5. Around(t, R, node.op # "PLUS", node.op # "QUESTION") = DenoteNode(t, node, R, S)
    <3>1. CASE node.op = "STAR"
      <4>1. (node.op # "PLUS") = TRUE /\ (node.op # "QUESTION") = TRUE
        BY <3>1
      <4> QED
        BY <2>2, <3>1, <4>1, AroundStar DEF DenoteNode
    <3>2. CASE node.op = "PLUS"
      <4>1. (node.op # "PLUS") = FALSE /\ (node.op # "QUESTION") = TRUE
        BY <3>2
      <4> QED
        BY <2>2, <3>2, <4>1, AroundPlus DEF DenoteNode
    <3>3. CASE node.op = "QUESTION"
      <4>1. (node.op # "PLUS") = TRUE /\ (node.op # "QUESTION") = FALSE
        BY <3>3
      <4> QED
        BY <2>2, <3>3, <4>1, AroundQuestion DEF DenoteNode
    <3> QED
      BY <1>3, <3>1, <3>2, <3>3 DEF Loops
  <2> QED
    BY <2>3, <2>4, <2>5
<1>4. CASE node.op = "REPEAT"
  <2>1. /\ \A m \in Nat : IsFrag(t, m, left[m], R)
        /\ IsBounds(node.data)
    BY <1>4 DEF IsNode, IsBounds, Unary
  <2>2. Between(t, R)
    <3>1. IsFrag(t, n, left[n], R)
      BY <2>1
    <3> QED
      BY <3>1, FragBetween
  <2>3. /\ CompileNode(n, node, left, right) = CompileRepeat(n, node.data, left)
        /\ DenoteNode(t, node, R, S) =
             IF node.data.unbounded THEN Then(t, Times(t, R, node.data.min), Often(t, R))
             ELSE UNION {Times(t, R, k) : k \in node.data.min .. node.data.max}
    BY <1>4 DEF CompileNode, DenoteNode, Loops
  <2>4. IsFrag(t, n, CompileRepeat(n, node.data, left),
               CopiesOf(t, R, node.data, Copies(node.data)))
    BY <2>1, FragRepeat
  <2>5. CopiesOf(t, R, node.data, Copies(node.data)) = DenoteNode(t, node, R, S)
    BY <2>1, <2>2, <2>3, CopiesAll
  <2> QED
    BY <2>3, <2>4, <2>5
<1>5. CASE node.op \in Binary
  <2>1. IsFrag(t, n, left[n], R)
    BY <1>5
  <2>2. left[n].len \in Nat
    BY <2>1 DEF IsFrag
  <2>3. IsFrag(t, left[n].len, right[left[n].len], S)
    BY <1>5, <2>2
  <2>4. CASE node.op = "CONCAT"
    <3>1. /\ CompileNode(n, node, left, right) = Chain(left[n], right[left[n].len])
          /\ DenoteNode(t, node, R, S) = Then(t, R, S)
      BY <2>4 DEF CompileNode, DenoteNode, Loops
    <3> QED
      BY <2>1, <2>3, <3>1, FragChain
  <2>5. CASE node.op = "ALT"
    <3>1. /\ CompileNode(n, node, left, right) = CompileAlt(left[n], right[left[n].len])
          /\ DenoteNode(t, node, R, S) = R \cup S
      BY <2>5 DEF CompileNode, DenoteNode, Loops
    <3>2. IsFrag(t, n, CompileAlt(left[n], right[left[n].len]), R \cup S)
      BY <2>1, <2>3, FragAlt
    <3> QED
      BY <3>1, <3>2
  <2> QED
    BY <1>5, <2>4, <2>5 DEF Binary
<1> QED
  BY <1>1, <1>2, <1>3, <1>4, <1>5 DEF IsNode, Unary, Binary, Leaves, Loops

\* f obeys the equation of CompileAst up to m, and that of Denote.
Compiling(tree, f, m) ==
  f = [x \in 0 .. m |->
         IF x = 0 THEN <<>>
         ELSE [n \in Nat |-> CompileNode(n, tree[x], f[tree[x].left], f[tree[x].right])]]

Denoting(t, tree, f, m) ==
  f = [x \in 0 .. m |->
         IF x = 0 THEN {}
         ELSE DenoteNode(t, tree[x], f[tree[x].left], f[tree[x].right])]

\* Children come before their nodes.
Ordered(tree) ==
  \A x \in 1 .. Len(tree) : tree[x].left \in 0 .. x - 1 /\ tree[x].right \in 0 .. x - 1

\* The equation of CompileAst has a solution.
LEMMA CompilingExists ==
  ASSUME NEW tree, Len(tree) \in Nat, Ordered(tree)
  PROVE  \E f : Compiling(tree, f, Len(tree))
<1> DEFINE Node(x, a, b) == [n \in Nat |-> CompileNode(n, tree[x], a, b)]
           Body(x, a, b) == IF x = 0 THEN <<>> ELSE Node(x, a, b)
           Good == {k \in Nat : k <= Len(tree) => \E f : Compiling(tree, f, k)}
<1>0. \A f, k : Compiling(tree, f, k) <=>
        f = [x \in 0 .. k |-> Body(x, f[tree[x].left], f[tree[x].right])]
  BY Zenon DEF Compiling
<1>1. 0 \in Good
  <2> DEFINE f == [x \in 0 .. 0 |-> <<>>]
  <2>1. f = [x \in 0 .. 0 |-> Body(x, f[tree[x].left], f[tree[x].right])]
    OBVIOUS
  <2> HIDE DEF Body, f
  <2> QED
    BY <1>0, <2>1
<1>2. ASSUME NEW k \in Nat, k \in Good PROVE k + 1 \in Good
  <2> SUFFICES ASSUME k + 1 <= Len(tree) PROVE \E f : Compiling(tree, f, k + 1)
    OBVIOUS
  <2>0. k <= Len(tree)
    OBVIOUS
  <2>1. PICK f : Compiling(tree, f, k)
    BY <1>2, <2>0
  <2> DEFINE last == Body(k + 1, f[tree[k + 1].left], f[tree[k + 1].right])
             g == [x \in 0 .. k + 1 |-> IF x = k + 1 THEN last ELSE f[x]]
  <2> HIDE DEF Node, Body, last
  <2>2. f = [x \in 0 .. k |-> Body(x, f[tree[x].left], f[tree[x].right])]
    BY <1>0, <2>1
  <2>3. ASSUME NEW x \in 0 .. k + 1
        PROVE  g[x] = Body(x, g[tree[x].left], g[tree[x].right])
    <3>1. CASE x = 0
      <4>1. \A a, b : Body(0, a, b) = <<>>
        BY DEF Body
      <4>2. g[0] = f[0] /\ f[0] = Body(0, f[tree[0].left], f[tree[0].right])
        BY <2>2
      <4> QED
        BY <3>1, <4>1, <4>2
    <3>2. CASE x # 0
      <4>1. tree[x].left \in 0 .. x - 1 /\ tree[x].right \in 0 .. x - 1
        <5>1. x \in 1 .. Len(tree)
          BY <3>2
        <5> QED
          BY <5>1 DEF Ordered
      <4>2. /\ tree[x].left \in 0 .. k /\ tree[x].left # k + 1
            /\ tree[x].right \in 0 .. k /\ tree[x].right # k + 1
        BY <4>1
      <4>3. g[tree[x].left] = f[tree[x].left] /\ g[tree[x].right] = f[tree[x].right]
        BY <4>2
      <4>4. CASE x = k + 1
        BY <4>3, <4>4 DEF last
      <4>5. CASE x # k + 1
        <5>1. x \in 0 .. k
          BY <4>5
        <5>2. f[x] = Body(x, f[tree[x].left], f[tree[x].right])
          BY <2>2, <5>1
        <5> QED
          BY <4>3, <4>5, <5>2
      <4> QED
        BY <4>4, <4>5
    <3> QED
      BY <3>1, <3>2
  <2>4. g = [x \in 0 .. k + 1 |-> Body(x, g[tree[x].left], g[tree[x].right])]
    BY <2>3
  <2> HIDE DEF g
  <2>5. Compiling(tree, g, k + 1)
    BY <1>0, <2>4
  <2> QED
    BY <2>5
<1> HIDE DEF Good
<1>3. Len(tree) \in Good
  BY <1>1, <1>2, NatSetInduction
<1> QED
  BY <1>3 DEF Good

\* The equation of Denote has a solution.
LEMMA DenotingExists ==
  ASSUME NEW t, NEW tree, Len(tree) \in Nat, Ordered(tree)
  PROVE  \E f : Denoting(t, tree, f, Len(tree))
<1> DEFINE Body(x, a, b) == IF x = 0 THEN {} ELSE DenoteNode(t, tree[x], a, b)
           Good == {k \in Nat : k <= Len(tree) => \E f : Denoting(t, tree, f, k)}
<1>0. \A f, k : Denoting(t, tree, f, k) <=>
        f = [x \in 0 .. k |-> Body(x, f[tree[x].left], f[tree[x].right])]
  BY Zenon DEF Denoting
<1>1. 0 \in Good
  <2> DEFINE f == [x \in 0 .. 0 |-> {}]
  <2>1. f = [x \in 0 .. 0 |-> Body(x, f[tree[x].left], f[tree[x].right])]
    OBVIOUS
  <2> HIDE DEF Body, f
  <2> QED
    BY <1>0, <2>1
<1>2. ASSUME NEW k \in Nat, k \in Good PROVE k + 1 \in Good
  <2> SUFFICES ASSUME k + 1 <= Len(tree) PROVE \E f : Denoting(t, tree, f, k + 1)
    OBVIOUS
  <2>0. k <= Len(tree)
    OBVIOUS
  <2>1. PICK f : Denoting(t, tree, f, k)
    BY <1>2, <2>0
  <2> DEFINE last == Body(k + 1, f[tree[k + 1].left], f[tree[k + 1].right])
             g == [x \in 0 .. k + 1 |-> IF x = k + 1 THEN last ELSE f[x]]
  <2> HIDE DEF Body, last
  <2>2. f = [x \in 0 .. k |-> Body(x, f[tree[x].left], f[tree[x].right])]
    BY <1>0, <2>1
  <2>3. ASSUME NEW x \in 0 .. k + 1
        PROVE  g[x] = Body(x, g[tree[x].left], g[tree[x].right])
    <3>1. CASE x = 0
      <4>1. \A a, b : Body(0, a, b) = {}
        BY DEF Body
      <4>2. g[0] = f[0] /\ f[0] = Body(0, f[tree[0].left], f[tree[0].right])
        BY <2>2
      <4> QED
        BY <3>1, <4>1, <4>2
    <3>2. CASE x # 0
      <4>1. tree[x].left \in 0 .. x - 1 /\ tree[x].right \in 0 .. x - 1
        <5>1. x \in 1 .. Len(tree)
          BY <3>2
        <5> QED
          BY <5>1 DEF Ordered
      <4>2. /\ tree[x].left \in 0 .. k /\ tree[x].left # k + 1
            /\ tree[x].right \in 0 .. k /\ tree[x].right # k + 1
        BY <4>1
      <4>3. g[tree[x].left] = f[tree[x].left] /\ g[tree[x].right] = f[tree[x].right]
        BY <4>2
      <4>4. CASE x = k + 1
        BY <4>3, <4>4 DEF last
      <4>5. CASE x # k + 1
        <5>1. x \in 0 .. k
          BY <4>5
        <5>2. f[x] = Body(x, f[tree[x].left], f[tree[x].right])
          BY <2>2, <5>1
        <5> QED
          BY <4>3, <4>5, <5>2
      <4> QED
        BY <4>4, <4>5
    <3> QED
      BY <3>1, <3>2
  <2>4. g = [x \in 0 .. k + 1 |-> Body(x, g[tree[x].left], g[tree[x].right])]
    BY <2>3
  <2> HIDE DEF g
  <2>5. Denoting(t, tree, g, k + 1)
    BY <1>0, <2>4
  <2> QED
    BY <2>5
<1> HIDE DEF Good
<1>3. Len(tree) \in Good
  BY <1>1, <1>2, NatSetInduction
<1> QED
  BY <1>3 DEF Good

\* Every node of a tree is compiled into a fragment that matches what the node denotes.
THEOREM CompileIsRight ==
  ASSUME NEW t \in Seq(Byte), NEW tree, IsTree(tree)
  PROVE  \A x \in 1 .. Len(tree), n \in Nat :
           IsFrag(t, n, CompileAst(tree)[x][n], Denote(t, tree)[x])
<1> DEFINE f == CHOOSE g : Compiling(tree, g, Len(tree))
           d == CHOOSE g : Denoting(t, tree, g, Len(tree))
<1>1. Len(tree) \in Nat /\ Ordered(tree) /\ DOMAIN tree = 1 .. Len(tree)
  BY DEF IsTree, Ordered
<1>2. CompileAst(tree) = f /\ Denote(t, tree) = d
  BY Zenon DEF CompileAst, Compiling, Denote, Denoting
<1>3. Compiling(tree, f, Len(tree)) /\ Denoting(t, tree, d, Len(tree))
  BY <1>1, CompilingExists, DenotingExists, Zenon
<1> HIDE DEF f, d
<1>4. ASSUME NEW x \in 1 .. Len(tree)
      PROVE  /\ \A n \in Nat :
                  f[x][n] = CompileNode(n, tree[x], f[tree[x].left], f[tree[x].right])
             /\ d[x] = DenoteNode(t, tree[x], d[tree[x].left], d[tree[x].right])
  <2>1. x # 0 /\ x \in 0 .. Len(tree)
    BY <1>1
  <2> QED
    <3>1. f[x] = [n \in Nat |-> CompileNode(n, tree[x], f[tree[x].left], f[tree[x].right])]
      BY <1>3, <2>1, Zenon DEF Compiling
    <3>2. d[x] = DenoteNode(t, tree[x], d[tree[x].left], d[tree[x].right])
      BY <1>3, <2>1, Zenon DEF Denoting
    <3> QED
      BY <3>1, <3>2
<1> DEFINE Good == {k \in Nat : \A x \in 1 .. Len(tree) : x <= k =>
                                  \A n \in Nat : IsFrag(t, n, f[x][n], d[x])}
<1>5. 0 \in Good
  BY <1>1
<1>6. ASSUME NEW k \in Nat, k \in Good PROVE k + 1 \in Good
  <2> SUFFICES ASSUME NEW x \in 1 .. Len(tree), x <= k + 1, NEW n \in Nat
               PROVE  IsFrag(t, n, f[x][n], d[x])
    OBVIOUS
  <2>1. CASE x <= k
    BY <1>6, <2>1
  <2>2. CASE x = k + 1
    <3> DEFINE node == tree[x]
    <3>1. /\ IsNode(node)
          /\ node.left \in 0 .. x - 1 /\ node.right \in 0 .. x - 1
          /\ node.op \in Unary \cup Binary => node.left # 0
          /\ node.op \in Binary => node.right # 0
      BY <1>1 DEF IsTree
    <3>2. ASSUME NEW c \in 0 .. x - 1, c # 0
          PROVE  \A m \in Nat : IsFrag(t, m, f[c][m], d[c])
      <4>1. c \in 1 .. Len(tree) /\ c <= k
        BY <1>1, <2>2, <3>2
      <4> QED
        BY <1>6, <4>1
    <3>3. /\ f[x][n] = CompileNode(n, node, f[node.left], f[node.right])
          /\ d[x] = DenoteNode(t, node, d[node.left], d[node.right])
      BY <1>4
    <3> HIDE DEF node
    <3>4. /\ node.op \in Unary \cup Binary => \A m \in Nat : IsFrag(t, m, f[node.left][m], d[node.left])
          /\ node.op \in Binary => \A m \in Nat : IsFrag(t, m, f[node.right][m], d[node.right])
      BY <3>1, <3>2
    <3>5. IsFrag(t, n, CompileNode(n, node, f[node.left], f[node.right]),
                 DenoteNode(t, node, d[node.left], d[node.right]))
      BY <3>1, <3>4, FragNode
    <3> QED
      BY <3>3, <3>5
  <2> QED
    BY <2>1, <2>2
<1> HIDE DEF Good
<1>7. Nat \subseteq Good
  BY <1>5, <1>6, NatSetInduction
<1>8. ASSUME NEW x \in 1 .. Len(tree), NEW n \in Nat PROVE IsFrag(t, n, f[x][n], d[x])
  BY <1>1, <1>7 DEF Good
<1> QED
  BY <1>2, <1>8

-----------------------------------------------------------------------------
(* The automaton of an expression. *)
\* An edge is a transition that Live follows.
LEMMA EdgeTargets ==
  ASSUME NEW n, Wired(n.trans, State(n)), NEW t \in Seq(Byte),
         NEW q, NEW i, NEW r, NEW j
  PROVE  <<q, i, r, j>> \in Edges(t, n.trans) <=>
           /\ q \in State(n) /\ i \in Place(t) /\ j \in Place(t)
           /\ \/ j = i /\ r \in EpsAt(n, q, t, i)
              \/ j = i + 1 /\ r \in ByteTargets(n, q, t[j])
<1>1. <<q, i, r, j>> \in Edges(t, n.trans) <=>
        q \in State(n) /\ \E k \in DOMAIN n.trans[q] :
                            r = n.trans[q][k].to /\ Passes(t, n.trans[q][k], i, j)
  <2>1. EdgeFrom(t, n.trans, State(n), q, i, r, j)
    BY EdgesAre
  <2> QED
    BY <2>1, Zenon DEF EdgeFrom
<1>2. /\ r \in EpsAt(n, q, t, i) <=>
           \E k \in DOMAIN n.trans[q] :
             r = n.trans[q][k].to /\ CanTake(n.trans[q][k], i = 0, i = Len(t))
      /\ r \in ByteTargets(n, q, t[j]) <=>
           \E k \in DOMAIN n.trans[q] :
             r = n.trans[q][k].to /\ Consumes(n.trans[q][k], t[j])
  <2>1. \A tr : tr \in Out(n, q) <=> \E k \in DOMAIN n.trans[q] : tr = n.trans[q][k]
    BY DEF Out
  <2>2. /\ r \in EpsAt(n, q, t, i) <=>
             \E tr \in Out(n, q) : CanTake(tr, i = 0, i = Len(t)) /\ r = tr.to
        /\ r \in ByteTargets(n, q, t[j]) <=>
             \E tr \in Out(n, q) : Consumes(tr, t[j]) /\ r = tr.to
    BY DEF EpsAt, EpsTargets, ByteTargets
  <2>3. /\ (\E tr \in Out(n, q) : CanTake(tr, i = 0, i = Len(t)) /\ r = tr.to) <=>
             \E k \in DOMAIN n.trans[q] :
               r = n.trans[q][k].to /\ CanTake(n.trans[q][k], i = 0, i = Len(t))
        /\ (\E tr \in Out(n, q) : Consumes(tr, t[j]) /\ r = tr.to) <=>
             \E k \in DOMAIN n.trans[q] :
               r = n.trans[q][k].to /\ Consumes(n.trans[q][k], t[j])
    BY <2>1
  <2> QED
    BY <2>2, <2>3, Zenon
<1> QED
  BY <1>1, <1>2 DEF Passes

\* The states that are alive at a place are those one can reach there.
LEMMA LiveIsReach ==
  ASSUME NEW r \in Regex, Wired(Nfa[r].trans, State(Nfa[r])),
         NEW t \in Seq(Byte), NEW s \in 0 .. Len(t)
  PROVE  LET n == Nfa[r] IN
         \A q, p : <<q, p>> \in Reach(t, Edges(t, n.trans), n.start, s) <=>
                     p \in s .. Len(t) /\ q \in Live(r, t, s)[p]
<1> DEFINE n == Nfa[r]
           L == Live(r, t, s)
           E == Edges(t, n.trans)
           X == Reach(t, E, n.start, s)
           Q == State(n)
<1>1. /\ CanBuild(n) /\ n.start \in Q /\ Q \in SUBSET Nat
      /\ Len(t) \in Nat /\ s \in Place(t) /\ Wired(n.trans, Q)
      /\ \A p : p \in Place(t) <=> p \in 0 .. Len(t)
  <2>1. CanBuild(n)
    BY AutomatonAssumption
  <2> QED
    BY <2>1 DEF CanBuild, State, Place
<1>2. /\ n.start \in L[s]
      /\ \A p \in s .. Len(t) : \A q \in L[p] : EpsAt(n, q, t, p) \subseteq L[p]
      /\ \A p \in s .. Len(t) - 1 : \A q \in L[p] :
           ByteTargets(n, q, t[p + 1]) \subseteq L[p + 1]
  BY LiveClosed
<1>3. ASSUME NEW U \in SUBSET Q
      PROVE  /\ /\ n.start \in U
                /\ \A q \in U : EpsAt(n, q, t, s) \subseteq U
                => L[s] \subseteq U
             /\ \A p \in s .. Len(t) - 1 :
                  /\ \A q \in L[p] : ByteTargets(n, q, t[p + 1]) \subseteq U
                  /\ \A q \in U : EpsAt(n, q, t, p + 1) \subseteq U
                  => L[p + 1] \subseteq U
  BY LiveLeast
<1>4. \A p \in s .. Len(t) : L[p] \in SUBSET Q
  BY LiveType
<1>5. \A q, i, x, j : <<q, i, x, j>> \in E <=>
        /\ q \in Q /\ i \in Place(t) /\ j \in Place(t)
        /\ \/ j = i /\ x \in EpsAt(n, q, t, i)
           \/ j = i + 1 /\ x \in ByteTargets(n, q, t[j])
  BY <1>1, EdgeTargets
<1>6. \A q, i, x, j : <<q, i, x, j>> \in E =>
        q \in Q /\ i \in Place(t) /\ x \in Q /\ j \in Place(t)
  <2> SUFFICES ASSUME NEW q, NEW i, NEW x, NEW j, <<q, i, x, j>> \in E
               PROVE  q \in Q /\ i \in Place(t) /\ x \in Q /\ j \in Place(t)
    OBVIOUS
  <2>1. EdgeFrom(t, n.trans, Q, q, i, x, j)
    BY <1>1, EdgesAre
  <2>2. \A k \in DOMAIN n.trans[q] : q \in Q => n.trans[q][k].to \in Q
    BY <1>1 DEF Wired
  <2> QED
    BY <2>1, <2>2 DEF EdgeFrom, Passes
<1> HIDE DEF n, L, E, Q
<1>7. /\ X \subseteq Spots(t)
      /\ \A q, k : <<q, k>> \in X => q \in Q /\ k \in Place(t)
      /\ <<n.start, s>> \in X
      /\ Stays(E, X)
  BY <1>1, <1>6, ReachFacts, Zenon
<1>8. ASSUME NEW q, NEW p, <<q, p>> \in X
      PROVE  p \in s .. Len(t) /\ q \in L[p]
  <2> DEFINE U == {x \in Spots(t) : x[2] \in s .. Len(t) /\ x[1] \in L[x[2]]}
  <2>1. \A x, k : <<x, k>> \in U <=> k \in s .. Len(t) /\ x \in L[k]
    <3>1. ASSUME NEW k \in s .. Len(t), NEW x \in L[k] PROVE x \in Nat /\ k \in Place(t)
      <4>1. k \in 0 .. Len(t)
        BY <1>1
      <4>2. x \in Q
        BY <1>4
      <4> QED
        BY <1>1, <4>1, <4>2
    <3> QED
      BY <3>1 DEF Spots
  <2>2. U \in SUBSET Spots(t)
    OBVIOUS
  <2> HIDE DEF U
  <2>3. <<n.start, s>> \in U
    BY <1>1, <1>2, <2>1
  <2>4. ASSUME NEW x, NEW i, NEW y, NEW j, <<x, i>> \in U, <<x, i, y, j>> \in E
        PROVE  <<y, j>> \in U
    <3>1. i \in s .. Len(t) /\ x \in L[i] /\ j \in Place(t)
      BY <1>5, <2>1, <2>4
    <3>2. CASE j = i /\ y \in EpsAt(n, x, t, i)
      BY <1>2, <2>1, <3>1, <3>2
    <3>3. CASE j = i + 1 /\ y \in ByteTargets(n, x, t[j])
      <4>1. i \in s .. Len(t) - 1 /\ j \in s .. Len(t)
        BY <1>1, <3>1, <3>3
      <4>2. y \in L[j]
        BY <1>2, <3>1, <3>3, <4>1
      <4> QED
        BY <2>1, <4>1, <4>2
    <3> QED
      BY <1>5, <2>4, <3>2, <3>3
  <2>5. Stays(E, U)
    BY <2>4 DEF Stays
  <2>6. <<q, p>> \in U
    BY <1>8, <2>2, <2>3, <2>5, ReachWithin, Zenon
  <2> QED
    BY <2>1, <2>6
<1>9. ASSUME NEW p \in s .. Len(t), NEW q \in L[p] PROVE <<q, p>> \in X
  <2> DEFINE At(k) == {x \in Q : <<x, k>> \in X}
             Good == {k \in Nat : s + k <= Len(t) => L[s + k] \subseteq At(s + k)}
  <2>1. ASSUME NEW k \in Place(t), NEW x \in At(k) PROVE EpsAt(n, x, t, k) \subseteq At(k)
    <3> SUFFICES ASSUME NEW y \in EpsAt(n, x, t, k) PROVE y \in At(k)
      OBVIOUS
    <3>1. <<x, k, y, k>> \in E /\ <<x, k>> \in X
      BY <1>5, <2>1
    <3>2. <<y, k>> \in X
      BY <1>7, <3>1, Zenon DEF Stays
    <3> QED
      BY <1>7, <3>2
  <2>2. 0 \in Good
    <3>1. At(s) \in SUBSET Q /\ n.start \in At(s)
      BY <1>1, <1>7
    <3>2. \A x \in At(s) : EpsAt(n, x, t, s) \subseteq At(s)
      BY <1>1, <2>1
    <3> HIDE DEF At
    <3>3. L[s] \subseteq At(s) /\ s + 0 = s
      BY <1>1, <1>3, <3>1, <3>2
    <3> QED
      BY <3>3
  <2>3. ASSUME NEW k \in Nat, k \in Good PROVE k + 1 \in Good
    <3> SUFFICES ASSUME s + (k + 1) <= Len(t)
                 PROVE  L[s + (k + 1)] \subseteq At(s + (k + 1))
      OBVIOUS
    <3> DEFINE i == s + k
    <3>1. /\ i \in s .. Len(t) - 1 /\ i \in Place(t) /\ i + 1 \in Place(t)
          /\ s + (k + 1) = i + 1 /\ L[i] \subseteq At(i)
      BY <1>1, <2>3
    <3> HIDE DEF i
    <3>2. At(i + 1) \in SUBSET Q
      OBVIOUS
    <3>3. ASSUME NEW x \in L[i] PROVE ByteTargets(n, x, t[i + 1]) \subseteq At(i + 1)
      <4> SUFFICES ASSUME NEW y \in ByteTargets(n, x, t[i + 1]) PROVE y \in At(i + 1)
        OBVIOUS
      <4>1. x \in Q /\ <<x, i>> \in X
        BY <3>1
      <4>2. <<x, i, y, i + 1>> \in E
        BY <1>5, <3>1, <4>1
      <4>3. <<y, i + 1>> \in X
        BY <1>7, <4>1, <4>2, Zenon DEF Stays
      <4> QED
        BY <1>7, <4>3
    <3>4. \A x \in At(i + 1) : EpsAt(n, x, t, i + 1) \subseteq At(i + 1)
      BY <2>1, <3>1
    <3> HIDE DEF At
    <3>5. L[i + 1] \subseteq At(i + 1)
      BY <1>3, <3>1, <3>2, <3>3, <3>4
    <3> QED
      BY <3>1, <3>5
  <2>4. p - s \in Nat /\ s + (p - s) = p /\ p <= Len(t)
    BY <1>1
  <2> HIDE DEF Good
  <2>5. p - s \in Good
    BY <2>2, <2>3, <2>4, NatSetInduction
  <2>6. L[p] \subseteq At(p)
    BY <2>4, <2>5 DEF Good
  <2> QED
    BY <2>6
<1> QED
  BY <1>8, <1>9 DEF n, L, E

\* The automaton of an expression finds the matches that the expression denotes.
THEOREM EndsAreDenoted ==
  ASSUME NEW r \in Regex, NEW tree, IsTree(tree), Nfa[r] = Compile(tree),
         NEW t \in Seq(Byte), NEW s \in 0 .. Len(t)
  PROVE  Ends(r, t, s) = EndsDenoted(t, tree, s)
<1> DEFINE n == Nfa[r]
           f == CompileAst(tree)[Len(tree)][0]
           D == Denote(t, tree)[Len(tree)]
           X == Reach(t, Edges(t, n.trans), n.start, s)
<1>1. IsFrag(t, 0, f, D)
  <2>1. Len(tree) \in 1 .. Len(tree) /\ 0 \in Nat
    BY DEF IsTree
  <2> QED
    BY <2>1, CompileIsRight
<1>2. /\ n.trans = f.trans /\ n.len = f.len
      /\ n.start = f.start /\ n.accept = f.accept
  BY DEF Compile
<1> HIDE DEF f, D, n
<1>3. Own(0, f) = State(n)
  BY <1>2 DEF Own, State
<1>4. Wired(n.trans, State(n)) /\ Piece(t, State(n), Edges(t, n.trans), n.start, n.accept, D)
  BY <1>1, <1>2, <1>3 DEF IsFrag
<1>5. \A q, p : <<q, p>> \in X <=> p \in s .. Len(t) /\ q \in Live(r, t, s)[p]
  BY <1>4, LiveIsReach DEF n
<1>6. s \in Place(t) /\ \A p \in s .. Len(t) : p \in Place(t)
  BY DEF Place
<1>7. \A p \in Place(t) : <<n.accept, p>> \in X <=> <<s, p>> \in D
  BY <1>4, <1>6, Zenon DEF Piece
<1> HIDE DEF X
<1>8. \A p : p \in Ends(r, t, s) <=> p \in s .. Len(t) /\ n.accept \in Live(r, t, s)[p]
  BY DEF Ends, n
<1>9. \A p : p \in EndsDenoted(t, tree, s) <=> p \in Place(t) /\ <<s, p>> \in D
  BY DEF EndsDenoted, D
<1> QED
  BY <1>5, <1>6, <1>7, <1>8, <1>9

\* nfa_compile_ast delivers what dfa_can_build demands.
THEOREM CompileCanBuild ==
  ASSUME NEW tree, IsTree(tree)
  PROVE  CanBuild(Compile(tree))
<1> DEFINE n == Compile(tree)
           f == CompileAst(tree)[Len(tree)][0]
           D == Denote(<<>>, tree)[Len(tree)]
<1>1. IsFrag(<<>>, 0, f, D)
  <2>1. Len(tree) \in 1 .. Len(tree) /\ 0 \in Nat /\ <<>> \in Seq(Byte)
    BY DEF IsTree
  <2> QED
    BY <2>1, CompileIsRight
<1>2. /\ n.trans = f.trans /\ n.len = f.len
      /\ n.start = f.start /\ n.accept = f.accept
  BY DEF Compile
<1> HIDE DEF f, D, n
<1>3. Own(0, f) = State(n) /\ n.len \in Nat \ {0}
  BY <1>1, <1>2 DEF Own, State, IsFrag
<1>4. Wired(n.trans, State(n)) /\ n.start \in State(n) /\ n.accept \in State(n)
  BY <1>1, <1>2, <1>3 DEF IsFrag, Piece
<1>5. ASSUME NEW q \in State(n), NEW tr \in Out(n, q)
      PROVE  tr.to \in State(n) /\ tr.type \in TransType
  <2>1. PICK k \in DOMAIN n.trans[q] : tr = n.trans[q][k]
    BY DEF Out
  <2>2. tr \in Trans
    BY <1>4, <2>1 DEF Wired
  <2> QED
    BY <1>4, <2>1, <2>2 DEF Wired, Trans
<1> QED
  BY <1>3, <1>4, <1>5 DEF CanBuild, n

-----------------------------------------------------------------------------
(* The answers. *)
\* What is answered, in the terms of the automaton.
Answered ==
  LET ends == Ends(re, text, start) IN
  /\ rc = "OK" => end \in ends /\ \A p \in ends : p <= end
  /\ rc = "NOMATCH" => ends = {}

\* The step that answers is taken when nothing lies ahead; no other one changes
\* an answer or what it is measured against.
LEMMA AnsweredStep == Inv /\ Answered /\ [Next]_vars => Answered'
<1> SUFFICES ASSUME Inv, Answered, [Next]_vars PROVE Answered'
  OBVIOUS
<1>1. CASE Return
  <2>1. Promise!Ends(re, text, start) = Passed
    BY <1>1, NothingAhead DEF Return
  <2>2. Ends(re, text, start) = Passed
    BY <2>1, PromiseEnds, Zenon DEF Ends, LiveAt, nfa
  <2>3. /\ found <=> Passed # {}
        /\ found => best \in Passed /\ \A p \in Passed : p <= best
    BY <1>1 DEF Return, Inv, BestIsLongest
  <2>4. Ends(re, text, start)' = Ends(re, text, start)
    BY <1>1 DEF Return, args
  <2>5. /\ rc' = IF found THEN "OK" ELSE "NOMATCH"
        /\ end' = IF found THEN best ELSE end
    BY <1>1 DEF Return
  <2> QED
    BY <2>2, <2>3, <2>4, <2>5 DEF Answered
<1>2. CASE Call \/ OutOfMemory
  BY <1>2 DEF Call, OutOfMemory, Answered
<1>3. CASE ~ Call /\ ~ Return /\ ~ OutOfMemory
  <2>1. UNCHANGED <<re, text, start, rc, end>>
    BY <1>3 DEF Next, SetInit, CloseCur, CloseNext, StartClosed, NextByte, Read,
                Die, Swap, Returned, args, vars
  <2> QED
    BY <2>1 DEF Answered
<1> QED
  BY <1>1, <1>2, <1>3

\* What nfa_run_from answers is the longest match that the syntax tree denotes,
\* and RX_NOMATCH only where it denotes none: for every tree, text and start.
THEOREM AnswersAreDenoted == Spec => []AnswerIsDenoted
<1>1. Init => Answered
  BY DEF Init, Answered
<1>2. Inv /\ Answered => AnswerIsDenoted
  <2> SUFFICES ASSUME Inv, Answered PROVE AnswerIsDenoted
    OBVIOUS
  <2>1. re \in Regex /\ text \in Seq(Byte) /\ start \in 0 .. Len(text)
    BY TextsType DEF Inv, TypeOK
  <2>2. IsTree(Tree[re]) /\ Nfa[re] = Compile(Tree[re])
    BY <2>1, TreeAssumption
  <2>3. Ends(re, text, start) = EndsDenoted(text, Tree[re], start)
    BY <2>1, <2>2, EndsAreDenoted
  <2> QED
    BY <2>3 DEF Answered, AnswerIsDenoted
<1> QED
  BY <1>1, <1>2, InvInit, InvStep, AnsweredStep, PTL DEF Spec
=============================================================================
