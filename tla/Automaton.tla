------------------------------ MODULE Automaton ------------------------------
(***************************************************************************)
(* The Thompson automaton of nfa.h and the questions every engine asks of  *)
(* it: which transitions can be taken without input, which ones a byte     *)
(* matches, and what the closure of a set of states is.  The module has no *)
(* behaviour; the matcher, the subset construction and the proofs share it. *)
(*                                                                         *)
(* An automaton is a record                                                *)
(*   len            number of states; the states are 0 .. len-1            *)
(*   start, accept  two states                                             *)
(*   trans          for every state the sequence of its transitions        *)
(* and a transition is a record [to, type, cls, group]: cls is the set of  *)
(* bytes of a CLASS transition, group the number of a CAPTURE one.         *)
(***************************************************************************)
EXTENDS Naturals, Sequences, FiniteSets

CONSTANTS
  AlphabetSize,   \* RX_DFA_ALPHABET_SIZE, 256 in the code
  Compiled,       \* what regex_compile_ex made of each expression: [nfa]
  MaxTextLen      \* bound on the texts the engines are run on

Byte == 0 .. AlphabetSize - 1
Regex == DOMAIN Compiled
Nfa == [r \in Regex |-> Compiled[r].nfa]
Texts == UNION {[1 .. k -> Byte] : k \in 0 .. MaxTextLen}

TransType == {"EPS", "CLASS", "ANY", "ANCHOR_BEGIN", "ANCHOR_END",
              "CAPTURE_BEGIN", "CAPTURE_END"}

State(n) == 0 .. n.len - 1

\* The transitions that leave state q.
Out(n, q) == {n.trans[q][i] : i \in DOMAIN n.trans[q]}

\* What dfa_can_build demands, and what nfa_compile_ast delivers.
CanBuild(n) ==
  /\ n.len \in Nat \ {0}
  /\ n.start \in State(n)
  /\ n.accept \in State(n)
  /\ \A q \in State(n) : \A tr \in Out(n, q) :
       tr.to \in State(n) /\ tr.type \in TransType

ASSUME AutomatonAssumption ==
  /\ AlphabetSize \in Nat \ {0}
  /\ MaxTextLen \in Nat
  /\ \A r \in Regex : CanBuild(Nfa[r])

-----------------------------------------------------------------------------
(* A transition that needs no input; an anchor needs its context instead. *)
CanTake(tr, atBegin, atEnd) ==
  \/ tr.type \in {"EPS", "CAPTURE_BEGIN", "CAPTURE_END"}
  \/ tr.type = "ANCHOR_BEGIN" /\ atBegin
  \/ tr.type = "ANCHOR_END" /\ atEnd

\* A transition that consumes the byte c.
Consumes(tr, c) ==
  \/ tr.type = "ANY"
  \/ tr.type = "CLASS" /\ c \in tr.cls

EpsTargets(n, q, atBegin, atEnd) ==
  {tr.to : tr \in {t \in Out(n, q) : CanTake(t, atBegin, atEnd)}}

ByteTargets(n, q, c) ==
  {tr.to : tr \in {t \in Out(n, q) : Consumes(t, c)}}

\* One round of the closure loop, for all the states of T at once.
Spread(n, T, atBegin, atEnd) ==
  T \cup UNION {EpsTargets(n, q, atBegin, atEnd) : q \in T}

\* epsilon_closure: spread until nothing is new.
Closure(n, seeds, atBegin, atEnd) ==
  LET grow[T \in SUBSET State(n)] ==
        IF Spread(n, T, atBegin, atEnd) = T
          THEN T
          ELSE grow[Spread(n, T, atBegin, atEnd)]
  IN  grow[seeds]

\* The states one byte leads to, before their closure.
Move(n, T, c) == UNION {ByteTargets(n, q, c) : q \in T}

-----------------------------------------------------------------------------
(* The reference the engines are measured against. *)

\* The states alive at each position of t, for a match that begins at s:
\* the closure of the start state, then a byte and a closure at a time.
Live(r, t, s) ==
  LET n == Nfa[r]
      live[p \in s .. Len(t)] ==
        IF p = s
          THEN Closure(n, {n.start}, s = 0, s = Len(t))
          ELSE Closure(n, Move(n, live[p - 1], t[p]), FALSE, p = Len(t))
  IN  live

\* Where a match that begins at s can end.
Ends(r, t, s) == {p \in s .. Len(t) : Nfa[r].accept \in Live(r, t, s)[p]}
=============================================================================
