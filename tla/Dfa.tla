--------------------------------- MODULE Dfa ---------------------------------
(***************************************************************************)
(* The deterministic automaton of dfa.h, as regex_compile_ex passes it     *)
(* from dfa_build to dfa_minimize and then to dfa_run_from.  One call of   *)
(* regex_compile_ex works on it: `re' is the expression, `pc' the place in *)
(* that call, `rc' its status.                                             *)
(*                                                                         *)
(* An automaton is a record                                                *)
(*   len      number of states; the states are 0 .. len-1                  *)
(*   states   for every state the set of automaton states it stands for,   *)
(*            whether it accepts, and two rows of transitions: `trans' for *)
(*            a byte that more text follows, `final' for the last one      *)
(*   starts   the start state of each of the four contexts                 *)
(***************************************************************************)
EXTENDS Automaton, Integers

VARIABLES
  re,    \* the expression that is compiled
  dfa,   \* the automaton
  pc,    \* "start", "explore", "minimize", "refine", "split", "rebuild",
         \* "minimized", "ready" or "failed"
  rc     \* "RUN" until regex_compile_ex has its automaton or gives up

nfa == Nfa[re]
None == -1
DfaStates == 0 .. dfa.len - 1

-----------------------------------------------------------------------------
(* Contexts: whether a match begins at the start and at the end of the text *)
Contexts == 0 .. 3
Context(atBegin, atEnd) ==
  (IF atBegin THEN 1 ELSE 0) + (IF atEnd THEN 2 ELSE 0)
AtBegin(c) == c \in {1, 3}
AtEnd(c) == c \in {2, 3}

(* Character classes: bytes that no CLASS transition tells apart. *)
Equivalent(n, b, c) ==
  \A q \in State(n) : \A tr \in Out(n, q) :
    tr.type = "CLASS" => (b \in tr.cls <=> c \in tr.cls)

\* class_of: a class is named after its first byte, class_representative.
ClassOf ==
  [r \in Regex |-> [b \in Byte |->
     CHOOSE c \in 0 .. b : /\ Equivalent(Nfa[r], b, c)
                           /\ \A d \in 0 .. c - 1 : ~ Equivalent(Nfa[r], b, d)]]
Classes == [r \in Regex |-> {ClassOf[r][b] : b \in Byte}]

-----------------------------------------------------------------------------
(* Reading a text. *)

\* One byte: no way back from None.
Step(d, q, b, last) ==
  IF q = None THEN None
  ELSE IF last THEN d.states[q].final[b] ELSE d.states[q].trans[b]

\* The state after each position of t, for a match that begins at s.
Walk(d, t, s) ==
  LET walk[p \in s .. Len(t)] ==
        IF p = s
          THEN d.starts[Context(s = 0, s = Len(t))]
          ELSE Step(d, walk[p - 1], t[p], p = Len(t))
  IN  walk

Accepting(d, q) == q # None /\ d.states[q].accept

\* The shape of a finished automaton: its start states are states, its
\* transitions lead to states or nowhere.
IsDfa(d) ==
  /\ d.len \in Nat
  /\ d.starts \in [Contexts -> 0 .. d.len - 1]
  /\ \A q \in 0 .. d.len - 1 :
       /\ d.states[q].accept \in BOOLEAN
       /\ d.states[q].trans \in [Byte -> None .. d.len - 1]
       /\ d.states[q].final \in [Byte -> None .. d.len - 1]

\* d accepts where the automaton of the expression r does: after every prefix
\* of every text, from every start.
Represents(d, r) ==
  \A t \in Texts : \A s \in 0 .. Len(t) : \A p \in s .. Len(t) :
    Accepting(d, Walk(d, t, s)[p]) <=> Nfa[r].accept \in Live(r, t, s)[p]
=============================================================================
