------------------------------- MODULE DfaRun -------------------------------
(***************************************************************************)
(* dfa_run_from (dfa.c): one call on a finished automaton.  A step reads   *)
(* one byte; the last byte of the text takes the `final' transition, which *)
(* knows that the end of the text follows.                                 *)
(***************************************************************************)
EXTENDS Dfa

VARIABLES
  text, start,   \* the arguments
  at,            \* "call", "loop" or "done"
  state,         \* the state of the automaton
  pos,           \* bytes consumed
  found, best,
  answer, end    \* what the call returns; answer is "IDLE" before and
                 \* "RUN" during the call

runVars == <<text, start, at, state, pos, found, best, answer, end>>

RunInit ==
  /\ text = <<>> /\ start = 0
  /\ at = "call"
  /\ state = None
  /\ pos = 0
  /\ found = FALSE
  /\ best = 0
  /\ answer = "IDLE" /\ end = 0

-----------------------------------------------------------------------------
\* Any text, and any place in it: regex_search probes them all.
Call ==
  /\ pc = "ready"
  /\ at = "call" /\ at' = "loop"
  /\ text' \in Texts
  /\ start' \in 0 .. Len(text')
  /\ state' = dfa.starts[Context(start' = 0, start' = Len(text'))]
  /\ found' = dfa.states[state'].accept
  /\ pos' = start' /\ best' = start'
  /\ answer' = "RUN"
  /\ UNCHANGED <<re, dfa, pc, rc, end>>

\* Mutant: the byte before the last one counts as the last.
NextStateEarly(p) == Step(dfa, state, text[p + 1], p + 2 >= Len(text))

\* The transition on the next byte.
NextState(p) == Step(dfa, state, text[p + 1], p + 1 = Len(text))

ReadByte ==
  /\ at = "loop"
  /\ pos < Len(text)
  /\ NextState(pos) # None
  /\ state' = NextState(pos)
  /\ pos' = pos + 1
  /\ found' = (found \/ dfa.states[state'].accept)
  /\ best' = IF dfa.states[state'].accept THEN pos + 1 ELSE best
  /\ UNCHANGED <<re, dfa, pc, rc, text, start, at, answer, end>>

\* Mutant: an empty match does not count.
ReturnNonEmpty ==
  /\ at = "loop" /\ at' = "done"
  /\ pos < Len(text) => NextState(pos) = None
  /\ answer' = IF found /\ best > start THEN "OK" ELSE "NOMATCH"
  /\ end' = IF found /\ best > start THEN best ELSE end
  /\ UNCHANGED <<re, dfa, pc, rc, text, start, state, pos, found, best>>

\* The text is over or no match can go on.
Return ==
  /\ at = "loop" /\ at' = "done"
  /\ pos < Len(text) => NextState(pos) = None
  /\ answer' = IF found THEN "OK" ELSE "NOMATCH"
  /\ end' = IF found THEN best ELSE end
  /\ UNCHANGED <<re, dfa, pc, rc, text, start, state, pos, found, best>>

RunNext == Call \/ ReadByte \/ Return

\* The call on its own: on any automaton that represents the expression.
RunSpec ==
  /\ re \in Regex /\ pc = "ready"
  /\ IsDfa(dfa) /\ Represents(dfa, re)
  /\ RunInit /\ [][RunNext]_<<re, dfa, pc, rc, runVars>>

-----------------------------------------------------------------------------
\* The positions up to pos at which the automaton accepted.
Accepted == {p \in start .. pos : Accepting(dfa, Walk(dfa, text, start)[p])}

\* The state is the one the bytes so far lead to, and `best' the last position
\* at which it accepted: an early return loses nothing, the last byte of the
\* text, and only that one, took the `final' transition.
RunFollowsText ==
  at = "loop" =>
    /\ state = Walk(dfa, text, start)[pos]
    /\ found <=> Accepted # {}
    /\ found => best \in Accepted /\ \A p \in Accepted : p <= best

\* dfa_run_from keeps the promise its callers rely on, the one nfa_run_from
\* keeps: the longest match that begins at `start', or none if there is none.
Promise == INSTANCE LongestMatch WITH rc <- answer
KeepsPromise == Promise!Spec
=============================================================================
