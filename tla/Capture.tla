------------------------------- MODULE Capture -------------------------------
(***************************************************************************)
(* nfa_capture_span (capture.c): the groups of a match whose start and end *)
(* are known.  The Thompson automaton is simulated over the span a second  *)
(* time, now with a pair of positions for every group in every item of a   *)
(* set.  A state enters a set once, with the positions of whoever pushes   *)
(* it first: the order of the items and of the transitions decides which   *)
(* of several paths the groups are taken from.                             *)
(*                                                                         *)
(* A step handles one item of a set: all the transitions that leave its    *)
(* state.  The capacity of a set is abstracted: every push of a new state  *)
(* may fail.                                                               *)
(***************************************************************************)
EXTENDS Automaton, Integers, SequencesExt

VARIABLES
  re, text,      \* the arguments: the expression and the text,
  start, stop,   \* the span of the match,
  nmatch,        \* the length of the caller's array of matches
  pc,            \* "call", "first", "loop", "read", "close", "done"
  current, next, \* the two sets, sequences of items [state, slots]
  index,         \* the item the inner loop has come to
  pos,           \* bytes consumed
  matches,       \* matches[1 ..], a pair of rm_so and rm_eo each
  rc             \* the result, "RUN" before

args == <<re, text, start, stop, nmatch>>
vars == <<args, pc, current, next, index, pos, matches, rc>>

nfa == Nfa[re]
CaptureCount == [r \in Regex |-> Compiled[r].groups]
Groups == CaptureCount[re]
NoSpan == <<-1, -1>>
NoSlots(r) == [g \in 1 .. CaptureCount[r] |-> NoSpan]

\* What parser and nfa_compile_ast deliver: a vector of transitions for every
\* state, and groups numbered from 1 to the count; tagged_expand_closure gives
\* up at any other number.
ASSUME CaptureAssumption ==
  \A r \in Regex :
    /\ CaptureCount[r] \in Nat
    /\ \A q \in State(Nfa[r]) :
         /\ Nfa[r].trans[q] \in Seq(Out(Nfa[r], q))
         /\ \A tr \in Out(Nfa[r], q) :
              tr.type \in {"CAPTURE_BEGIN", "CAPTURE_END"} =>
                tr.group \in 1 .. CaptureCount[r]

Init ==
  /\ re \in {r \in Regex : CaptureCount[r] > 0}
  /\ text = <<>> /\ start = 0 /\ stop = 0 /\ nmatch = 0
  /\ pc = "call"
  /\ current = <<>> /\ next = <<>>
  /\ index = 1 /\ pos = 0
  /\ matches = <<>>
  /\ rc = "RUN"

-----------------------------------------------------------------------------
\* The positions behind a transition that is taken at position p.
Tagged(slots, tr, p) ==
  CASE tr.type = "CAPTURE_BEGIN" -> [slots EXCEPT ![tr.group] = <<p, @[2]>>]
    [] tr.type = "CAPTURE_END"   -> [slots EXCEPT ![tr.group] = <<@[1], p>>]
    [] OTHER                     -> slots

Has(set, q) == \E i \in DOMAIN set : set[i].state = q

\* tagged_set_push: whoever comes first.
Push(set, q, slots) ==
  IF Has(set, q) THEN set ELSE Append(set, [state |-> q, slots |-> slots])

\* The transitions of the item that can be taken at position p, in order.
Expand(set, item, p) ==
  FoldLeft(LAMBDA acc, tr :
             IF CanTake(tr, p = 0, p = Len(text))
               THEN Push(acc, tr.to, Tagged(item.slots, tr, p))
               ELSE acc,
           set, nfa.trans[item.state])

\* The transitions of the item that the byte c matches, in order.
Read(set, item, c) ==
  FoldLeft(LAMBDA acc, tr :
             IF Consumes(tr, c) THEN Push(acc, tr.to, item.slots) ELSE acc,
           set, nfa.trans[item.state])

-----------------------------------------------------------------------------
\* fill_match passes on the span that was found, if there are groups and the
\* caller has room for one; the start state is pushed without any positions.
Call ==
  /\ pc = "call" /\ pc' = "first"
  /\ text' \in Texts
  /\ start' \in 0 .. Len(text')
  /\ stop' \in Ends(re, text', start')
  /\ \A p \in Ends(re, text', start') : p <= stop'
  /\ nmatch' \in 2 .. Groups + 2
  /\ matches' = [g \in 1 .. nmatch' - 1 |-> NoSpan]
  /\ current' = Push(<<>>, nfa.start, NoSlots(re))
  /\ index' = 1 /\ pos' = start'
  /\ UNCHANGED <<re, next, rc>>

\* tagged_expand_closure of the first set, one item.
CloseFirst ==
  /\ pc = "first" /\ index <= Len(current)
  /\ current' = Expand(current, current[index], start)
  /\ index' = index + 1
  /\ UNCHANGED <<args, pc, next, pos, matches, rc>>

FirstClosed ==
  /\ pc = "first" /\ index > Len(current)
  /\ pc' = "loop"
  /\ UNCHANGED <<args, current, next, index, pos, matches, rc>>

\* Mutant: the set keeps its old items and their `seen' bits.
NextByteUncleared ==
  /\ pc = "loop" /\ pos < stop
  /\ index' = 1
  /\ pc' = "read"
  /\ UNCHANGED <<args, current, next, pos, matches, rc>>

\* tagged_set_clear of next, which holds the set of two positions ago.
NextByte ==
  /\ pc = "loop" /\ pos < stop
  /\ next' = <<>>
  /\ index' = 1
  /\ pc' = "read"
  /\ UNCHANGED <<args, current, pos, matches, rc>>

\* Mutant: every item carries on the positions of the first one.
ReadItemOfFirst ==
  /\ pc = "read" /\ index <= Len(current)
  /\ next' = Read(next, [current[index] EXCEPT !.slots = current[1].slots],
                   text[pos + 1])
  /\ index' = index + 1
  /\ UNCHANGED <<args, pc, current, pos, matches, rc>>

\* The byte transitions of one item of current.
ReadItem ==
  /\ pc = "read" /\ index <= Len(current)
  /\ next' = Read(next, current[index], text[pos + 1])
  /\ index' = index + 1
  /\ UNCHANGED <<args, pc, current, pos, matches, rc>>

AllRead ==
  /\ pc = "read" /\ index > Len(current)
  /\ index' = 1
  /\ pc' = "close"
  /\ UNCHANGED <<args, current, next, pos, matches, rc>>

\* Mutant: the closure is taken in the context of the position before.
CloseItemEarly ==
  /\ pc = "close" /\ index <= Len(next)
  /\ next' = Expand(next, next[index], pos)
  /\ index' = index + 1
  /\ UNCHANGED <<args, pc, current, pos, matches, rc>>

\* tagged_expand_closure of next, one item.
CloseItem ==
  /\ pc = "close" /\ index <= Len(next)
  /\ next' = Expand(next, next[index], pos + 1)
  /\ index' = index + 1
  /\ UNCHANGED <<args, pc, current, pos, matches, rc>>

\* Mutant: the byte is read again.
SwapStays ==
  /\ pc = "close" /\ index > Len(next)
  /\ current' = next /\ next' = current
  /\ pc' = "loop"
  /\ UNCHANGED <<args, index, pos, matches, rc>>

\* The sets change places.
Swap ==
  /\ pc = "close" /\ index > Len(next)
  /\ current' = next /\ next' = current
  /\ pos' = pos + 1
  /\ pc' = "loop"
  /\ UNCHANGED <<args, index, matches, rc>>

\* The positions the accepting state was reached with, as many of them as the
\* caller has room for.
Answer ==
  /\ pc = "loop" /\ pos = stop
  /\ IF Has(current, nfa.accept)
       THEN LET item == CHOOSE i \in ToSet(current) : i.state = nfa.accept
            IN  /\ matches' = [g \in DOMAIN matches |->
                     IF g <= Groups THEN item.slots[g] ELSE matches[g]]
                /\ rc' = "OK"
       ELSE rc' = "NOMATCH" /\ UNCHANGED matches
  /\ pc' = "done"
  /\ UNCHANGED <<args, current, next, index, pos>>

\* The sets cannot be allocated, or one of them cannot grow for a new state.
OutOfMemory ==
  /\ \/ pc = "first" /\ index = 1
     \/ /\ pc = "first" /\ index <= Len(current)
        /\ Expand(current, current[index], start) # current
     \/ /\ pc = "read" /\ index <= Len(current)
        /\ Read(next, current[index], text[pos + 1]) # next
     \/ /\ pc = "close" /\ index <= Len(next)
        /\ Expand(next, next[index], pos + 1) # next
  /\ rc' = "ESPACE"
  /\ pc' = "done"
  /\ UNCHANGED <<args, current, next, index, pos, matches>>

Returned == pc = "done" /\ UNCHANGED vars

Next ==
  \/ Call
  \/ CloseFirst \/ FirstClosed
  \/ NextByte \/ ReadItem \/ AllRead \/ CloseItem \/ Swap
  \/ Answer \/ OutOfMemory
  \/ Returned

\* A call is carried out to its end; that an allocation fails is never due.
Fairness == WF_vars(Next /\ rc' # "ESPACE")

Spec == Init /\ [][Next]_vars /\ Fairness

-----------------------------------------------------------------------------
(* Every path through the automaton, without any first come, first served: *)
(* the configurations of a state and the positions of the groups that some *)
(* path over the text t from s to p has.                                   *)
Config(r) ==
  State(Nfa[r]) \X [1 .. CaptureCount[r] -> (-1 .. MaxTextLen) \X (-1 .. MaxTextLen)]

ConfigClosure(r, t, seeds, p) ==
  LET more(C) ==
        C \cup UNION {{<<tr.to, Tagged(c[2], tr, p)>> :
            tr \in {x \in Out(Nfa[r], c[1]) : CanTake(x, p = 0, p = Len(t))}} :
            c \in C}
      grow[C \in SUBSET Config(r)] == IF more(C) = C THEN C ELSE grow[more(C)]
  IN  grow[seeds]

Configs(r, t, s) ==
  LET at[p \in s .. Len(t)] ==
        IF p = s
          THEN ConfigClosure(r, t, {<<Nfa[r].start, NoSlots(r)>>}, p)
          ELSE ConfigClosure(r, t,
                 UNION {{<<tr.to, c[2]>> :
                   tr \in {x \in Out(Nfa[r], c[1]) : Consumes(x, t[p])}} :
                   c \in at[p - 1]}, p)
  IN  at

\* The items after each byte are the states alive there, once each, and so the
\* second simulation always arrives at the end the first one found: a match is
\* never turned into RX_NOMATCH by looking for its groups.
NothingLost ==
  /\ pc = "loop" =>
       /\ {current[i].state : i \in DOMAIN current} = Live(re, text, start)[pos]
       /\ \A i, j \in DOMAIN current :
            current[i].state = current[j].state => i = j
  /\ rc # "NOMATCH"

\* docs/2026-07-08-progress.md: the second phase recovers one valid path.  The
\* positions of an item, and those returned, are the ones of a path that ends
\* in its state, never a mixture of two paths.
GroupsAreOfOnePath ==
  /\ pc = "loop" =>
       \A i \in DOMAIN current :
         <<current[i].state, current[i].slots>> \in Configs(re, text, start)[pos]
  /\ rc = "OK" =>
       \E c \in Configs(re, text, start)[stop] :
         /\ c[1] = nfa.accept
         /\ \A g \in DOMAIN matches :
              matches[g] = IF g <= Groups THEN c[2][g] ELSE NoSpan

\* Every call returns.
Returns == <>(pc = "done")
=============================================================================
