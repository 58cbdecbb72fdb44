------------------------------- MODULE NfaRun -------------------------------
(***************************************************************************)
(* nfa_run_from (matcher.c): the Thompson automaton is simulated one byte  *)
(* at a time with two state sets, `cur' and `next', that are swapped after *)
(* each byte.  A set is filled by add_closure, which pushes a state and    *)
(* then expands, one by one, the states that were pushed since and are     *)
(* still `pending'.  A push that must grow the set can fail, and then the  *)
(* whole call returns RX_ESPACE.                                           *)
(*                                                                         *)
(* The order of the items in a set is abstracted: any pending state may be *)
(* expanded, any unread state of `cur' may be read next.  So is the        *)
(* capacity of a set: every push of a new state may fail.                  *)
(***************************************************************************)
EXTENDS Automaton

VARIABLES
  re, text, start,   \* the arguments
  pc,        \* "call", "init", "close", "loop", "move", "break", "done"
  cur, next, \* the two state sets
  pending,   \* states pushed on the set being filled, not expanded yet
  unread,    \* states of cur whose byte transitions were not followed yet
  pos,       \* bytes consumed
  found, best,
  rc, end    \* the result; rc is "IDLE" before, "RUN" during the call

vars == <<re, text, start, pc, cur, next, pending, unread, pos, found, best,
          rc, end>>
args == <<re, text, start>>

nfa == Nfa[re]

Init ==
  /\ re \in Regex
  /\ text = <<>> /\ start = 0
  /\ pc = "call"
  /\ cur = {} /\ next = {} /\ pending = {} /\ unread = {}
  /\ pos = 0
  /\ found = FALSE
  /\ best = 0
  /\ rc = "IDLE"
  /\ end = 0

-----------------------------------------------------------------------------
(* The states the expansion of q at position p pushes. *)
Expand(q, p) == EpsTargets(nfa, q, p = 0, p = Len(text))

\* Any text, and any place in it: regex_search probes them all.
Call ==
  /\ pc = "call"
  /\ text' \in Texts
  /\ start' \in 0 .. Len(text')
  /\ pos' = start' /\ best' = start'
  /\ rc' = "RUN"
  /\ pc' = "init"
  /\ UNCHANGED <<re, cur, next, pending, unread, found, end>>

\* The sets are allocated and the start state is pushed on cur.
SetInit ==
  /\ pc = "init"
  /\ cur' = {nfa.start}
  /\ pending' = {nfa.start}
  /\ pc' = "close"
  /\ UNCHANGED <<args, next, unread, pos, found, best, rc, end>>

\* Mutant: set_push does not look at its `seen' bits.
CloseCurUnseen(q) ==
  /\ pc = "close"
  /\ q \in pending
  /\ cur' = cur \cup Expand(q, start)
  /\ pending' = (pending \ {q}) \cup Expand(q, start)
  /\ UNCHANGED <<args, pc, next, unread, pos, found, best, rc, end>>

\* add_closure on cur: expand one pending state.
CloseCur(q) ==
  /\ pc = "close"
  /\ q \in pending
  /\ cur' = cur \cup Expand(q, start)
  /\ pending' = (pending \ {q}) \cup (Expand(q, start) \ cur)
  /\ UNCHANGED <<args, pc, next, unread, pos, found, best, rc, end>>

StartClosed ==
  /\ pc = "close"
  /\ pending = {}
  /\ found' = (nfa.accept \in cur)
  /\ pc' = "loop"
  /\ UNCHANGED <<args, cur, next, pending, unread, pos, best, rc, end>>

\* Mutant: one byte too many is read.
NextByteTooFar ==
  /\ pc = "loop"
  /\ pos <= Len(text)
  /\ next' = {}
  /\ unread' = cur
  /\ pc' = "move"
  /\ UNCHANGED <<args, cur, pending, pos, found, best, rc, end>>

\* Mutant: the set is swapped in with its old items.
NextByteUncleared ==
  /\ pc = "loop"
  /\ pos < Len(text)
  /\ unread' = cur
  /\ pc' = "move"
  /\ UNCHANGED <<args, cur, next, pending, pos, found, best, rc, end>>

\* set_clear of next, which holds the set of two positions ago.
NextByte ==
  /\ pc = "loop"
  /\ pos < Len(text)
  /\ next' = {}
  /\ unread' = cur
  /\ pc' = "move"
  /\ UNCHANGED <<args, cur, pending, pos, found, best, rc, end>>

\* Follow the byte transitions of one state of cur.
Read(q) ==
  /\ pc = "move"
  /\ pending = {}
  /\ q \in unread
  /\ LET targets == ByteTargets(nfa, q, text[pos + 1]) IN
       /\ pending' = targets \ next
       /\ next' = next \cup targets
  /\ unread' = unread \ {q}
  /\ UNCHANGED <<args, pc, cur, pos, found, best, rc, end>>

\* add_closure on next, in the context of the position after the byte.
CloseNext(q) ==
  /\ pc = "move"
  /\ q \in pending
  /\ next' = next \cup Expand(q, pos + 1)
  /\ pending' = (pending \ {q}) \cup (Expand(q, pos + 1) \ next)
  /\ UNCHANGED <<args, pc, cur, unread, pos, found, best, rc, end>>

\* Nothing is alive after the byte: leave the loop.
Die ==
  /\ pc = "move"
  /\ pending = {} /\ unread = {} /\ next = {}
  /\ pc' = "break"
  /\ UNCHANGED <<args, cur, next, pending, unread, pos, found, best, rc, end>>

\* Swap the sets and remember the position if the accepting state is alive.
Swap ==
  /\ pc = "move"
  /\ pending = {} /\ unread = {} /\ next # {}
  /\ cur' = next
  /\ next' = cur
  /\ pos' = pos + 1
  /\ found' = (found \/ nfa.accept \in next)
  /\ best' = IF nfa.accept \in next THEN pos + 1 ELSE best
  /\ pc' = "loop"
  /\ UNCHANGED <<args, pending, unread, rc, end>>

\* Mutant: the match ends where the loop did.
ReturnPosition ==
  /\ pc = "break" \/ (pc = "loop" /\ pos = Len(text))
  /\ rc' = IF found THEN "OK" ELSE "NOMATCH"
  /\ end' = IF found THEN pos ELSE end
  /\ pc' = "done"
  /\ UNCHANGED <<args, cur, next, pending, unread, pos, found, best>>

Return ==
  /\ pc = "break" \/ (pc = "loop" /\ pos = Len(text))
  /\ rc' = IF found THEN "OK" ELSE "NOMATCH"
  /\ end' = IF found THEN best ELSE end
  /\ pc' = "done"
  /\ UNCHANGED <<args, cur, next, pending, unread, pos, found, best>>

\* A set cannot be allocated, or cannot grow for a state it does not have.
OutOfMemory ==
  /\ \/ pc = "init"
     \/ pc = "close" /\ \E q \in pending : ~ Expand(q, start) \subseteq cur
     \/ pc = "move" /\ \E q \in pending : ~ Expand(q, pos + 1) \subseteq next
     \/ /\ pc = "move" /\ pending = {}
        /\ \E q \in unread : ~ ByteTargets(nfa, q, text[pos + 1]) \subseteq next
  /\ rc' = "ESPACE"
  /\ pc' = "done"
  /\ UNCHANGED <<args, cur, next, pending, unread, pos, found, best, end>>

\* The call is over; nothing runs any more.
Returned == pc = "done" /\ UNCHANGED vars

Next ==
  \/ Call
  \/ SetInit
  \/ \E q \in pending : CloseCur(q) \/ CloseNext(q)
  \/ StartClosed
  \/ NextByte
  \/ \E q \in unread : Read(q)
  \/ Die
  \/ Swap
  \/ Return
  \/ OutOfMemory
  \/ Returned

\* A call is carried out to its end; that an allocation fails is never due.
Fairness == WF_vars(Next /\ rc' # "ESPACE")

Spec == Init /\ [][Next]_vars /\ Fairness

-----------------------------------------------------------------------------
(* The types. *)
TypeOK ==
  /\ re \in Regex /\ text \in Texts /\ start \in 0 .. Len(text)
  /\ pc \in {"call", "init", "close", "loop", "move", "break", "done"}
  /\ cur \subseteq State(nfa) /\ next \subseteq State(nfa)
  /\ pending \subseteq State(nfa) /\ unread \subseteq State(nfa)
  /\ pos \in start .. Len(text) /\ best \in start .. Len(text)
  /\ pc = "move" => pos < Len(text)
  /\ found \in BOOLEAN
  /\ rc \in {"IDLE", "RUN", "OK", "NOMATCH", "ESPACE"}
  /\ end \in Nat

LiveAt(p) == Live(re, text, start)[p]

\* add_closure at work on the set T for position p: nothing dead is in it, and
\* what its expanded states lead to is.
Filling(T, p) ==
  /\ pending \subseteq T /\ T \subseteq LiveAt(p)
  /\ \A q \in T \ pending : Expand(q, p) \subseteq T

\* The state sets hold what is alive, wherever the call is interrupted: `cur'
\* exactly the states alive at pos, the set under construction only states
\* alive at its position, closed but for what is pending (the `seen' bits of
\* matcher.c and the swap of the two sets must never lose or invent a state).
SetsAreLive ==
  /\ pc = "close" => Filling(cur, start) /\ nfa.start \in cur
  /\ pc \in {"loop", "move", "break"} => cur = LiveAt(pos)
  /\ pc = "move" => /\ unread \subseteq cur
                    /\ Filling(next, pos + 1)
                    /\ \A q \in cur \ unread :
                         ByteTargets(nfa, q, text[pos + 1]) \subseteq next
  /\ pc = "break" => pos < Len(text) /\ LiveAt(pos + 1) = {}

\* The positions up to pos at which the accepting state was alive.
Passed == {p \in start .. pos : nfa.accept \in LiveAt(p)}

\* `found' and `best' summarise the positions passed so far: best is the last
\* of them at which a match could end, also when the loop is left early.
BestIsLongest ==
  pc \in {"loop", "move", "break"} =>
    /\ found <=> Passed # {}
    /\ found => best \in Passed /\ \A p \in Passed : p <= best

\* nfa_run_from keeps the promise its callers rely on: whatever the order in
\* which add_closure expands the states, it returns the longest match that
\* begins at `start', RX_NOMATCH only if there is none, and writes *end_out
\* only on success.
Promise == INSTANCE LongestMatch
KeepsPromise == Promise!Spec

\* Every call returns: the closure loop and the loop over the text both end.
Returns == <>(pc = "done")
=============================================================================
