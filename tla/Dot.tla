--------------------------------- MODULE Dot ---------------------------------
(***************************************************************************)
(* dfa_dump_dot of dot.c: the automaton as a graph for a reader.  What is  *)
(* drawn is a set of edges, each with a class of bytes as its label; for   *)
(* the last byte of a text only the edges that differ are drawn, dashed.   *)
(* A label names a run of bytes by its ends.  How a byte is escaped, the   *)
(* header and the layout are left out.                                     *)
(***************************************************************************)
EXTENDS Dfa, SequencesExt

-----------------------------------------------------------------------------
(* The labels: dot_dump_charset writes runs one after another. *)

\* Apart from all bytes, which are escaped where they could be taken for it.
Dash == -1

\* The last byte of the run that begins with b.
RunEnd(cls, b) ==
  Max({e \in Byte : e >= b /\ \A c \in b .. e : c \in cls})

\* Two bytes in a row need no dash.
Written(b, e) ==
  IF e >= b + 2 THEN <<b, Dash, e>> ELSE IF e = b + 1 THEN <<b, e>> ELSE <<b>>

Label(cls) ==
  LET from[b \in 0 .. AlphabetSize] ==
        IF b = AlphabetSize THEN <<>>
        ELSE IF b \notin cls THEN from[b + 1]
        ELSE Written(b, RunEnd(cls, b)) \o from[RunEnd(cls, b) + 1]
  IN  from[0]

-----------------------------------------------------------------------------
(* The edges. *)

\* Mutant: dashed edges only where there is no other.
FinalDrawnIfNew(q, b) == q.final[b] # None /\ q.trans[b] = None

\* The last byte b is drawn if it leads elsewhere than any other b would.
FinalDrawn(q, b) == q.final[b] # q.trans[b]

\* collect_dfa_edge
EdgeClass(q, target, dashed) ==
  IF dashed THEN {b \in Byte : q.final[b] = target /\ FinalDrawn(q, b)}
            ELSE {b \in Byte : q.trans[b] = target}

\* dfa_dump_dot, between states only: nothing is drawn to the dead state.
Edges(d) ==
  LET class(e) == EdgeClass(d.states[e[1]], e[2], e[3])
  IN  {[from |-> e[1], to |-> e[2], dashed |-> e[3], label |-> Label(class(e))] :
         e \in {x \in (0 .. d.len - 1) \X (0 .. d.len - 1) \X BOOLEAN :
                  class(x) # {}}}

-----------------------------------------------------------------------------
(* The reader. *)

\* The bytes that a label names.
Named(label) ==
  {b \in Byte : \E i \in DOMAIN label :
     \/ label[i] = b
     \/ /\ label[i] = Dash
        /\ label[i - 1] < b /\ b < label[i + 1]}

\* Where one byte leads: along a dashed edge if it is the last and there is one.
Reads(edges, q, b, final) ==
  LET fits   == {e \in edges : e.from = q /\ b \in Named(e.label)}
      dashed == {e \in fits : e.dashed}
      plain  == {e \in fits : ~ e.dashed}
      taken  == IF final /\ dashed # {} THEN dashed ELSE plain
  IN  {e.to : e \in taken}

\* The states after each position of t, for a match that begins at s.
Traced(d, edges, t, s) ==
  LET at[p \in s .. Len(t)] ==
        IF p = s
          THEN {d.starts[Context(s = 0, s = Len(t))]}
          ELSE UNION {Reads(edges, q, t[p], p = Len(t)) : q \in at[p - 1]}
  IN  at

\* Who follows the graph of d is where d is, on every text.
Shows(d) ==
  LET edges == Edges(d)
  IN  \A t \in Texts : \A s \in 0 .. Len(t) :
        LET walk == Walk(d, t, s)
            at   == Traced(d, edges, t, s)
        IN  \A p \in s .. Len(t) :
              at[p] = IF walk[p] = None THEN {} ELSE {walk[p]}

\* The graph of every automaton that regex_compile_ex hands out shows what it
\* does: no label names a byte too many or too few, and no transition to the
\* dead state at the end of a text stands beside one that goes on in its middle,
\* which the graph, where the dead state is not drawn, could not tell apart.
GraphIsOfDfa == pc = "minimized" => Shows(dfa)
=============================================================================
