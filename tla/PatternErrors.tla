---------------------------- MODULE PatternErrors ----------------------------
(***************************************************************************)
(* The reference for what the parser refuses: the first token at which a   *)
(* sequence is no expression.  It counts brackets and looks at neighbours; *)
(* it knows nothing of functions that call each other.  A sequence has no  *)
(* EOF here; ERROR stands where the lexer gave up.                         *)
(***************************************************************************)
EXTENDS Integers, Sequences, FiniteSets, FiniteSetsExt

Repeats == {"STAR", "PLUS", "QUESTION", "REPEAT"}

\* The number of tokens of a type among the first k.
Count(t, type, k) == Cardinality({i \in 1 .. k : t[i].type = type})

\* The number of groups that are open behind the k-th token.
Nesting(t, k) == Count(t, "LPAREN", k) - Count(t, "RPAREN", k)

\* What is wrong at the k-th token, if everything before is right.  One more
\* than there are stands for the end of the pattern.
WrongAt(t, k, limit) ==
  IF k > Len(t)
    THEN IF Nesting(t, Len(t)) > 0 THEN "EPAREN" ELSE "OK"
    ELSE CASE t[k].type = "ERROR" -> t[k].data
           [] t[k].type \in Repeats ->
                IF k = 1 \/ t[k - 1].type \in Repeats \cup {"LPAREN", "ALT"}
                  THEN "BADRPT" ELSE "OK"
           [] t[k].type = "RPAREN" /\ Nesting(t, k) < 0 -> "EPAREN"
           [] t[k].type = "LPAREN" /\ Nesting(t, k) > limit -> "EUNSUPPORTED"
           [] OTHER -> "OK"

\* The first error of a sequence, or "OK".
StatusOf(t, limit) ==
  LET wrong == {k \in 1 .. Len(t) + 1 : WrongAt(t, k, limit) # "OK"}
  IN  IF wrong = {} THEN "OK" ELSE WrongAt(t, Min(wrong), limit)
=============================================================================
