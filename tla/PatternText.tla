----------------------------- MODULE PatternText -----------------------------
(***************************************************************************)
(* The reference for the lexer: what the construct at position i of a      *)
(* pattern means, read off the text at large instead of character by       *)
(* character.  A character is escaped if an odd number of backslashes      *)
(* stands before it; a class ends at its first bracket that is not         *)
(* escaped; a bound is the decimal value of its digits.                    *)
(*                                                                         *)
(* Patterns are sequences of bytes here, without a NUL; positions count    *)
(* from 1.  The meaning is a record like a token of the lexer, with the    *)
(* position behind the construct, or the status it is refused with and the *)
(* position of what is wrong.                                              *)
(***************************************************************************)
EXTENDS Charset, Integers, Sequences, FiniteSets

Refused(status, at) == [rc |-> status, at |-> at]
MeansSet(set, end) == [rc |-> "OK", type |-> "CLASS", cls |-> set, end |-> end]
MeansBounds(min, max, open, end) ==
  [rc |-> "OK", type |-> "REPEAT", min |-> min, max |-> max, unbounded |-> open,
   end |-> end]

\* The set that a backslash and the character behind it stand for.
Escapes ==
  [c \in Char |-> CASE c = 100 -> Digit []  c = 68 -> Char \ Digit
                    [] c = 119 -> Word  []  c = 87 -> Char \ Word
                    [] c = 115 -> 9 .. 13 \cup {32}
                    [] c = 83  -> Char \ (9 .. 13 \cup {32})
                    [] c = 110 -> {10} [] c = 116 -> {9} [] c = 114 -> {13}
                    [] OTHER -> {c}]

\* The escape at i.
EscapeAt(s, i) ==
  IF i = Len(s) THEN Refused("BADPAT", i + 1)
  ELSE MeansSet(Escapes[s[i + 1]], i + 2)

-----------------------------------------------------------------------------
(* The class [...] at i. *)

\* The backslashes directly before s[i], counting from lo on; s[i] is escaped
\* if their number is odd.
Backslashes(s, lo, i) == {k \in lo .. i - 1 : \A j \in k .. i - 1 : s[j] = 92}
Escaped(s, lo, i) == Cardinality(Backslashes(s, lo, i)) % 2 = 1

IsNegated(s, i) == i < Len(s) /\ s[i + 1] = 94
Inside(s, i) == IF IsNegated(s, i) THEN i + 2 ELSE i + 1

\* The bracket that closes the class whose inside begins at lo.
Closers(s, lo) == {j \in lo .. Len(s) : s[j] = 93 /\ ~ Escaped(s, lo, j)}
Closer(s, lo) ==
  IF Closers(s, lo) = {} THEN Len(s) + 1
  ELSE CHOOSE j \in Closers(s, lo) : \A k \in Closers(s, lo) : j <= k

\* The units of a class, characters and escapes, begin where nothing is escaped.
Begins(s, lo) == {k \in lo .. Closer(s, lo) - 1 : ~ Escaped(s, lo, k)}

\* The set of the unit at k; nothing, if it is broken off at hi.
Unit(s, k, hi) ==
  IF s[k] # 92 THEN {s[k]} ELSE IF k + 1 < hi THEN Escapes[s[k + 1]] ELSE {}

\* Where the unit behind the one at k begins, or the bracket stands.
NextUnit(s, lo, k) ==
  CHOOSE m \in Begins(s, lo) \cup {Closer(s, lo)} :
    m > k /\ \A j \in Begins(s, lo) : j > k => m <= j

\* A dash behind the unit at k makes a range of it and the unit behind the dash,
\* unless there is none.
IsDash(s, lo, dash) ==
  dash < Closer(s, lo) /\ s[dash] = 45 /\ NextUnit(s, lo, dash) < Closer(s, lo)

\* A range is right if both ends are single and in order.
IsSpan(first, last) ==
  /\ Cardinality(first) = 1 /\ Cardinality(last) = 1
  /\ \A a \in first, b \in last : a <= b
Span(first, last) == {c \in Char : \E a \in first, b \in last : a <= c /\ c <= b}

\* What the units from lo on mean: where the first of them is wrong, 0 if none is,
\* and the set.  A wrong range is so at its dash, a unit broken off at the end.
Items(s, lo) ==
  LET hi == Closer(s, lo)
      from[k \in Begins(s, lo) \cup {hi}] ==
        LET dash  == NextUnit(s, lo, k)
            end   == NextUnit(s, lo, dash)
            first == Unit(s, k, hi)
            last  == Unit(s, end, hi)
            rest  == from[NextUnit(s, lo, end)]
        IN  IF k = hi THEN <<0, {}>>
            ELSE IF IsDash(s, lo, dash)
              THEN <<IF last = {} THEN Len(s) + 1
                     ELSE IF IsSpan(first, last) THEN rest[1] ELSE dash,
                     Span(first, last) \cup rest[2]>>
            ELSE <<IF first = {} THEN Len(s) + 1 ELSE from[dash][1],
                   first \cup from[dash][2]>>
  IN  from[lo]

ClassAt(s, i) ==
  LET lo    == Inside(s, i)
      items == Items(s, lo)
  IN  IF items[1] # 0 THEN Refused("BADPAT", items[1])
      ELSE IF Closers(s, lo) = {} \/ Begins(s, lo) = {} THEN Refused("EBRACK", i)
      ELSE MeansSet(IF IsNegated(s, i) THEN Char \ items[2] ELSE items[2],
                    Closer(s, lo) + 1)

-----------------------------------------------------------------------------
(* The bounds {...} at i. *)

Decimal(digits) ==
  LET value[k \in 0 .. Len(digits)] ==
        IF k = 0 THEN 0 ELSE 10 * value[k - 1] + (digits[k] - 48)
  IN  value[Len(digits)]

\* The digits that stand from i on.
DigitsAt(s, i) ==
  LET ends == {j \in i .. Len(s) : \A k \in i .. j : s[k] \in Digit}
  IN  SubSeq(s, i, i + Cardinality(ends) - 1)

RepeatAt(s, i, limit) ==
  LET low     == DigitsAt(s, i + 1)
      behind  == i + 1 + Len(low)
      comma   == behind <= Len(s) /\ s[behind] = 44
      open    == comma /\ behind < Len(s) /\ s[behind + 1] = 125
      high    == IF comma /\ ~ open THEN DigitsAt(s, behind + 1) ELSE low
      close   == IF comma /\ ~ open THEN behind + 1 + Len(high)
                 ELSE IF comma THEN behind + 1 ELSE behind
      min     == Decimal(low)
      max     == Decimal(high)
  IN  IF low = <<>> THEN Refused("EBRACE", i + 1)
      ELSE IF min > limit THEN Refused("BADRPT", i)
      ELSE IF high = <<>> THEN Refused("EBRACE", behind + 1)
      ELSE IF max > limit THEN Refused("BADRPT", i)
      ELSE IF close > Len(s) \/ s[close] # 125 THEN Refused("EBRACE", i)
      ELSE IF ~ open /\ max < min THEN Refused("BADRPT", i)
      ELSE MeansBounds(min, max, open, close + 1)
=============================================================================
