-------------------------------- MODULE Lexer --------------------------------
(***************************************************************************)
(* lexer.c: rx_lexer_init, and rx_lexer_next called until it answers       *)
(* TOK_EOF or an error, as the parser calls it.  The pattern is the C      *)
(* string with the NUL that ends it, so that a read behind the NUL is a    *)
(* read outside the sequence.  A step is a token that is one character or  *)
(* an escape, one element of a character class, or one digit of a bound.   *)
(*                                                                         *)
(* Of an error message only the byte position that it names is modelled.   *)
(***************************************************************************)
EXTENDS Charset, PatternText, Integers, Sequences, FiniteSets

CONSTANTS
  Patterns,     \* the texts that are lexed, without the NUL
  RepeatLimit   \* RX_REPEAT_LIMIT

\* The check of a bound subtracts a digit from the limit, unsigned.
LexerAssumption ==
  /\ Patterns \subseteq Seq(Char \ {NUL})
  /\ RepeatLimit \in Nat /\ RepeatLimit >= 9

ASSUME LexerAssumption

VARIABLES
  pattern,     \* lexer->pattern
  pos,         \* lexer->pos
  pc,          \* "next", "class", "min0", "min", "max0", "max", "brace", "done"
  start,       \* token->pos
  cls,         \* token->cls
  negate, sawAny,
  repeatMin, repeatMax, unbounded,
  tokens,      \* the tokens delivered so far
  rc,          \* what rx_lexer_next returned last
  errorAt      \* the byte that the error names, -1 without an error

token == <<start, cls, negate, sawAny, repeatMin, repeatMax, unbounded>>
vars == <<pattern, pos, pc, token, tokens, rc, errorAt>>

-----------------------------------------------------------------------------
(* The characters with a meaning of their own. *)
Backslash == 92
Caret == 94
Dash == 45
LBrack == 91
RBrack == 93
LBrace == 123
RBrace == 125
Comma == 44

\* . | * + ? ( ) ^ $ outside of a class
Simple ==
  [c \in {46, 124, 42, 43, 63, 40, 41, 94, 36} |->
     CASE c = 46 -> "DOT" [] c = 124 -> "ALT" [] c = 42 -> "STAR"
       [] c = 43 -> "PLUS" [] c = 63 -> "QUESTION" [] c = 40 -> "LPAREN"
       [] c = 41 -> "RPAREN" [] c = 94 -> "ANCHOR_BEGIN"
       [] c = 36 -> "ANCHOR_END"]

\* lexer_peek at position i
At(i) == pattern[i + 1]

\* Mutant: on from the NUL as from any character.
BehindAny(i) == i + 1

\* The position behind a character; the NUL is not passed.
Behind(i) == IF At(i) = NUL THEN i ELSE i + 1

\* d D w W s S n t r, or the character itself
EscapeSet(c) ==
  CASE c = 100 -> Digit [] c = 68 -> Invert(Digit)
    [] c = 119 -> Word  [] c = 87 -> Invert(Word)
    [] c = 115 -> Space [] c = 83 -> Invert(Space)
    [] c = 110 -> {10}  [] c = 116 -> {9} [] c = 114 -> {13}
    [] OTHER -> {c}

Init ==
  /\ \E s \in Patterns : pattern = Append(s, NUL)
  /\ pos = 0 /\ pc = "next"
  /\ start = 0 /\ cls = {} /\ negate = FALSE /\ sawAny = FALSE
  /\ repeatMin = 0 /\ repeatMax = 0 /\ unbounded = FALSE
  /\ tokens = <<>> /\ rc = "OK" /\ errorAt = -1

-----------------------------------------------------------------------------
\* rx_lexer_next returns RX_OK.
Deliver(type, set, min, max, open) ==
  /\ tokens' = Append(tokens, [type |-> type, pos |-> start', cls |-> set,
                               min |-> min, max |-> max, unbounded |-> open])
  /\ pc' = IF type = "EOF" THEN "done" ELSE "next"
  /\ UNCHANGED <<rc, errorAt>>

\* It returns an error, and the caller gives up.
Fail(status, at) ==
  /\ rc' = status /\ errorAt' = at /\ pc' = "done"
  /\ UNCHANGED tokens

\* The memset of the token.
NewToken ==
  /\ pc = "next"
  /\ start' = pos
  /\ cls' = {} /\ sawAny' = FALSE
  /\ repeatMin' = 0 /\ repeatMax' = 0 /\ unbounded' = FALSE

DeliverSet(set) == Deliver("CLASS", set, 0, 0, FALSE)

Eof ==
  /\ NewToken /\ At(pos) = NUL
  /\ pos' = Behind(pos)
  /\ Deliver("EOF", {}, 0, 0, FALSE)
  /\ UNCHANGED <<pattern, negate>>

Operator ==
  /\ NewToken /\ At(pos) \in DOMAIN Simple
  /\ pos' = pos + 1
  /\ Deliver(Simple[At(pos)], {}, 0, 0, FALSE)
  /\ UNCHANGED <<pattern, negate>>

\* Mutant: the look at the character behind the literal reads it.
LiteralAhead ==
  /\ NewToken
  /\ At(pos) \notin DOMAIN Simple \cup {NUL, Backslash, LBrack, LBrace}
  /\ pos' = Behind(pos + 1)
  /\ DeliverSet({At(pos)})
  /\ UNCHANGED <<pattern, negate>>

Literal ==
  /\ NewToken
  /\ At(pos) \notin DOMAIN Simple \cup {NUL, Backslash, LBrack, LBrace}
  /\ pos' = pos + 1
  /\ DeliverSet({At(pos)})
  /\ UNCHANGED <<pattern, negate>>

\* An escape outside of a class; lex_escape fails at the end of the pattern.
Escape ==
  /\ NewToken /\ At(pos) = Backslash
  /\ pos' = Behind(pos + 1)
  /\ IF At(pos + 1) = NUL
       THEN Fail("BADPAT", pos')
       ELSE DeliverSet(EscapeSet(At(pos + 1)))
  /\ UNCHANGED <<pattern, negate>>

-----------------------------------------------------------------------------
(* lex_class *)

ClassOpen ==
  /\ NewToken /\ At(pos) = LBrack
  /\ negate' = (At(pos + 1) = Caret)
  /\ pos' = IF At(pos + 1) = Caret THEN pos + 2 ELSE pos + 1
  /\ pc' = "class"
  /\ UNCHANGED <<pattern, tokens, rc, errorAt>>

\* The element at i: lex_class_element.
ElementOk(i) == At(i) = Backslash => At(i + 1) # NUL
ElementSet(i) == IF At(i) = Backslash THEN EscapeSet(At(i + 1)) ELSE {At(i)}
ElementEnd(i) == IF At(i) = Backslash THEN i + 2 ELSE i + 1

\* charset_single
Single(set) == Cardinality(set) = 1

\* Mutant: the dash before the closing bracket is taken for a range.
IsRangeGreedy(i) == At(i) = Dash /\ At(i + 1) # NUL

\* A dash at i is a range unless it stands last in the class.
IsRange(i) == At(i) = Dash /\ At(i + 1) \notin {RBrack, NUL}

InClass == pc = "class" /\ At(pos) \notin {NUL, RBrack}
ClassUnchanged ==
  UNCHANGED <<pattern, start, negate, repeatMin, repeatMax, unbounded>>

\* An element that the pattern ends in.
ElementBroken ==
  /\ InClass
  /\ LET e == IF ~ ElementOk(pos) THEN pos ELSE ElementEnd(pos) + 1
     IN  /\ ElementOk(pos) => IsRange(ElementEnd(pos)) /\ ~ ElementOk(e)
         /\ pos' = Behind(e + 1)
         /\ Fail("BADPAT", pos')
  /\ UNCHANGED <<cls, sawAny>> /\ ClassUnchanged

\* An element by itself.
Element ==
  /\ InClass /\ ElementOk(pos) /\ ~ IsRange(ElementEnd(pos))
  /\ cls' = cls \cup ElementSet(pos)
  /\ pos' = ElementEnd(pos)
  /\ sawAny' = TRUE
  /\ UNCHANGED <<pc, tokens, rc, errorAt>> /\ ClassUnchanged

\* Both ends of a range are single bytes, the first not behind the last.
BoundsInOrder(first, last) ==
  /\ Single(first) /\ Single(last)
  /\ \A a \in first, b \in last : a <= b

\* Two elements with a dash between them.
RangeElement ==
  /\ InClass /\ ElementOk(pos) /\ IsRange(ElementEnd(pos))
  /\ LET dash  == ElementEnd(pos)
         first == ElementSet(pos)
         last  == ElementSet(dash + 1)
     IN  /\ ElementOk(dash + 1)
         /\ pos' = ElementEnd(dash + 1)
         /\ IF BoundsInOrder(first, last)
              THEN /\ \E a \in first, b \in last : cls' = AddRange(cls, a, b)
                   /\ sawAny' = TRUE
                   /\ UNCHANGED <<pc, tokens, rc, errorAt>>
              ELSE Fail("BADPAT", dash) /\ UNCHANGED <<cls, sawAny>>
  /\ ClassUnchanged

ClassUnclosed ==
  /\ pc = "class" /\ At(pos) = NUL
  /\ Fail("EBRACK", start)
  /\ UNCHANGED <<pos, cls, sawAny>> /\ ClassUnchanged

\* The set, inverted when it is negated.
Closed == IF negate THEN Invert(cls) ELSE cls

ClassClose ==
  /\ pc = "class" /\ At(pos) = RBrack
  /\ pos' = pos + 1
  /\ UNCHANGED <<pattern, start, negate, sawAny, repeatMin, repeatMax, unbounded>>
  /\ IF sawAny
       THEN cls' = Closed /\ DeliverSet(cls')
       ELSE Fail("EBRACK", start) /\ UNCHANGED cls

-----------------------------------------------------------------------------
(* lex_repeat and lex_count *)

RepeatUnchanged == UNCHANGED <<pattern, start, cls, negate, sawAny>>

RepeatOpen ==
  /\ NewToken /\ At(pos) = LBrace
  /\ pos' = pos + 1 /\ pc' = "min0"
  /\ UNCHANGED <<pattern, negate, tokens, rc, errorAt>>

AtDigit == At(pos) \in Digit

\* Mutant: a bound may pass the limit by a digit.
FitsLate(value, digit) == value <= RepeatLimit

\* Whether value * 10 + digit is within the limit, asked without computing it.
Fits(value, digit) == value <= (RepeatLimit - digit) \div 10

\* The first digit of a bound is missing.
NoCount ==
  /\ pc \in {"min0", "max0"} /\ ~ AtDigit
  /\ Fail("EBRACE", pos)
  /\ UNCHANGED <<pos, repeatMin, repeatMax, unbounded>> /\ RepeatUnchanged

\* One digit of a bound.
CountDigit ==
  /\ pc \in {"min0", "min", "max0", "max"} /\ AtDigit
  /\ pos' = pos + 1
  /\ LET digit == At(pos) - 48
         isMin == pc \in {"min0", "min"}
         value == CASE pc = "min" -> repeatMin
                    [] pc = "max" -> repeatMax
                    [] OTHER      -> 0
     IN  IF Fits(value, digit)
           THEN /\ repeatMin' = IF isMin THEN 10 * value + digit ELSE repeatMin
                /\ repeatMax' = IF isMin THEN repeatMax ELSE 10 * value + digit
                /\ pc' = IF isMin THEN "min" ELSE "max"
                /\ UNCHANGED <<tokens, rc, errorAt>>
           ELSE Fail("BADRPT", start) /\ UNCHANGED <<repeatMin, repeatMax>>
  /\ UNCHANGED unbounded /\ RepeatUnchanged

\* {m} has its maximum from its minimum; {m,} none; {m,n} reads it.
MinDone ==
  /\ pc = "min" /\ ~ AtDigit
  /\ repeatMax' = repeatMin
  /\ unbounded' = (At(pos) = Comma /\ At(pos + 1) = RBrace)
  /\ IF At(pos) = Comma
       THEN /\ pos' = pos + 1
            /\ pc' = IF unbounded' THEN "brace" ELSE "max0"
       ELSE pc' = "brace" /\ UNCHANGED pos
  /\ UNCHANGED <<repeatMin, tokens, rc, errorAt>> /\ RepeatUnchanged

MaxDone ==
  /\ pc = "max" /\ ~ AtDigit
  /\ pc' = "brace"
  /\ UNCHANGED <<pos, repeatMin, repeatMax, unbounded, tokens, rc, errorAt>>
  /\ RepeatUnchanged

BraceMissing ==
  /\ pc = "brace" /\ At(pos) # RBrace
  /\ Fail("EBRACE", start)
  /\ UNCHANGED <<pos, repeatMin, repeatMax, unbounded>> /\ RepeatUnchanged

RepeatClose ==
  /\ pc = "brace" /\ At(pos) = RBrace
  /\ pos' = pos + 1
  /\ UNCHANGED <<repeatMin, repeatMax, unbounded>> /\ RepeatUnchanged
  /\ IF ~ unbounded /\ repeatMax < repeatMin
       THEN Fail("BADRPT", start)
       ELSE Deliver("REPEAT", {}, repeatMin, repeatMax, unbounded)

-----------------------------------------------------------------------------
Returned == pc = "done" /\ UNCHANGED vars

Next ==
  \/ Eof \/ Operator \/ Literal \/ Escape
  \/ ClassOpen \/ ElementBroken \/ Element \/ RangeElement
  \/ ClassUnclosed \/ ClassClose
  \/ RepeatOpen \/ NoCount \/ CountDigit \/ MinDone \/ MaxDone
  \/ BraceMissing \/ RepeatClose
  \/ Returned

\* The lexer is called until it has nothing more to say.
Spec == Init /\ [][Next]_vars

-----------------------------------------------------------------------------
\* The types.  pos never passes the NUL, whatever the pattern breaks off in, and
\* an error names a byte of the construct that is wrong.
TypeOK ==
  /\ pos \in 0 .. Len(pattern) - 1
  /\ start \in 0 .. pos
  /\ pc \in {"next", "class", "min0", "min", "max0", "max", "brace", "done"}
  /\ cls \subseteq Char
  /\ repeatMin \in 0 .. RepeatLimit /\ repeatMax \in 0 .. RepeatLimit
  /\ negate \in BOOLEAN /\ sawAny \in BOOLEAN /\ unbounded \in BOOLEAN
  /\ rc \in {"OK", "BADPAT", "EBRACK", "EBRACE", "BADRPT"}
  /\ errorAt \in IF rc = "OK" THEN {-1} ELSE start .. pos

-----------------------------------------------------------------------------
\* The pattern without the NUL.
Text == SubSeq(pattern, 1, Len(pattern) - 1)

\* The meaning of a construct that begins with the character c.
MeansAt(i, c) ==
  CASE c = LBrack    -> ClassAt(Text, i)
    [] c = LBrace    -> RepeatAt(Text, i, RepeatLimit)
    [] c = Backslash -> EscapeAt(Text, i)

\* The token that begins at i ends before end: a class behind its bracket, bounds
\* behind their brace, an escape behind the character escaped, and every other
\* token behind its only character.
EndsAt(i, end) ==
  IF At(i) \in {LBrack, LBrace, Backslash}
    THEN LET means == MeansAt(i + 1, At(i)) IN means.rc = "OK" /\ means.end = end + 1
    ELSE end = i + 1

\* Where the next token begins, or the one that is being read began.
Place == IF pc = "next" THEN pos ELSE start

\* Every token begins where the one before ended, as the text says it ends, and
\* the first at the first byte; so does the one that rx_lexer_next is reading or
\* failed in.  No byte of the pattern is skipped and none is read twice.  EOF is
\* delivered at the NUL, there only, and nothing behind it.
TokensAreContiguous ==
  /\ tokens = <<>> => Place = 0
  /\ \A i \in DOMAIN tokens :
       LET t    == tokens[i]
           next == IF i < Len(tokens) THEN tokens[i + 1].pos ELSE Place
       IN  /\ i = 1 => t.pos = 0
           /\ t.type = "EOF" <=> t.pos = Len(pattern) - 1
           /\ IF t.type = "EOF"
                THEN i = Len(tokens) /\ pc = "done"
                ELSE EndsAt(t.pos, next)

\* The last construct that begins with one of cs, when it was delivered.
JustDelivered(cs) ==
  /\ pc = "next" /\ tokens # <<>>
  /\ At(start) \in cs

\* The construct that the lexer gave up in.
JustRefused(cs) == rc # "OK" /\ At(start) \in cs

\* A class or an escape stands for exactly the bytes that the text names: all
\* ranges and escapes in it, a dash at its end by itself, the complement when
\* it is negated.  It ends where the text says, and it is refused exactly when
\* it is empty, not closed, or has a range that is none, with the place of what
\* is wrong: the class, the dash of its first wrong range, the end of the pattern.
ClassesAreDenoted ==
  /\ JustDelivered({LBrack, Backslash}) =>
       MeansAt(start + 1, At(start)) = MeansSet(tokens[Len(tokens)].cls, pos + 1)
  /\ JustRefused({LBrack, Backslash}) =>
       MeansAt(start + 1, At(start)) = Refused(rc, errorAt + 1)

\* Bounds have their decimal value; those up to the limit are accepted and
\* those above refused, however many digits there are.  An error names the brace,
\* or the place where a digit should stand.
BoundsAreExact ==
  /\ JustDelivered({LBrace}) =>
       LET t == tokens[Len(tokens)] IN
         MeansAt(start + 1, LBrace) = MeansBounds(t.min, t.max, t.unbounded, pos + 1)
  /\ JustRefused({LBrace}) => MeansAt(start + 1, LBrace) = Refused(rc, errorAt + 1)
=============================================================================
