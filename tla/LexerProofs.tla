----------------------------- MODULE LexerProofs -----------------------------
(***************************************************************************)
(* rx_lexer_next never reads behind the NUL, keeps its bounds within the   *)
(* limit without ever computing one beyond it, and splits the pattern      *)
(* without gap or overlap: for every pattern and every limit.              *)
(*                                                                         *)
(* What it reads character by character is what PatternText reads off the  *)
(* text at large.  Of a bound, the digits so far have the value of their   *)
(* text, and digits beyond the limit stay beyond it whatever follows; of a *)
(* class, the set so far and what the rest of the text means are together  *)
(* what the whole class means.                                             *)
(***************************************************************************)
EXTENDS Lexer, TLAPS, FiniteSetTheorems, WellFoundedInduction

-----------------------------------------------------------------------------
(* The pattern is a C string: its NUL is the last character and no other. *)

\* The position of the NUL.
Last == Len(pattern) - 1

IsCString ==
  /\ pattern \in Seq(Char) /\ Last \in Nat
  /\ \A i \in 0 .. Last : At(i) \in Char /\ (At(i) = NUL <=> i = Last)

TokenType ==
  {"DOT", "ALT", "STAR", "PLUS", "QUESTION", "LPAREN", "RPAREN", "ANCHOR_BEGIN",
   "ANCHOR_END", "CLASS", "REPEAT", "EOF"}

\* What is read is behind the last token that was delivered.
Token == [type : TokenType, pos : Nat, cls : SUBSET Char,
          min : Nat, max : Nat, unbounded : BOOLEAN]

Follows ==
  /\ tokens \in Seq(Token)
  /\ pc # "done" => rc = "OK"
  /\ pc \notin {"next", "done"} => start < pos
  /\ tokens = <<>> =>
       /\ pc = "next" => pos = 0
       /\ pc \notin {"next", "done"} => start = 0
  /\ tokens # <<>> /\ pc = "next" => tokens[Len(tokens)].pos < pos

\* A token begins behind the beginning of the one before, and EOF at the NUL.
StartsIncrease ==
  /\ \A i \in DOMAIN tokens :
       /\ i = 1 => tokens[i].pos = 0
       /\ i > 1 => tokens[i - 1].pos < tokens[i].pos
       /\ tokens[i].type = "EOF" <=> tokens[i].pos = Len(pattern) - 1
  /\ tokens # <<>> /\ pc \notin {"next", "done"} =>
       tokens[Len(tokens)].pos < start

Inv == IsCString /\ TypeOK /\ StartsIncrease /\ Follows

-----------------------------------------------------------------------------
\* The special characters are not the NUL.
LEMMA NulIsPlain ==
  /\ NUL \in Char /\ NUL \notin DOMAIN Simple
  /\ NUL \notin {Backslash, Caret, Dash, LBrack, RBrack, LBrace, RBrace, Comma}
  /\ NUL \notin Digit /\ Digit = 48 .. 57 /\ Digit \subseteq Char
<1>1. DOMAIN Simple = {46, 124, 42, 43, 63, 40, 41, 94, 36}
  BY DEF Simple
<1>2. Digit = 48 .. 57
  BY DEF Digit, AddRange
<1> QED
  BY <1>1, <1>2
     DEF NUL, Char, Backslash, Caret, Dash, LBrack, RBrack, LBrace, RBrace, Comma

\* No character but the NUL has the type of the end.
LEMMA SimpleType == \A c \in DOMAIN Simple : Simple[c] \in TokenType \ {"EOF"}
<1> SUFFICES ASSUME NEW c \in {46, 124, 42, 43, 63, 40, 41, 94, 36}
             PROVE  Simple[c] \in TokenType \ {"EOF"}
  BY DEF Simple
<1> DEFINE name ==
     CASE c = 46 -> "DOT" [] c = 124 -> "ALT" [] c = 42 -> "STAR"
       [] c = 43 -> "PLUS" [] c = 63 -> "QUESTION" [] c = 40 -> "LPAREN"
       [] c = 41 -> "RPAREN" [] c = 94 -> "ANCHOR_BEGIN"
       [] c = 36 -> "ANCHOR_END"
<1>1. Simple[c] = name
  BY Zenon DEF Simple
<1>2. name \in TokenType \ {"EOF"}
  BY DEF TokenType
<1> QED
  BY <1>1, <1>2

\* A character that is not the NUL has another one behind it.
LEMMA BeforeNul ==
  ASSUME IsCString, NEW i \in 0 .. Last, At(i) # NUL
  PROVE  i + 1 \in 0 .. Last
BY DEF IsCString

\* What lexer_peek may be followed by stays in the string.
LEMMA BehindType ==
  ASSUME IsCString, NEW i \in 0 .. Last
  PROVE  Behind(i) \in i .. Last /\ Behind(i) \in 0 .. Last
BY DEF IsCString, Behind

\* Sets of characters.
LEMMA SetTypes ==
  /\ \A c \in Char : EscapeSet(c) \subseteq Char
  /\ \A S : Invert(S) \subseteq Char
  /\ \A S \in SUBSET Char : \A a, b \in Char : AddRange(S, a, b) \subseteq Char
<1>1. \A c \in Char : EscapeSet(c) \subseteq Char
  <2>1. Digit \subseteq Char /\ Word \subseteq Char /\ Space \subseteq Char
    BY DEF Digit, Word, Space, AddRange, Char
  <2>2. {10} \subseteq Char /\ {9} \subseteq Char /\ {13} \subseteq Char
    BY DEF Char
  <2>3. \A S : Invert(S) \subseteq Char
    BY DEF Invert
  <2> QED
    BY <2>1, <2>2, <2>3 DEF EscapeSet
<1>2. \A S : Invert(S) \subseteq Char
  BY DEF Invert
<1>3. \A S \in SUBSET Char : \A a, b \in Char : AddRange(S, a, b) \subseteq Char
  BY DEF AddRange, Char
<1> QED
  BY <1>1, <1>2, <1>3

\* An element of a class ends within the string, and so does a dash behind it.
LEMMA ElementType ==
  ASSUME IsCString, NEW i \in 0 .. Last, At(i) # NUL
  PROVE  /\ ElementOk(i) => /\ ElementEnd(i) \in i + 1 .. Last
                            /\ ElementSet(i) \subseteq Char
         /\ ~ ElementOk(i) => i + 1 = Last
         /\ IsRange(i) => i + 1 \in 0 .. Last /\ At(i + 1) # NUL
<1>1. i + 1 \in 0 .. Last /\ Last \in Nat
  BY BeforeNul DEF IsCString
<1>2. At(i + 1) # NUL => i + 2 \in 0 .. Last
  BY <1>1, BeforeNul
<1>3. At(i) \in Char /\ At(i + 1) \in Char /\ (At(i + 1) = NUL <=> i + 1 = Last)
  BY <1>1 DEF IsCString
<1>4. ElementOk(i) => ElementEnd(i) \in i + 1 .. Last
  BY <1>1, <1>2 DEF ElementOk, ElementEnd
<1>5. ElementSet(i) \subseteq Char
  BY <1>3, SetTypes DEF ElementSet
<1>6. ~ ElementOk(i) => i + 1 = Last
  BY <1>3 DEF ElementOk
<1>7. IsRange(i) => i + 1 \in 0 .. Last /\ At(i + 1) # NUL
  BY <1>1 DEF IsRange
<1> QED
  BY <1>4, <1>5, <1>6, <1>7

\* The check that comes before value * 10 + digit admits exactly the bounds up
\* to the limit, for any limit of at least one digit.
THEOREM BoundFits ==
  ASSUME NEW value \in Nat, NEW digit \in 0 .. 9
  PROVE  Fits(value, digit) <=> 10 * value + digit <= RepeatLimit
<1>1. RepeatLimit \in Nat /\ RepeatLimit >= 9
  BY LexerAssumption DEF LexerAssumption
<1> QED
  BY <1>1 DEF Fits

-----------------------------------------------------------------------------
(* A step goes on with a token, fails or delivers it. *)

\* The values read so far.
FlagsOK == negate \in BOOLEAN /\ sawAny \in BOOLEAN /\ unbounded \in BOOLEAN

ValuesOK ==
  /\ cls \subseteq Char
  /\ repeatMin \in 0 .. RepeatLimit /\ repeatMax \in 0 .. RepeatLimit
  /\ FlagsOK

\* A token begins where the last one ended.
Begun == start' = IF pc = "next" THEN pos ELSE start

\* What every step of the lexer has in common.
Reads ==
  /\ pc # "done" /\ UNCHANGED pattern
  /\ Begun /\ ValuesOK' /\ pos' \in 0 .. Last /\ start' <= pos'

\* What the invariant says where a token is begun or continued.
LEMMA BegunFacts ==
  ASSUME Inv, Reads
  PROVE  /\ start' \in Nat /\ start' \in 0 .. pos'
         /\ rc = "OK" /\ errorAt = -1 /\ tokens \in Seq(Token) /\ Last \in Nat
         /\ tokens = <<>> => start' = 0
         /\ tokens # <<>> => tokens[Len(tokens)].pos < start'
         /\ IsCString' /\ Last' = Last
<1>1. IsCString' /\ Last' = Last
  BY DEF Reads, Inv, IsCString, Last, At
<1>2. pos \in Nat /\ start \in Nat /\ Last \in Nat
  BY DEF Inv, IsCString, TypeOK, Last
<1>3. start' \in Nat /\ start' \in 0 .. pos'
  BY <1>2 DEF Reads, Begun
<1>4. rc = "OK" /\ errorAt = -1 /\ tokens \in Seq(Token)
  BY DEF Reads, Inv, Follows, TypeOK
<1>5. tokens = <<>> => start' = 0
  BY DEF Reads, Begun, Inv, Follows
<1>6. tokens # <<>> => tokens[Len(tokens)].pos < start'
  BY DEF Reads, Begun, Inv, Follows, StartsIncrease
<1> QED
  BY <1>1, <1>2, <1>3, <1>4, <1>5, <1>6

\* The parts of the type invariant.
LEMMA TypesFromValues ==
  ASSUME IsCString', ValuesOK', pos' \in 0 .. Last', start' \in 0 .. pos',
         pc' \in {"next", "class", "min0", "min", "max0", "max", "brace", "done"},
         rc' \in {"OK", "BADPAT", "EBRACK", "EBRACE", "BADRPT"},
         errorAt' \in IF rc' = "OK" THEN {-1} ELSE start' .. pos'
  PROVE  TypeOK'
BY DEF TypeOK, ValuesOK, FlagsOK, Last

\* On to the next character of the same token.
LEMMA GoesOn ==
  ASSUME Inv, Reads, UNCHANGED <<tokens, rc, errorAt>>, start' < pos',
         pc' \in {"class", "min0", "min", "max0", "max", "brace"}
  PROVE  Inv'
<1>1. TypeOK'
  BY BegunFacts, TypesFromValues DEF Reads
<1>2. StartsIncrease'
  BY BegunFacts DEF Inv, StartsIncrease, Reads
<1>3. Follows'
  BY BegunFacts DEF Follows
<1> QED
  BY <1>1, <1>2, <1>3, BegunFacts DEF Inv

\* An error: the tokens stay as they are.
LEMMA Fails ==
  ASSUME Inv, Reads, NEW status \in {"BADPAT", "EBRACK", "EBRACE", "BADRPT"},
         NEW where \in start' .. pos', Fail(status, where)
  PROVE  Inv'
<1>0. rc' = status /\ errorAt' = where /\ pc' = "done" /\ tokens' = tokens
  BY DEF Fail
<1>1. TypeOK'
  BY <1>0, BegunFacts, TypesFromValues DEF Reads
<1>2. StartsIncrease'
  BY <1>0, BegunFacts DEF Inv, StartsIncrease, Reads, Last
<1>3. Follows'
  BY <1>0, BegunFacts DEF Follows
<1> QED
  BY <1>1, <1>2, <1>3, BegunFacts DEF Inv

\* A token that takes at least a byte, or the one at the NUL.
LEMMA Delivers ==
  ASSUME Inv, Reads, NEW type \in TokenType, NEW set \in SUBSET Char,
         NEW min \in Nat, NEW max \in Nat, NEW open \in BOOLEAN,
         Deliver(type, set, min, max, open),
         type = "EOF" => start' = Last,
         type # "EOF" => start' < pos'
  PROVE  Inv'
<1> DEFINE tok == [type |-> type, pos |-> start', cls |-> set,
                   min |-> min, max |-> max, unbounded |-> open]
<1>1. /\ tokens' = Append(tokens, tok) /\ UNCHANGED <<rc, errorAt>>
      /\ pc' = IF type = "EOF" THEN "done" ELSE "next"
  BY DEF Deliver
<1>2. tok \in Token /\ tok.pos = start' /\ tok.type = type
  BY BegunFacts DEF Token
<1> HIDE DEF tok
<1>3. /\ tokens' \in Seq(Token) /\ Len(tokens') = Len(tokens) + 1 /\ Len(tokens) \in Nat
      /\ tokens'[Len(tokens) + 1] = tok /\ DOMAIN tokens' = 1 .. Len(tokens) + 1
      /\ \A i \in 1 .. Len(tokens) : tokens'[i] = tokens[i]
      /\ DOMAIN tokens = 1 .. Len(tokens) /\ tokens' # <<>>
  BY <1>1, <1>2, BegunFacts
<1>4. TypeOK'
  BY <1>1, BegunFacts, TypesFromValues DEF Reads
<1>5. tok.type = "EOF" <=> tok.pos = Last
  BY <1>2, BegunFacts DEF Reads
<1>6. ASSUME NEW i \in 1 .. Len(tokens) + 1
      PROVE  /\ i = 1 => tokens'[i].pos = 0
             /\ i > 1 => tokens'[i - 1].pos < tokens'[i].pos
             /\ tokens'[i].type = "EOF" <=> tokens'[i].pos = Last
  <2>1. CASE i = Len(tokens) + 1
    <3>1. i > 1 => tokens # <<>> /\ Len(tokens) \in 1 .. Len(tokens) /\ i - 1 = Len(tokens)
      BY <1>3, <2>1
    <3>2. i = 1 => tokens = <<>>
      BY <1>3, <2>1, BegunFacts
    <3> QED
      BY <1>2, <1>3, <1>5, <2>1, <3>1, <3>2, BegunFacts
  <2>2. CASE i # Len(tokens) + 1
    <3>1. i \in 1 .. Len(tokens) /\ (i > 1 => i - 1 \in 1 .. Len(tokens))
      BY <1>3, <2>2
    <3>2. /\ i = 1 => tokens[i].pos = 0
          /\ i > 1 => tokens[i - 1].pos < tokens[i].pos
          /\ tokens[i].type = "EOF" <=> tokens[i].pos = Last
      BY <1>3, <3>1 DEF Inv, StartsIncrease, Last
    <3> QED
      BY <1>3, <3>1, <3>2
  <2> QED
    BY <2>1, <2>2
<1>7. StartsIncrease'
  <2>1. Len(pattern') - 1 = Last
    BY BegunFacts DEF Last
  <2>2. pc' \in {"next", "done"}
    BY <1>1
  <2> QED
    BY <1>3, <1>6, <2>1, <2>2 DEF StartsIncrease
<1>8. Follows'
  BY <1>1, <1>2, <1>3, BegunFacts DEF Follows
<1> QED
  BY <1>4, <1>7, <1>8, BegunFacts DEF Inv

\* The types and the sets of tokens that are not read from the pattern.
LEMMA Types ==
  "CLASS" \in TokenType /\ "EOF" \in TokenType /\ "REPEAT" \in TokenType /\ {} \in SUBSET Char
BY DEF TokenType

\* A token without bounds.
DeliverPlain(type, set) == Deliver(type, set, 0, 0, FALSE)

\* So does a token without values.
LEMMA DeliversPlain ==
  ASSUME Inv, Reads, NEW type \in TokenType, NEW set \in SUBSET Char,
         DeliverPlain(type, set),
         type = "EOF" => start' = Last,
         type # "EOF" => start' < pos'
  PROVE  Inv'
<1>1. 0 \in Nat /\ FALSE \in BOOLEAN
  OBVIOUS
<1> QED
  BY <1>1, Delivers, Zenon DEF DeliverPlain

-----------------------------------------------------------------------------
\* rx_lexer_init.
LEMMA InvInit == Init => Inv
<1> SUFFICES ASSUME Init PROVE Inv
  OBVIOUS
<1>1. PICK s \in Patterns : pattern = Append(s, NUL)
  BY DEF Init
<1>2. s \in Seq(Char \ {NUL})
  BY <1>1, LexerAssumption DEF LexerAssumption
<1>3. /\ pattern \in Seq(Char) /\ Len(pattern) = Len(s) + 1 /\ Len(s) \in Nat
      /\ pattern[Len(s) + 1] = NUL
      /\ \A i \in 1 .. Len(s) : pattern[i] \in Char \ {NUL}
  <2>1. s \in Seq(Char) /\ \A i \in 1 .. Len(s) : s[i] \in Char \ {NUL}
    BY <1>2
  <2> QED
    BY <1>1, <2>1, NulIsPlain
<1>4. Last = Len(s)
  BY <1>3 DEF Last
<1>5. ASSUME NEW i \in 0 .. Last
      PROVE  At(i) \in Char /\ (At(i) = NUL <=> i = Last)
  <2>1. i + 1 \in 1 .. Len(s) \/ i = Len(s)
    BY <1>3, <1>4
  <2>2. i + 1 \in 1 .. Len(s) => i # Len(s)
    BY <1>3
  <2> QED
    BY <1>3, <1>4, <2>1, <2>2, NulIsPlain DEF At
<1>6. IsCString
  BY <1>3, <1>4, <1>5 DEF IsCString
<1>7. TypeOK
  <2>1. negate \in BOOLEAN /\ sawAny \in BOOLEAN /\ unbounded \in BOOLEAN
    BY Zenon DEF Init
  <2>2. RepeatLimit \in Nat /\ {} \subseteq Char
    BY LexerAssumption DEF LexerAssumption
  <2>3. /\ pos \in 0 .. Len(pattern) - 1 /\ start \in 0 .. pos
        /\ repeatMin \in 0 .. RepeatLimit /\ repeatMax \in 0 .. RepeatLimit
    BY <1>3, <2>2 DEF Init
  <2>4. /\ pc = "next" /\ cls = {} /\ rc = "OK" /\ errorAt = -1
    BY DEF Init
  <2> QED
    BY <2>1, <2>2, <2>3, <2>4 DEF TypeOK
<1>8. StartsIncrease /\ Follows
  BY DEF Init, StartsIncrease, Follows
<1> QED
  BY <1>6, <1>7, <1>8 DEF Inv

\* Where the lexer stands.
LEMMA InvFacts ==
  ASSUME Inv
  PROVE  /\ IsCString /\ ValuesOK /\ pos \in 0 .. Last /\ Last \in Nat /\ pos \in Nat
         /\ FlagsOK /\ start \in Nat /\ At(pos) \in Char
         /\ RepeatLimit \in Nat /\ 0 \in 0 .. RepeatLimit
         /\ pc \notin {"next", "done"} => start < pos
<1>1. RepeatLimit \in Nat
  BY LexerAssumption DEF LexerAssumption
<1>2. IsCString /\ ValuesOK /\ pos \in 0 .. Last /\ Last \in Nat /\ start \in 0 .. pos
  BY DEF Inv, IsCString, TypeOK, ValuesOK, FlagsOK, Last
<1> QED
  BY <1>1, <1>2 DEF Inv, IsCString, Follows, ValuesOK

\* A token begins: the types of what is reset.
LEMMA NewTokenReads ==
  ASSUME Inv, NewToken, UNCHANGED pattern, negate' \in BOOLEAN, pos' \in pos .. Last
  PROVE  Reads /\ start' = pos
<1>1. FlagsOK'
  BY Zenon DEF NewToken, FlagsOK
<1>2. ValuesOK'
  BY <1>1, InvFacts DEF NewToken, ValuesOK
<1>3. pc = "next" /\ start' = pos
  BY DEF NewToken
<1> QED
  BY <1>2, <1>3, InvFacts DEF Reads, Begun

\* What the tokens of one character keep.
LEMMA NegateKept ==
  ASSUME Inv, UNCHANGED negate
  PROVE  negate' \in BOOLEAN
BY InvFacts, Zenon DEF FlagsOK

\* The NUL ends the pattern.
LEMMA EofStep == Inv /\ Eof => Inv'
<1> SUFFICES ASSUME Inv, Eof PROVE Inv'
  OBVIOUS
<1>1. pos = Last /\ pos' = pos
  BY InvFacts DEF Eof, Behind, IsCString
<1>2. Reads /\ start' = pos
  BY <1>1, InvFacts, NegateKept, NewTokenReads DEF Eof
<1>3. DeliverPlain("EOF", {})
  BY DEF Eof, DeliverPlain
<1> QED
  BY <1>1, <1>2, <1>3, Types, DeliversPlain

\* A token of one character.
LEMMA CharacterStep == Inv /\ (Operator \/ Literal) => Inv'
<1> SUFFICES ASSUME Inv, Operator \/ Literal PROVE Inv'
  OBVIOUS
<1>1. At(pos) # NUL /\ pos' = pos + 1
  BY NulIsPlain DEF Operator, Literal
<1>2. pos' \in 0 .. Last /\ pos < pos' /\ pos' \in pos .. Last
  BY <1>1, InvFacts, BeforeNul
<1>3. Reads /\ start' = pos
  BY <1>2, NegateKept, NewTokenReads DEF Operator, Literal
<1>4. CASE Operator
  <2>1. Simple[At(pos)] \in TokenType /\ Simple[At(pos)] # "EOF"
    BY <1>4, SimpleType DEF Operator
  <2>2. DeliverPlain(Simple[At(pos)], {})
    BY <1>4 DEF Operator, DeliverPlain
  <2> QED
    BY <1>2, <1>3, <2>1, <2>2, Types, DeliversPlain
<1>5. CASE Literal
  <2>1. DeliverPlain("CLASS", {At(pos)})
    BY <1>5 DEF Literal, DeliverSet, DeliverPlain
  <2>2. {At(pos)} \in SUBSET Char
    BY InvFacts
  <2> QED
    BY <1>2, <1>3, <2>1, <2>2, Types, DeliversPlain
<1> QED
  BY <1>4, <1>5

\* An escape takes one more byte, unless that is the NUL.
LEMMA EscapeStep == Inv /\ Escape => Inv'
<1> SUFFICES ASSUME Inv, Escape PROVE Inv'
  OBVIOUS
<1>1. At(pos) # NUL /\ pos' = Behind(pos + 1)
  BY NulIsPlain DEF Escape
<1>2. pos + 1 \in 0 .. Last /\ At(pos + 1) \in Char
  BY <1>1, InvFacts, BeforeNul DEF IsCString
<1>3. pos' \in pos + 1 .. Last /\ pos < pos' /\ pos' \in pos .. Last
  BY <1>1, <1>2, BehindType, InvFacts
<1>4. Reads /\ start' = pos
  BY <1>3, NegateKept, NewTokenReads DEF Escape
<1>5. CASE At(pos + 1) = NUL
  <2>1. Fail("BADPAT", pos')
    BY <1>5 DEF Escape
  <2>2. pos' \in start' .. pos'
    BY <1>3, <1>4, InvFacts
  <2> QED
    BY <1>4, <2>1, <2>2, Fails
<1>6. CASE At(pos + 1) # NUL
  <2>1. DeliverPlain("CLASS", EscapeSet(At(pos + 1)))
    BY <1>6 DEF Escape, DeliverSet, DeliverPlain
  <2>2. EscapeSet(At(pos + 1)) \in SUBSET Char
    BY <1>2, SetTypes
  <2> QED
    BY <1>3, <1>4, <2>1, <2>2, Types, DeliversPlain
<1> QED
  BY <1>5, <1>6

-----------------------------------------------------------------------------
(* lex_class *)

\* An opening bracket, with its caret.
LEMMA ClassOpenStep == Inv /\ ClassOpen => Inv'
<1> SUFFICES ASSUME Inv, ClassOpen PROVE Inv'
  OBVIOUS
<1>1. At(pos) # NUL
  BY NulIsPlain DEF ClassOpen
<1>2. pos + 1 \in 0 .. Last /\ (At(pos + 1) = Caret => (pos + 1) + 1 \in 0 .. Last)
  BY <1>1, InvFacts, BeforeNul, NulIsPlain
<1>3. pos' \in pos .. Last /\ pos < pos'
  BY <1>2, InvFacts DEF ClassOpen
<1>4. Reads /\ start' = pos
  <2>1. negate' \in BOOLEAN
    BY Zenon DEF ClassOpen
  <2> QED
    BY <1>3, <2>1, NewTokenReads DEF ClassOpen
<1> QED
  BY <1>3, <1>4, GoesOn DEF ClassOpen

\* A step within a class that goes on in the pattern.
LEMMA ClassReads ==
  ASSUME Inv, pc = "class", ClassUnchanged, cls' \subseteq Char, sawAny' \in BOOLEAN,
         pos' \in pos .. Last
  PROVE  Reads /\ start' = start /\ start' < pos' /\ start' \in start' .. pos'
         /\ pos' \in start' .. pos'
<1>1. FlagsOK'
  BY InvFacts, Zenon DEF ClassUnchanged, FlagsOK
<1>2. ValuesOK'
  BY <1>1, InvFacts DEF ClassUnchanged, ValuesOK
<1>3. start' = start /\ pattern' = pattern /\ start < pos
  BY InvFacts DEF ClassUnchanged
<1> QED
  BY <1>2, <1>3, InvFacts DEF Reads, Begun

\* Where the elements and the dash between them end.
LEMMA InClassFacts ==
  ASSUME Inv, InClass
  PROVE  /\ pc = "class" /\ At(pos) # NUL /\ pos + 1 \in 0 .. Last
         /\ sawAny \in BOOLEAN /\ cls \subseteq Char
         /\ ElementOk(pos) =>
              /\ ElementEnd(pos) \in pos + 1 .. Last
              /\ ElementEnd(pos) \in 0 .. Last
              /\ ElementSet(pos) \subseteq Char
              /\ IsRange(ElementEnd(pos)) =>
                   /\ ElementEnd(pos) + 1 \in 0 .. Last
                   /\ At(ElementEnd(pos) + 1) # NUL
<1>1. pc = "class" /\ At(pos) # NUL /\ sawAny \in BOOLEAN /\ cls \subseteq Char
  BY InvFacts DEF InClass, ValuesOK, FlagsOK
<1>2. pos + 1 \in 0 .. Last
  BY <1>1, InvFacts, BeforeNul
<1>3. ElementOk(pos) => ElementEnd(pos) \in pos + 1 .. Last /\ ElementSet(pos) \subseteq Char
  BY <1>1, InvFacts, ElementType
<1>4. ElementOk(pos) => ElementEnd(pos) \in 0 .. Last
  BY <1>2, <1>3
<1>5. ASSUME ElementOk(pos), IsRange(ElementEnd(pos))
      PROVE  ElementEnd(pos) + 1 \in 0 .. Last /\ At(ElementEnd(pos) + 1) # NUL
  <2>1. At(ElementEnd(pos)) = Dash
    BY <1>5 DEF IsRange
  <2>2. At(ElementEnd(pos)) # NUL
    BY <2>1, NulIsPlain
  <2> QED
    BY <1>4, <1>5, <2>2, InvFacts, ElementType
<1> QED
  BY <1>1, <1>2, <1>3, <1>4, <1>5

\* An element that breaks off at the NUL.
LEMMA ElementBrokenStep == Inv /\ ElementBroken => Inv'
<1> SUFFICES ASSUME Inv, ElementBroken PROVE Inv'
  OBVIOUS
<1> DEFINE e == IF ~ ElementOk(pos) THEN pos ELSE ElementEnd(pos) + 1
<1>1. /\ InClass
      /\ ElementOk(pos) => IsRange(ElementEnd(pos)) /\ ~ ElementOk(e)
      /\ pos' = Behind(e + 1) /\ Fail("BADPAT", pos')
      /\ UNCHANGED <<cls, sawAny>> /\ ClassUnchanged
  BY DEF ElementBroken
<1>2. e \in 0 .. Last /\ At(e) # NUL /\ pos <= e
  <2>1. CASE ElementOk(pos)
    BY <1>1, <2>1, InClassFacts, InvFacts
  <2>2. CASE ~ ElementOk(pos)
    BY <1>1, <2>2, InClassFacts, InvFacts
  <2> QED
    BY <2>1, <2>2
<1>3. e + 1 \in 0 .. Last
  BY <1>2, InvFacts, BeforeNul
<1> HIDE DEF e
<1>4. pos' \in pos .. Last
  <2>1. Behind(e + 1) \in e + 1 .. Last
    BY <1>3, InvFacts, BehindType
  <2> QED
    BY <1>1, <1>2, <2>1, InvFacts
<1>5. Reads /\ pos' \in start' .. pos'
  <2>1. cls' \subseteq Char /\ pc = "class"
    BY <1>1, InClassFacts
  <2>2. sawAny' \in BOOLEAN
    BY <1>1, InClassFacts, Zenon
  <2> QED
    BY <1>1, <1>4, <2>1, <2>2, ClassReads
<1> QED
  BY <1>1, <1>5, Fails

\* An element by itself.
LEMMA ElementStep == Inv /\ Element => Inv'
<1> SUFFICES ASSUME Inv, Element PROVE Inv'
  OBVIOUS
<1>1. /\ InClass /\ ElementOk(pos) /\ cls' = cls \cup ElementSet(pos)
      /\ pos' = ElementEnd(pos) /\ sawAny' = TRUE /\ ClassUnchanged
      /\ UNCHANGED <<pc, tokens, rc, errorAt>>
  BY DEF Element
<1>2. pos' \in pos .. Last /\ cls' \subseteq Char
  BY <1>1, InClassFacts, InvFacts
<1>3. Reads /\ start' < pos'
  <2>1. sawAny' \in BOOLEAN
    BY <1>1, Zenon
  <2> QED
    BY <1>1, <1>2, <2>1, InClassFacts, ClassReads
<1> QED
  BY <1>1, <1>3, GoesOn, InClassFacts

\* An element that begins a range.
LEMMA RangeElementStep == Inv /\ RangeElement => Inv'
<1> SUFFICES ASSUME Inv, RangeElement PROVE Inv'
  OBVIOUS
<1> DEFINE dash == ElementEnd(pos)
<1>1. /\ InClass /\ ElementOk(pos) /\ IsRange(dash) /\ ElementOk(dash + 1)
      /\ pos' = ElementEnd(dash + 1) /\ ClassUnchanged
  BY DEF RangeElement
<1>2. /\ dash \in pos + 1 .. Last /\ dash + 1 \in 0 .. Last /\ At(dash + 1) # NUL
      /\ ElementSet(pos) \subseteq Char
  BY <1>1, InClassFacts
<1>3. pos' \in dash + 1 .. Last /\ ElementSet(dash + 1) \subseteq Char
  <2>1. ElementEnd(dash + 1) \in (dash + 1) + 1 .. Last /\ ElementSet(dash + 1) \subseteq Char
    BY <1>1, <1>2, InvFacts, ElementType
  <2> QED
    BY <1>1, <1>2, <2>1, InvFacts
<1>4. CASE BoundsInOrder(ElementSet(pos), ElementSet(dash + 1))
  <2>1. /\ \E a \in ElementSet(pos), b \in ElementSet(dash + 1) : cls' = AddRange(cls, a, b)
        /\ sawAny' = TRUE /\ UNCHANGED <<pc, tokens, rc, errorAt>>
    BY <1>4 DEF RangeElement
  <2>2. cls' \subseteq Char
    BY <1>1, <1>2, <1>3, <2>1, SetTypes, InClassFacts
  <2>3. pos' \in pos .. Last
    BY <1>2, <1>3, InvFacts
  <2>4. Reads /\ start' < pos'
    <3>1. sawAny' \in BOOLEAN
      BY <2>1, Zenon
    <3> QED
      BY <1>1, <2>2, <2>3, <3>1, InClassFacts, ClassReads
  <2> QED
    BY <1>1, <2>1, <2>4, GoesOn, InClassFacts
<1>5. CASE ~ BoundsInOrder(ElementSet(pos), ElementSet(dash + 1))
  <2>1. Fail("BADPAT", dash) /\ UNCHANGED <<cls, sawAny>>
    BY <1>5 DEF RangeElement
  <2>2. pos' \in pos .. Last
    BY <1>2, <1>3, InvFacts
  <2>3. Reads /\ start' = start
    <3>1. cls' \subseteq Char
      BY <1>1, <2>1, InClassFacts
    <3>2. sawAny' \in BOOLEAN
      BY <1>1, <2>1, InClassFacts, Zenon
    <3> QED
      BY <1>1, <2>2, <3>1, <3>2, InClassFacts, ClassReads
  <2>4. dash \in start' .. pos'
    BY <1>1, <1>2, <1>3, <2>3, InvFacts, InClassFacts
  <2> QED
    BY <2>1, <2>3, <2>4, Fails
<1> QED
  BY <1>4, <1>5

\* The end of a class.
LEMMA ClassEndStep == Inv /\ (ClassUnclosed \/ ClassClose) => Inv'
<1> SUFFICES ASSUME Inv, ClassUnclosed \/ ClassClose PROVE Inv'
  OBVIOUS
<1>0. cls \subseteq Char /\ start \in Nat /\ pos \in Nat
  BY InvFacts DEF ValuesOK
<1>1. CASE ClassUnclosed
  <2>1. /\ pc = "class" /\ Fail("EBRACK", start)
        /\ UNCHANGED <<pos, cls, sawAny>> /\ ClassUnchanged
    BY <1>1 DEF ClassUnclosed
  <2>2. sawAny' \in BOOLEAN
    BY <2>1, InvFacts, Zenon DEF FlagsOK
  <2>3. Reads /\ start' = start /\ start' \in start' .. pos'
    BY <1>0, <2>1, <2>2, ClassReads, InvFacts
  <2> QED
    BY <2>1, <2>3, Fails
<1>2. CASE ClassClose
  <2>1. /\ pc = "class" /\ pos' = pos + 1 /\ At(pos) # NUL /\ ClassUnchanged
    BY <1>2, NulIsPlain DEF ClassClose, ClassUnchanged
  <2>2. pos' \in pos .. Last
    BY <2>1, InvFacts, BeforeNul
  <2>3. sawAny' \in BOOLEAN
    BY <1>2, InvFacts, Zenon DEF ClassClose, FlagsOK
  <2>4. CASE sawAny
    <3>1. cls' = Closed /\ DeliverPlain("CLASS", cls')
      BY <1>2, <2>4 DEF ClassClose, DeliverSet, DeliverPlain
    <3>2. cls' \in SUBSET Char
      BY <1>0, <3>1, SetTypes DEF Closed
    <3>3. Reads /\ start' < pos'
      BY <2>1, <2>2, <2>3, <3>2, ClassReads
    <3> QED
      BY <3>1, <3>2, <3>3, Types, DeliversPlain
  <2>5. CASE ~ sawAny
    <3>1. Fail("EBRACK", start) /\ cls' = cls
      BY <1>2, <2>5 DEF ClassClose
    <3>2. Reads /\ start' = start /\ start' \in start' .. pos'
      BY <1>0, <2>1, <2>2, <2>3, <3>1, ClassReads
    <3> QED
      BY <3>1, <3>2, Fails
  <2> QED
    BY <2>4, <2>5
<1> QED
  BY <1>1, <1>2

-----------------------------------------------------------------------------
(* lex_repeat and lex_count *)

\* A step within a bound that stays within the limit.
LEMMA RepeatReads ==
  ASSUME Inv, pc \in {"min0", "min", "max0", "max", "brace"}, RepeatUnchanged,
         repeatMin' \in 0 .. RepeatLimit, repeatMax' \in 0 .. RepeatLimit,
         unbounded' \in BOOLEAN, pos' \in pos .. Last
  PROVE  Reads /\ start' = start /\ start' < pos' /\ start' \in start' .. pos'
<1>1. FlagsOK'
  BY InvFacts, Zenon DEF RepeatUnchanged, FlagsOK
<1>2. ValuesOK'
  BY <1>1, InvFacts DEF RepeatUnchanged, ValuesOK
<1>3. start' = start /\ pattern' = pattern /\ start < pos
  BY InvFacts DEF RepeatUnchanged
<1> QED
  BY <1>2, <1>3, InvFacts DEF Reads, Begun

\* What the steps of a bound find.
LEMMA RepeatFacts ==
  ASSUME Inv
  PROVE  /\ repeatMin \in 0 .. RepeatLimit /\ repeatMax \in 0 .. RepeatLimit
         /\ pos \in pos .. Last /\ start \in Nat /\ pos \in Nat
         /\ UNCHANGED unbounded => unbounded' \in BOOLEAN
<1>1. UNCHANGED unbounded => unbounded' \in BOOLEAN
  BY InvFacts, Zenon DEF FlagsOK
<1> QED
  BY <1>1, InvFacts DEF ValuesOK

\* An opening brace.
LEMMA RepeatOpenStep == Inv /\ RepeatOpen => Inv'
<1> SUFFICES ASSUME Inv, RepeatOpen PROVE Inv'
  OBVIOUS
<1>1. At(pos) # NUL /\ pos' = pos + 1
  BY NulIsPlain DEF RepeatOpen
<1>2. pos' \in pos .. Last /\ pos < pos'
  BY <1>1, InvFacts, BeforeNul
<1>3. Reads /\ start' = pos
  BY <1>2, NegateKept, NewTokenReads DEF RepeatOpen
<1> QED
  BY <1>2, <1>3, GoesOn DEF RepeatOpen

\* A brace without a count.
LEMMA NoCountStep == Inv /\ NoCount => Inv'
<1> SUFFICES ASSUME Inv, NoCount PROVE Inv'
  OBVIOUS
<1>1. /\ pc \in {"min0", "max0"} /\ Fail("EBRACE", pos) /\ RepeatUnchanged
      /\ UNCHANGED <<pos, repeatMin, repeatMax, unbounded>>
  BY DEF NoCount
<1>2. Reads /\ start' = start /\ start' < pos'
  BY <1>1, RepeatFacts, RepeatReads
<1>3. pos \in start' .. pos'
  BY <1>1, <1>2, RepeatFacts
<1> QED
  BY <1>1, <1>2, <1>3, Fails

\* A bound that fits is within the limit with its next digit.
LEMMA CountDigitStep == Inv /\ CountDigit => Inv'
<1> SUFFICES ASSUME Inv, CountDigit PROVE Inv'
  OBVIOUS
<1> DEFINE digit == At(pos) - 48
           isMin == pc \in {"min0", "min"}
           value == CASE pc = "min" -> repeatMin
                      [] pc = "max" -> repeatMax
                      [] OTHER      -> 0
<1>1. /\ pc \in {"min0", "min", "max0", "max"} /\ At(pos) \in Digit
      /\ pos' = pos + 1 /\ UNCHANGED unbounded /\ RepeatUnchanged
  BY DEF CountDigit, AtDigit
<1>2. pos' \in pos .. Last /\ At(pos) # NUL
  BY <1>1, NulIsPlain, InvFacts, BeforeNul
<1>3. digit \in 0 .. 9 /\ value \in Nat
  <2>1. At(pos) \in 48 .. 57
    BY <1>1, NulIsPlain
  <2> QED
    BY <1>1, <2>1, RepeatFacts, InvFacts
<1>4. CASE Fits(value, digit)
  <2> HIDE DEF digit, value
  <2>1. 10 * value + digit \in 0 .. RepeatLimit
    <3>1. 10 * value + digit <= RepeatLimit
      BY <1>3, <1>4, BoundFits
    <3> QED
      BY <1>3, <3>1, InvFacts
  <2>2. /\ repeatMin' = IF isMin THEN 10 * value + digit ELSE repeatMin
        /\ repeatMax' = IF isMin THEN repeatMax ELSE 10 * value + digit
        /\ pc' = IF isMin THEN "min" ELSE "max"
        /\ UNCHANGED <<tokens, rc, errorAt>>
    BY <1>4 DEF CountDigit, digit, value
  <2> HIDE DEF isMin
  <2>3. repeatMin' \in 0 .. RepeatLimit /\ repeatMax' \in 0 .. RepeatLimit
    BY <2>1, <2>2, RepeatFacts
  <2>4. Reads /\ start' < pos'
    BY <1>1, <1>2, <2>3, RepeatFacts, RepeatReads
  <2>5. pc' \in {"class", "min0", "min", "max0", "max", "brace"}
    BY <2>2
  <2> QED
    BY <2>2, <2>4, <2>5, GoesOn
<1>5. CASE ~ Fits(value, digit)
  <2>1. Fail("BADRPT", start) /\ UNCHANGED <<repeatMin, repeatMax>>
    BY <1>5 DEF CountDigit
  <2>2. repeatMin' \in 0 .. RepeatLimit /\ repeatMax' \in 0 .. RepeatLimit
    BY <2>1, RepeatFacts
  <2>3. Reads /\ start' = start /\ start' \in start' .. pos'
    BY <1>1, <1>2, <2>2, RepeatFacts, RepeatReads
  <2> QED
    BY <2>1, <2>3, Fails
<1> QED
  BY <1>4, <1>5

\* The end of a bound.
LEMMA BoundDoneStep == Inv /\ (MinDone \/ MaxDone) => Inv'
<1> SUFFICES ASSUME Inv, MinDone \/ MaxDone PROVE Inv'
  OBVIOUS
<1>1. /\ pc \in {"min", "max"} /\ RepeatUnchanged /\ UNCHANGED <<tokens, rc, errorAt>>
      /\ repeatMin' = repeatMin /\ repeatMax' \in {repeatMin, repeatMax}
  BY DEF MinDone, MaxDone
<1>2. repeatMin' \in 0 .. RepeatLimit /\ repeatMax' \in 0 .. RepeatLimit
  BY <1>1, RepeatFacts
<1>3. unbounded' \in BOOLEAN
  <2>1. CASE MinDone
    BY <2>1, Zenon DEF MinDone
  <2>2. CASE MaxDone
    BY <2>2, RepeatFacts DEF MaxDone
  <2> QED
    BY <2>1, <2>2
<1>4. pos' \in pos .. Last
  <2>1. CASE MinDone /\ At(pos) = Comma
    <3>1. pos' = pos + 1 /\ At(pos) # NUL
      BY <2>1, NulIsPlain DEF MinDone
    <3> QED
      BY <3>1, InvFacts, BeforeNul
  <2>2. CASE ~ (MinDone /\ At(pos) = Comma)
    <3>1. pos' = pos
      BY <2>2 DEF MinDone, MaxDone
    <3> QED
      BY <3>1, RepeatFacts
  <2> QED
    BY <2>1, <2>2
<1>5. pc' \in {"max0", "brace"}
  BY DEF MinDone, MaxDone
<1>6. Reads /\ start' < pos'
  BY <1>1, <1>2, <1>3, <1>4, RepeatReads
<1> QED
  BY <1>1, <1>5, <1>6, GoesOn

\* The end of a repetition.
LEMMA RepeatEndStep == Inv /\ (BraceMissing \/ RepeatClose) => Inv'
<1> SUFFICES ASSUME Inv, BraceMissing \/ RepeatClose PROVE Inv'
  OBVIOUS
<1>1. /\ pc = "brace" /\ RepeatUnchanged
      /\ UNCHANGED <<repeatMin, repeatMax, unbounded>>
  BY DEF BraceMissing, RepeatClose
<1>2. CASE BraceMissing
  <2>1. Fail("EBRACE", start) /\ pos' = pos
    BY <1>2 DEF BraceMissing
  <2>2. Reads /\ start' = start /\ start' \in start' .. pos'
    BY <1>1, <2>1, RepeatFacts, RepeatReads
  <2> QED
    BY <2>1, <2>2, Fails
<1>3. CASE RepeatClose
  <2>1. pos' = pos + 1 /\ At(pos) # NUL
    BY <1>3, NulIsPlain DEF RepeatClose
  <2>2. pos' \in pos .. Last
    BY <2>1, InvFacts, BeforeNul
  <2>3. Reads /\ start' = start /\ start' < pos' /\ start' \in start' .. pos'
    BY <1>1, <2>2, RepeatFacts, RepeatReads
  <2>4. CASE ~ unbounded /\ repeatMax < repeatMin
    <3>1. Fail("BADRPT", start)
      BY <1>3, <2>4 DEF RepeatClose
    <3> QED
      BY <2>3, <3>1, Fails
  <2>5. CASE ~ (~ unbounded /\ repeatMax < repeatMin)
    <3>1. Deliver("REPEAT", {}, repeatMin, repeatMax, unbounded)
      BY <1>3, <2>5 DEF RepeatClose
    <3>2. repeatMin \in Nat /\ repeatMax \in Nat
      BY RepeatFacts, InvFacts
    <3>3. unbounded \in BOOLEAN
      BY InvFacts, Zenon DEF FlagsOK
    <3>4. "REPEAT" # "EOF"
      OBVIOUS
    <3> QED
      BY <2>3, <3>1, <3>2, <3>3, <3>4, Types, Delivers, Zenon
  <2> QED
    BY <2>4, <2>5
<1> QED
  BY <1>2, <1>3

-----------------------------------------------------------------------------
\* Every step keeps the invariant.
LEMMA InvStep == Inv /\ [Next]_vars => Inv'
<1> SUFFICES ASSUME Inv, [Next]_vars PROVE Inv'
  OBVIOUS
<1>1. CASE UNCHANGED vars
  BY <1>1 DEF vars, token, Inv, IsCString, Last, At, TypeOK, StartsIncrease, Follows
<1>2. CASE Next
  BY <1>1, <1>2, EofStep, CharacterStep, EscapeStep, ClassOpenStep, ElementBrokenStep,
     ElementStep, RangeElementStep, ClassEndStep, RepeatOpenStep, NoCountStep,
     CountDigitStep, BoundDoneStep, RepeatEndStep
     DEF Next, Returned
<1> QED
  BY <1>1, <1>2

\* The lexer stays within its C string, its bounds within RX_REPEAT_LIMIT, and an
\* error names a byte of the construct that is wrong: for every pattern and limit.
THEOREM TypeCorrect == Spec => []TypeOK
<1>1. Inv => TypeOK
  BY DEF Inv
<1> QED
  BY <1>1, InvInit, InvStep, PTL DEF Spec

-----------------------------------------------------------------------------
(* Positions in the text. *)

\* What holds of 0, and of the successor of what it holds of, holds of all.
LEMMA PositionInduction ==
  ASSUME NEW S, 0 \in S, \A k \in Nat : k \in S => k + 1 \in S
  PROVE  Nat \subseteq S
<1> DEFINE Rest == {k \in Nat : k \notin S}
           Lower(k) == 0 .. k - 1
           Lowers == {Lower(k) : k \in Rest}
<1> SUFFICES ASSUME Rest # {} PROVE FALSE
  OBVIOUS
<1>1. Lowers # {} /\ Lowers \subseteq FiniteSubsetsOf(Nat)
  <2>1. \A k \in Nat : IsFiniteSet(Lower(k)) /\ Lower(k) \subseteq Nat
    BY FS_Interval
  <2> QED
    BY <2>1 DEF FiniteSubsetsOf
<1>2. PICK L \in Lowers : \A M \in Lowers : <<M, L>> \notin StrictSubsetOrdering(Nat)
  <2> HIDE DEF Lowers
  <2> QED BY <1>1, FS_StrictSubsetOrderingWellFounded, WFMin, Zenon
<1>3. PICK k \in Rest : L = Lower(k)
  OBVIOUS
<1>4. k - 1 \in Rest /\ k = (k - 1) + 1 /\ k \in Nat
  <2>1. k # 0
    BY <1>3
  <2> QED
    BY <2>1
<1>5. <<Lower(k - 1), Lower(k)>> \in StrictSubsetOrdering(Nat)
  <2>1. /\ Lower(k - 1) \in SUBSET Nat /\ Lower(k) \in SUBSET Nat
        /\ Lower(k - 1) \subseteq Lower(k) /\ k - 1 \in Lower(k) /\ k - 1 \notin Lower(k - 1)
    BY <1>4
  <2> HIDE DEF Lower
  <2> QED BY <2>1 DEF StrictSubsetOrdering
<1> QED
  BY <1>2, <1>3, <1>4, <1>5

\* Of the positions in a set that is not empty, one is the first.
LEMMA FirstPosition ==
  ASSUME NEW S \in SUBSET Nat, S # {}
  PROVE  \E k \in S : \A l \in S : k <= l
<1> SUFFICES ASSUME \A k \in S : \E l \in S : ~ k <= l PROVE FALSE
  OBVIOUS
<1> DEFINE Past == {k \in Nat : \A l \in S : l > k}
<1>1. 0 \in Past
  <2> SUFFICES ASSUME NEW l \in S, ~ l > 0 PROVE FALSE
    OBVIOUS
  <2>1. l = 0
    OBVIOUS
  <2> QED
    BY <2>1
<1>2. ASSUME NEW k \in Nat, k \in Past PROVE k + 1 \in Past
  <2> SUFFICES ASSUME NEW l \in S, ~ l > k + 1 PROVE FALSE
    OBVIOUS
  <2>1. l = k + 1
    BY <1>2
  <2>2. PICK m \in S : m < l
    OBVIOUS
  <2> QED
    BY <1>2, <2>1, <2>2
<1>3. Nat \subseteq Past
  <2> HIDE DEF Past
  <2> QED BY <1>1, <1>2, PositionInduction
<1>4. PICK m \in S : TRUE
  OBVIOUS
<1>5. m \in Past /\ m \in Nat
  BY <1>3
<1> QED
  BY <1>5

-----------------------------------------------------------------------------
(* The digits of a bound. *)

\* The digits from i on are those up to the first character that is none.
LEMMA DigitsEnd ==
  ASSUME NEW s \in Seq(Char), NEW i \in Nat \ {0}, NEW e \in i .. Len(s) + 1,
         \A k \in i .. e - 1 : s[k] \in Digit, e = Len(s) + 1 \/ s[e] \notin Digit
  PROVE  DigitsAt(s, i) = SubSeq(s, i, e - 1)
<1> DEFINE ends == {j \in i .. Len(s) : \A k \in i .. j : s[k] \in Digit}
<1>1. e \in Int /\ Len(s) \in Nat
  OBVIOUS
<1>2. ends = i .. e - 1
  <2>1. ASSUME NEW j \in ends PROVE j \in i .. e - 1
    <3> SUFFICES ASSUME j >= e PROVE FALSE
      BY <1>1
    <3>1. e \in i .. j /\ e # Len(s) + 1
      BY <1>1
    <3> QED
      BY <3>1
  <2>2. ASSUME NEW j \in i .. e - 1 PROVE j \in ends
    <3>1. \A k \in i .. j : k \in i .. e - 1
      BY <1>1
    <3> QED
      BY <1>1, <3>1
  <2> HIDE DEF ends
  <2> QED
    BY <2>1, <2>2
<1>3. Cardinality(ends) = e - i
  <2>1. i \in Int /\ e - 1 \in Int /\ (i > e - 1 => e - i = 0) /\ (e - 1) - i + 1 = e - i
    BY <1>1
  <2>2. Cardinality(i .. e - 1) = IF i > e - 1 THEN 0 ELSE (e - 1) - i + 1
    BY <2>1, FS_Interval, Zenon
  <2> QED
    BY <1>2, <2>1, <2>2
<1>4. i + Cardinality(ends) - 1 = e - 1
  BY <1>1, <1>3
<1> HIDE DEF ends
<1> QED
  BY <1>4, Zenon DEF DigitsAt, ends

\* Digits go on to a first character that is none.
LEMMA DigitsGoOn ==
  ASSUME NEW s \in Seq(Char), NEW i \in Nat \ {0}, NEW j \in i .. Len(s) + 1,
         \A k \in i .. j - 1 : s[k] \in Digit
  PROVE  \E e \in j .. Len(s) + 1 :
           /\ \A k \in i .. e - 1 : s[k] \in Digit
           /\ e = Len(s) + 1 \/ s[e] \notin Digit
<1> DEFINE S == {e \in j .. Len(s) + 1 : e = Len(s) + 1 \/ s[e] \notin Digit}
<1>1. Len(s) + 1 \in S /\ S \in SUBSET Nat
  OBVIOUS
<1>2. PICK e \in S : \A l \in S : e <= l
  <2> HIDE DEF S
  <2> QED BY <1>1, FirstPosition
<1>3. ASSUME NEW k \in i .. e - 1 PROVE s[k] \in Digit
  <2>1. CASE k \in i .. j - 1
    BY <2>1
  <2>2. CASE k \notin i .. j - 1
    <3>1. k \in j .. Len(s) /\ ~ e <= k
      BY <2>2
    <3>2. k \notin S
      BY <1>2, <3>1
    <3> QED
      BY <3>1, <3>2
  <2> QED
    BY <2>1, <2>2
<1> QED
  BY <1>3

\* What a bound is worth after each of its first m digits.
Values(d, m, v) ==
  v = [k \in 0 .. m |-> IF k = 0 THEN 0 ELSE 10 * v[k - 1] + (d[k] - 48)]

\* Read off: the equation at every digit.
LEMMA ValuesEquation ==
  ASSUME NEW d, NEW m \in Nat, NEW v, Values(d, m, v)
  PROVE  v[0] = 0 /\ \A k \in 1 .. m : v[k] = 10 * v[k - 1] + (d[k] - 48)
<1>1. \A k \in 0 .. m : v[k] = IF k = 0 THEN 0 ELSE 10 * v[k - 1] + (d[k] - 48)
  BY Zenon DEF Values
<1> QED
  BY <1>1

\* There are such values, digit by digit.
LEMMA ValuesExist ==
  ASSUME NEW d, NEW n \in Nat
  PROVE  \E v : Values(d, n, v)
<1> DEFINE Good == {m \in Nat : \E v : Values(d, m, v)}
<1>1. 0 \in Good
  <2> DEFINE v == [k \in 0 .. 0 |-> 0]
             h == [k \in 0 .. 0 |-> IF k = 0 THEN 0 ELSE 10 * v[k - 1] + (d[k] - 48)]
  <2>1. \A k \in 0 .. 0 : v[k] = h[k]
    OBVIOUS
  <2>2. v = h
    BY <2>1
  <2> HIDE DEF v
  <2>3. Values(d, 0, v)
    BY <2>2, Zenon DEF Values
  <2> QED
    BY <2>3
<1>2. ASSUME NEW m \in Nat, m \in Good PROVE m + 1 \in Good
  <2>1. PICK v : Values(d, m, v)
    BY <1>2
  <2> DEFINE w == [k \in 0 .. m + 1 |-> IF k = m + 1 THEN 10 * v[m] + (d[m + 1] - 48)
                                                     ELSE v[k]]
             h == [k \in 0 .. m + 1 |-> IF k = 0 THEN 0 ELSE 10 * w[k - 1] + (d[k] - 48)]
  <2>2. ASSUME NEW k \in 0 .. m + 1 PROVE w[k] = h[k]
    <3>1. CASE k = 0
      <4>1. k # m + 1 /\ v[0] = 0
        BY <2>1, <3>1, ValuesEquation
      <4> QED
        BY <3>1, <4>1
    <3>2. CASE k = m + 1
      <4>1. k - 1 = m /\ k # 0 /\ m \in 0 .. m + 1 /\ m # m + 1
        BY <3>2
      <4>2. w[k - 1] = v[m]
        BY <4>1
      <4> QED
        BY <3>2, <4>1, <4>2
    <3>3. CASE k \in 1 .. m
      <4>1. k # m + 1 /\ k # 0 /\ k - 1 \in 0 .. m + 1 /\ k - 1 # m + 1
        BY <3>3
      <4>2. w[k - 1] = v[k - 1] /\ w[k] = v[k]
        BY <4>1
      <4>3. v[k] = 10 * v[k - 1] + (d[k] - 48)
        BY <2>1, <3>3, ValuesEquation
      <4> QED
        BY <4>1, <4>2, <4>3
    <3> QED
      BY <3>1, <3>2, <3>3
  <2>3. w = h
    BY <2>2
  <2> HIDE DEF w
  <2>4. Values(d, m + 1, w)
    BY <2>3, Zenon DEF Values
  <2> QED
    BY <2>4
<1> HIDE DEF Good
<1>3. n \in Good
  BY <1>1, <1>2, PositionInduction
<1> QED
  BY <1>3 DEF Good

\* They depend on nothing but the digits before.
LEMMA ValuesAgree ==
  ASSUME NEW d, NEW c, NEW m \in Nat, NEW n \in Nat, m <= n,
         \A k \in 1 .. m : d[k] = c[k],
         NEW v, Values(d, m, v), NEW w, Values(c, n, w)
  PROVE  v[m] = w[m]
<1> DEFINE Good == {k \in Nat : k <= m => v[k] = w[k]}
<1>1. 0 \in Good
  BY ValuesEquation
<1>2. ASSUME NEW k \in Nat, k \in Good PROVE k + 1 \in Good
  <2> SUFFICES ASSUME k + 1 <= m PROVE v[k + 1] = w[k + 1]
    OBVIOUS
  <2>1. k + 1 \in 1 .. m /\ k + 1 \in 1 .. n /\ (k + 1) - 1 = k
    OBVIOUS
  <2>2. /\ v[k + 1] = 10 * v[k] + (d[k + 1] - 48)
        /\ w[k + 1] = 10 * w[k] + (c[k + 1] - 48)
    BY <2>1, ValuesEquation
  <2>3. v[k] = w[k] /\ d[k + 1] = c[k + 1]
    BY <1>2, <2>1
  <2> QED
    BY <2>2, <2>3
<1>3. m \in Good
  <2> HIDE DEF Good
  <2> QED BY <1>1, <1>2, PositionInduction
<1> QED
  BY <1>3

\* The value of digits.
LEMMA DecimalIsValue ==
  ASSUME NEW d, Len(d) \in Nat
  PROVE  \E v : Values(d, Len(d), v) /\ Decimal(d) = v[Len(d)]
<1> DEFINE v == CHOOSE v : Values(d, Len(d), v)
<1>1. Values(d, Len(d), v)
  BY ValuesExist, Zenon
<1>2. Decimal(d) = v[Len(d)]
  BY Zenon DEF Decimal, Values
<1> QED
  BY <1>1, <1>2

\* No digit, no value; a digit more is ten times the value and the digit.
LEMMA DecimalDigits ==
  ASSUME NEW d \in Seq(Digit)
  PROVE  /\ Decimal(<<>>) = 0
         /\ \A x \in Digit : Decimal(Append(d, x)) = 10 * Decimal(d) + (x - 48)
<1>1. Decimal(<<>>) = 0
  <2>1. Len(<<>>) = 0
    OBVIOUS
  <2>2. PICK v : Values(<<>>, 0, v) /\ Decimal(<<>>) = v[0]
    BY <2>1, DecimalIsValue, Zenon
  <2> QED
    BY <2>2, ValuesEquation
<1>2. ASSUME NEW x \in Digit
      PROVE  Decimal(Append(d, x)) = 10 * Decimal(d) + (x - 48)
  <2> DEFINE n == Len(d)
             c == Append(d, x)
  <2>1. n \in Nat /\ Len(c) = n + 1 /\ (\A k \in 1 .. n : d[k] = c[k]) /\ c[n + 1] = x
    OBVIOUS
  <2> HIDE DEF n, c
  <2>2. PICK v : Values(d, n, v) /\ Decimal(d) = v[n]
    BY <2>1, DecimalIsValue, Zenon DEF n
  <2>3. PICK w : Values(c, n + 1, w) /\ Decimal(c) = w[n + 1]
    <3>1. Len(c) \in Nat
      BY <2>1
    <3> QED
      BY <2>1, <3>1, DecimalIsValue, Zenon
  <2>4. n + 1 \in Nat /\ n <= n + 1 /\ n + 1 \in 1 .. n + 1 /\ (n + 1) - 1 = n
    BY <2>1
  <2>5. v[n] = w[n]
    BY <2>1, <2>2, <2>3, <2>4, ValuesAgree
  <2>6. w[n + 1] = 10 * w[n] + (c[n + 1] - 48)
    BY <2>3, <2>4, ValuesEquation
  <2> QED
    BY <2>1, <2>2, <2>3, <2>5, <2>6 DEF c
<1> QED
  BY <1>1, <1>2

\* A bound never gets smaller by another digit.
LEMMA DecimalGrows ==
  ASSUME NEW d \in Seq(Digit), NEW m \in 0 .. Len(d)
  PROVE  /\ Decimal(SubSeq(d, 1, m)) \in Nat /\ Decimal(d) \in Nat
         /\ Decimal(SubSeq(d, 1, m)) <= Decimal(d)
<1> DEFINE n == Len(d)
           c == SubSeq(d, 1, m)
<1>0. n \in Nat /\ m \in Nat /\ m <= n /\ \A k \in 1 .. n : d[k] \in 48 .. 57
  BY NulIsPlain
<1>1. PICK v : Values(d, n, v) /\ Decimal(d) = v[n]
  BY <1>0, DecimalIsValue, Zenon
<1>2. Len(c) = m /\ \A k \in 1 .. m : c[k] = d[k]
  BY <1>0
<1> HIDE DEF c
<1>3. PICK w : Values(c, m, w) /\ Decimal(c) = w[m]
  <2>1. Len(c) \in Nat
    BY <1>0, <1>2
  <2> QED
    BY <1>2, <2>1, DecimalIsValue, Zenon
<1>4. w[m] = v[m]
  BY <1>0, <1>1, <1>2, <1>3, ValuesAgree
<1> HIDE DEF n
<1> DEFINE Good == {k \in Nat : k <= n => v[k] \in Nat /\ (k > 0 => v[k - 1] <= v[k])}
           More == {k \in Nat : m + k <= n => v[m] <= v[m + k]}
<1>5. 0 \in Good
  BY <1>0, <1>1, ValuesEquation
<1>6. ASSUME NEW k \in Nat, k \in Good PROVE k + 1 \in Good
  <2> SUFFICES ASSUME k + 1 <= n PROVE v[k + 1] \in Nat /\ v[(k + 1) - 1] <= v[k + 1]
    OBVIOUS
  <2>1. k + 1 \in 1 .. n /\ (k + 1) - 1 = k
    BY <1>0
  <2>2. v[k + 1] = 10 * v[k] + (d[k + 1] - 48) /\ d[k + 1] \in 48 .. 57 /\ v[k] \in Nat
    <3>1. v[k + 1] = 10 * v[(k + 1) - 1] + (d[k + 1] - 48)
      BY <1>0, <1>1, <2>1, ValuesEquation
    <3> QED
      BY <1>0, <1>6, <2>1, <3>1
  <2>3. \A x \in Nat, y \in 48 .. 57 : 10 * x + (y - 48) \in Nat /\ x <= 10 * x + (y - 48)
    OBVIOUS
  <2> QED
    BY <2>1, <2>2, <2>3
<1>7. Nat \subseteq Good
  <2> HIDE DEF Good
  <2> QED BY <1>5, <1>6, PositionInduction
<1>8. \A k \in 0 .. n : v[k] \in Nat /\ (k > 0 => v[k - 1] <= v[k])
  <2> SUFFICES ASSUME NEW k \in 0 .. n PROVE v[k] \in Nat /\ (k > 0 => v[k - 1] <= v[k])
    OBVIOUS
  <2>1. k \in Nat /\ k <= n
    BY <1>0
  <2> QED
    BY <1>7, <2>1
<1>9. 0 \in More
  BY <1>0, <1>8
<1>10. ASSUME NEW k \in Nat, k \in More PROVE k + 1 \in More
  <2> SUFFICES ASSUME m + (k + 1) <= n PROVE v[m] <= v[m + (k + 1)]
    OBVIOUS
  <2>1. m \in 0 .. n /\ m + k \in 0 .. n /\ m + (k + 1) \in 0 .. n /\ (m + (k + 1)) - 1 = m + k
    BY <1>0
  <2>2. v[m] <= v[m + k] /\ v[m + k] <= v[m + (k + 1)]
    BY <1>8, <1>10, <2>1
  <2> QED
    BY <1>8, <2>1, <2>2
<1>11. v[m] <= v[n]
  <2>1. n - m \in Nat /\ m + (n - m) = n
    BY <1>0
  <2>2. n - m \in More
    <3> HIDE DEF More
    <3> QED BY <1>9, <1>10, <2>1, PositionInduction
  <2> QED
    BY <2>1, <2>2
<1> QED
  BY <1>0, <1>1, <1>3, <1>4, <1>8, <1>11 DEF c

-----------------------------------------------------------------------------
(* The text at the lexer's positions. *)

\* The character at i is the one the text has behind its first i.
LEMMA TextFacts ==
  ASSUME IsCString
  PROVE  /\ Text \in Seq(Char) /\ Len(Text) = Last /\ Last \in Nat
         /\ \A i \in 0 .. Last - 1 : Text[i + 1] = At(i)
<1>1. pattern \in Seq(Char) /\ Last = Len(pattern) - 1 /\ Last \in Nat
  BY DEF IsCString, Last
<1> QED
  BY <1>1 DEF Text, At

\* What is read between two positions.
Read(a, b) == SubSeq(Text, a + 1, b)
DigitsOnly(a, b) == \A i \in a .. b - 1 : At(i) \in Digit

\* It is that part of the text.
LEMMA ReadFacts ==
  ASSUME IsCString, NEW a \in 0 .. Last, NEW b \in a .. Last
  PROVE  /\ Read(a, b) \in Seq(Char) /\ Len(Read(a, b)) = b - a
         /\ \A k \in 1 .. b - a : Read(a, b)[k] = Text[a + k]
<1>1. Text \in Seq(Char) /\ Len(Text) = Last /\ Last \in Nat
  BY TextFacts
<1>2. \A k \in 1 .. b - a : (a + 1) + k - 1 = a + k
  OBVIOUS
<1> QED
  BY <1>1, <1>2 DEF Read

\* Digits that are read are a bound, with another one a longer one.
LEMMA ReadDigits ==
  ASSUME IsCString, NEW a \in 0 .. Last, NEW b \in a .. Last, DigitsOnly(a, b)
  PROVE  /\ Read(a, b) \in Seq(Digit) /\ Len(Read(a, b)) = b - a
         /\ Read(a, b) = <<>> <=> a = b
         /\ At(b) \in Digit => /\ b + 1 \in a .. Last /\ DigitsOnly(a, b + 1)
                               /\ Read(a, b + 1) = Append(Read(a, b), At(b))
<1>0. /\ Text \in Seq(Char) /\ Len(Text) = Last /\ Last \in Nat
      /\ \A i \in 0 .. Last - 1 : Text[i + 1] = At(i)
  BY TextFacts
<1>1. Len(Read(a, b)) = b - a /\ \A k \in 1 .. b - a : Read(a, b)[k] = At(a + k - 1)
  <2>1. \A k \in 1 .. b - a : /\ Read(a, b)[k] = Text[a + k] /\ a + k - 1 \in 0 .. Last - 1
                             /\ (a + k - 1) + 1 = a + k
    BY <1>0 DEF Read
  <2>2. Len(Read(a, b)) = b - a
    BY <1>0 DEF Read
  <2> QED
    BY <1>0, <2>1, <2>2
<1>2. \A k \in 1 .. b - a : Read(a, b)[k] \in Digit
  <2>1. \A k \in 1 .. b - a : a + k - 1 \in a .. b - 1
    OBVIOUS
  <2> QED
    BY <1>1, <2>1 DEF DigitsOnly
<1>3. Read(a, b) \in Seq(Digit)
  <2>1. Read(a, b) \in Seq(Char)
    BY <1>0 DEF Read
  <2> QED
    BY <1>1, <1>2, <2>1
<1>4. Read(a, b) = <<>> <=> a = b
  BY <1>1, <1>3
<1>5. ASSUME At(b) \in Digit
      PROVE  /\ b + 1 \in a .. Last /\ DigitsOnly(a, b + 1)
             /\ Read(a, b + 1) = Append(Read(a, b), At(b))
  <2>1. b + 1 \in a .. Last
    <3>1. At(b) # NUL /\ b \in 0 .. Last
      BY <1>0, <1>5, NulIsPlain
    <3> QED
      BY <3>1, BeforeNul
  <2>2. DigitsOnly(a, b + 1)
    <3>1. \A i \in a .. (b + 1) - 1 : i = b \/ i \in a .. b - 1
      OBVIOUS
    <3> QED
      BY <1>5, <3>1 DEF DigitsOnly
  <2>3. Text[b + 1] = At(b)
    BY <1>0, <2>1
  <2>4. SubSeq(Text, a + 1, b + 1) = Append(SubSeq(Text, a + 1, b), Text[b + 1])
    <3> DEFINE n == b - a
               less == SubSeq(Text, a + 1, b)
               more == SubSeq(Text, a + 1, b + 1)
    <3>1. /\ less \in Seq(Char) /\ Len(less) = n /\ n \in Nat
          /\ \A k \in 1 .. n : less[k] = Text[a + k]
          /\ more \in Seq(Char) /\ Len(more) = n + 1
          /\ \A k \in 1 .. n + 1 : more[k] = Text[a + k]
          /\ a + (n + 1) = b + 1 /\ Text[b + 1] \in Char
      BY <1>0, <2>1
    <3> HIDE DEF n, less, more
    <3> QED
      BY <3>1
  <2> QED
    BY <2>1, <2>2, <2>3, <2>4 DEF Read
<1> QED
  BY <1>1, <1>3, <1>4, <1>5

\* Where the digits end, the bound has been read.
LEMMA ReadBound ==
  ASSUME IsCString, NEW a \in 0 .. Last, NEW b \in a .. Last, DigitsOnly(a, b),
         At(b) \notin Digit
  PROVE  DigitsAt(Text, a + 1) = Read(a, b)
<1>0. /\ Text \in Seq(Char) /\ Len(Text) = Last /\ Last \in Nat
      /\ \A i \in 0 .. Last - 1 : Text[i + 1] = At(i)
  BY TextFacts
<1>1. a + 1 \in Nat \ {0} /\ b + 1 \in a + 1 .. Len(Text) + 1 /\ (b + 1) - 1 = b
  BY <1>0
<1>2. ASSUME NEW k \in a + 1 .. (b + 1) - 1 PROVE Text[k] \in Digit
  <2>1. k - 1 \in 0 .. Last - 1 /\ k - 1 \in a .. b - 1 /\ (k - 1) + 1 = k
    BY <1>0
  <2> QED
    BY <1>0, <2>1 DEF DigitsOnly
<1>3. b + 1 = Len(Text) + 1 \/ Text[b + 1] \notin Digit
  BY <1>0
<1>4. DigitsAt(Text, a + 1) = SubSeq(Text, a + 1, (b + 1) - 1)
  BY <1>0, <1>1, <1>2, <1>3, DigitsEnd
<1> QED
  BY <1>1, <1>4 DEF Read

\* The first n characters of a sequence.
LEMMA BeginningOf ==
  ASSUME NEW S, NEW r \in Seq(S), NEW n \in 0 .. Len(r)
  PROVE  /\ SubSeq(r, 1, n) \in Seq(S) /\ Len(SubSeq(r, 1, n)) = n
         /\ \A k \in 1 .. n : SubSeq(r, 1, n)[k] = r[k]
<1>1. n \in Nat /\ Len(r) \in Nat
  OBVIOUS
<1> QED
  BY <1>1

\* A bound that has got too large stays so, whatever digits follow.
LEMMA ReadTooLarge ==
  ASSUME IsCString, NEW a \in 0 .. Last, NEW b \in a .. Last, DigitsOnly(a, b),
         NEW limit \in Nat, Decimal(Read(a, b)) > limit
  PROVE  DigitsAt(Text, a + 1) # <<>> /\ Decimal(DigitsAt(Text, a + 1)) > limit
<1>0. /\ Text \in Seq(Char) /\ Len(Text) = Last /\ Last \in Nat
      /\ \A i \in 0 .. Last - 1 : Text[i + 1] = At(i)
  BY TextFacts
<1>1. PICK e \in b + 1 .. Last + 1 :
        /\ \A k \in a + 1 .. e - 1 : Text[k] \in Digit
        /\ e = Last + 1 \/ Text[e] \notin Digit
  <2>1. a + 1 \in Nat \ {0} /\ b + 1 \in a + 1 .. Len(Text) + 1
    BY <1>0
  <2>2. \A k \in a + 1 .. (b + 1) - 1 : Text[k] \in Digit
    <3>1. \A k \in a + 1 .. (b + 1) - 1 :
            k - 1 \in 0 .. Last - 1 /\ k - 1 \in a .. b - 1 /\ (k - 1) + 1 = k
      BY <1>0
    <3> QED
      BY <1>0, <3>1 DEF DigitsOnly
  <2> QED
    BY <1>0, <2>1, <2>2, DigitsGoOn
<1> DEFINE c == e - 1
<1>2. c \in b .. Last /\ c \in a .. Last /\ c + 1 = e
  BY <1>0
<1>3. DigitsOnly(a, c)
  <2>1. \A k \in a .. c - 1 : k + 1 \in a + 1 .. e - 1 /\ k \in 0 .. Last - 1
    BY <1>0, <1>2
  <2> QED
    BY <1>0, <1>1, <2>1 DEF DigitsOnly
<1>4. At(c) \notin Digit
  <2>1. CASE c = Last
    <3>1. At(c) = NUL
      BY <1>0, <2>1 DEF IsCString
    <3> QED
      BY <3>1, NulIsPlain
  <2>2. CASE c # Last
    BY <1>0, <1>1, <1>2, <2>2
  <2> QED
    BY <2>1, <2>2
<1> HIDE DEF c
<1>5. DigitsAt(Text, a + 1) = Read(a, c)
  BY <1>2, <1>3, <1>4, ReadBound
<1>6. Read(a, c) \in Seq(Digit) /\ Len(Read(a, c)) = c - a
  BY <1>2, <1>3, ReadDigits
<1>7. SubSeq(Read(a, c), 1, b - a) = Read(a, b)
  <2> DEFINE n == b - a
             less == Read(a, b)
             part == SubSeq(Read(a, c), 1, n)
  <2>1. /\ less \in Seq(Char) /\ Len(less) = n /\ n \in Nat
        /\ \A k \in 1 .. n : less[k] = Text[a + k]
    <3>1. /\ Read(a, b) \in Seq(Char) /\ Len(Read(a, b)) = b - a
          /\ \A k \in 1 .. b - a : Read(a, b)[k] = Text[a + k]
      BY ReadFacts, Zenon
    <3>2. b - a \in Nat
      BY <1>0
    <3> QED
      BY <3>1, <3>2, Zenon
  <2>2. n <= c - a /\ \A k \in 1 .. c - a : Read(a, c)[k] = Text[a + k]
    <3>1. n <= c - a
      BY <1>0, <1>2
    <3>2. \A k \in 1 .. c - a : Read(a, c)[k] = Text[a + k]
      BY <1>2, ReadFacts, Zenon
    <3> QED
      BY <3>1, <3>2, Zenon
  <2>3. part \in Seq(Char) /\ Len(part) = n /\ \A k \in 1 .. n : part[k] = Read(a, c)[k]
    <3>1. Read(a, c) \in Seq(Char)
      BY <1>2, ReadFacts, Zenon
    <3>2. n \in 0 .. Len(Read(a, c))
      BY <1>6, <2>1, <2>2
    <3> HIDE DEF n
    <3> QED
      BY <2>1, <3>1, <3>2, BeginningOf
  <2>4. \A k \in 1 .. n : k \in 1 .. c - a
    BY <1>2, <2>1, <2>2
  <2>5. ASSUME NEW k \in 1 .. n PROVE part[k] = less[k]
    <3>1. k \in 1 .. c - a
      BY <2>4
    <3>2. part[k] = Read(a, c)[k]
      <4> HIDE DEF n, part
      <4> QED BY <2>3
    <3>3. Read(a, c)[k] = Text[a + k] /\ less[k] = Text[a + k]
      BY <2>1, <2>2, <3>1
    <3> QED
      BY <3>2, <3>3, Zenon
  <2> HIDE DEF n, less, part
  <2>6. part = less
    BY <2>1, <2>3, <2>5
  <2> QED
    BY <2>6 DEF n, less, part
<1>8. b - a \in 0 .. Len(Read(a, c)) /\ b - a \in Nat
  BY <1>2, <1>6
<1>9. /\ Decimal(Read(a, b)) \in Nat /\ Decimal(Read(a, c)) \in Nat
      /\ Decimal(Read(a, b)) <= Decimal(Read(a, c))
  <2>1. /\ Decimal(SubSeq(Read(a, c), 1, b - a)) \in Nat /\ Decimal(Read(a, c)) \in Nat
        /\ Decimal(SubSeq(Read(a, c), 1, b - a)) <= Decimal(Read(a, c))
    BY <1>6, <1>8, DecimalGrows
  <2> QED
    BY <1>7, <2>1
<1>10. Decimal(Read(a, c)) > limit
  BY <1>9
<1>11. Read(a, c) # <<>>
  <2>1. Decimal(<<>>) = 0
    BY <1>6, DecimalDigits
  <2> QED
    BY <1>10, <2>1
<1> QED
  BY <1>5, <1>10, <1>11

-----------------------------------------------------------------------------
(* What the text says of a bound, case by case. *)

\* Without a digit there is none.
LEMMA NoBound ==
  ASSUME NEW s, NEW i, NEW limit, DigitsAt(s, i + 1) = <<>>
  PROVE  RepeatAt(s, i, limit) = Refused("EBRACE", i + 1)
BY Zenon DEF RepeatAt

\* The least number is too large.
LEMMA MinTooLarge ==
  ASSUME NEW s, NEW i, NEW limit, DigitsAt(s, i + 1) # <<>>,
         Decimal(DigitsAt(s, i + 1)) > limit
  PROVE  RepeatAt(s, i, limit) = Refused("BADRPT", i)
BY Zenon DEF RepeatAt

-----------------------------------------------------------------------------
(* What has been read of a bound. *)

\* The digits of the least number end at e.
MinRead(e) ==
  /\ e \in start + 2 .. Last
  /\ DigitsOnly(start + 1, e) /\ At(e) \notin Digit
  /\ repeatMin = Decimal(Read(start + 1, e))

\* The digits that follow the comma at e, up to the current position.
MaxDigits(e) ==
  /\ At(e) = Comma /\ At(e + 1) # RBrace /\ ~ unbounded
  /\ e + 1 < pos /\ DigitsOnly(e + 1, pos)
  /\ repeatMax = Decimal(Read(e + 1, pos))

BoundRead ==
  /\ pc = "min0" => pos = start + 1
  /\ pc = "min" => /\ start + 1 < pos /\ DigitsOnly(start + 1, pos)
                   /\ repeatMin = Decimal(Read(start + 1, pos))
  /\ pc = "max0" => \E e \in Nat :
       /\ MinRead(e) /\ pos = e + 1 /\ ~ unbounded
       /\ At(e) = Comma /\ At(e + 1) # RBrace
  /\ pc = "max" => \E e \in Nat : MinRead(e) /\ MaxDigits(e)
  /\ pc = "brace" => \E e \in Nat :
       /\ MinRead(e)
       /\ \/ At(e) # Comma /\ pos = e /\ ~ unbounded /\ repeatMax = repeatMin
          \/ /\ At(e) = Comma /\ At(e + 1) = RBrace /\ pos = e + 1
             /\ unbounded /\ repeatMax = repeatMin
          \/ MaxDigits(e) /\ At(pos) \notin Digit

\* The construct that is being read is the one that the token begins with.
InConstruct ==
  /\ pc \in {"min0", "min", "max0", "max", "brace"} => At(start) = LBrace
  /\ pc = "class" => At(start) = LBrack

BoundInv == InConstruct /\ BoundRead /\ BoundsAreExact

\* Within a construct there is no result yet.
LEMMA NoResultYet ==
  ASSUME pc' # "next", rc' = "OK"
  PROVE  BoundsAreExact'
BY DEF BoundsAreExact, JustDelivered, JustRefused

\* A step to a character of the least number.
LEMMA ToMin ==
  ASSUME UNCHANGED <<pattern, start>>, pc' = "min", rc' = "OK", At(start) = LBrace,
         start + 1 < pos', DigitsOnly(start + 1, pos'),
         repeatMin' = Decimal(Read(start + 1, pos'))
  PROVE  BoundInv'
<1>1. InConstruct'
  BY DEF InConstruct, At
<1>2. BoundRead'
  BY DEF BoundRead, DigitsOnly, Read, Text, At
<1> QED
  BY <1>1, <1>2, NoResultYet DEF BoundInv

\* The digits of the least number stay where they are.
LEMMA MinReadKept ==
  ASSUME UNCHANGED <<pattern, start, repeatMin>>, NEW e \in Nat, MinRead(e)
  PROVE  MinRead(e)'
BY DEF MinRead, DigitsOnly, Read, Text, At, Last

\* A step to the largest number.
LEMMA ToMax ==
  ASSUME UNCHANGED <<pattern, start, repeatMin>>, rc' = "OK", At(start) = LBrace,
         NEW e \in Nat, MinRead(e), At(e) = Comma, At(e + 1) # RBrace, ~ unbounded',
         \/ pc' = "max0" /\ pos' = e + 1
         \/ /\ pc' = "max" /\ e + 1 < pos' /\ DigitsOnly(e + 1, pos')
            /\ repeatMax' = Decimal(Read(e + 1, pos'))
  PROVE  BoundInv'
<1>0. MinRead(e)'
  BY MinReadKept
<1>1. InConstruct'
  BY DEF InConstruct, At
<1>2. At(e)' = Comma /\ At(e + 1)' # RBrace
  BY DEF At
<1>3. BoundRead'
  <2>1. CASE pc' = "max0" /\ pos' = e + 1
    BY <1>0, <1>2, <2>1 DEF BoundRead
  <2>2. CASE /\ pc' = "max" /\ e + 1 < pos' /\ DigitsOnly(e + 1, pos')
             /\ repeatMax' = Decimal(Read(e + 1, pos'))
    <3>1. MaxDigits(e)'
      BY <1>2, <2>2 DEF MaxDigits, DigitsOnly, Read, Text, At
    <3> QED
      BY <1>0, <2>2, <3>1 DEF BoundRead
  <2> QED
    BY <2>1, <2>2
<1>4. pc' # "next"
  OBVIOUS
<1> QED
  BY <1>1, <1>3, <1>4, NoResultYet DEF BoundInv

\* A step to the closing brace.
LEMMA ToBrace ==
  ASSUME UNCHANGED <<pattern, start, repeatMin>>, rc' = "OK", At(start) = LBrace,
         NEW e \in Nat, MinRead(e), pc' = "brace",
         \/ At(e) # Comma /\ pos' = e /\ ~ unbounded' /\ repeatMax' = repeatMin
         \/ /\ At(e) = Comma /\ At(e + 1) = RBrace /\ pos' = e + 1
            /\ unbounded' /\ repeatMax' = repeatMin
         \/ /\ MaxDigits(e) /\ At(pos) \notin Digit
            /\ UNCHANGED <<pos, repeatMax, unbounded>>
  PROVE  BoundInv'
<1>0. MinRead(e)'
  BY MinReadKept
<1>1. InConstruct'
  BY DEF InConstruct, At
<1>2. \/ (At(e) # Comma /\ pos = e /\ ~ unbounded /\ repeatMax = repeatMin)'
      \/ (/\ At(e) = Comma /\ At(e + 1) = RBrace /\ pos = e + 1
          /\ unbounded /\ repeatMax = repeatMin)'
      \/ (MaxDigits(e) /\ At(pos) \notin Digit)'
  <2>1. CASE At(e) # Comma /\ pos' = e /\ ~ unbounded' /\ repeatMax' = repeatMin
    BY <2>1 DEF At
  <2>2. CASE /\ At(e) = Comma /\ At(e + 1) = RBrace /\ pos' = e + 1
             /\ unbounded' /\ repeatMax' = repeatMin
    BY <2>2 DEF At
  <2>3. CASE /\ MaxDigits(e) /\ At(pos) \notin Digit
             /\ UNCHANGED <<pos, repeatMax, unbounded>>
    BY <2>3 DEF MaxDigits, DigitsOnly, Read, Text, At
  <2> QED
    BY <2>1, <2>2, <2>3
<1>3. BoundRead'
  BY <1>0, <1>2 DEF BoundRead
<1> QED
  BY <1>1, <1>3, NoResultYet DEF BoundInv

\* What the text says of the bound at the token.
Meant == RepeatAt(Text, start + 1, RepeatLimit)

\* The bound is refused with what the text says of it.
LEMMA BoundRefused ==
  ASSUME UNCHANGED <<pattern, start>>, NEW status \in {"EBRACE", "BADRPT"}, NEW where,
         Fail(status, where), Meant = Refused(status, where + 1)
  PROVE  BoundInv'
<1>1. rc' = status /\ pc' = "done" /\ errorAt' = where
  BY DEF Fail
<1>2. InConstruct' /\ BoundRead'
  BY <1>1 DEF InConstruct, BoundRead
<1>3. BoundsAreExact'
  <2>1. MeansAt(start + 1, LBrace)' = Meant
    BY DEF MeansAt, LBrace, LBrack, Backslash, Meant, Text
  <2> QED
    BY <1>1, <2>1 DEF BoundsAreExact, JustDelivered
<1> QED
  BY <1>2, <1>3 DEF BoundInv

\* The bound is delivered with what the text says of it.
LEMMA BoundDelivered ==
  ASSUME Inv, UNCHANGED <<pattern, start>>, NEW min, NEW max, NEW open, rc = "OK",
         Deliver("REPEAT", {}, min, max, open),
         Meant = MeansBounds(min, max, open, pos' + 1)
  PROVE  BoundInv'
<1>1. pc' = "next" /\ rc' = "OK"
  BY DEF Deliver
<1>2. InConstruct' /\ BoundRead'
  BY <1>1 DEF InConstruct, BoundRead
<1>3. BoundsAreExact'
  <2>1. MeansAt(start + 1, LBrace)' = Meant
    BY DEF MeansAt, LBrace, LBrack, Backslash, Meant, Text
  <2>2. /\ tokens'[Len(tokens')].min = min /\ tokens'[Len(tokens')].max = max
        /\ tokens'[Len(tokens')].unbounded = open
    BY DEF Deliver, Inv, Follows
  <2> QED
    BY <1>1, <2>1, <2>2 DEF BoundsAreExact, JustRefused
<1> QED
  BY <1>2, <1>3 DEF BoundInv

\* Another construct is none of the bounds.
LEMMA OtherConstruct ==
  ASSUME pc' \in {"next", "done"} \/ (pc' = "class" /\ At(start)' = LBrack),
         At(start)' # LBrace
  PROVE  BoundInv'
<1>1. InConstruct' /\ BoundRead'
  BY DEF InConstruct, BoundRead
<1>2. BoundsAreExact'
  BY DEF BoundsAreExact, JustDelivered, JustRefused
<1> QED
  BY <1>1, <1>2 DEF BoundInv

\* The steps of the other constructs.
LEMMA OtherSteps ==
  ASSUME Inv, BoundInv,
         \/ Eof \/ Operator \/ Literal \/ Escape \/ ClassOpen
         \/ ElementBroken \/ Element \/ RangeElement \/ ClassUnclosed \/ ClassClose
  PROVE  BoundInv'
<1>0. LBrace \notin DOMAIN Simple /\ LBrace # LBrack /\ LBrace # Backslash /\ LBrace # NUL
  BY DEF Simple, LBrace, LBrack, Backslash, NUL
<1>1. CASE Eof \/ Operator \/ Literal \/ Escape
  <2>1. UNCHANGED pattern /\ start' = pos
    BY <1>1 DEF Eof, Operator, Literal, Escape, NewToken
  <2>2. At(pos) # LBrace
    BY <1>0, <1>1 DEF Eof, Operator, Literal, Escape
  <2>3. At(start)' # LBrace
    BY <2>1, <2>2 DEF At
  <2>4. pc' \in {"next", "done"}
    BY <1>1 DEF Eof, Operator, Literal, Escape, Deliver, DeliverSet, Fail
  <2> QED
    BY <2>3, <2>4, OtherConstruct
<1>2. CASE ClassOpen
  <2>1. At(start)' = LBrack /\ pc' = "class"
    BY <1>2 DEF ClassOpen, NewToken, At
  <2> QED
    BY <1>0, <2>1, OtherConstruct
<1>3. CASE ElementBroken \/ Element \/ RangeElement \/ ClassUnclosed \/ ClassClose
  <2>1. pc = "class" /\ UNCHANGED <<pattern, start>>
    BY <1>3 DEF ElementBroken, Element, RangeElement, ClassUnclosed, ClassClose, InClass,
       ClassUnchanged
  <2>2. At(start)' = LBrack
    BY <2>1 DEF BoundInv, InConstruct, At
  <2>3. pc' \in {"class", "next", "done"}
    BY <1>3, <2>1
       DEF ElementBroken, Element, RangeElement, ClassUnclosed, ClassClose, Deliver,
           DeliverSet, Fail
  <2> QED
    BY <1>0, <2>2, <2>3, OtherConstruct
<1> QED
  BY <1>1, <1>2, <1>3

\* The token begins with a brace.
LEMMA BoundOpenStep == Inv /\ BoundInv /\ RepeatOpen => BoundInv'
<1> SUFFICES ASSUME Inv, BoundInv, RepeatOpen PROVE BoundInv'
  OBVIOUS
<1>1. /\ start' = pos /\ pos' = pos + 1 /\ pc' = "min0" /\ UNCHANGED <<pattern, rc>>
      /\ At(pos) = LBrace /\ rc = "OK"
  BY DEF RepeatOpen, NewToken, Inv, Follows
<1>2. InConstruct'
  BY <1>1 DEF InConstruct, At
<1>3. BoundRead'
  BY <1>1 DEF BoundRead
<1> QED
  BY <1>1, <1>2, <1>3, NoResultYet DEF BoundInv

\* One digit more of the bound whose digits begin at a.
LEMMA DigitMore ==
  ASSUME Inv, NEW a \in 0 .. Last, a <= pos, DigitsOnly(a, pos), At(pos) \in Digit,
         NEW value \in Nat, value = Decimal(Read(a, pos))
  PROVE  /\ pos + 1 \in a + 1 .. Last /\ DigitsOnly(a, pos + 1)
         /\ 10 * value + (At(pos) - 48) = Decimal(Read(a, pos + 1))
         /\ ~ Fits(value, At(pos) - 48) =>
              /\ DigitsAt(Text, a + 1) # <<>>
              /\ Decimal(DigitsAt(Text, a + 1)) > RepeatLimit
<1>1. IsCString /\ pos \in a .. Last /\ Last \in Nat /\ RepeatLimit \in Nat
  BY InvFacts
<1>2. /\ Read(a, pos) \in Seq(Digit) /\ pos + 1 \in a .. Last /\ DigitsOnly(a, pos + 1)
      /\ Read(a, pos + 1) = Append(Read(a, pos), At(pos))
  BY <1>1, ReadDigits
<1>3. 10 * value + (At(pos) - 48) = Decimal(Read(a, pos + 1))
  BY <1>2, DecimalDigits
<1>4. ASSUME ~ Fits(value, At(pos) - 48)
      PROVE  /\ DigitsAt(Text, a + 1) # <<>>
             /\ Decimal(DigitsAt(Text, a + 1)) > RepeatLimit
  <2>1. At(pos) \in 48 .. 57
    BY NulIsPlain
  <2>2. At(pos) - 48 \in 0 .. 9
    BY <2>1
  <2>3. ~ 10 * value + (At(pos) - 48) <= RepeatLimit
    BY <1>4, <2>2, BoundFits
  <2>4. Decimal(Read(a, pos + 1)) > RepeatLimit
    BY <1>1, <1>3, <2>2, <2>3
  <2> QED
    BY <1>1, <1>2, <2>4, ReadTooLarge
<1> QED
  BY <1>1, <1>2, <1>3, <1>4

\* What the positions of a bound are in the text.
LEMMA MinReadFacts ==
  ASSUME Inv, NEW e \in Nat, MinRead(e)
  PROVE  LET low == DigitsAt(Text, start + 2)
             behind == start + 2 + Len(low)
         IN  /\ low # <<>> /\ behind = e + 1 /\ e \in 0 .. Last
             /\ Decimal(low) = repeatMin /\ repeatMin \in Nat /\ repeatMin <= RepeatLimit
             /\ Len(Text) = Last /\ (e # Last => Text[e + 1] = At(e))
             /\ (e = Last <=> At(e) = NUL)
<1>1. /\ e \in start + 2 .. Last /\ DigitsOnly(start + 1, e) /\ At(e) \notin Digit
      /\ repeatMin = Decimal(Read(start + 1, e))
  BY DEF MinRead
<1>2. IsCString /\ start \in Nat /\ Last \in Nat /\ repeatMin \in 0 .. RepeatLimit
      /\ RepeatLimit \in Nat
  BY InvFacts, RepeatFacts
<1>3. start + 1 \in 0 .. Last /\ e \in start + 1 .. Last /\ e \in 0 .. Last
      /\ (start + 1) + 1 = start + 2
  BY <1>1, <1>2
<1>4. DigitsAt(Text, start + 2) = Read(start + 1, e)
  BY <1>1, <1>2, <1>3, ReadBound
<1>5. Len(Read(start + 1, e)) = e - (start + 1) /\ Read(start + 1, e) # <<>>
  BY <1>1, <1>2, <1>3, ReadDigits
<1>6. Len(Text) = Last /\ \A i \in 0 .. Last - 1 : Text[i + 1] = At(i)
  BY <1>2, TextFacts
<1>7. \A i \in 0 .. Last : At(i) = NUL <=> i = Last
  BY <1>2 DEF IsCString
<1>9. e # Last => Text[e + 1] = At(e)
  BY <1>2, <1>3, <1>6
<1>10. start + 2 + Len(DigitsAt(Text, start + 2)) = e + 1
  BY <1>2, <1>4, <1>5
<1>11. e = Last <=> At(e) = NUL
  BY <1>3, <1>7
<1>12. repeatMin \in Nat /\ repeatMin <= RepeatLimit
  BY <1>2
<1> QED
  BY <1>1, <1>3, <1>4, <1>5, <1>6, <1>9, <1>10, <1>11, <1>12, Zenon

\* The comma is not the end of the text.
LEMMA CommaFacts ==
  ASSUME Inv, NEW e \in 0 .. Last, At(e) = Comma
  PROVE  /\ e # Last /\ e + 1 \in 0 .. Last
         /\ e + 1 # Last => Text[e + 2] = At(e + 1)
         /\ e + 1 = Last <=> At(e + 1) = NUL
<1>1. IsCString /\ Last \in Nat /\ At(e) # NUL
  BY InvFacts, NulIsPlain
<1>2. e + 1 \in 0 .. Last
  BY <1>1, BeforeNul
<1>3. Len(Text) = Last /\ \A i \in 0 .. Last - 1 : Text[i + 1] = At(i)
  BY <1>1, TextFacts
<1>4. e + 1 # Last => Text[(e + 1) + 1] = At(e + 1)
  BY <1>1, <1>2, <1>3
<1>5. (e + 1) + 1 = e + 2
  OBVIOUS
<1>6. e + 1 = Last <=> At(e + 1) = NUL
  BY <1>1, <1>2 DEF IsCString
<1> QED
  BY <1>1, <1>2, <1>4, <1>5, <1>6

\* The meaning of a bound at i with the digits low, and high behind a comma.
MeantBy(i, low, behind, comma, open, high, close) ==
  IF low = <<>> THEN Refused("EBRACE", i + 1)
  ELSE IF Decimal(low) > RepeatLimit THEN Refused("BADRPT", i)
  ELSE IF high = <<>> THEN Refused("EBRACE", behind + 1)
  ELSE IF Decimal(high) > RepeatLimit THEN Refused("BADRPT", i)
  ELSE IF close > Len(Text) \/ Text[close] # 125 THEN Refused("EBRACE", i)
  ELSE IF ~ open /\ Decimal(high) < Decimal(low) THEN Refused("BADRPT", i)
  ELSE MeansBounds(Decimal(low), Decimal(high), open, close + 1)

LEMMA MeantUnfolds ==
  ASSUME Inv, NEW e \in Nat, MinRead(e)
  PROVE  LET low == DigitsAt(Text, start + 2)
             comma == e + 1 <= Last /\ Text[e + 1] = 44
             open == comma /\ e + 1 < Last /\ Text[e + 2] = 125
             high == IF comma /\ ~ open THEN DigitsAt(Text, e + 2) ELSE low
             close == IF comma /\ ~ open THEN e + 2 + Len(high)
                      ELSE IF comma THEN e + 2 ELSE e + 1
         IN  Meant = MeantBy(start + 1, low, e + 1, comma, open, high, close)
<1> DEFINE i == start + 1
           behind == i + 1 + Len(DigitsAt(Text, i + 1))
<1>1. /\ i + 1 = start + 2 /\ behind = e + 1 /\ behind + 1 = e + 2 /\ Len(Text) = Last
      /\ i = start + 1
  <2>1. start + 2 + Len(DigitsAt(Text, start + 2)) = e + 1 /\ Len(Text) = Last
    BY MinReadFacts, Zenon
  <2>2. i + 1 = start + 2
    BY InvFacts
  <2> QED
    BY <2>1, <2>2
<1>2. Meant = RepeatAt(Text, i, RepeatLimit)
  BY DEF Meant
<1> HIDE DEF i
<1>3. RepeatAt(Text, i, RepeatLimit) =
        LET low == DigitsAt(Text, i + 1)
            comma == behind <= Len(Text) /\ Text[behind] = 44
            open == comma /\ behind < Len(Text) /\ Text[behind + 1] = 125
            high == IF comma /\ ~ open THEN DigitsAt(Text, behind + 1) ELSE low
            close == IF comma /\ ~ open THEN behind + 1 + Len(high)
                     ELSE IF comma THEN behind + 1 ELSE behind
        IN  MeantBy(i, low, behind, comma, open, high, close)
  BY Zenon DEF RepeatAt, MeantBy
<1> HIDE DEF behind
<1> QED
  BY <1>1, <1>2, <1>3, Zenon

\* The least number alone.
LEMMA MeantOne ==
  ASSUME Inv, NEW e \in Nat, MinRead(e), At(e) # Comma
  PROVE  Meant = IF At(e) = RBrace THEN MeansBounds(repeatMin, repeatMin, FALSE, e + 2)
                 ELSE Refused("EBRACE", start + 1)
<1> DEFINE low == DigitsAt(Text, start + 2)
           comma == e + 1 <= Last /\ Text[e + 1] = 44
           open == comma /\ e + 1 < Last /\ Text[e + 2] = 125
           high == IF comma /\ ~ open THEN DigitsAt(Text, e + 2) ELSE low
           close == IF comma /\ ~ open THEN e + 2 + Len(high)
                    ELSE IF comma THEN e + 2 ELSE e + 1
<1>1. /\ low # <<>> /\ e \in 0 .. Last
      /\ Decimal(low) = repeatMin /\ repeatMin \in Nat /\ repeatMin <= RepeatLimit
      /\ Len(Text) = Last /\ (e # Last => Text[e + 1] = At(e))
      /\ (e = Last <=> At(e) = NUL)
  BY MinReadFacts, Zenon
<1>2. Meant = MeantBy(start + 1, low, e + 1, comma, open, high, close)
  BY MeantUnfolds, Zenon
<1>3. RepeatLimit \in Nat /\ Last \in Nat
  BY InvFacts
<1> HIDE DEF low
<1>4. comma = FALSE /\ open = FALSE /\ high = low /\ close = e + 1
  <2>1. ~ (e + 1 <= Last /\ Text[e + 1] = 44)
    BY <1>1, <1>3 DEF Comma
  <2> QED
    BY <2>1
<1>5. At(e) = RBrace <=> ~ (e + 1 > Len(Text) \/ Text[e + 1] # 125)
  BY <1>1, <1>3, NulIsPlain DEF RBrace
<1> HIDE DEF comma, open, high, close
<1>6. /\ ~ repeatMin > RepeatLimit /\ ~ repeatMin < repeatMin /\ (e + 1) + 1 = e + 2
  BY <1>1, <1>3
<1>7. Meant = MeantBy(start + 1, low, e + 1, FALSE, FALSE, low, e + 1)
  BY <1>2, <1>4
<1> QED
  BY <1>1, <1>5, <1>6, <1>7, Zenon DEF MeantBy

\* The least number with no largest one.
LEMMA MeantOpen ==
  ASSUME Inv, NEW e \in Nat, MinRead(e), At(e) = Comma, At(e + 1) = RBrace
  PROVE  Meant = MeansBounds(repeatMin, repeatMin, TRUE, e + 3)
<1> DEFINE low == DigitsAt(Text, start + 2)
           comma == e + 1 <= Last /\ Text[e + 1] = 44
           open == comma /\ e + 1 < Last /\ Text[e + 2] = 125
           high == IF comma /\ ~ open THEN DigitsAt(Text, e + 2) ELSE low
           close == IF comma /\ ~ open THEN e + 2 + Len(high)
                    ELSE IF comma THEN e + 2 ELSE e + 1
<1>1. /\ low # <<>> /\ e \in 0 .. Last
      /\ Decimal(low) = repeatMin /\ repeatMin \in Nat /\ repeatMin <= RepeatLimit
      /\ Len(Text) = Last /\ (e # Last => Text[e + 1] = At(e))
  BY MinReadFacts, Zenon
<1>2. Meant = MeantBy(start + 1, low, e + 1, comma, open, high, close)
  BY MeantUnfolds, Zenon
<1>3. RepeatLimit \in Nat /\ Last \in Nat
  BY InvFacts
<1>4. Text[e + 1] = 44 /\ Text[e + 2] = 125 /\ e + 1 < Last
  <2>1. e # Last /\ e + 1 \in 0 .. Last /\ e + 1 # Last /\ Text[e + 2] = At(e + 1)
    BY <1>1, CommaFacts, NulIsPlain
  <2> QED
    BY <1>1, <2>1 DEF Comma, RBrace
<1> HIDE DEF low
<1>5. comma = TRUE /\ open = TRUE /\ high = low /\ close = e + 2
  <2>1. e + 1 <= Last
    BY <1>3, <1>4
  <2> QED
    BY <1>4, <2>1
<1> HIDE DEF comma, open, high, close
<1>6. /\ ~ repeatMin > RepeatLimit /\ (e + 2) + 1 = e + 3 /\ ~ e + 2 > Len(Text)
  BY <1>1, <1>3, <1>4
<1>7. Meant = MeantBy(start + 1, low, e + 1, TRUE, TRUE, low, e + 2)
  BY <1>2, <1>5
<1> QED
  BY <1>1, <1>4, <1>6, <1>7, Zenon DEF MeantBy

\* The least and the largest number.
LEMMA MeantTwo ==
  ASSUME Inv, NEW e \in Nat, MinRead(e), At(e) = Comma, At(e + 1) # RBrace
  PROVE  LET high == DigitsAt(Text, e + 2)
             close == e + 2 + Len(high)
         IN  Meant =
               IF high = <<>> THEN Refused("EBRACE", e + 2)
               ELSE IF Decimal(high) > RepeatLimit THEN Refused("BADRPT", start + 1)
               ELSE IF close > Last \/ Text[close] # 125 THEN Refused("EBRACE", start + 1)
               ELSE IF Decimal(high) < repeatMin THEN Refused("BADRPT", start + 1)
               ELSE MeansBounds(repeatMin, Decimal(high), FALSE, close + 1)
<1> DEFINE low == DigitsAt(Text, start + 2)
           comma == e + 1 <= Last /\ Text[e + 1] = 44
           open == comma /\ e + 1 < Last /\ Text[e + 2] = 125
           high == IF comma /\ ~ open THEN DigitsAt(Text, e + 2) ELSE low
           close == IF comma /\ ~ open THEN e + 2 + Len(high)
                    ELSE IF comma THEN e + 2 ELSE e + 1
           digits == DigitsAt(Text, e + 2)
<1>1. /\ low # <<>> /\ e \in 0 .. Last
      /\ Decimal(low) = repeatMin /\ repeatMin \in Nat /\ repeatMin <= RepeatLimit
      /\ Len(Text) = Last /\ (e # Last => Text[e + 1] = At(e))
  BY MinReadFacts, Zenon
<1>2. Meant = MeantBy(start + 1, low, e + 1, comma, open, high, close)
  BY MeantUnfolds, Zenon
<1>3. RepeatLimit \in Nat /\ Last \in Nat
  BY InvFacts
<1>4. Text[e + 1] = 44 /\ e + 1 <= Last /\ ~ (e + 1 < Last /\ Text[e + 2] = 125)
  <2>1. /\ e # Last /\ e + 1 \in 0 .. Last
        /\ e + 1 # Last => Text[e + 2] = At(e + 1)
    BY <1>1, CommaFacts
  <2> QED
    BY <1>1, <1>3, <2>1 DEF Comma, RBrace
<1> HIDE DEF low, digits
<1>5. comma = TRUE /\ open = FALSE /\ high = digits /\ close = e + 2 + Len(digits)
  BY <1>4 DEF digits
<1> HIDE DEF comma, open, high, close
<1>6. ~ repeatMin > RepeatLimit /\ (e + 1) + 1 = e + 2
  BY <1>1, <1>3
<1>7. Meant = MeantBy(start + 1, low, e + 1, TRUE, FALSE, digits, e + 2 + Len(digits))
  BY <1>2, <1>5
<1>8. Meant =
        IF digits = <<>> THEN Refused("EBRACE", e + 2)
        ELSE IF Decimal(digits) > RepeatLimit THEN Refused("BADRPT", start + 1)
        ELSE IF e + 2 + Len(digits) > Last \/ Text[e + 2 + Len(digits)] # 125
          THEN Refused("EBRACE", start + 1)
        ELSE IF Decimal(digits) < repeatMin THEN Refused("BADRPT", start + 1)
        ELSE MeansBounds(repeatMin, Decimal(digits), FALSE, (e + 2 + Len(digits)) + 1)
  BY <1>1, <1>6, <1>7, Zenon DEF MeantBy
<1> QED
  BY <1>8, Zenon DEF digits

\* The largest number, read up to the current position.
LEMMA MaxReadFacts ==
  ASSUME Inv, NEW e \in Nat, MinRead(e), MaxDigits(e), At(pos) \notin Digit
  PROVE  Meant = IF At(pos) # RBrace THEN Refused("EBRACE", start + 1)
                 ELSE IF repeatMax < repeatMin THEN Refused("BADRPT", start + 1)
                 ELSE MeansBounds(repeatMin, repeatMax, FALSE, pos + 2)
<1> DEFINE high == DigitsAt(Text, e + 2)
           close == e + 2 + Len(high)
<1>1. /\ e + 1 < pos /\ DigitsOnly(e + 1, pos) /\ repeatMax = Decimal(Read(e + 1, pos))
      /\ At(e) = Comma /\ At(e + 1) # RBrace
  BY DEF MaxDigits
<1>2. /\ IsCString /\ Last \in Nat /\ pos \in 0 .. Last /\ repeatMax \in 0 .. RepeatLimit
      /\ RepeatLimit \in Nat
  BY InvFacts, RepeatFacts
<1>3. e + 1 \in 0 .. Last /\ pos \in e + 1 .. Last /\ (e + 1) + 1 = e + 2
  BY <1>1, <1>2
<1>4. high = Read(e + 1, pos)
  BY <1>1, <1>2, <1>3, ReadBound
<1>5. Len(Read(e + 1, pos)) = pos - (e + 1) /\ Read(e + 1, pos) # <<>>
  BY <1>1, <1>2, <1>3, ReadDigits
<1>6. close = pos + 1 /\ close + 1 = pos + 2
  BY <1>2, <1>3, <1>4, <1>5
<1>7. ~ Decimal(high) > RepeatLimit /\ Decimal(high) = repeatMax /\ high # <<>>
  BY <1>1, <1>2, <1>4, <1>5
<1>8. At(pos) # RBrace <=> close > Last \/ Text[close] # 125
  <2>1. pos = Last <=> At(pos) = NUL
    BY <1>2 DEF IsCString
  <2>2. pos # Last => Text[pos + 1] = At(pos)
    BY <1>2, TextFacts
  <2> QED
    BY <1>2, <1>6, <2>1, <2>2, NulIsPlain DEF RBrace
<1>9. Meant =
        IF high = <<>> THEN Refused("EBRACE", e + 2)
        ELSE IF Decimal(high) > RepeatLimit THEN Refused("BADRPT", start + 1)
        ELSE IF close > Last \/ Text[close] # 125 THEN Refused("EBRACE", start + 1)
        ELSE IF Decimal(high) < repeatMin THEN Refused("BADRPT", start + 1)
        ELSE MeansBounds(repeatMin, Decimal(high), FALSE, close + 1)
  BY <1>1, MeantTwo, Zenon
<1> HIDE DEF high, close
<1> QED
  BY <1>6, <1>7, <1>8, <1>9, Zenon

\* No digit stands at a.
LEMMA NoDigits ==
  ASSUME Inv, NEW a \in 0 .. Last, At(a) \notin Digit
  PROVE  DigitsAt(Text, a + 1) = <<>>
<1>1. IsCString /\ a \in a .. Last /\ DigitsOnly(a, a)
  BY InvFacts DEF DigitsOnly
<1>2. DigitsAt(Text, a + 1) = Read(a, a)
  BY <1>1, ReadBound
<1> QED
  BY <1>1, <1>2, ReadDigits

\* A brace without a count is refused.
LEMMA BoundNoCountStep == Inv /\ BoundInv /\ NoCount => BoundInv'
<1> SUFFICES ASSUME Inv, BoundInv, NoCount PROVE BoundInv'
  OBVIOUS
<1>1. /\ pc \in {"min0", "max0"} /\ At(pos) \notin Digit /\ Fail("EBRACE", pos)
      /\ UNCHANGED <<pattern, start>>
  BY DEF NoCount, AtDigit, RepeatUnchanged
<1>2. pos \in 0 .. Last /\ start \in Nat
  BY InvFacts
<1>3. Meant = Refused("EBRACE", pos + 1)
  <2>1. CASE pc = "min0"
    <3>1. pos = start + 1 /\ pos + 1 = (start + 1) + 1
      BY <1>2, <2>1 DEF BoundInv, BoundRead
    <3>2. DigitsAt(Text, (start + 1) + 1) = <<>>
      BY <1>1, <1>2, <3>1, NoDigits
    <3> QED
      BY <3>1, <3>2, NoBound DEF Meant
  <2>2. CASE pc = "max0"
    <3>1. PICK e \in Nat : /\ MinRead(e) /\ pos = e + 1
                           /\ At(e) = Comma /\ At(e + 1) # RBrace
      BY <2>2 DEF BoundInv, BoundRead
    <3>2. DigitsAt(Text, pos + 1) = <<>> /\ pos + 1 = e + 2
      BY <1>1, <1>2, <3>1, NoDigits
    <3>3. DigitsAt(Text, e + 2) = <<>>
      BY <3>2
    <3> QED
      BY <3>1, <3>2, <3>3, MeantTwo, Zenon
  <2> QED
    BY <1>1, <2>1, <2>2
<1> QED
  BY <1>1, <1>3, BoundRefused

\* A digit more.
LEMMA BoundDigitStep == Inv /\ BoundInv /\ CountDigit => BoundInv'
<1> SUFFICES ASSUME Inv, BoundInv, CountDigit PROVE BoundInv'
  OBVIOUS
<1> DEFINE digit == At(pos) - 48
           isMin == pc \in {"min0", "min"}
           value == CASE pc = "min" -> repeatMin
                      [] pc = "max" -> repeatMax
                      [] OTHER      -> 0
<1>1. /\ pc \in {"min0", "min", "max0", "max"} /\ At(pos) \in Digit
      /\ pos' = pos + 1 /\ UNCHANGED <<unbounded, pattern, start>>
      /\ pc # "next" /\ pc # "done" /\ rc = "OK" /\ At(start) = LBrace
  BY DEF CountDigit, AtDigit, RepeatUnchanged, Inv, Follows, BoundInv, InConstruct
<1>2. /\ pos \in 0 .. Last /\ start \in Nat /\ pos \in Nat /\ Last \in Nat
      /\ repeatMin \in Nat /\ repeatMax \in Nat /\ start < pos
      /\ IsCString /\ RepeatLimit \in Nat
  BY <1>1, InvFacts, RepeatFacts
<1>3. IF Fits(value, digit)
        THEN /\ repeatMin' = IF isMin THEN 10 * value + digit ELSE repeatMin
             /\ repeatMax' = IF isMin THEN repeatMax ELSE 10 * value + digit
             /\ pc' = IF isMin THEN "min" ELSE "max"
             /\ UNCHANGED <<tokens, rc, errorAt>>
        ELSE Fail("BADRPT", start) /\ UNCHANGED <<repeatMin, repeatMax>>
  BY DEF CountDigit
<1>4. value = IF pc = "min" THEN repeatMin ELSE IF pc = "max" THEN repeatMax ELSE 0
  BY <1>1
<1>5. value \in Nat
  BY <1>2, <1>4
<1> HIDE DEF value, digit
<1>6. CASE pc \in {"min0", "min"}
  <2> DEFINE a == start + 1
  <2>1. a \in 0 .. Last /\ a <= pos /\ DigitsOnly(a, pos) /\ value = Decimal(Read(a, pos))
    <3>1. CASE pc = "min0"
      <4>1. pos = a
        BY <3>1 DEF BoundInv, BoundRead
      <4>2. DigitsOnly(a, pos)
        BY <1>2, <4>1 DEF DigitsOnly
      <4>3. a \in 0 .. Last /\ pos \in a .. Last /\ a <= pos
        BY <1>2, <4>1
      <4>4. Read(a, pos) = <<>> /\ Read(a, pos) \in Seq(Digit)
        <5> HIDE DEF a
        <5> QED BY <1>2, <4>1, <4>2, <4>3, ReadDigits
      <4>5. Decimal(Read(a, pos)) = 0
        <5> HIDE DEF a
        <5> QED BY <4>4, DecimalDigits
      <4> QED
        BY <1>4, <3>1, <4>2, <4>3, <4>5
    <3>2. CASE pc = "min"
      BY <1>2, <1>4, <3>2 DEF BoundInv, BoundRead
    <3> QED
      BY <1>6, <3>1, <3>2
  <2>2. /\ pos + 1 \in a + 1 .. Last /\ DigitsOnly(a, pos + 1)
        /\ 10 * value + digit = Decimal(Read(a, pos + 1))
        /\ ~ Fits(value, digit) =>
              /\ DigitsAt(Text, a + 1) # <<>>
              /\ Decimal(DigitsAt(Text, a + 1)) > RepeatLimit
    <3> HIDE DEF a
    <3> QED BY <1>1, <1>5, <2>1, DigitMore DEF digit
  <2>3. CASE Fits(value, digit)
    <3>1. /\ repeatMin' = Decimal(Read(a, pos')) /\ pc' = "min" /\ rc' = "OK"
          /\ a < pos' /\ DigitsOnly(a, pos')
      BY <1>1, <1>2, <1>3, <1>6, <2>2, <2>3
    <3> QED
      BY <1>1, <3>1, ToMin
  <2>4. CASE ~ Fits(value, digit)
    <3>1. Meant = Refused("BADRPT", start + 1)
      BY <2>2, <2>4, MinTooLarge DEF Meant
    <3>2. Fail("BADRPT", start)
      BY <1>3, <2>4
    <3> QED
      BY <1>1, <3>1, <3>2, BoundRefused
  <2> QED
    BY <2>3, <2>4
<1>7. CASE pc \in {"max0", "max"}
  <2>1. PICK e \in Nat :
          /\ MinRead(e) /\ At(e) = Comma /\ At(e + 1) # RBrace /\ ~ unbounded
          /\ pc = "max0" => pos = e + 1
          /\ pc = "max" => /\ e + 1 < pos /\ DigitsOnly(e + 1, pos)
                           /\ repeatMax = Decimal(Read(e + 1, pos))
    BY <1>7 DEF BoundInv, BoundRead, MaxDigits
  <2> DEFINE a == e + 1
  <2>2. a \in 0 .. Last /\ a <= pos /\ DigitsOnly(a, pos) /\ value = Decimal(Read(a, pos))
    <3>1. CASE pc = "max0"
      <4>1. pos = a
        BY <2>1, <3>1
      <4>2. DigitsOnly(a, pos)
        BY <1>2, <4>1 DEF DigitsOnly
      <4>3. a \in 0 .. Last /\ pos \in a .. Last /\ a <= pos
        BY <1>2, <4>1
      <4>4. Read(a, pos) = <<>> /\ Read(a, pos) \in Seq(Digit)
        <5> HIDE DEF a
        <5> QED BY <1>2, <4>1, <4>2, <4>3, ReadDigits
      <4>5. Decimal(Read(a, pos)) = 0
        <5> HIDE DEF a
        <5> QED BY <4>4, DecimalDigits
      <4> QED
        BY <1>4, <3>1, <4>2, <4>3, <4>5
    <3>2. CASE pc = "max"
      BY <1>2, <1>4, <2>1, <3>2
    <3> QED
      BY <1>7, <3>1, <3>2
  <2>3. /\ pos + 1 \in a + 1 .. Last /\ DigitsOnly(a, pos + 1)
        /\ 10 * value + digit = Decimal(Read(a, pos + 1))
        /\ ~ Fits(value, digit) =>
              /\ DigitsAt(Text, a + 1) # <<>>
              /\ Decimal(DigitsAt(Text, a + 1)) > RepeatLimit
    <3> HIDE DEF a
    <3> QED BY <1>1, <1>5, <2>2, DigitMore DEF digit
  <2>4. CASE Fits(value, digit)
    <3>1. /\ repeatMax' = Decimal(Read(a, pos')) /\ pc' = "max" /\ rc' = "OK"
          /\ a < pos' /\ DigitsOnly(a, pos') /\ repeatMin' = repeatMin
      BY <1>1, <1>2, <1>3, <1>7, <2>3, <2>4
    <3> QED
      BY <1>1, <2>1, <3>1, ToMax
  <2>5. CASE ~ Fits(value, digit)
    <3>1. DigitsAt(Text, e + 2) # <<>> /\ Decimal(DigitsAt(Text, e + 2)) > RepeatLimit
      <4>1. a + 1 = e + 2
        OBVIOUS
      <4> QED
        BY <2>3, <2>5, <4>1
    <3>2. Meant = Refused("BADRPT", start + 1)
      BY <2>1, <3>1, MeantTwo, Zenon
    <3>3. Fail("BADRPT", start)
      BY <1>3, <2>5
    <3> QED
      BY <1>1, <3>2, <3>3, BoundRefused
  <2> QED
    BY <2>4, <2>5
<1> QED
  BY <1>1, <1>6, <1>7

\* The last digit of a bound was read.
LEMMA BoundReadStep == Inv /\ BoundInv /\ (MinDone \/ MaxDone) => BoundInv'
<1> SUFFICES ASSUME Inv, BoundInv, MinDone \/ MaxDone PROVE BoundInv'
  OBVIOUS
<1>1. /\ UNCHANGED <<pattern, start, repeatMin>> /\ At(pos) \notin Digit
      /\ rc' = "OK" /\ At(start) = LBrace
  BY DEF MinDone, MaxDone, AtDigit, RepeatUnchanged, Inv, Follows, BoundInv, InConstruct
<1>2. pos \in 0 .. Last /\ start \in Nat /\ pos \in Nat /\ Last \in Nat
  BY InvFacts
<1>3. CASE MinDone
  <2>1. MinRead(pos)
    BY <1>1, <1>2, <1>3 DEF MinDone, BoundInv, BoundRead, MinRead
  <2>2. repeatMax' = repeatMin /\ (unbounded' <=> At(pos) = Comma /\ At(pos + 1) = RBrace)
    BY <1>3, Zenon DEF MinDone
  <2>3. CASE At(pos) = Comma /\ At(pos + 1) # RBrace
    <3>1. ~ unbounded' /\ pc' = "max0" /\ pos' = pos + 1
      BY <1>3, <2>2, <2>3 DEF MinDone
    <3> QED
      BY <1>1, <1>2, <2>1, <2>3, <3>1, ToMax
  <2>4. CASE At(pos) = Comma /\ At(pos + 1) = RBrace
    <3>1. unbounded' /\ pc' = "brace" /\ pos' = pos + 1
      BY <1>3, <2>2, <2>4 DEF MinDone
    <3> QED
      BY <1>1, <1>2, <2>1, <2>2, <2>4, <3>1, ToBrace
  <2>5. CASE At(pos) # Comma
    <3>1. ~ unbounded' /\ pc' = "brace" /\ pos' = pos
      BY <1>3, <2>2, <2>5 DEF MinDone
    <3> QED
      BY <1>1, <1>2, <2>1, <2>2, <2>5, <3>1, ToBrace
  <2> QED
    BY <2>3, <2>4, <2>5
<1>4. CASE MaxDone
  <2>1. PICK e \in Nat : MinRead(e) /\ MaxDigits(e)
    BY <1>4 DEF MaxDone, BoundInv, BoundRead
  <2>2. pc' = "brace" /\ UNCHANGED <<pos, repeatMax, unbounded>>
    BY <1>4 DEF MaxDone
  <2> QED
    BY <1>1, <2>1, <2>2, ToBrace
<1> QED
  BY <1>3, <1>4

\* The end of the construct.
LEMMA BoundEndStep == Inv /\ BoundInv /\ (BraceMissing \/ RepeatClose) => BoundInv'
<1> SUFFICES ASSUME Inv, BoundInv, BraceMissing \/ RepeatClose PROVE BoundInv'
  OBVIOUS
<1>1. /\ UNCHANGED <<pattern, start>> /\ pc = "brace" /\ rc = "OK"
  BY DEF BraceMissing, RepeatClose, RepeatUnchanged, Inv, Follows
<1>2. pos \in Nat /\ RBrace # Comma /\ repeatMin \in Nat
  BY InvFacts, RepeatFacts DEF RBrace, Comma
<1>3. PICK e \in Nat :
       /\ MinRead(e)
       /\ \/ At(e) # Comma /\ pos = e /\ ~ unbounded /\ repeatMax = repeatMin
          \/ /\ At(e) = Comma /\ At(e + 1) = RBrace /\ pos = e + 1
             /\ unbounded /\ repeatMax = repeatMin
          \/ MaxDigits(e) /\ At(pos) \notin Digit
  BY <1>1 DEF BoundInv, BoundRead
<1>4. Meant = IF At(pos) # RBrace THEN Refused("EBRACE", start + 1)
              ELSE IF ~ unbounded /\ repeatMax < repeatMin
                THEN Refused("BADRPT", start + 1)
              ELSE MeansBounds(repeatMin, repeatMax, unbounded, pos + 2)
  <2>1. CASE At(e) # Comma /\ pos = e /\ ~ unbounded /\ repeatMax = repeatMin
    <3>1. Meant = IF At(e) = RBrace THEN MeansBounds(repeatMin, repeatMin, FALSE, e + 2)
                  ELSE Refused("EBRACE", start + 1)
      BY <1>3, <2>1, MeantOne
    <3>2. ~ repeatMax < repeatMin /\ unbounded = FALSE
      <4>1. unbounded \in BOOLEAN
        BY InvFacts, Zenon DEF FlagsOK
      <4> QED
        BY <1>2, <2>1, <4>1
    <3> QED
      BY <2>1, <3>1, <3>2, Zenon
  <2>2. CASE /\ At(e) = Comma /\ At(e + 1) = RBrace /\ pos = e + 1
             /\ unbounded /\ repeatMax = repeatMin
    <3>1. Meant = MeansBounds(repeatMin, repeatMin, TRUE, e + 3)
      BY <1>3, <2>2, MeantOpen
    <3>2. e + 3 = pos + 2 /\ unbounded = TRUE
      <4>1. unbounded \in BOOLEAN
        BY InvFacts, Zenon DEF FlagsOK
      <4> QED
        BY <2>2, <4>1
    <3> QED
      BY <2>2, <3>1, <3>2, Zenon
  <2>3. CASE MaxDigits(e) /\ At(pos) \notin Digit
    <3>1. Meant = IF At(pos) # RBrace THEN Refused("EBRACE", start + 1)
                  ELSE IF repeatMax < repeatMin THEN Refused("BADRPT", start + 1)
                  ELSE MeansBounds(repeatMin, repeatMax, FALSE, pos + 2)
      BY <1>3, <2>3, MaxReadFacts
    <3>2. unbounded = FALSE
      <4>1. unbounded \in BOOLEAN
        BY InvFacts, Zenon DEF FlagsOK
      <4> QED
        BY <2>3, <4>1 DEF MaxDigits
    <3> QED
      BY <3>1, <3>2, Zenon
  <2> QED
    BY <1>3, <2>1, <2>2, <2>3
<1>5. CASE BraceMissing
  <2>1. Fail("EBRACE", start) /\ At(pos) # RBrace
    BY <1>5 DEF BraceMissing
  <2> QED
    BY <1>1, <1>4, <2>1, BoundRefused
<1>6. CASE RepeatClose /\ ~ unbounded /\ repeatMax < repeatMin
  <2>1. Fail("BADRPT", start) /\ At(pos) = RBrace
    BY <1>6 DEF RepeatClose
  <2> QED
    BY <1>1, <1>4, <1>6, <2>1, BoundRefused
<1>7. CASE RepeatClose /\ ~ (~ unbounded /\ repeatMax < repeatMin)
  <2>1. /\ Deliver("REPEAT", {}, repeatMin, repeatMax, unbounded) /\ At(pos) = RBrace
        /\ pos' = pos + 1
    BY <1>7 DEF RepeatClose
  <2>2. Meant = MeansBounds(repeatMin, repeatMax, unbounded, pos + 2)
    BY <1>4, <1>7, <2>1, Zenon
  <2>3. pos' + 1 = pos + 2
    BY <1>2, <2>1
  <2>4. Meant = MeansBounds(repeatMin, repeatMax, unbounded, pos' + 1)
    BY <2>2, <2>3, Zenon
  <2> QED
    BY <1>1, <2>1, <2>4, BoundDelivered
<1> QED
  BY <1>5, <1>6, <1>7

\* Before the first token.
LEMMA BoundInit == Init => BoundInv
BY DEF Init, BoundInv, InConstruct, BoundRead, BoundsAreExact, JustDelivered, JustRefused

\* Every step.
LEMMA BoundStep == Inv /\ BoundInv /\ [Next]_vars => BoundInv'
<1> SUFFICES ASSUME Inv, BoundInv, [Next]_vars PROVE BoundInv'
  OBVIOUS
<1>1. CASE UNCHANGED vars
  BY <1>1 DEF vars, token, BoundInv, InConstruct, BoundRead, BoundsAreExact, MinRead,
     MaxDigits, DigitsOnly, Read, JustDelivered, JustRefused, MeansAt, Text, At, Last
<1>2. CASE Next
  BY <1>1, <1>2, OtherSteps, BoundOpenStep, BoundNoCountStep, BoundDigitStep, BoundReadStep,
     BoundEndStep DEF Next, Returned
<1> QED
  BY <1>1, <1>2

\* A repetition means what its text says, and is refused only for what is wrong
\* in it: bounds have their decimal value, whatever the limit is.
THEOREM BoundsAreRead == Spec => []BoundsAreExact
<1>1. BoundInv => BoundsAreExact
  BY DEF BoundInv
<1> QED
  BY <1>1, InvInit, InvStep, BoundInit, BoundStep, PTL DEF Spec

-----------------------------------------------------------------------------
(* The units of a class. *)

\* A character is escaped by a backslash before it that is not.
LEMMA EscapedBy ==
  ASSUME NEW s, NEW lo \in Nat, NEW k \in Nat, lo <= k
  PROVE  /\ ~ Escaped(s, lo, lo)
         /\ Escaped(s, lo, k + 1) <=> s[k] = 92 /\ ~ Escaped(s, lo, k)
<1>1. ~ Escaped(s, lo, lo)
  <2>1. Backslashes(s, lo, lo) = {}
    BY DEF Backslashes
  <2>2. Cardinality({}) = 0
    BY FS_EmptySet
  <2> QED
    BY <2>1, <2>2 DEF Escaped
<1>2. CASE s[k] # 92
  <2>1. Backslashes(s, lo, k + 1) = {}
    <3> SUFFICES ASSUME NEW j \in lo .. (k + 1) - 1, \A l \in j .. (k + 1) - 1 : s[l] = 92
                 PROVE  FALSE
      BY DEF Backslashes
    <3>1. k \in j .. (k + 1) - 1
      OBVIOUS
    <3> QED
      BY <1>2, <3>1
  <2>2. Cardinality({}) = 0
    BY FS_EmptySet
  <2>3. ~ Escaped(s, lo, k + 1)
    <3>1. 0 % 2 # 1
      OBVIOUS
    <3> QED
      BY <2>1, <2>2, <3>1, Zenon DEF Escaped
  <2> QED
    BY <1>1, <1>2, <2>3
<1>3. CASE s[k] = 92
  <2> DEFINE B == Backslashes(s, lo, k)
  <2>1. B \subseteq lo .. k - 1 /\ k \notin B
    BY DEF Backslashes
  <2>2. Backslashes(s, lo, k + 1) = B \cup {k}
    <3>1. ASSUME NEW j \in Backslashes(s, lo, k + 1) PROVE j \in B \cup {k}
      BY DEF Backslashes
    <3>2. ASSUME NEW j \in B \cup {k} PROVE j \in Backslashes(s, lo, k + 1)
      <4>1. j \in lo .. (k + 1) - 1
        BY <2>1
      <4>2. ASSUME NEW l \in j .. (k + 1) - 1 PROVE s[l] = 92
        BY <1>3, <4>1 DEF Backslashes
      <4> QED
        BY <4>1, <4>2 DEF Backslashes
    <3> QED
      BY <3>1, <3>2
  <2>3. IsFiniteSet(B)
    <3>1. IsFiniteSet(lo .. k - 1)
      BY FS_Interval
    <3> QED
      BY <2>1, <3>1, FS_Subset
  <2> HIDE DEF B
  <2>4. Cardinality(B \cup {k}) = Cardinality(B) + 1 /\ Cardinality(B) \in Nat
    BY <2>1, <2>3, FS_AddElement, FS_CardinalityType
  <2>5. Cardinality(B \cup {k}) % 2 = 1 <=> ~ Cardinality(B) % 2 = 1
    BY <2>4
  <2> QED
    BY <1>1, <1>3, <2>2, <2>5 DEF Escaped, B
<1> QED
  BY <1>2, <1>3

\* A text and where the inside of a class begins.
IsInside(s, lo) == s \in Seq(Char) /\ lo \in 1 .. Len(s) + 1

\* The class ends at its first bracket that is not escaped, or at the end.
LEMMA CloserFacts ==
  ASSUME NEW s, NEW lo, IsInside(s, lo)
  PROVE  /\ Len(s) \in Nat /\ lo \in Nat
         /\ Closer(s, lo) \in lo .. Len(s) + 1
         /\ Closer(s, lo) \in Nat
         /\ Closer(s, lo) <= Len(s) =>
              s[Closer(s, lo)] = 93 /\ ~ Escaped(s, lo, Closer(s, lo))
         /\ Closers(s, lo) = {} <=> Closer(s, lo) = Len(s) + 1
         /\ \A j \in lo .. Len(s) : s[j] = 93 /\ ~ Escaped(s, lo, j) => Closer(s, lo) <= j
<1>0. Len(s) \in Nat /\ lo \in Nat /\ lo <= Len(s) + 1
  BY DEF IsInside
<1> DEFINE C == Closers(s, lo)
<1>1. C = {j \in lo .. Len(s) : s[j] = 93 /\ ~ Escaped(s, lo, j)}
  BY DEF Closers
<1>2. CASE C = {}
  <2>1. Closer(s, lo) = Len(s) + 1
    BY <1>2 DEF Closer
  <2> QED
    BY <1>0, <1>1, <1>2, <2>1
<1>3. CASE C # {}
  <2>1. C \in SUBSET Nat
    BY <1>0, <1>1
  <2> HIDE DEF C
  <2>2. \E j \in C : \A k \in C : j <= k
    BY <1>3, <2>1, FirstPosition
  <2>3. Closer(s, lo) = CHOOSE j \in C : \A k \in C : j <= k
    BY <1>3, Zenon DEF Closer, C
  <2>4. Closer(s, lo) \in C /\ \A k \in C : Closer(s, lo) <= k
    BY <2>2, <2>3, Zenon
  <2>5. /\ Closer(s, lo) \in lo .. Len(s) /\ s[Closer(s, lo)] = 93
        /\ ~ Escaped(s, lo, Closer(s, lo))
    BY <1>1, <2>4
  <2>6. \A j \in lo .. Len(s) : s[j] = 93 /\ ~ Escaped(s, lo, j) => Closer(s, lo) <= j
    BY <1>1, <2>4
  <2>7. Closer(s, lo) # Len(s) + 1 /\ Closer(s, lo) \in lo .. Len(s) + 1 /\ Closer(s, lo) \in Nat
    BY <1>0, <2>5
  <2> QED
    BY <1>0, <1>3, <2>5, <2>6, <2>7 DEF C
<1> QED
  BY <1>2, <1>3

\* There is only one position that the next unit can have.
LEMMA NextUnitIs ==
  ASSUME NEW s, NEW lo, IsInside(s, lo), NEW k \in Nat,
         NEW m \in Begins(s, lo) \cup {Closer(s, lo)},
         m > k, \A j \in Begins(s, lo) : j > k => m <= j
  PROVE  NextUnit(s, lo, k) = m
<1> DEFINE hi == Closer(s, lo)
           D == Begins(s, lo) \cup {hi}
           IsNext(n) == n > k /\ \A j \in Begins(s, lo) : j > k => n <= j
           n == NextUnit(s, lo, k)
<1>1. hi \in Nat /\ lo \in Nat
  BY CloserFacts
<1>2. \A j \in Begins(s, lo) : j \in Nat /\ j < hi
  BY <1>1 DEF Begins
<1>3. n \in D /\ IsNext(n)
  <2>1. n = CHOOSE x \in D : IsNext(x)
    BY Zenon DEF NextUnit
  <2>2. m \in D /\ IsNext(m)
    OBVIOUS
  <2> HIDE DEF n, D, IsNext
  <2> QED
    BY <2>1, <2>2, Zenon
<1> HIDE DEF n, hi
<1>4. m \in Nat /\ n \in Nat /\ m <= hi /\ n <= hi
  BY <1>1, <1>2, <1>3 DEF hi
<1>5. n <= m
  <2>1. CASE m \in Begins(s, lo)
    BY <1>3, <2>1
  <2>2. CASE m = hi
    BY <1>4, <2>2
  <2> QED
    BY <2>1, <2>2 DEF hi
<1>6. m <= n
  <2>1. CASE n \in Begins(s, lo)
    BY <1>3, <2>1
  <2>2. CASE n = hi
    BY <1>4, <2>2
  <2> QED
    BY <1>3, <2>1, <2>2
<1> QED
  BY <1>4, <1>5, <1>6 DEF n

\* A unit is a character, or a backslash and another one.
LEMMA UnitFacts ==
  ASSUME NEW s, NEW lo, IsInside(s, lo), NEW k \in Begins(s, lo)
  PROVE  LET hi == Closer(s, lo)
             next == NextUnit(s, lo, k)
         IN  /\ k \in lo .. Len(s) /\ k < hi /\ ~ Escaped(s, lo, k)
             /\ next \in Begins(s, lo) \cup {hi} /\ next > k
             /\ s[k] # 92 => next = k + 1 /\ ~ Escaped(s, lo, k + 1)
             /\ s[k] = 92 /\ k < Len(s) => /\ next = k + 2 /\ ~ Escaped(s, lo, k + 2)
                                           /\ k + 1 < hi
             /\ s[k] = 92 /\ k = Len(s) => next = hi /\ hi = k + 1
<1> DEFINE hi == Closer(s, lo)
           next == NextUnit(s, lo, k)
           B == Begins(s, lo)
<1>1. /\ hi \in Nat /\ lo \in Nat /\ Len(s) \in Nat /\ hi \in lo .. Len(s) + 1
      /\ hi <= Len(s) => s[hi] = 93 /\ ~ Escaped(s, lo, hi)
  BY CloserFacts, Zenon
<1>2. B = {j \in lo .. hi - 1 : ~ Escaped(s, lo, j)}
  BY DEF Begins
<1> HIDE DEF hi, B
<1>3. k \in lo .. Len(s) /\ k < hi /\ ~ Escaped(s, lo, k) /\ k \in Nat /\ lo <= k
  BY <1>1, <1>2 DEF B
<1>4. \A j \in B : j \in Nat /\ j < hi /\ ~ Escaped(s, lo, j)
  BY <1>1, <1>2
<1>5. ASSUME NEW m \in B \cup {hi}, m > k, \A j \in B : j > k => m <= j
      PROVE  next = m
  BY <1>3, <1>5, NextUnitIs DEF hi, B
<1>6. ASSUME NEW j \in Nat, lo <= j
      PROVE  Escaped(s, lo, j + 1) <=> s[j] = 92 /\ ~ Escaped(s, lo, j)
  BY <1>1, <1>6, EscapedBy, Zenon
<1> HIDE DEF next
<1>7. CASE s[k] # 92
  <2>1. ~ Escaped(s, lo, k + 1)
    BY <1>3, <1>7, <1>6
  <2>2. k + 1 \in B \cup {hi}
    BY <1>1, <1>2, <1>3, <2>1
  <2>3. \A j \in B : j > k => k + 1 <= j
    BY <1>3, <1>4
  <2>4. next = k + 1
    BY <1>3, <1>5, <2>2, <2>3
  <2> QED
    BY <1>3, <1>7, <2>1, <2>2, <2>4 DEF hi, next, B
<1>8. CASE s[k] = 92
  <2>1. Escaped(s, lo, k + 1)
    BY <1>3, <1>8, <1>6
  <2>2. ~ Escaped(s, lo, (k + 1) + 1)
    <3>1. k + 1 \in Nat /\ lo <= k + 1
      BY <1>1, <1>3
    <3> QED
      BY <2>1, <3>1, <1>6, Zenon
  <2>3. (k + 1) + 1 = k + 2
    BY <1>3
  <2>4. CASE k < Len(s)
    <3>1. k + 1 < hi
      <4>1. hi # k + 1
        BY <1>1, <1>3, <2>1, <2>4
      <4> QED
        BY <1>1, <1>3, <4>1
    <3>2. k + 2 \in B \cup {hi}
      BY <1>1, <1>2, <1>3, <2>2, <2>3, <3>1
    <3>3. ASSUME NEW j \in B, j > k PROVE k + 2 <= j
      <4>1. j # k + 1
        BY <1>4, <2>1
      <4> QED
        BY <1>3, <1>4, <3>3, <4>1
    <3>4. next = k + 2
      BY <1>3, <1>5, <3>2, <3>3
    <3> QED
      BY <1>3, <1>8, <2>2, <2>3, <2>4, <3>1, <3>2, <3>4 DEF hi, next, B
  <2>5. CASE k = Len(s)
    <3>1. hi = k + 1
      BY <1>1, <1>3, <2>5
    <3>2. \A j \in B : j > k => hi <= j
      BY <1>3, <1>4, <3>1
    <3>3. next = hi
      BY <1>3, <1>5, <3>1, <3>2
    <3> QED
      BY <1>3, <1>8, <2>5, <3>1, <3>3 DEF hi, next, B
  <2> QED
    BY <1>1, <1>3, <2>4, <2>5
<1> QED
  BY <1>7, <1>8

\* What the unit at k and the ones behind it mean, if f is that for all later ones.
Item(s, lo, f, k) ==
  LET hi    == Closer(s, lo)
      dash  == NextUnit(s, lo, k)
      end   == NextUnit(s, lo, dash)
      first == Unit(s, k, hi)
      last  == Unit(s, end, hi)
      rest  == f[NextUnit(s, lo, end)]
  IN  IF k = hi THEN <<0, {}>>
      ELSE IF IsDash(s, lo, dash)
        THEN <<IF last = {} THEN Len(s) + 1
               ELSE IF IsSpan(first, last) THEN rest[1] ELSE dash,
               Span(first, last) \cup rest[2]>>
      ELSE <<IF first = {} THEN Len(s) + 1 ELSE f[dash][1], first \cup f[dash][2]>>

\* f is that for the units from m on.
ItemsFrom(s, lo, m, f) ==
  f = [k \in {j \in Begins(s, lo) \cup {Closer(s, lo)} : j >= m} |-> Item(s, lo, f, k)]

\* Units that follow one another, and the dash between two of them.
LEMMA NextFacts ==
  ASSUME NEW s, NEW lo, IsInside(s, lo), NEW k \in Begins(s, lo)
  PROVE  LET D == Begins(s, lo) \cup {Closer(s, lo)}
             dash == NextUnit(s, lo, k)
             end == NextUnit(s, lo, dash)
         IN  /\ dash \in D /\ dash > k /\ k # Closer(s, lo)
             /\ IsDash(s, lo, dash) =>
                  /\ dash \in Begins(s, lo) /\ end \in Begins(s, lo)
                  /\ NextUnit(s, lo, end) \in D /\ NextUnit(s, lo, end) > k
<1> DEFINE hi == Closer(s, lo)
           D == Begins(s, lo) \cup {hi}
           dash == NextUnit(s, lo, k)
           end == NextUnit(s, lo, dash)
           next == NextUnit(s, lo, end)
<1>1. hi \in Nat /\ lo \in Nat
  BY CloserFacts
<1>2. D \in SUBSET Nat /\ \A j \in Begins(s, lo) : j # hi
  BY <1>1 DEF Begins
<1>3. dash \in D /\ dash > k /\ k # hi
  BY <1>2, UnitFacts, Zenon
<1>4. ASSUME IsDash(s, lo, dash)
      PROVE  /\ dash \in Begins(s, lo) /\ end \in Begins(s, lo)
             /\ next \in D /\ next > k
  <2>1. dash < hi /\ end < hi
    BY <1>4 DEF IsDash
  <2>2. dash \in Begins(s, lo)
    BY <1>1, <1>3, <2>1
  <2>3. end \in D /\ end > dash
    BY <2>2, UnitFacts, Zenon
  <2>4. end \in Begins(s, lo)
    BY <1>1, <2>1, <2>3
  <2>5. next \in D /\ next > end
    BY <2>4, UnitFacts, Zenon
  <2>6. k \in Nat /\ dash \in Nat /\ end \in Nat /\ next \in Nat
    BY <1>2, <1>3, <2>3, <2>5
  <2> QED
    BY <1>3, <2>2, <2>3, <2>4, <2>5, <2>6
<1> QED
  BY <1>3, <1>4

\* A unit depends on later ones alone.
LEMMA ItemLater ==
  ASSUME NEW s, NEW lo, IsInside(s, lo), NEW k \in Begins(s, lo) \cup {Closer(s, lo)},
         NEW f, NEW g,
         \A j \in Begins(s, lo) \cup {Closer(s, lo)} : j > k => f[j] = g[j]
  PROVE  Item(s, lo, f, k) = Item(s, lo, g, k)
<1> DEFINE dash == NextUnit(s, lo, k)
           next == NextUnit(s, lo, NextUnit(s, lo, dash))
<1>1. CASE k = Closer(s, lo)
  BY <1>1, Zenon DEF Item
<1>2. CASE k # Closer(s, lo) /\ IsDash(s, lo, dash)
  <2>1. next \in Begins(s, lo) \cup {Closer(s, lo)} /\ next > k
    BY <1>2, NextFacts, Zenon
  <2>2. f[next] = g[next]
    BY <2>1, Zenon
  <2> QED
    BY <1>2, <2>2, Zenon DEF Item
<1>3. CASE k # Closer(s, lo) /\ ~ IsDash(s, lo, dash)
  <2>1. dash \in Begins(s, lo) \cup {Closer(s, lo)} /\ dash > k
    BY <1>3, NextFacts, Zenon
  <2>2. f[dash] = g[dash]
    BY <2>1, Zenon
  <2> QED
    BY <1>3, <2>2, Zenon DEF Item
<1> QED
  BY <1>1, <1>2, <1>3, Zenon

\* There is a meaning for the units from every one on.
LEMMA ItemsExist ==
  ASSUME NEW s, NEW lo, IsInside(s, lo)
  PROVE  \E f : ItemsFrom(s, lo, 0, f)
<1> DEFINE hi == Closer(s, lo)
           D == Begins(s, lo) \cup {hi}
           From(m) == {j \in D : j >= m}
           Good == {n \in Nat : n <= hi => \E f : ItemsFrom(s, lo, hi - n, f)}
<1>0. hi \in Nat /\ D \in SUBSET Nat /\ \A j \in D : j <= hi
  <2>1. hi \in Nat /\ lo \in Nat
    BY CloserFacts
  <2> QED
    BY <2>1 DEF Begins
<1> HIDE DEF hi
<1>1. 0 \in Good
  <2> DEFINE f == [k \in From(hi) |-> <<0, {}>>]
             h == [k \in From(hi) |-> Item(s, lo, f, k)]
  <2>1. ASSUME NEW k \in From(hi) PROVE f[k] = h[k]
    <3>1. k = hi
      BY <1>0
    <3>2. Item(s, lo, f, hi) = <<0, {}>>
      <4> HIDE DEF f
      <4> QED BY Zenon DEF Item, hi
    <3> QED
      BY <3>1, <3>2
  <2>2. f = h
    BY <2>1
  <2> HIDE DEF f
  <2>3. ItemsFrom(s, lo, hi, f)
    BY <2>2, Zenon DEF ItemsFrom, hi
  <2>4. hi - 0 = hi
    BY <1>0
  <2> QED
    BY <2>3, <2>4
<1>2. ASSUME NEW n \in Nat, n \in Good PROVE n + 1 \in Good
  <2> SUFFICES ASSUME n + 1 <= hi PROVE \E g : ItemsFrom(s, lo, hi - (n + 1), g)
    OBVIOUS
  <2> DEFINE m == hi - (n + 1)
  <2>1. PICK f : ItemsFrom(s, lo, hi - n, f)
    BY <1>0, <1>2
  <2>2. m \in Nat /\ m + 1 = hi - n
    BY <1>0
  <2> DEFINE g == [k \in From(m) |-> IF k = m THEN Item(s, lo, f, m) ELSE f[k]]
  <2> HIDE DEF m
  <2>3. \A k \in From(m + 1) : k \in From(m) /\ k # m
    BY <1>0, <2>2
  <2>4. \A k \in From(m + 1) : g[k] = f[k]
    BY <2>3
  <2>5. f = [k \in From(m + 1) |-> Item(s, lo, f, k)]
    BY <2>1, <2>2, Zenon DEF ItemsFrom, hi
  <2>6. ASSUME NEW k \in From(m) PROVE g[k] = Item(s, lo, g, k)
    <3>1. \A j \in D : j > k => j \in From(m + 1)
      BY <1>0, <2>2
    <3>2. \A j \in D : j > k => f[j] = g[j]
      BY <2>4, <3>1
    <3>3. Item(s, lo, f, k) = Item(s, lo, g, k)
      <4>1. k \in D
        OBVIOUS
      <4>2. \A j \in Begins(s, lo) \cup {Closer(s, lo)} : j > k => f[j] = g[j]
        BY <3>2, Zenon DEF hi
      <4>3. k \in Begins(s, lo) \cup {Closer(s, lo)}
        BY <4>1, Zenon DEF hi
      <4> HIDE DEF g
      <4>4. PICK h : h = g
        OBVIOUS
      <4>5. \A j \in Begins(s, lo) \cup {Closer(s, lo)} : j > k => f[j] = h[j]
        BY <4>2, <4>4, Zenon
      <4>6. Item(s, lo, f, k) = Item(s, lo, h, k)
        BY <4>3, <4>5, ItemLater
      <4> QED BY <4>4, <4>6, Zenon
    <3>4. CASE k = m
      BY <3>3, <3>4
    <3>5. CASE k # m
      <4>1. k \in From(m + 1)
        BY <1>0, <2>2, <3>5
      <4>2. f[k] = Item(s, lo, f, k)
        BY <2>5, <4>1, Zenon
      <4>3. g[k] = f[k]
        BY <2>4, <4>1
      <4> QED
        BY <3>3, <4>2, <4>3, Zenon
    <3> QED
      BY <3>4, <3>5
  <2>7. g = [k \in From(m) |-> Item(s, lo, g, k)]
    <3> DEFINE h == [k \in From(m) |-> Item(s, lo, g, k)]
    <3>1. \A k \in From(m) : g[k] = h[k]
      BY <2>6
    <3> QED
      BY <3>1
  <2> HIDE DEF g
  <2>8. ItemsFrom(s, lo, m, g)
    BY <2>7, Zenon DEF ItemsFrom, hi
  <2> QED
    BY <2>8 DEF m
<1>3. hi \in Good
  <2> HIDE DEF Good
  <2> QED BY <1>0, <1>1, <1>2, PositionInduction
<1>4. hi - hi = 0 /\ hi <= hi
  BY <1>0
<1> QED
  BY <1>3, <1>4

\* What all units from one on mean.
Meaning(s, lo) == CHOOSE f : ItemsFrom(s, lo, 0, f)

\* It obeys the equation of Items.
LEMMA ItemsAre ==
  ASSUME NEW s, NEW lo, IsInside(s, lo)
  PROVE  /\ Items(s, lo) = Meaning(s, lo)[lo]
         /\ \A k \in Begins(s, lo) \cup {Closer(s, lo)} :
              Meaning(s, lo)[k] = Item(s, lo, Meaning(s, lo), k)
<1> DEFINE hi == Closer(s, lo)
           D == Begins(s, lo) \cup {hi}
           f == Meaning(s, lo)
<1>0. D \in SUBSET Nat
  <2>1. hi \in Nat /\ lo \in Nat
    BY CloserFacts
  <2> QED
    BY <2>1 DEF Begins
<1>1. {j \in D : j >= 0} = D
  BY <1>0
<1>2. ItemsFrom(s, lo, 0, f)
  BY ItemsExist, Zenon DEF Meaning
<1>3. f = [k \in D |-> Item(s, lo, f, k)]
  BY <1>1, <1>2, Zenon DEF ItemsFrom
<1>4. f = CHOOSE g : g = [k \in D |-> Item(s, lo, g, k)]
  BY <1>1, Zenon DEF Meaning, ItemsFrom
<1>5. Items(s, lo) = (CHOOSE g : g = [k \in D |-> Item(s, lo, g, k)])[lo]
  BY Zenon DEF Items, Item
<1>6. Items(s, lo) = f[lo]
  BY <1>4, <1>5, Zenon
<1> HIDE DEF f, D
<1>7. \A k \in D : f[k] = Item(s, lo, f, k)
  BY <1>3, Zenon
<1> QED
  BY <1>6, <1>7 DEF f, D

-----------------------------------------------------------------------------
(* The class that is read, in the text. *)

\* Where the inside of the class begins, and where it ends.
Lo == Inside(Text, start + 1)
Hi == Closer(Text, Lo)

\* A position of the lexer that no backslash before it belongs to.
AtUnit(i) == i + 1 \in Lo .. Hi /\ ~ Escaped(Text, Lo, i + 1)

\* Escapes and elements mean the same in both.
LEMMA EscapesAgree ==
  ASSUME NEW c \in Char
  PROVE  Escapes[c] = EscapeSet(c) /\ EscapeSet(c) # {}
<1> DEFINE set(x) == CASE x = 100 -> Digit []  x = 68 -> Char \ Digit
                    [] x = 119 -> Word  []  x = 87 -> Char \ Word
                    [] x = 115 -> 9 .. 13 \cup {32}
                    [] x = 83  -> Char \ (9 .. 13 \cup {32})
                    [] x = 110 -> {10} [] x = 116 -> {9} [] x = 114 -> {13}
                    [] OTHER -> {x}
<1>1. Escapes[c] = set(c)
  BY Zenon DEF Escapes
<1>2. Space = 9 .. 13 \cup {32}
  BY DEF Space
<1>3. set(c) = EscapeSet(c)
  BY <1>2 DEF EscapeSet, Invert
<1>4. EscapeSet(c) # {}
  <2>1. 48 \in Digit /\ 97 \in Word /\ 32 \in Space
    BY DEF Digit, Word, Space, AddRange
  <2>2. 1 \in Char /\ 1 \notin Digit /\ 1 \notin Word /\ 1 \notin Space
    BY DEF Char, Digit, Word, Space, AddRange
  <2> QED
    BY <2>1, <2>2 DEF EscapeSet, Invert
<1> QED
  BY <1>1, <1>3, <1>4

\* The text of a class that begins at the token.
LEMMA ClassFacts ==
  ASSUME Inv, start < Last
  PROVE  /\ IsInside(Text, Lo) /\ Len(Text) = Last /\ Last \in Nat
         /\ Lo = IF At(start + 1) = Caret THEN start + 3 ELSE start + 2
         /\ IsNegated(Text, start + 1) <=> At(start + 1) = Caret
         /\ Hi \in Nat /\ Lo \in Nat /\ Lo <= Hi /\ Hi <= Last + 1
         /\ \A i \in 0 .. Last - 1 : Text[i + 1] = At(i)
         /\ \A i \in 0 .. Last : At(i) \in Char /\ (At(i) = NUL <=> i = Last)
<1>1. /\ IsCString /\ start \in Nat /\ Last \in Nat
  BY InvFacts
<1>2. /\ Text \in Seq(Char) /\ Len(Text) = Last
      /\ \A i \in 0 .. Last - 1 : Text[i + 1] = At(i)
  BY <1>1, TextFacts
<1>3. \A i \in 0 .. Last : At(i) \in Char /\ (At(i) = NUL <=> i = Last)
  BY <1>1 DEF IsCString
<1>4. IsNegated(Text, start + 1) <=> At(start + 1) = Caret
  <2>1. CASE start + 1 = Last
    <3>1. At(start + 1) = NUL
      BY <1>1, <1>3, <2>1
    <3> QED
      BY <1>1, <1>2, <2>1, <3>1, NulIsPlain DEF IsNegated
  <2>2. CASE start + 1 # Last
    <3>1. Text[(start + 1) + 1] = At(start + 1) /\ start + 1 < Last
      BY <1>1, <1>2, <2>2
    <3> QED
      BY <1>2, <3>1 DEF IsNegated, Caret
  <2> QED
    BY <2>1, <2>2
<1>5. Lo = IF At(start + 1) = Caret THEN start + 3 ELSE start + 2
  BY <1>1, <1>4 DEF Lo, Inside
<1>6. At(start + 1) = Caret => start + 1 < Last
  BY <1>1, <1>3, NulIsPlain
<1>7. IsInside(Text, Lo)
  BY <1>1, <1>2, <1>5, <1>6 DEF IsInside
<1>8. Hi \in Lo .. Len(Text) + 1 /\ Hi \in Nat /\ Lo \in Nat
  BY <1>7, CloserFacts DEF Hi
<1> QED
  BY <1>1, <1>2, <1>3, <1>4, <1>5, <1>7, <1>8

\* The lexer stands at a unit, at the bracket or at the end.
LEMMA AtUnitFacts ==
  ASSUME Inv, start < Last, NEW i \in 0 .. Last, AtUnit(i)
  PROVE  /\ i + 1 \in Begins(Text, Lo) \cup {Hi}
         /\ i + 1 \in Begins(Text, Lo) <=> At(i) \notin {NUL, RBrack}
         /\ i + 1 \in Begins(Text, Lo) <=> i + 1 < Hi
         /\ At(i) = NUL => Hi = Len(Text) + 1
         /\ At(i) = RBrack => Hi <= Len(Text)
<1>1. /\ IsInside(Text, Lo) /\ Len(Text) = Last /\ Last \in Nat
      /\ Hi \in Nat /\ Lo \in Nat /\ Lo <= Hi /\ Hi <= Last + 1
      /\ (i # Last => Text[i + 1] = At(i)) /\ (At(i) = NUL <=> i = Last)
  <2>1. /\ IsInside(Text, Lo) /\ Len(Text) = Last /\ Last \in Nat
        /\ Hi \in Nat /\ Lo \in Nat /\ Lo <= Hi /\ Hi <= Last + 1
        /\ \A j \in 0 .. Last - 1 : Text[j + 1] = At(j)
        /\ \A j \in 0 .. Last : At(j) \in Char /\ (At(j) = NUL <=> j = Last)
    BY ClassFacts, Zenon
  <2>2. i # Last => i \in 0 .. Last - 1
    BY <2>1
  <2>3. i # Last => Text[i + 1] = At(i)
    BY <2>1, <2>2
  <2> QED
    BY <2>1, <2>3
<1>2. i + 1 \in Lo .. Hi /\ ~ Escaped(Text, Lo, i + 1)
  BY DEF AtUnit
<1>3. Begins(Text, Lo) = {j \in Lo .. Hi - 1 : ~ Escaped(Text, Lo, j)}
  BY DEF Begins, Hi
<1>4. i + 1 \in Begins(Text, Lo) <=> i + 1 < Hi
  BY <1>1, <1>2, <1>3
<1>5. /\ Hi <= Len(Text) => Text[Hi] = 93
      /\ \A j \in Lo .. Len(Text) : Text[j] = 93 /\ ~ Escaped(Text, Lo, j) => Hi <= j
  BY <1>1, CloserFacts DEF Hi
<1>6. CASE At(i) = NUL
  BY <1>1, <1>2, <1>4, <1>6, NulIsPlain
<1>7. CASE At(i) = RBrack
  <2>1. i # Last /\ Text[i + 1] = 93 /\ i + 1 \in Lo .. Len(Text)
    BY <1>1, <1>2, <1>7, NulIsPlain DEF RBrack
  <2>2. Hi = i + 1
    BY <1>1, <1>2, <1>5, <2>1
  <2> QED
    BY <1>1, <1>4, <1>7, <2>1, <2>2, NulIsPlain
<1>8. CASE At(i) \notin {NUL, RBrack}
  <2>1. i # Last /\ Text[i + 1] = At(i)
    BY <1>1, <1>8
  <2>2. Hi # i + 1
    BY <1>1, <1>5, <1>8, <2>1 DEF RBrack
  <2> QED
    BY <1>1, <1>2, <1>4, <1>8, <2>2
<1> QED
  BY <1>6, <1>7, <1>8

\* An element of the lexer is a unit of the text.
LEMMA ElementIsUnit ==
  ASSUME Inv, start < Last, NEW i \in 0 .. Last, AtUnit(i), At(i) \notin {NUL, RBrack}
  PROVE  /\ i + 1 \in Begins(Text, Lo)
         /\ ElementOk(i) =>
              /\ Unit(Text, i + 1, Hi) = ElementSet(i) /\ ElementSet(i) # {}
              /\ NextUnit(Text, Lo, i + 1) = ElementEnd(i) + 1
              /\ ElementEnd(i) \in 0 .. Last /\ AtUnit(ElementEnd(i))
         /\ ~ ElementOk(i) =>
              /\ Unit(Text, i + 1, Hi) = {} /\ NextUnit(Text, Lo, i + 1) = Hi
<1> DEFINE k == i + 1
           next == NextUnit(Text, Lo, k)
<1>1. k \in Begins(Text, Lo) /\ k < Hi
  BY AtUnitFacts
<1>2. /\ IsInside(Text, Lo) /\ Len(Text) = Last /\ Last \in Nat
      /\ Hi \in Nat /\ Lo \in Nat /\ Lo <= Hi /\ Hi <= Last + 1
      /\ \A j \in 0 .. Last - 1 : Text[j + 1] = At(j)
      /\ \A j \in 0 .. Last : At(j) \in Char /\ (At(j) = NUL <=> j = Last)
  BY ClassFacts
<1>3. i # Last /\ Text[k] = At(i) /\ At(i) \in Char /\ i + 1 \in 0 .. Last
  BY <1>2
<1>4. /\ k \in Lo .. Len(Text) /\ next \in Begins(Text, Lo) \cup {Hi} /\ next > k
      /\ Text[k] # 92 => next = k + 1 /\ ~ Escaped(Text, Lo, k + 1)
      /\ Text[k] = 92 /\ k < Len(Text) => /\ next = k + 2 /\ ~ Escaped(Text, Lo, k + 2)
                                          /\ k + 1 < Hi
      /\ Text[k] = 92 /\ k = Len(Text) => next = Hi /\ Hi = k + 1
  BY <1>1, <1>2, UnitFacts, Zenon DEF Hi
<1>5. Begins(Text, Lo) = {j \in Lo .. Hi - 1 : ~ Escaped(Text, Lo, j)}
  BY DEF Begins, Hi
<1>6. next \in Lo .. Hi
  BY <1>2, <1>4, <1>5
<1> HIDE DEF next
<1>7. CASE At(i) # Backslash
  <2>1. ElementOk(i) /\ ElementEnd(i) = i + 1 /\ ElementSet(i) = {At(i)}
    BY <1>7 DEF ElementOk, ElementEnd, ElementSet
  <2>2. Text[k] # 92
    BY <1>3, <1>7 DEF Backslash
  <2>3. Unit(Text, k, Hi) = {At(i)}
    BY <1>3, <2>2 DEF Unit
  <2>4. next = (i + 1) + 1 /\ AtUnit(i + 1)
    BY <1>4, <1>6, <2>2 DEF AtUnit
  <2> QED
    BY <1>1, <1>3, <2>1, <2>3, <2>4 DEF next
<1>8. CASE At(i) = Backslash /\ At(i + 1) # NUL
  <2>1. ElementOk(i) /\ ElementEnd(i) = i + 2 /\ ElementSet(i) = EscapeSet(At(i + 1))
    BY <1>8 DEF ElementOk, ElementEnd, ElementSet
  <2>2. i + 1 # Last /\ Text[k + 1] = At(i + 1) /\ At(i + 1) \in Char /\ Text[k] = 92
        /\ k < Len(Text)
    BY <1>2, <1>3, <1>8 DEF Backslash
  <2>3. next = k + 2 /\ ~ Escaped(Text, Lo, k + 2) /\ k + 1 < Hi
    BY <1>4, <2>2
  <2>4. Unit(Text, k, Hi) = Escapes[Text[k + 1]]
    BY <2>2, <2>3, Zenon DEF Unit
  <2>5. Unit(Text, k, Hi) = EscapeSet(At(i + 1)) /\ EscapeSet(At(i + 1)) # {}
    BY <2>2, <2>4, EscapesAgree
  <2>6. k + 2 = (i + 2) + 1 /\ i + 2 \in 0 .. Last
    BY <1>2, <2>2
  <2>7. AtUnit(i + 2)
    BY <1>6, <2>3, <2>6 DEF AtUnit
  <2> QED
    BY <1>1, <2>1, <2>3, <2>5, <2>6, <2>7 DEF next
<1>9. CASE At(i) = Backslash /\ At(i + 1) = NUL
  <2>1. ~ ElementOk(i)
    BY <1>9 DEF ElementOk
  <2>2. i + 1 = Last /\ Text[k] = 92 /\ k = Len(Text)
    BY <1>2, <1>3, <1>9 DEF Backslash
  <2>3. next = Hi /\ Hi = k + 1
    BY <1>4, <2>2
  <2>4. Unit(Text, k, Hi) = {}
    BY <2>2, <2>3 DEF Unit
  <2> QED
    BY <1>1, <2>1, <2>3, <2>4 DEF next
<1> QED
  BY <1>7, <1>8, <1>9

\* A dash is a range in both or in none.
LEMMA RangeIsDash ==
  ASSUME Inv, start < Last, NEW e \in 0 .. Last, AtUnit(e)
  PROVE  /\ IsRange(e) <=> IsDash(Text, Lo, e + 1)
         /\ IsRange(e) => /\ NextUnit(Text, Lo, e + 1) = (e + 1) + 1
                          /\ e + 1 \in 0 .. Last /\ AtUnit(e + 1)
                          /\ At(e + 1) \notin {NUL, RBrack}
<1>1. CASE At(e) # Dash
  <2>1. ~ IsRange(e)
    BY <1>1 DEF IsRange
  <2>2. ~ IsDash(Text, Lo, e + 1)
    <3> SUFFICES ASSUME IsDash(Text, Lo, e + 1) PROVE FALSE
      OBVIOUS
    <3>1. e + 1 < Hi /\ Text[e + 1] = 45
      BY DEF IsDash, Hi
    <3>2. /\ Last \in Nat /\ Hi \in Nat /\ Hi <= Last + 1
          /\ \A j \in 0 .. Last - 1 : Text[j + 1] = At(j)
      BY ClassFacts, Zenon
    <3>3. e \in 0 .. Last - 1
      BY <3>1, <3>2
    <3>4. Text[e + 1] = At(e)
      BY <3>2, <3>3
    <3> QED
      BY <1>1, <3>1, <3>4 DEF Dash
  <2> QED
    BY <2>1, <2>2
<1>2. CASE At(e) = Dash
  <2>1. At(e) \notin {NUL, RBrack} /\ At(e) # Backslash
    BY <1>2, NulIsPlain DEF Dash, RBrack, Backslash
  <2>2. ElementOk(e) /\ ElementEnd(e) = e + 1
    BY <2>1 DEF ElementOk, ElementEnd
  <2>3. /\ e + 1 \in Begins(Text, Lo) /\ NextUnit(Text, Lo, e + 1) = (e + 1) + 1
        /\ e + 1 \in 0 .. Last /\ AtUnit(e + 1)
    <3>1. /\ e + 1 \in Begins(Text, Lo) /\ NextUnit(Text, Lo, e + 1) = ElementEnd(e) + 1
          /\ ElementEnd(e) \in 0 .. Last /\ AtUnit(ElementEnd(e))
      BY <2>1, <2>2, ElementIsUnit
    <3> QED
      BY <2>2, <3>1
  <2>4. e + 1 < Hi
    BY <2>3, AtUnitFacts
  <2>5. Text[e + 1] = 45
    <3>1. Last \in Nat /\ \A j \in 0 .. Last - 1 : Text[j + 1] = At(j)
      BY ClassFacts, Zenon
    <3>2. e \in 0 .. Last - 1
      BY <2>3, <3>1
    <3> QED
      BY <1>2, <3>1, <3>2 DEF Dash
  <2>6. (e + 1) + 1 < Hi <=> At(e + 1) \notin {NUL, RBrack}
    BY <2>3, AtUnitFacts
  <2>7. IsRange(e) <=> At(e + 1) \notin {NUL, RBrack}
    BY <1>2 DEF IsRange
  <2>8. IsDash(Text, Lo, e + 1) <=> (e + 1) + 1 < Hi
    BY <2>3, <2>4, <2>5 DEF IsDash, Hi
  <2> QED
    BY <2>3, <2>6, <2>7, <2>8
<1> QED
  BY <1>1, <1>2

-----------------------------------------------------------------------------
(* What has been read of a class. *)

\* What the units from k on mean: where the first of them is wrong, and the set.
WrongFrom(k) == Meaning(Text, Lo)[k][1]
SetFrom(k) == Meaning(Text, Lo)[k][2]

\* The class is wrong where the rest is, and its set is what has been read and what
\* the rest means.
ClassRead ==
  pc = "class" =>
    /\ AtUnit(pos)
    /\ negate <=> IsNegated(Text, start + 1)
    /\ sawAny <=> Lo < pos + 1
    /\ WrongFrom(Lo) = WrongFrom(pos + 1)
    /\ SetFrom(Lo) = cls \cup SetFrom(pos + 1)

ClassInv == ClassRead /\ ClassesAreDenoted

\* The bracket and the end mean nothing more.
LEMMA NothingMore ==
  ASSUME Inv, start < Last
  PROVE  WrongFrom(Hi) = 0 /\ SetFrom(Hi) = {}
<1>1. IsInside(Text, Lo)
  BY ClassFacts, Zenon
<1>2. Meaning(Text, Lo)[Hi] = Item(Text, Lo, Meaning(Text, Lo), Hi)
  BY <1>1, ItemsAre, Zenon DEF Hi
<1>3. Item(Text, Lo, Meaning(Text, Lo), Hi) = <<0, {}>>
  BY Zenon DEF Item, Hi
<1> QED
  BY <1>2, <1>3 DEF WrongFrom, SetFrom

\* A unit by itself.
LEMMA ItemSingle ==
  ASSUME NEW s, NEW lo, NEW f, NEW k, k # Closer(s, lo),
         ~ IsDash(s, lo, NextUnit(s, lo, k))
  PROVE  LET next == NextUnit(s, lo, k)
             unit == Unit(s, k, Closer(s, lo))
         IN  /\ unit = {} => Item(s, lo, f, k)[1] = Len(s) + 1
             /\ unit # {} => Item(s, lo, f, k)[1] = f[next][1]
             /\ Item(s, lo, f, k)[2] = unit \cup f[next][2]
<1> DEFINE next == NextUnit(s, lo, k)
           unit == Unit(s, k, Closer(s, lo))
           wrong == IF unit = {} THEN Len(s) + 1 ELSE f[next][1]
           set == unit \cup f[next][2]
<1>1. Item(s, lo, f, k) = <<wrong, set>>
  BY Zenon DEF Item
<1> HIDE DEF wrong, set
<1>2. Item(s, lo, f, k)[1] = wrong /\ Item(s, lo, f, k)[2] = set
  BY <1>1
<1> QED
  BY <1>2, Zenon DEF wrong, set

\* Two units with a dash between them.
LEMMA ItemRange ==
  ASSUME NEW s, NEW lo, NEW f, NEW k, k # Closer(s, lo),
         IsDash(s, lo, NextUnit(s, lo, k))
  PROVE  LET end  == NextUnit(s, lo, NextUnit(s, lo, k))
             from == Unit(s, k, Closer(s, lo))
             to   == Unit(s, end, Closer(s, lo))
             next == NextUnit(s, lo, end)
         IN  /\ to = {} => Item(s, lo, f, k)[1] = Len(s) + 1
             /\ to # {} /\ IsSpan(from, to) => Item(s, lo, f, k)[1] = f[next][1]
             /\ to # {} /\ ~ IsSpan(from, to) =>
                  Item(s, lo, f, k)[1] = NextUnit(s, lo, k)
             /\ Item(s, lo, f, k)[2] = Span(from, to) \cup f[next][2]
<1> DEFINE end  == NextUnit(s, lo, NextUnit(s, lo, k))
           from == Unit(s, k, Closer(s, lo))
           to   == Unit(s, end, Closer(s, lo))
           next == NextUnit(s, lo, end)
           wrong == IF to = {} THEN Len(s) + 1
                    ELSE IF IsSpan(from, to) THEN f[next][1] ELSE NextUnit(s, lo, k)
           set == Span(from, to) \cup f[next][2]
<1>1. Item(s, lo, f, k) = <<wrong, set>>
  BY Zenon DEF Item
<1> HIDE DEF wrong, set
<1>2. Item(s, lo, f, k)[1] = wrong /\ Item(s, lo, f, k)[2] = set
  BY <1>1
<1> QED
  BY <1>2, Zenon DEF wrong, set

\* What the element at i adds to the meaning of the text behind it.
LEMMA ElementMeans ==
  ASSUME Inv, start < Last, NEW i \in 0 .. Last, AtUnit(i), At(i) \notin {NUL, RBrack}
  PROVE  /\ ~ ElementOk(i) => WrongFrom(i + 1) = Len(Text) + 1
         /\ ElementOk(i) /\ ~ IsRange(ElementEnd(i)) =>
              /\ WrongFrom(i + 1) = WrongFrom(ElementEnd(i) + 1)
              /\ SetFrom(i + 1) = ElementSet(i) \cup SetFrom(ElementEnd(i) + 1)
<1> DEFINE f == Meaning(Text, Lo)
           k == i + 1
           e == ElementEnd(i)
           next == NextUnit(Text, Lo, k)
<1>1. IsInside(Text, Lo)
  BY ClassFacts, Zenon
<1>2. k \in Begins(Text, Lo)
  BY ElementIsUnit, Zenon
<1>3. k # Hi
  BY <1>1, <1>2, NextFacts, Zenon DEF Hi
<1>4. f[k] = Item(Text, Lo, f, k)
  BY <1>1, <1>2, ItemsAre, Zenon
<1>5. ASSUME ~ ElementOk(i) PROVE WrongFrom(k) = Len(Text) + 1
  <2>1. Unit(Text, k, Hi) = {} /\ next = Hi
    BY <1>5, ElementIsUnit, Zenon
  <2>2. Hi \in Nat
    BY ClassFacts
  <2>3. ~ IsDash(Text, Lo, next)
    BY <2>1, <2>2 DEF IsDash, Hi
  <2>4. Unit(Text, k, Hi) = {} => Item(Text, Lo, f, k)[1] = Len(Text) + 1
    BY <1>3, <2>3, ItemSingle, Zenon DEF Hi
  <2> QED
    BY <1>4, <2>1, <2>4, Zenon DEF WrongFrom
<1>6. ASSUME ElementOk(i), ~ IsRange(e)
      PROVE  /\ WrongFrom(k) = WrongFrom(e + 1)
             /\ SetFrom(k) = ElementSet(i) \cup SetFrom(e + 1)
  <2>1. /\ Unit(Text, k, Hi) = ElementSet(i) /\ ElementSet(i) # {}
        /\ next = e + 1 /\ e \in 0 .. Last /\ AtUnit(e)
    BY <1>6, ElementIsUnit, Zenon
  <2>2. ~ IsDash(Text, Lo, next)
    BY <1>6, <2>1, RangeIsDash, Zenon
  <2>3. /\ Unit(Text, k, Hi) # {} => Item(Text, Lo, f, k)[1] = f[next][1]
        /\ Item(Text, Lo, f, k)[2] = Unit(Text, k, Hi) \cup f[next][2]
    BY <1>3, <2>2, ItemSingle, Zenon DEF Hi
  <2> QED
    BY <1>4, <2>1, <2>3, Zenon DEF WrongFrom, SetFrom
<1> QED
  BY <1>5, <1>6, Zenon

\* A range is right in both, and then spans the same bytes.
LEMMA SpanIsRange ==
  ASSUME NEW S \in SUBSET Char, NEW T \in SUBSET Char
  PROVE  /\ IsSpan(S, T) <=> BoundsInOrder(S, T)
         /\ \A R : \A a \in S, b \in T : BoundsInOrder(S, T) =>
              AddRange(R, a, b) = R \cup Span(S, T)
<1>1. IsSpan(S, T) <=> BoundsInOrder(S, T)
  BY Zenon DEF IsSpan, BoundsInOrder, Single
<1>2. ASSUME NEW R, NEW a \in S, NEW b \in T, BoundsInOrder(S, T)
      PROVE  AddRange(R, a, b) = R \cup Span(S, T)
  <2>1. IsFiniteSet(Char)
    <3>1. 0 \in Int /\ 255 \in Int
      OBVIOUS
    <3> QED
      BY <3>1, FS_Interval, Zenon DEF Char
  <2>2. IsFiniteSet(S) /\ IsFiniteSet(T)
    BY <2>1, FS_Subset
  <2>3. (\E x : S = {x}) /\ (\E x : T = {x})
    <3>1. Cardinality(S) = 1 /\ Cardinality(T) = 1
      BY <1>2 DEF BoundsInOrder, Single
    <3> QED
      BY <2>2, <3>1, FS_Singleton, Zenon
  <2>4. S = {a} /\ T = {b}
    BY <2>3
  <2>5. a \in 0 .. 255 /\ b \in 0 .. 255
    BY DEF Char
  <2>6. Span(S, T) = {c \in Char : a <= c /\ c <= b}
    BY <2>4 DEF Span
  <2>7. {c \in Char : a <= c /\ c <= b} = a .. b
    BY <2>5 DEF Char
  <2> QED
    BY <2>6, <2>7 DEF AddRange
<1> QED
  BY <1>1, <1>2

\* What two elements with a dash between them mean.
LEMMA RangeMeans ==
  ASSUME Inv, start < Last, NEW i \in 0 .. Last, AtUnit(i), At(i) \notin {NUL, RBrack},
         ElementOk(i), IsRange(ElementEnd(i))
  PROVE  LET j == ElementEnd(i) + 1
         IN  /\ ~ ElementOk(j) => WrongFrom(i + 1) = Len(Text) + 1
             /\ ElementOk(j) =>
                  /\ ElementSet(i) \in SUBSET Char /\ ElementSet(j) \in SUBSET Char
                  /\ ElementEnd(j) \in 0 .. Last /\ AtUnit(ElementEnd(j))
                  /\ BoundsInOrder(ElementSet(i), ElementSet(j)) =>
                       WrongFrom(i + 1) = WrongFrom(ElementEnd(j) + 1)
                  /\ ~ BoundsInOrder(ElementSet(i), ElementSet(j)) => WrongFrom(i + 1) = j
                  /\ SetFrom(i + 1) = Span(ElementSet(i), ElementSet(j))
                                        \cup SetFrom(ElementEnd(j) + 1)
<1> DEFINE f == Meaning(Text, Lo)
           k == i + 1
           e == ElementEnd(i)
           j == e + 1
           dash == NextUnit(Text, Lo, k)
           end == NextUnit(Text, Lo, dash)
           next == NextUnit(Text, Lo, end)
           from == Unit(Text, k, Hi)
           to == Unit(Text, end, Hi)
<1>1. IsInside(Text, Lo)
  BY ClassFacts, Zenon
<1>2. k \in Begins(Text, Lo)
  BY ElementIsUnit, Zenon
<1>3. k # Hi
  BY <1>1, <1>2, NextFacts, Zenon DEF Hi
<1>4. f[k] = Item(Text, Lo, f, k)
  BY <1>1, <1>2, ItemsAre, Zenon
<1>5. from = ElementSet(i) /\ dash = j /\ e \in 0 .. Last /\ AtUnit(e)
  BY ElementIsUnit, Zenon
<1>6. /\ IsDash(Text, Lo, dash) /\ end = j + 1 /\ j \in 0 .. Last /\ AtUnit(j)
      /\ At(j) \notin {NUL, RBrack}
  BY <1>5, RangeIsDash, Zenon
<1>7. /\ to = {} => Item(Text, Lo, f, k)[1] = Len(Text) + 1
      /\ to # {} /\ IsSpan(from, to) => Item(Text, Lo, f, k)[1] = f[next][1]
      /\ to # {} /\ ~ IsSpan(from, to) => Item(Text, Lo, f, k)[1] = dash
      /\ Item(Text, Lo, f, k)[2] = Span(from, to) \cup f[next][2]
  <2>1. k # Closer(Text, Lo) /\ IsDash(Text, Lo, NextUnit(Text, Lo, k))
    BY <1>3, <1>6, Zenon DEF Hi
  <2> QED
    BY <2>1, ItemRange DEF Hi
<1>8. ASSUME ~ ElementOk(j) PROVE WrongFrom(k) = Len(Text) + 1
  <2>1. to = {}
    BY <1>6, <1>8, ElementIsUnit, Zenon
  <2> QED
    BY <1>4, <1>7, <2>1, Zenon DEF WrongFrom
<1>9. ASSUME ElementOk(j)
      PROVE  /\ ElementSet(i) \in SUBSET Char /\ ElementSet(j) \in SUBSET Char
             /\ ElementEnd(j) \in 0 .. Last /\ AtUnit(ElementEnd(j))
             /\ BoundsInOrder(ElementSet(i), ElementSet(j)) =>
                  WrongFrom(k) = WrongFrom(ElementEnd(j) + 1)
             /\ ~ BoundsInOrder(ElementSet(i), ElementSet(j)) => WrongFrom(k) = j
             /\ SetFrom(k) = Span(ElementSet(i), ElementSet(j))
                               \cup SetFrom(ElementEnd(j) + 1)
  <2>1. /\ to = ElementSet(j) /\ to # {} /\ next = ElementEnd(j) + 1
        /\ ElementEnd(j) \in 0 .. Last /\ AtUnit(ElementEnd(j))
    BY <1>6, <1>9, ElementIsUnit, Zenon
  <2>2. ElementSet(i) \in SUBSET Char /\ ElementSet(j) \in SUBSET Char
    BY <1>6, <1>9, InvFacts, ElementType
  <2>3. IsSpan(from, to) <=> BoundsInOrder(ElementSet(i), ElementSet(j))
    BY <1>5, <2>1, <2>2, SpanIsRange, Zenon
  <2> QED
    BY <1>4, <1>5, <1>7, <2>1, <2>2, <2>3, Zenon DEF WrongFrom, SetFrom
<1> QED
  BY <1>8, <1>9, Zenon

-----------------------------------------------------------------------------
(* The steps of a class and of an escape. *)

\* What the text says of the construct that is being read.
Named == MeansAt(start + 1, At(start))

\* Where the pattern and the token stay, so does what the text says.
LEMMA NamedKept ==
  ASSUME UNCHANGED <<pattern, start>>
  PROVE  Named' = Named
BY DEF Named, MeansAt, Text, At

\* Within a class there is no result yet.
LEMMA NoClassYet ==
  ASSUME pc' # "next", rc' = "OK"
  PROVE  ClassesAreDenoted'
BY DEF ClassesAreDenoted, JustDelivered, JustRefused

\* A step to another unit of the class.
LEMMA ToUnit ==
  ASSUME Inv, InConstruct, ClassRead, pc = "class",
         UNCHANGED <<pattern, start, negate>>, pc' = "class", rc' = "OK", sawAny' = TRUE,
         NEW i \in Nat, pos' = i, pos < i, AtUnit(i),
         WrongFrom(pos + 1) = WrongFrom(i + 1),
         cls' \cup SetFrom(i + 1) = cls \cup SetFrom(pos + 1)
  PROVE  ClassInv'
<1>1. start < Last /\ pos \in Nat
  BY InvFacts
<1>2. Lo < i + 1
  <2>1. Lo \in Nat /\ Hi \in Nat
    BY <1>1, ClassFacts, Zenon
  <2>2. Lo <= pos + 1
    BY <1>1, <2>1 DEF ClassRead, AtUnit
  <2> QED
    BY <1>1, <2>1, <2>2
<1>3. /\ negate <=> IsNegated(Text, start + 1)
      /\ WrongFrom(Lo) = WrongFrom(i + 1)
      /\ SetFrom(Lo) = cls' \cup SetFrom(i + 1)
  BY DEF ClassRead
<1>4. /\ AtUnit(pos)' /\ (negate <=> IsNegated(Text, start + 1))'
      /\ (sawAny <=> Lo < pos + 1)'
      /\ (WrongFrom(Lo) = WrongFrom(pos + 1))'
      /\ (SetFrom(Lo) = cls \cup SetFrom(pos + 1))'
  BY <1>2, <1>3 DEF Text, Lo, Hi, At, AtUnit, WrongFrom, SetFrom
<1> QED
  BY <1>4, NoClassYet DEF ClassInv, ClassRead

\* It is refused with what the text says of it.
LEMMA NamedRefused ==
  ASSUME UNCHANGED pattern, NEW status \in {"BADPAT", "EBRACK"}, NEW where,
         Fail(status, where), Named' = Refused(status, where + 1)
  PROVE  ClassInv'
<1>1. rc' = status /\ pc' = "done" /\ errorAt' = where
  BY DEF Fail
<1> QED
  BY <1>1 DEF ClassInv, ClassRead, ClassesAreDenoted, JustDelivered, JustRefused, Named

\* It is delivered with what the text says of it.
LEMMA NamedDelivered ==
  ASSUME Inv, UNCHANGED pattern, rc = "OK", NEW set, DeliverSet(set),
         Named' = MeansSet(set, pos' + 1)
  PROVE  ClassInv'
<1>1. pc' = "next" /\ rc' = "OK"
  BY DEF DeliverSet, Deliver
<1>2. tokens'[Len(tokens')].cls = set
  BY DEF DeliverSet, Deliver, Inv, Follows
<1> QED
  BY <1>1, <1>2 DEF ClassInv, ClassRead, ClassesAreDenoted, JustDelivered, JustRefused, Named

\* Another construct is neither.
LEMMA NotNamed ==
  ASSUME pc' # "class", At(start)' \notin {LBrack, Backslash}
  PROVE  ClassInv'
BY DEF ClassInv, ClassRead, ClassesAreDenoted, JustDelivered, JustRefused

\* The steps of the other constructs.
LEMMA PlainSteps ==
  ASSUME Inv, InConstruct,
         \/ Eof \/ Operator \/ Literal \/ RepeatOpen \/ NoCount \/ CountDigit
         \/ MinDone \/ MaxDone \/ BraceMissing \/ RepeatClose
  PROVE  ClassInv'
<1>0. /\ LBrack \notin DOMAIN Simple \cup {NUL, LBrace}
      /\ Backslash \notin DOMAIN Simple \cup {NUL, LBrace}
  BY DEF Simple, LBrace, LBrack, Backslash, NUL
<1>1. CASE Eof \/ Operator \/ Literal \/ RepeatOpen
  <2>1. UNCHANGED pattern /\ start' = pos
    BY <1>1 DEF Eof, Operator, Literal, RepeatOpen, NewToken
  <2>2. At(pos) \notin {LBrack, Backslash}
    BY <1>0, <1>1 DEF Eof, Operator, Literal, RepeatOpen
  <2>3. At(start)' \notin {LBrack, Backslash}
    BY <2>1, <2>2 DEF At
  <2>4. pc' # "class"
    BY <1>1 DEF Eof, Operator, Literal, RepeatOpen, Deliver, DeliverSet
  <2> QED
    BY <2>3, <2>4, NotNamed
<1>2. CASE \/ NoCount \/ CountDigit \/ MinDone \/ MaxDone \/ BraceMissing \/ RepeatClose
  <2>1. UNCHANGED <<pattern, start>> /\ pc \in {"min0", "min", "max0", "max", "brace"}
    BY <1>2 DEF NoCount, CountDigit, MinDone, MaxDone, BraceMissing, RepeatClose,
       RepeatUnchanged
  <2>2. At(start)' = LBrace
    BY <2>1 DEF InConstruct, At
  <2>3. pc' # "class"
    BY <1>2 DEF NoCount, CountDigit, MinDone, MaxDone, BraceMissing, RepeatClose, Deliver,
       Fail
  <2> QED
    BY <1>0, <2>2, <2>3, NotNamed
<1> QED
  BY <1>1, <1>2

\* An escape outside of a class.
LEMMA NamedEscapeStep == Inv /\ Escape => ClassInv'
<1> SUFFICES ASSUME Inv, Escape PROVE ClassInv'
  OBVIOUS
<1>0. LBrack # Backslash /\ LBrace # Backslash
  BY DEF LBrack, LBrace, Backslash
<1>1. /\ pc = "next" /\ At(pos) = Backslash /\ start' = pos /\ pattern' = pattern
      /\ rc = "OK" /\ pos' = Behind(pos + 1)
  BY DEF Escape, NewToken, Inv, Follows
<1>2. /\ Text \in Seq(Char) /\ Len(Text) = Last /\ Last \in Nat /\ pos \in Nat
      /\ \A i \in 0 .. Last - 1 : Text[i + 1] = At(i)
  BY InvFacts, TextFacts
<1>3. pos + 1 \in 0 .. Last /\ At(pos + 1) \in Char /\ (At(pos + 1) = NUL <=> pos + 1 = Last)
  BY <1>1, NulIsPlain, InvFacts, BeforeNul DEF IsCString
<1>4. Named' = EscapeAt(Text, pos + 1)
  <2>1. Named' = MeansAt(pos + 1, Backslash)
    BY <1>1 DEF Named, MeansAt, At, Text
  <2> QED
    BY <1>0, <2>1, Zenon DEF MeansAt
<1>5. CASE At(pos + 1) = NUL
  <2>1. Named' = Refused("BADPAT", pos' + 1)
    BY <1>1, <1>2, <1>3, <1>4, <1>5 DEF EscapeAt, Behind
  <2>2. Fail("BADPAT", pos')
    BY <1>5 DEF Escape
  <2> QED
    BY <1>1, <2>1, <2>2, NamedRefused
<1>6. CASE At(pos + 1) # NUL
  <2>1. /\ pos + 1 # Len(Text) /\ Text[(pos + 1) + 1] = At(pos + 1)
        /\ pos' + 1 = (pos + 1) + 2
    BY <1>1, <1>2, <1>3, <1>6 DEF Behind
  <2>2. Escapes[At(pos + 1)] = EscapeSet(At(pos + 1))
    BY <1>3, EscapesAgree
  <2>3. Named' = MeansSet(EscapeSet(At(pos + 1)), pos' + 1)
    BY <1>4, <2>1, <2>2, Zenon DEF EscapeAt
  <2>4. DeliverSet(EscapeSet(At(pos + 1)))
    BY <1>6 DEF Escape
  <2> QED
    BY <1>1, <2>3, <2>4, NamedDelivered
<1> QED
  BY <1>5, <1>6

\* What the text says of a class.
LEMMA NamedClass ==
  ASSUME Inv, start < Last, At(start) = LBrack
  PROVE  Named = IF WrongFrom(Lo) # 0 THEN Refused("BADPAT", WrongFrom(Lo))
                 ELSE IF Closers(Text, Lo) = {} \/ Begins(Text, Lo) = {}
                   THEN Refused("EBRACK", start + 1)
                 ELSE MeansSet(IF IsNegated(Text, start + 1) THEN Char \ SetFrom(Lo)
                               ELSE SetFrom(Lo), Hi + 1)
<1>0. LBrack # Backslash /\ LBrace # LBrack
  BY DEF LBrack, LBrace, Backslash
<1>1. Named = ClassAt(Text, start + 1)
  BY <1>0, Zenon DEF Named, MeansAt
<1>2. Items(Text, Lo) = Meaning(Text, Lo)[Lo]
  BY ClassFacts, ItemsAre, Zenon
<1> QED
  BY <1>1, <1>2, Zenon DEF ClassAt, Lo, Hi, WrongFrom, SetFrom

\* Where the inside of a class begins.
LEMMA ClassBegins ==
  Inv /\ start < Last =>
    /\ Lo = IF At(start + 1) = Caret THEN start + 3 ELSE start + 2
    /\ IsNegated(Text, start + 1) <=> At(start + 1) = Caret
    /\ Lo \in Nat /\ Hi \in Nat /\ Lo <= Hi
BY ClassFacts, Zenon

\* The class begins.
LEMMA NamedOpenStep == Inv /\ ClassOpen => ClassInv'
<1> SUFFICES ASSUME Inv, ClassOpen PROVE ClassInv'
  OBVIOUS
<1>1. /\ start' = pos /\ pattern' = pattern /\ rc' = "OK" /\ pc' = "class" /\ cls' = {}
      /\ sawAny' = FALSE /\ negate' = (At(pos + 1) = Caret)
      /\ pos' = IF At(pos + 1) = Caret THEN pos + 2 ELSE pos + 1
  BY DEF ClassOpen, NewToken, Inv, Follows
<1>2. Inv'
  BY ClassOpenStep
<1>3. start' < Last' /\ pos \in Nat
  <2>1. At(pos) # NUL
    BY NulIsPlain DEF ClassOpen
  <2>2. pos + 1 \in 0 .. Last /\ Last \in Nat /\ pos \in Nat
    BY <2>1, InvFacts, BeforeNul
  <2>3. Last' = Last
    BY <1>1 DEF Last
  <2> QED
    BY <1>1, <2>2, <2>3
<1>4. /\ Lo' = IF At(start + 1)' = Caret THEN start' + 3 ELSE start' + 2
      /\ (IsNegated(Text, start + 1) <=> At(start + 1) = Caret)'
      /\ Lo' \in Nat /\ Hi' \in Nat /\ Lo' <= Hi'
  <2>1. (Inv /\ start < Last =>
           /\ Lo = IF At(start + 1) = Caret THEN start + 3 ELSE start + 2
           /\ IsNegated(Text, start + 1) <=> At(start + 1) = Caret
           /\ Lo \in Nat /\ Hi \in Nat /\ Lo <= Hi)'
    BY ClassBegins, PTL
  <2> QED
    BY <1>2, <1>3, <2>1
<1>5. At(start + 1)' = At(pos + 1)
  BY <1>1 DEF At
<1>6. Lo' = pos' + 1
  BY <1>1, <1>3, <1>4, <1>5
<1>7. AtUnit(pos)'
  <2>1. ~ Escaped(Text', Lo', Lo')
    BY <1>4, EscapedBy
  <2> QED
    BY <1>4, <1>6, <2>1 DEF AtUnit
<1>8. ClassRead'
  <2>1. (negate <=> IsNegated(Text, start + 1))'
    BY <1>1, <1>4, <1>5
  <2>2. (sawAny <=> Lo < pos + 1)'
    BY <1>1, <1>4, <1>6
  <2>3. (WrongFrom(Lo) = WrongFrom(pos + 1))' /\ (SetFrom(Lo) = cls \cup SetFrom(pos + 1))'
    BY <1>1, <1>6 DEF WrongFrom, SetFrom
  <2> QED
    BY <1>7, <2>1, <2>2, <2>3 DEF ClassRead
<1> QED
  BY <1>1, <1>8, NoClassYet DEF ClassInv

\* Where the lexer stands within a class.
LEMMA ClassPlace ==
  ASSUME Inv, InConstruct, ClassRead, pc = "class"
  PROVE  /\ start < Last /\ AtUnit(pos) /\ At(start) = LBrack /\ rc = "OK"
         /\ pos \in 0 .. Last /\ pos \in Nat
         /\ WrongFrom(Lo) = WrongFrom(pos + 1)
         /\ SetFrom(Lo) = cls \cup SetFrom(pos + 1)
BY InvFacts DEF ClassRead, InConstruct, Inv, Follows

-----------------------------------------------------------------------------
\* An element by itself.
LEMMA NamedElementStep == Inv /\ InConstruct /\ ClassRead /\ Element => ClassInv'
<1> SUFFICES ASSUME Inv, InConstruct, ClassRead, Element PROVE ClassInv'
  OBVIOUS
<1> DEFINE i == ElementEnd(pos)
<1>1. /\ InClass /\ ElementOk(pos) /\ ~ IsRange(i) /\ pos' = i /\ sawAny' = TRUE
      /\ cls' = cls \cup ElementSet(pos) /\ UNCHANGED <<pattern, start, negate, pc, rc>>
  BY DEF Element, ClassUnchanged
<1>2. pc = "class" /\ At(pos) \notin {NUL, RBrack}
  BY <1>1 DEF InClass
<1>3. start < Last /\ AtUnit(pos) /\ rc = "OK" /\ pos \in 0 .. Last
  BY <1>2, ClassPlace
<1>4. i \in pos + 1 .. Last /\ AtUnit(i)
  <2>1. i \in pos + 1 .. Last
    BY <1>1, InClassFacts
  <2> QED
    BY <1>1, <1>2, <1>3, <2>1, ElementIsUnit
<1>5. i \in Nat /\ pos < i
  BY <1>3, <1>4
<1>6. /\ WrongFrom(pos + 1) = WrongFrom(i + 1)
      /\ SetFrom(pos + 1) = ElementSet(pos) \cup SetFrom(i + 1)
  BY <1>1, <1>2, <1>3, ElementMeans, Zenon
<1> HIDE DEF i
<1>7. cls' \cup SetFrom(i + 1) = cls \cup SetFrom(pos + 1)
  BY <1>1, <1>6
<1> QED
  BY <1>1, <1>2, <1>3, <1>4, <1>5, <1>6, <1>7, ToUnit

\* A range, right or wrong.
LEMMA NamedRangeStep == Inv /\ InConstruct /\ ClassRead /\ RangeElement => ClassInv'
<1> SUFFICES ASSUME Inv, InConstruct, ClassRead, RangeElement PROVE ClassInv'
  OBVIOUS
<1> DEFINE dash == ElementEnd(pos)
           j == dash + 1
           i == ElementEnd(j)
           first == ElementSet(pos)
           last == ElementSet(j)
<1>1. /\ InClass /\ ElementOk(pos) /\ IsRange(dash) /\ ElementOk(j) /\ pos' = i
      /\ UNCHANGED <<pattern, start, negate>>
  BY DEF RangeElement, ClassUnchanged
<1>2. pc = "class" /\ At(pos) \notin {NUL, RBrack}
  BY <1>1 DEF InClass
<1>3. /\ start < Last /\ AtUnit(pos) /\ rc = "OK" /\ pos \in 0 .. Last
      /\ At(start) = LBrack /\ (WrongFrom(Lo) = WrongFrom(pos + 1))
  BY <1>2, ClassPlace
<1>4. /\ first \in SUBSET Char /\ last \in SUBSET Char
      /\ i \in 0 .. Last /\ AtUnit(i)
      /\ BoundsInOrder(first, last) => WrongFrom(pos + 1) = WrongFrom(i + 1)
      /\ ~ BoundsInOrder(first, last) => WrongFrom(pos + 1) = j
      /\ SetFrom(pos + 1) = Span(first, last) \cup SetFrom(i + 1)
  BY <1>1, <1>2, <1>3, RangeMeans, Zenon
<1>5. i \in Nat /\ pos < i
  <2>1. dash \in pos + 1 .. Last /\ j \in 0 .. Last /\ At(j) # NUL
    BY <1>1, InClassFacts
  <2>2. i \in j + 1 .. Last
    BY <1>1, <2>1, InvFacts, ElementType
  <2> QED
    BY <1>3, <2>1, <2>2
<1>6. CASE BoundsInOrder(first, last)
  <2>1. /\ \E a \in first, b \in last : cls' = AddRange(cls, a, b)
        /\ sawAny' = TRUE /\ UNCHANGED <<pc, rc>>
    BY <1>6 DEF RangeElement
  <2>2. cls' = cls \cup Span(first, last)
    <3>1. PICK a \in first, b \in last : cls' = AddRange(cls, a, b)
      BY <2>1
    <3>2. first \in SUBSET Char /\ last \in SUBSET Char
      BY <1>4
    <3>3. \A x \in first, y \in last : BoundsInOrder(first, last) =>
            AddRange(cls, x, y) = cls \cup Span(first, last)
      BY <3>2, SpanIsRange, Zenon
    <3>4. AddRange(cls, a, b) = cls \cup Span(first, last)
      BY <1>6, <3>1, <3>3, Zenon
    <3> QED
      BY <3>1, <3>4, Zenon
  <2>3. WrongFrom(pos + 1) = WrongFrom(i + 1)
    BY <1>4, <1>6
  <2> HIDE DEF i, first, last
  <2>4. cls' \cup SetFrom(i + 1) = cls \cup SetFrom(pos + 1)
    BY <1>4, <2>2
  <2> QED
    BY <1>1, <1>2, <1>3, <1>4, <1>5, <2>1, <2>3, <2>4, ToUnit
<1>7. CASE ~ BoundsInOrder(first, last)
  <2>1. Fail("BADPAT", dash)
    BY <1>7 DEF RangeElement
  <2>2. WrongFrom(Lo) = dash + 1 /\ dash + 1 # 0
    <3>1. dash \in pos + 1 .. Last
      BY <1>1, InClassFacts
    <3> QED
      BY <1>3, <1>4, <1>7, <3>1
  <2>3. Named' = Refused("BADPAT", dash + 1)
    BY <1>1, <1>3, <2>2, NamedClass, NamedKept, Zenon
  <2> HIDE DEF dash
  <2> QED
    BY <1>1, <2>1, <2>3, NamedRefused
<1> QED
  BY <1>6, <1>7

\* An element that the pattern ends in.
LEMMA NamedBrokenStep == Inv /\ InConstruct /\ ClassRead /\ ElementBroken => ClassInv'
<1> SUFFICES ASSUME Inv, InConstruct, ClassRead, ElementBroken PROVE ClassInv'
  OBVIOUS
<1> DEFINE j == ElementEnd(pos) + 1
<1>1. /\ InClass /\ UNCHANGED <<pattern, start>> /\ Fail("BADPAT", pos')
      /\ ElementOk(pos) => IsRange(ElementEnd(pos)) /\ ~ ElementOk(j)
  BY DEF ElementBroken, ClassUnchanged
<1>2. pc = "class" /\ At(pos) \notin {NUL, RBrack}
  BY <1>1 DEF InClass
<1>3. /\ start < Last /\ AtUnit(pos) /\ pos \in 0 .. Last
      /\ At(start) = LBrack /\ (WrongFrom(Lo) = WrongFrom(pos + 1))
  BY <1>2, ClassPlace
<1>4. WrongFrom(pos + 1) = Len(Text) + 1
  <2>1. CASE ElementOk(pos)
    BY <1>1, <1>2, <1>3, <2>1, RangeMeans, Zenon
  <2>2. CASE ~ ElementOk(pos)
    BY <1>2, <1>3, <2>2, ElementMeans, Zenon
  <2> QED
    BY <2>1, <2>2
<1>5. pos' + 1 = Len(Text) + 1 /\ Len(Text) + 1 # 0
  <2> DEFINE e == IF ~ ElementOk(pos) THEN pos ELSE j
  <2>1. pos' = Behind(e + 1) /\ ~ ElementOk(e)
    BY <1>1 DEF ElementBroken
  <2>2. e \in 0 .. Last /\ At(e) # NUL
    BY <1>1, <1>3, InClassFacts
  <2>3. Len(Text) = Last /\ Last \in Nat /\ At(Last) = NUL
    <3>1. Len(Text) = Last /\ Last \in Nat
      BY <1>3, ClassFacts, Zenon
    <3> QED
      BY <3>1, InvFacts DEF IsCString
  <2> HIDE DEF e
  <2>4. e + 1 = Last
    BY <2>1, <2>2, InvFacts, ElementType
  <2> QED
    BY <2>1, <2>3, <2>4 DEF Behind
<1>6. Named' = Refused("BADPAT", pos' + 1)
  BY <1>1, <1>3, <1>4, <1>5, NamedClass, NamedKept, Zenon
<1> QED
  BY <1>1, <1>6, NamedRefused

\* The end of a class, and of a pattern that does not close it.
LEMMA NamedEndStep ==
  Inv /\ InConstruct /\ ClassRead /\ (ClassUnclosed \/ ClassClose) => ClassInv'
<1> SUFFICES ASSUME Inv, InConstruct, ClassRead, ClassUnclosed \/ ClassClose
             PROVE  ClassInv'
  OBVIOUS
<1>1. /\ pc = "class" /\ At(pos) \in {NUL, RBrack} /\ UNCHANGED <<pattern, start>>
  BY DEF ClassUnclosed, ClassClose, ClassUnchanged
<1>2. /\ start < Last /\ AtUnit(pos) /\ At(start) = LBrack /\ rc = "OK"
      /\ pos \in 0 .. Last /\ pos \in Nat
      /\ WrongFrom(Lo) = WrongFrom(pos + 1)
      /\ SetFrom(Lo) = cls \cup SetFrom(pos + 1)
      /\ negate <=> IsNegated(Text, start + 1)
      /\ sawAny <=> Lo < pos + 1
  BY <1>1, ClassPlace DEF ClassRead
<1>3. /\ IsInside(Text, Lo) /\ Len(Text) = Last /\ Last \in Nat
      /\ Hi \in Nat /\ Lo \in Nat /\ Lo <= Hi /\ Hi <= Last + 1
  BY <1>2, ClassFacts, Zenon
<1>4. /\ pos + 1 \in Begins(Text, Lo) \cup {Hi} /\ pos + 1 \notin Begins(Text, Lo)
      /\ At(pos) = NUL => Hi = Len(Text) + 1
      /\ At(pos) = RBrack => Hi <= Len(Text)
  BY <1>1, <1>2, AtUnitFacts, Zenon
<1>5. pos + 1 = Hi
  BY <1>4
<1>6. WrongFrom(Lo) = 0 /\ SetFrom(Lo) = cls
  <2>1. WrongFrom(Hi) = 0 /\ SetFrom(Hi) = {}
    BY <1>2, NothingMore
  <2> QED
    BY <1>2, <1>5, <2>1
<1>7. Closers(Text, Lo) = {} <=> Hi = Len(Text) + 1
  BY <1>3, CloserFacts, Zenon DEF Hi
<1>8. Named' = IF Closers(Text, Lo) = {} \/ Begins(Text, Lo) = {}
                 THEN Refused("EBRACK", start + 1)
               ELSE MeansSet(IF negate THEN Char \ cls ELSE cls, Hi + 1)
  BY <1>1, <1>2, <1>6, NamedClass, NamedKept, Zenon
<1>9. CASE ClassUnclosed
  <2>1. Fail("EBRACK", start) /\ Hi = Len(Text) + 1
    BY <1>4, <1>9 DEF ClassUnclosed
  <2>2. Named' = Refused("EBRACK", start + 1)
    BY <1>7, <1>8, <2>1, Zenon
  <2> QED
    BY <1>1, <2>1, <2>2, NamedRefused
<1>10. CASE ClassClose
  <2>1. pos' = pos + 1 /\ Hi <= Len(Text)
    BY <1>4, <1>10 DEF ClassClose
  <2>2. Closers(Text, Lo) # {}
    BY <1>3, <1>7, <2>1
  <2>3. Begins(Text, Lo) = {} <=> ~ sawAny
    <3>1. ASSUME sawAny PROVE Lo \in Begins(Text, Lo)
      <4>1. Lo \in Lo .. Hi - 1
        BY <1>2, <1>3, <1>5, <3>1
      <4>2. ~ Escaped(Text, Lo, Lo)
        BY <1>3, EscapedBy
      <4> QED
        BY <4>1, <4>2 DEF Begins, Hi
    <3>2. ASSUME ~ sawAny PROVE Begins(Text, Lo) = {}
      <4>1. Lo = Hi
        BY <1>2, <1>3, <1>5, <3>2
      <4>2. Lo .. Hi - 1 = {}
        BY <1>3, <4>1
      <4> QED
        BY <4>2 DEF Begins, Hi
    <3> QED
      BY <3>1, <3>2
  <2>4. CASE sawAny
    <3>1. DeliverSet(Closed)
      BY <1>10, <2>4 DEF ClassClose
    <3>2. Closed = IF negate THEN Char \ cls ELSE cls
      BY DEF Closed, Invert
    <3>3. Named' = MeansSet(Closed, pos' + 1)
      BY <1>5, <1>8, <2>1, <2>2, <2>3, <2>4, <3>2, Zenon
    <3> QED
      BY <1>1, <1>2, <3>1, <3>3, NamedDelivered
  <2>5. CASE ~ sawAny
    <3>1. Fail("EBRACK", start)
      BY <1>10, <2>5 DEF ClassClose
    <3>2. Named' = Refused("EBRACK", start + 1)
      BY <1>8, <2>2, <2>3, <2>5, Zenon
    <3> QED
      BY <1>1, <3>1, <3>2, NamedRefused
  <2> QED
    BY <2>4, <2>5
<1> QED
  BY <1>9, <1>10

\* Before the first token.
LEMMA ClassInit == Init => ClassInv
BY DEF Init, ClassInv, ClassRead, ClassesAreDenoted, JustDelivered, JustRefused

\* Every step.
LEMMA ClassStep == Inv /\ BoundInv /\ ClassInv /\ [Next]_vars => ClassInv'
<1> SUFFICES ASSUME Inv, InConstruct, ClassInv, [Next]_vars PROVE ClassInv'
  BY DEF BoundInv
<1>1. CASE UNCHANGED vars
  <2>1. UNCHANGED <<pattern, pos, pc, start, cls, negate, sawAny, tokens, rc, errorAt>>
    BY <1>1 DEF vars, token
  <2>2. ClassRead'
    BY <2>1 DEF ClassInv, ClassRead, AtUnit, WrongFrom, SetFrom, Lo, Hi, Text
  <2>3. ClassesAreDenoted'
    BY <2>1 DEF ClassInv, ClassesAreDenoted, JustDelivered, JustRefused, MeansAt, Text, At
  <2> QED
    BY <2>2, <2>3 DEF ClassInv
<1>2. CASE Next
  <2>1. ClassRead
    BY DEF ClassInv
  <2> QED
    BY <1>1, <1>2, <2>1, PlainSteps, NamedEscapeStep, NamedOpenStep, NamedBrokenStep,
       NamedElementStep, NamedRangeStep, NamedEndStep DEF Next, Returned
<1> QED
  BY <1>1, <1>2

\* A class or an escape stands for exactly the bytes that its text names, ends
\* where the text says, and is refused only for what is wrong in it.
THEOREM ClassesAreRead == Spec => []ClassesAreDenoted
<1>1. ClassInv => ClassesAreDenoted
  BY DEF ClassInv
<1> QED
  BY <1>1, InvInit, InvStep, BoundInit, BoundStep, ClassInit, ClassStep, PTL DEF Spec

-----------------------------------------------------------------------------
(* The tokens split the pattern: where one ends, the next begins. *)

\* A token that is followed by another, or by what is being read, ends there.
EndsBefore(i) ==
  EndsAt(tokens[i].pos, IF i < Len(tokens) THEN tokens[i + 1].pos ELSE Place)

Splits ==
  /\ tokens = <<>> => Place = 0
  /\ \A i \in DOMAIN tokens :
       IF tokens[i].type = "EOF" THEN i = Len(tokens) /\ pc = "done"
       ELSE EndsBefore(i)

\* What a step of the lexer begins with.
LEMMA StepBegins ==
  ASSUME Next, ~ Returned
  PROVE  pc # "done" /\ UNCHANGED pattern /\ Begun
<1>1. CASE Eof \/ Operator \/ Literal \/ Escape \/ ClassOpen \/ RepeatOpen
  BY <1>1 DEF Eof, Operator, Literal, Escape, ClassOpen, RepeatOpen, NewToken, Begun
<1>2. CASE ElementBroken \/ Element \/ RangeElement
  BY <1>2 DEF ElementBroken, Element, RangeElement, InClass, ClassUnchanged, Begun
<1>3. CASE ClassUnclosed \/ ClassClose
  BY <1>3 DEF ClassUnclosed, ClassClose, ClassUnchanged, Begun
<1>4. CASE NoCount \/ CountDigit \/ MinDone \/ MaxDone \/ BraceMissing \/ RepeatClose
  BY <1>4 DEF NoCount, CountDigit, MinDone, MaxDone, BraceMissing, RepeatClose,
     RepeatUnchanged, Begun
<1> QED
  BY <1>1, <1>2, <1>3, <1>4 DEF Next

\* The token at start', which ends before pos' unless the pattern ends with it.
DeliversAt(type) ==
  \E set, min, max, open : Deliver(type, set, min, max, open)

LEMMA DeliversType ==
  ASSUME NEW type, NEW set, NEW min, NEW max, NEW open, Deliver(type, set, min, max, open)
  PROVE  DeliversAt(type)
BY Zenon DEF DeliversAt

\* A token is delivered that is one character, EOF or a construct, or none is.
LEMMA StepDelivers ==
  ASSUME Inv, InConstruct, Next, ~ Returned
  PROVE  \/ UNCHANGED tokens /\ pc' # "next"
         \/ DeliversAt("EOF")
         \/ \E type \in TokenType \ {"EOF"} :
              /\ DeliversAt(type)
              /\ At(start)' \notin {LBrack, LBrace, Backslash} => pos' = start' + 1
<1> DEFINE None == UNCHANGED tokens /\ pc' # "next"
           Ends == At(start)' \notin {LBrack, LBrace, Backslash} => pos' = start' + 1
<1>1. CASE Eof
  BY <1>1, DeliversType DEF Eof
<1>2. CASE Operator
  <2>1. Simple[At(pos)] \in TokenType \ {"EOF"} /\ DeliversAt(Simple[At(pos)])
    BY <1>2, SimpleType, DeliversType DEF Operator
  <2>2. Ends
    BY <1>2 DEF Operator, NewToken
  <2> QED
    BY <2>1, <2>2
<1>3. CASE Literal
  <2>1. DeliversAt("CLASS") /\ "CLASS" \in TokenType \ {"EOF"}
    BY <1>3, Types, DeliversType DEF Literal, DeliverSet
  <2>2. Ends
    BY <1>3 DEF Literal, NewToken
  <2> QED
    BY <2>1, <2>2
<1>4. CASE Escape
  <2>1. CASE At(pos + 1) = NUL
    BY <1>4, <2>1 DEF Escape, Fail
  <2>2. CASE At(pos + 1) # NUL
    <3>1. DeliversAt("CLASS") /\ "CLASS" \in TokenType \ {"EOF"}
      BY <1>4, <2>2, Types, DeliversType DEF Escape, DeliverSet
    <3>2. Ends
      BY <1>4 DEF Escape, NewToken, At
    <3> QED
      BY <3>1, <3>2
  <2> QED
    BY <2>1, <2>2
<1>5. CASE ClassClose
  <2>1. CASE sawAny
    <3>1. DeliversAt("CLASS") /\ "CLASS" \in TokenType \ {"EOF"}
      BY <1>5, <2>1, Types, DeliversType DEF ClassClose, DeliverSet
    <3>2. Ends
      BY <1>5 DEF ClassClose, InConstruct, At
    <3> QED
      BY <3>1, <3>2
  <2>2. CASE ~ sawAny
    BY <1>5, <2>2 DEF ClassClose, Fail
  <2> QED
    BY <2>1, <2>2
<1>6. CASE RepeatClose
  <2>1. CASE ~ unbounded /\ repeatMax < repeatMin
    BY <1>6, <2>1 DEF RepeatClose, Fail
  <2>2. CASE ~ (~ unbounded /\ repeatMax < repeatMin)
    <3>1. DeliversAt("REPEAT") /\ "REPEAT" \in TokenType \ {"EOF"}
      BY <1>6, <2>2, Types, DeliversType DEF RepeatClose
    <3>2. Ends
      BY <1>6 DEF RepeatClose, RepeatUnchanged, InConstruct, At
    <3> QED
      BY <3>1, <3>2
  <2> QED
    BY <2>1, <2>2
<1>7. CASE ClassOpen \/ RepeatOpen
  BY <1>7 DEF ClassOpen, RepeatOpen
<1>8. CASE ElementBroken \/ Element \/ RangeElement \/ ClassUnclosed
  <2>1. CASE ElementBroken \/ ClassUnclosed
    BY <2>1 DEF ElementBroken, ClassUnclosed, Fail
  <2>2. CASE Element
    BY <2>2 DEF Element, InClass
  <2>3. CASE RangeElement
    BY <2>3 DEF RangeElement, InClass, Fail
  <2> QED
    BY <1>8, <2>1, <2>2, <2>3
<1>9. CASE NoCount \/ CountDigit \/ MinDone \/ MaxDone \/ BraceMissing
  <2>1. CASE NoCount \/ BraceMissing
    BY <2>1 DEF NoCount, BraceMissing, Fail
  <2>2. CASE CountDigit
    BY <2>2 DEF CountDigit, Fail
  <2>3. CASE MinDone \/ MaxDone
    BY <2>3 DEF MinDone, MaxDone
  <2> QED
    BY <1>9, <2>1, <2>2, <2>3
<1> QED
  BY <1>1, <1>2, <1>3, <1>4, <1>5, <1>6, <1>7, <1>8, <1>9 DEF Next

\* While no token is delivered, the next one begins where it would have begun.
LEMMA SplitKept ==
  ASSUME Splits, pc # "done", UNCHANGED pattern, Begun, UNCHANGED tokens, pc' # "next"
  PROVE  Splits'
<1>1. Place' = Place
  BY DEF Begun, Place
<1>2. ASSUME NEW i \in DOMAIN tokens
      PROVE  tokens[i].type # "EOF" /\ EndsBefore(i)'
  <2>1. tokens[i].type # "EOF" /\ EndsBefore(i)
    BY <1>2 DEF Splits
  <2> QED
    BY <1>1, <2>1 DEF EndsBefore, EndsAt, MeansAt, Text, At
<1> QED
  BY <1>1, <1>2 DEF Splits

\* A token that is delivered begins where the last one ended, and ends before the
\* place of the next.
LEMMA SplitDelivered ==
  ASSUME Inv, Splits, pc # "done", UNCHANGED pattern, Begun,
         NEW type, DeliversAt(type), type # "EOF" => EndsAt(start, pos)'
  PROVE  Splits'
<1>1. PICK set, min, max, open : Deliver(type, set, min, max, open)
  BY Zenon DEF DeliversAt
<1> DEFINE tok == [type |-> type, pos |-> start', cls |-> set,
                   min |-> min, max |-> max, unbounded |-> open]
<1>2. /\ tokens' = Append(tokens, tok)
      /\ pc' = IF type = "EOF" THEN "done" ELSE "next"
  BY <1>1 DEF Deliver
<1>3. tok.pos = start' /\ tok.type = type
  OBVIOUS
<1> HIDE DEF tok
<1>4. /\ tokens \in Seq(Token) /\ Len(tokens) \in Nat /\ DOMAIN tokens = 1 .. Len(tokens)
      /\ Place = start'
  BY DEF Inv, Follows, Begun, Place
<1>5. /\ Len(tokens') = Len(tokens) + 1 /\ DOMAIN tokens' = 1 .. Len(tokens) + 1
      /\ tokens'[Len(tokens) + 1] = tok /\ tokens' # <<>>
      /\ \A i \in 1 .. Len(tokens) : tokens'[i] = tokens[i]
  BY <1>2, <1>4
<1>6. ASSUME NEW i \in 1 .. Len(tokens)
      PROVE  tokens'[i].type # "EOF" /\ EndsBefore(i)'
  <2> DEFINE next == IF i < Len(tokens) THEN tokens[i + 1].pos ELSE Place
  <2>1. tokens[i].type # "EOF" /\ EndsAt(tokens[i].pos, next)
    BY <1>4, <1>6 DEF Splits, EndsBefore
  <2>2. i < Len(tokens') /\ tokens'[i + 1].pos = next /\ tokens'[i] = tokens[i]
    <3>1. CASE i < Len(tokens)
      <4>1. i + 1 \in 1 .. Len(tokens)
        BY <1>4, <3>1
      <4> QED
        BY <1>4, <1>5, <3>1, <4>1
    <3>2. CASE i = Len(tokens)
      BY <1>3, <1>4, <1>5, <3>2
    <3> QED
      BY <1>4, <3>1, <3>2
  <2> HIDE DEF next
  <2> QED
    BY <2>1, <2>2 DEF EndsBefore, EndsAt, MeansAt, Text, At
<1>7. CASE type = "EOF"
  <2>1. pc' = "done"
    BY <1>2, <1>7
  <2> QED
    BY <1>3, <1>4, <1>5, <1>6, <1>7, <2>1 DEF Splits
<1>8. CASE type # "EOF"
  <2>1. Place' = pos' /\ EndsAt(start, pos)'
    BY <1>2, <1>8 DEF Place
  <2>2. ASSUME NEW i, i = Len(tokens) + 1
        PROVE  EndsBefore(i)'
    <3>1. tokens'[i].pos = start' /\ ~ (i < Len(tokens'))
      BY <1>3, <1>4, <1>5, <2>2
    <3> QED
      BY <2>1, <3>1 DEF EndsBefore, EndsAt, MeansAt, Text, At
  <2>3. \A i \in 1 .. Len(tokens) + 1 : i \in 1 .. Len(tokens) \/ i = Len(tokens) + 1
    BY <1>4
  <2> QED
    BY <1>3, <1>5, <1>6, <1>8, <2>2, <2>3 DEF Splits
<1> QED
  BY <1>7, <1>8

\* A construct that was delivered ends where the text says, and a token of one
\* character behind it.
LEMMA DeliveredEnds ==
  ASSUME ClassesAreDenoted', BoundsAreExact', pc' = "next", tokens' # <<>>,
         At(start)' \notin {LBrack, LBrace, Backslash} => pos' = start' + 1
  PROVE  EndsAt(start, pos)'
<1>1. CASE At(start)' \in {LBrack, Backslash}
  <2>1. MeansAt(start + 1, At(start))' = MeansSet(tokens[Len(tokens)].cls, pos + 1)'
    BY <1>1 DEF ClassesAreDenoted, JustDelivered
  <2> QED
    BY <1>1, <2>1 DEF EndsAt, MeansSet
<1>2. CASE At(start)' = LBrace
  <2>1. PICK min, max, open :
          MeansAt(start + 1, LBrace)' = MeansBounds(min, max, open, pos + 1)'
    BY <1>2 DEF BoundsAreExact, JustDelivered
  <2> QED
    BY <1>2, <2>1 DEF EndsAt, MeansBounds
<1>3. CASE At(start)' \notin {LBrack, LBrace, Backslash}
  BY <1>3 DEF EndsAt
<1> QED
  BY <1>1, <1>2, <1>3

LEMMA SplitInit == Init => Splits
BY DEF Init, Splits, Place

\* Every step keeps the tokens split.
LEMMA SplitStep ==
  Inv /\ InConstruct /\ ClassesAreDenoted' /\ BoundsAreExact' /\ Splits /\ [Next]_vars
    => Splits'
<1> SUFFICES ASSUME Inv, InConstruct, ClassesAreDenoted', BoundsAreExact', Splits,
                    [Next]_vars
             PROVE  Splits'
  OBVIOUS
<1>1. CASE UNCHANGED vars
  BY <1>1 DEF vars, token, Splits, EndsBefore, EndsAt, MeansAt, Text, At, Place
<1>2. CASE Next /\ ~ Returned
  <2>1. pc # "done" /\ UNCHANGED pattern /\ Begun
    BY <1>2, StepBegins
  <2>2. CASE UNCHANGED tokens /\ pc' # "next"
    BY <2>1, <2>2, SplitKept
  <2>3. CASE DeliversAt("EOF")
    BY <2>1, <2>3, SplitDelivered
  <2>4. CASE \E type \in TokenType \ {"EOF"} :
               /\ DeliversAt(type)
               /\ At(start)' \notin {LBrack, LBrace, Backslash} => pos' = start' + 1
    <3>1. PICK type \in TokenType \ {"EOF"} :
            /\ DeliversAt(type)
            /\ At(start)' \notin {LBrack, LBrace, Backslash} => pos' = start' + 1
      BY <2>4
    <3>2. pc' = "next" /\ tokens' # <<>>
      BY <3>1 DEF DeliversAt, Deliver, Inv, Follows
    <3> QED
      BY <2>1, <3>1, <3>2, DeliveredEnds, SplitDelivered
  <2> QED
    BY <1>2, <2>2, <2>3, <2>4, StepDelivers
<1> QED
  BY <1>1, <1>2 DEF Returned

\* The tokens of every pattern split it without gap or overlap: each begins at
\* the byte where the text says that the one before ends, the first at the first
\* byte, and EOF is the last one and stands at the NUL.
THEOREM TokensSplitPattern == Spec => []TokensAreContiguous
<1>1. Inv /\ Splits => TokensAreContiguous
  <2> SUFFICES ASSUME Inv, Splits PROVE TokensAreContiguous
    OBVIOUS
  <2> QED
    BY DEF Inv, StartsIncrease, Splits, EndsBefore, TokensAreContiguous
<1>2. Init => Inv /\ BoundInv /\ ClassInv /\ Splits
  BY InvInit, BoundInit, ClassInit, SplitInit
<1>3. Inv /\ BoundInv /\ ClassInv /\ Splits /\ [Next]_vars
        => (Inv /\ BoundInv /\ ClassInv /\ Splits)'
  BY InvStep, BoundStep, ClassStep, SplitStep DEF BoundInv, ClassInv
<1> QED
  BY <1>1, <1>2, <1>3, PTL DEF Spec
=============================================================================
