------------------------------- MODULE MCLexer -------------------------------
(***************************************************************************)
(* The lexer on every text over the characters that matter to one of its   *)
(* parts, up to a length, and on bounds around the limit.                  *)
(***************************************************************************)
EXTENDS Lexer, TLC, SequencesExt

\* Behind `[': brackets, caret, dash, backslash, a letter, and one that makes
\* a class of its own when escaped.
ClassTexts == {<<91>> \o s : s \in SeqOf({93, 94, 45, 92, 97, 100}, 5)}

\* Ranges up to the last byte, and across the letters.
ByteTexts ==
  { <<91, 97, 45, 255, 93>>, <<91, 255, 45, 255, 93>>, <<91, 94, 1, 45, 255, 93>>,
    <<91, 65, 45, 122, 93>> }

\* Behind `{': digits, comma and brace, and a letter.
RepeatTexts == {<<123>> \o s : s \in SeqOf({48, 49, 57, 44, 125, 97}, 4)}

\* Bounds of five and six digits.
LimitTexts ==
  {<<123>> \o s \o <<125>> : s \in [1 .. 5 -> {48, 49, 57}]} \cup
  {<<123, 48>> \o s \o <<44>> : s \in [1 .. 5 -> {48, 49, 57}]} \cup
  {<<123, 57, 44>> \o s \o <<125>> : s \in [1 .. 5 -> {48, 49}]}

\* The characters outside of classes, and what may follow a backslash.
PlainTexts ==
  SeqOf({46, 124, 42, 41, 36, 94, 92, 115, 87, 97, 91, 123}, 2) \cup
  {<<92, c>> : c \in 1 .. 255} \cup {<<c>> : c \in 1 .. 255}

MCPatterns ==
  ClassTexts \cup ByteTexts \cup RepeatTexts \cup LimitTexts \cup PlainTexts

=============================================================================
