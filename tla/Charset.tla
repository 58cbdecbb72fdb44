------------------------------- MODULE Charset -------------------------------
(***************************************************************************)
(* charset.c: a set of bytes is a bitmap of 256 bits there and a subset of *)
(* Char here.  Of the bytes only those have a name that mean something in  *)
(* a pattern.                                                              *)
(***************************************************************************)
EXTENDS Naturals

Char == 0 .. 255

\* The byte that ends a C string.
NUL == 0

-----------------------------------------------------------------------------
AddRange(cls, lo, hi) == cls \cup (lo .. hi)

Invert(cls) == Char \ cls

Digit == AddRange({}, 48, 57)

\* a-z, A-Z, 0-9 and _
Word ==
  AddRange(AddRange(AddRange({}, 97, 122), 65, 90), 48, 57) \cup {95}

\* Blank, \t, \n, \r, \f and \v.
Space == {32, 9, 10, 13, 12, 11}
=============================================================================
