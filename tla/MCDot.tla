-------------------------------- MODULE MCDot --------------------------------
(***************************************************************************)
(* The graphs of the automata that MCDfa builds and minimizes.             *)
(***************************************************************************)
EXTENDS MCDfa, Dot
=============================================================================
