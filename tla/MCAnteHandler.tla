--------------------------- MODULE MCAnteHandler ----------------------------
(***************************************************************************)
(* AnteHandler with two accounts, numbered by their locks, and two         *)
(* goroutines.                                                             *)
(***************************************************************************)
EXTENDS AnteHandler
=============================================================================
