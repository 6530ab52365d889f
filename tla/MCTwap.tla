------------------------------- MODULE MCTwap -------------------------------
(* Twap on small instances.  MCTwap.cfg works off TWAP orders of four legs,  *)
(* every client id used once; the other three follow one remark of the code *)
(* each.                                                                    *)
EXTENDS Twap

CONSTANTS a, b
=============================================================================
