------------------------------ MODULE MCBridge ------------------------------
(***************************************************************************)
(* Bridge with two events of one Ethereum block, the second of which the   *)
(* module account cannot pay in full, and four validators, one faulty.     *)
(***************************************************************************)
EXTENDS Bridge, TLC

MCAmounts == 0 :> 1 @@ 1 :> 2
MCBlocks == 0 :> 4 @@ 1 :> 4
=============================================================================
