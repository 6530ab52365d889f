----------------------------- MODULE MCDelayMsg -----------------------------
(***************************************************************************)
(* DelayMsg on a small instance: three messages, of which ValidateMsg      *)
(* accepts one kind, over three blocks, the last at the uint32 limit.      *)
(***************************************************************************)
EXTENDS DelayMsg
=============================================================================
