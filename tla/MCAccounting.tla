---------------------------- MODULE MCAccounting ----------------------------
(***************************************************************************)
(* A small instance of Accounting.                                         *)
(***************************************************************************)
EXTENDS Accounting, TLC

MCSlippages == {<<0, 1>>, <<1, 2>>}
MCEquities == {-1, 3}
MCListing == [new |-> 1, main |-> 1, lock |-> 1]

\* One limiter bound by its minimum and one by the supply, with periods of two
\* and five milliseconds.
Short == [period |-> 2000000, minimum |-> 2, tvlPpm |-> 100000]
Long == [period |-> 5000000, minimum |-> 1, tvlPpm |-> 500000]
MCLimiterLists == {<<>>, <<Short>>, <<Long, Short>>}

\* A configuration with two windows, and one with a single window of two blocks.
MCConfigs ==
  {<<[num |-> 1, limit |-> 1], [num |-> 3, limit |-> 2]>>, <<[num |-> 2, limit |-> 2]>>}

ASSUME OrdersWellFormed == Orders!WellFormed
ASSUME LimitsWellFormed == Limits!WellFormed
ASSUME LimiterWellFormed == Limiter!WellFormed

\* Owners, prices and keys are the same two values: no part has more than one
\* of them, and the group stays small.
Symmetry == Permutations(Owners) \cup Permutations(Vaults)
=============================================================================
