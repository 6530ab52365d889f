-------------------------- MODULE MCStatefulOrders --------------------------
(* StatefulOrders with a long-term order and two conditional orders, one of *)
(* which waits for a fall and one for a rise of the price.                  *)
EXTENDS StatefulOrders

CONSTANTS longTerm, fall, rise, alice

MCOwner == [id \in {longTerm, fall, rise} |-> alice]
MCTriggerSubticks == [id \in {fall, rise} |-> IF id = fall THEN 1 ELSE 2]

MCOraclePrices == {2, 6, 8}
=============================================================================
