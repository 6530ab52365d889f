-------------------------------- MODULE Sums --------------------------------
(***************************************************************************)
(* Sums of natural numbers over a finite set, as the number of units there *)
(* are to count: what the library proves about cardinalities then holds of *)
(* them, where a fold could only be reasoned about by induction.           *)
(***************************************************************************)
EXTENDS Naturals, FiniteSets

\* The units of f[x], each told from those of the other elements.
Units(f, x) == {x} \X (1 .. f[x])

\* The sum of f[x] over the elements of S.
SumOf(f, S) == Cardinality(UNION {Units(f, x) : x \in S})
=============================================================================
