------------------------------- MODULE Totals -------------------------------
(***************************************************************************)
(* The sum of a weight function over a finite set, as the number of units  *)
(* in the disjoint union of its weights: an item of weight 3 contributes   *)
(* three units.  The registry keeps running counters; the properties       *)
(* compare each with the Total of what the individual uploads hold.        *)
(***************************************************************************)
EXTENDS Integers, FiniteSets

Units(weight) ==
  UNION { {x} \X (1..weight[x]) : x \in DOMAIN weight }

Total(weight) == Cardinality(Units(weight))
=============================================================================
