-------------------------------- MODULE Load --------------------------------
(***************************************************************************)
(* The resources a set of sandboxes takes.  Nothing checks a demand, which *)
(* may be negative: what a set takes is the number of units demanded less  *)
(* the number of units its negative demands give away.  Both are sizes of  *)
(* disjoint unions, so that the finite-set theorems of the library apply.  *)
(***************************************************************************)
EXTENDS Integers, FiniteSets

(* The units sandbox x takes: one element per unit of its demand. *)
UnitsOf(x, demand) == {x} \X (1 .. demand[x])

(* The units the sandboxes of S take together. *)
Units(S, demand) == UNION {UnitsOf(x, demand) : x \in S}

(* What they take, what their negative demands give, and the balance. *)
Negated(demand) == [x \in DOMAIN demand |-> 0 - demand[x]]
Taken(S, demand) == Cardinality(Units(S, demand))
Given(S, demand) == Taken(S, Negated(demand))
LoadOf(S, demand) == Taken(S, demand) - Given(S, demand)
=============================================================================
