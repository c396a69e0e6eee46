---------------------------- MODULE MCSandboxApi ----------------------------
(***************************************************************************)
(* The handlers on two sandboxes and two nodes with room for one each, the *)
(* second with the Docker SDK runtime; s2 is paused when it expires, and   *)
(* its guest may die.  Requests are interchangeable.                       *)
(***************************************************************************)
EXTENDS SandboxApi, TLC

CONSTANTS n1, n2, s1, s2

MCIds == {s1, s2}
MCNodes == {n1, n2}
MCSdkNodes == {n2}
MCMortal == {s2}
MCDemand == [id \in Ids |-> 1]
MCCap == [n \in Nodes |-> 1]
MCAutoPause == {s2}
Symmetry == Permutations(Requests)
=============================================================================
