---------------------------- MODULE MCScheduler ----------------------------
(***************************************************************************)
(* The scheduler on two nodes and three sandboxes.  Node n1 is the larger  *)
(* one, and n2 runs the Docker SDK runtime.  s2 asks for less than nothing *)
(* and s3 fits on n2 only in the room that s2 gives.                       *)
(***************************************************************************)
EXTENDS Scheduler

CONSTANTS n1, n2, s1, s2, s3

MCNodes == {n1, n2}
MCIds == {s1, s2, s3}
MCCpu == [id \in Ids |-> CASE id = s1 -> 2 [] id = s2 -> -1 [] id = s3 -> 1]
MCMem == [id \in Ids |-> CASE id = s1 -> 1 [] id = s2 -> -2 [] id = s3 -> 3]
MCTimeout == [id \in Ids |-> IF id = s1 THEN 1 ELSE 0]
MCAutoPause == {s2}
MCCpuCap == [n \in Nodes |-> IF n = n1 THEN 3 ELSE 2]
MCMemCap == MCCpuCap
MCSdkNodes == {n2}
MCMortal == {s2}
\* The smaller instances: one node, one sandbox of each kind of expiration.
OneNode == {n1}
TwoIds == {s1, s2}

=============================================================================
