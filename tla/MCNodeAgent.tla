---------------------------- MODULE MCNodeAgent ----------------------------
(***************************************************************************)
(* Two sandboxes and two calls at a time, which is what it takes for two   *)
(* calls to meet on one sandbox, on two, or on what sandboxes share.       *)
(***************************************************************************)
EXTENDS NodeAgent

CONSTANTS s1, s2, c1, c2

MCIds == {s1, s2}
MCCalls == {c1, c2}
MCMaxFaults == [r \in Runtimes |-> IF r = "docker" THEN 2 ELSE 1]
MCNoFaults == [r \in Runtimes |-> 0]
=============================================================================
