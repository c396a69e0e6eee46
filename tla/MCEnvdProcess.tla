--------------------------- MODULE MCEnvdProcess ---------------------------
(***************************************************************************)
(* One process with its two streams and two callers who follow it.         *)
(* Processes meet only in the table, where each has its own entry.         *)
(***************************************************************************)
EXTENDS EnvdProcess

CONSTANTS p1, c1, c2, stdout, stderr

MCStarts == {p1}
MCConnectors == {c1, c2}
MCStreams == {stdout, stderr}
=============================================================================
