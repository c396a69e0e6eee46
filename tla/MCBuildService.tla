--------------------------- MODULE MCBuildService ---------------------------
(***************************************************************************)
(* The base template, whose build may hang but meets no error, and a       *)
(* user's template, whose build may meet any.                              *)
(***************************************************************************)
EXTENDS BuildService

CONSTANTS base, b1

MCBuilds == {base, b1}
MCEndless == {base}
MCFallible == {b1}
=============================================================================
