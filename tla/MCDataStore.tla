----------------------------- MODULE MCDataStore -----------------------------
(***************************************************************************)
(* Two sandboxes and two templates, named after the identifier of one of   *)
(* them, and two requests at a time.  Sandboxes and requests are alike.    *)
(***************************************************************************)
EXTENDS DataStore, TLC

CONSTANTS s1, s2, t1, t2, c1, c2

MCSandboxes == {s1, s2}
MCTemplates == {t1, t2}
MCAliases == {t1}
MCCalls == {c1, c2}
Symmetry == Permutations(MCSandboxes) \cup Permutations(MCCalls)
=============================================================================
