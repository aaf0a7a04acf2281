-------------------------- MODULE MCProcessExecutor --------------------------
(***************************************************************************)
(* TLC instances of ProcessExecutor.                                       *)
(***************************************************************************)
EXTENDS ProcessExecutor

CONSTANTS s1, s2
OneScope == {s1}
TwoScopes == {s1, s2}
=============================================================================
