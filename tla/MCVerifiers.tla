----------------------------- MODULE MCVerifiers -----------------------------
(***************************************************************************)
(* TLC instance of Verifiers.                                              *)
(***************************************************************************)
EXTENDS Verifiers

CONSTANTS w1, w2

TwoWorkspaces == {w1, w2}
\* Two versions the baseline covers and one it does not.
ThreePackages == {0, 1, 2}
CoveredPackages == {0, 1}
=============================================================================
