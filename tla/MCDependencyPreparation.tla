---------------------- MODULE MCDependencyPreparation ----------------------
(***************************************************************************)
(* TLC instances of DependencyPreparation.                                 *)
(***************************************************************************)
EXTENDS DependencyPreparation

CONSTANTS p1, p2, t1, t2
OnePreparation == {p1}
TwoPreparations == {p1, p2}
TwoTrees == {t1, t2}
=============================================================================
