--------------------------- MODULE MCExperimentRun ---------------------------
(***************************************************************************)
(* TLC instances of ExperimentRun.                                         *)
(***************************************************************************)
EXTENDS ExperimentRun, TLC

CONSTANTS h1, h2
TwoHooks == {h1, h2}
GatedOrForking == {"H", "T"}
OnePriority == {0}
Interchangeable == Permutations(TwoHooks)
=============================================================================
