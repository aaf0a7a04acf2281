--------------------------- MODULE MCLineageEngine ---------------------------
(***************************************************************************)
(* TLC instances of LineageEngine: the values the configurations share.    *)
(***************************************************************************)
EXTENDS LineageEngine

OnePriority == {0}
TwoPriorities == {0, 1}
=============================================================================
