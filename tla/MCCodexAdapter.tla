---------------------------- MODULE MCCodexAdapter ----------------------------
(***************************************************************************)
(* TLC instances of CodexAdapter.                                          *)
(***************************************************************************)
EXTENDS CodexAdapter

AllActions == {"CONTINUE", "FORK", "SPAWN", "COMPLETE", "BLOCK"}
TwoOffers == {AllActions, {"CONTINUE", "COMPLETE"}}
=============================================================================
