--------------------------- MODULE MCPinnedRuntime ---------------------------
(***************************************************************************)
(* TLC instance of PinnedRuntime.                                          *)
(***************************************************************************)
EXTENDS PinnedRuntime
=============================================================================
