---------------------------- MODULE MCGitWorkspace ----------------------------
(***************************************************************************)
(* TLC instances of GitWorkspace.                                          *)
(***************************************************************************)
EXTENDS GitWorkspace
=============================================================================
