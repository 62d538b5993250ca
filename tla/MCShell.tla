------------------------------- MODULE MCShell -------------------------------
(* Instances of Shell for TLC.                                             *)
EXTENDS Shell
=============================================================================
