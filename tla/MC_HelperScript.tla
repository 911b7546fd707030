-------------------------- MODULE MC_HelperScript --------------------------
(* The helper script with the bounds written in it: 60 polls, 3 copies,   *)
(* 5 removals of the staging directory.                                   *)
EXTENDS HelperScript

MCMaxWait == 60
MCCopyTries == 3
MCCleanupTries == 5
=============================================================================
