---------------------------- MODULE MCFileWatch ----------------------------
(***************************************************************************)
(* FileWatch for TLC.                                                      *)
(***************************************************************************)
EXTENDS FileWatch
=============================================================================
