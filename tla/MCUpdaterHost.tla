---------------------------- MODULE MCUpdaterHost ----------------------------
(***************************************************************************)
(* Small instances of UpdaterHost for TLC.                                 *)
(***************************************************************************)
EXTENDS UpdaterHost

=============================================================================
