---------------------------- MODULE MCCliRunner ----------------------------
(* TLC instances of CliRunner. *)
EXTENDS CliRunner
=============================================================================
