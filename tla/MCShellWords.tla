---------------------------- MODULE MCShellWords ----------------------------
(* Every line of up to seven characters, with commands of two words and two  *)
(* commands.                                                                 *)
EXTENDS ShellWords
=============================================================================
