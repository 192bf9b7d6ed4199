------------------------------- MODULE MCShell ------------------------------
(* Lines of up to three commands, two of them, and pipes that hold one item. *)
EXTENDS Shell
=============================================================================
