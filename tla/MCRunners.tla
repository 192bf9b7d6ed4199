------------------------------ MODULE MCRunners -----------------------------
(* Teams for the relay race, with a queue of two messages.                 *)
EXTENDS Runners

MCNumRuns == -1 .. 4
=============================================================================
