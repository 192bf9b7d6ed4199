----------------------------- MODULE MCSignals ------------------------------
(* Chars of two bits, a buffer of two, and every file of up to three chars.  *)
EXTENDS Signals
=============================================================================
