--------------------------- MODULE MCShowerFirst ----------------------------
(* A woman and a man, two cabins.                                           *)
EXTENDS ShowerFirst

Lines == {<<1, 1, 2>>}
=============================================================================
