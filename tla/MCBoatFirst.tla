---------------------------- MODULE MCBoatFirst -----------------------------
(* A short of -8 .. 7.  The last lines pass SEMVMX, so that processes fall   *)
(* back into main's loop.                                                    *)
EXTENDS BoatFirst

Lines == {<<>>,
          <<2, 1, 1, 1>>, <<3, 2, 2, 1>>, <<3, 1, 1, 0>>, <<1, 3, 3, 2>>, <<2, 0, 2, 1>>, <<2, 4, 1, 0>>,
          <<2, -4, 0, 0>>, <<1, 1, -1, 1>>, <<-1, 1, 1, 1>>, <<17, 1, 18, 1>>,
          <<2, 0, 3, 0>>, <<2, 1, 3, 1>>, <<1, 1, 4, 1>>, <<1, 0, 7, 0>>, <<2, 5, 1, 1>>}
=============================================================================
