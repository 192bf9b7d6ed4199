------------------------------- MODULE MCBoat -------------------------------
(* Command lines for boat.c with a short of -5 .. 4.                       *)
EXTENDS Boat

\* Three passengers for two seats and a ladder of one, two trips; one seat, a
\* wide ladder and as many trips as a short counts; a capacity whose double
\* passes SEMVMX; as many passengers as a short counts; 11, which wraps to 1;
\* and lines the program refuses.
MCArgvs == {<<3, 2, 1, 2>>, <<2, 1, 2, 4>>, <<2, 3, 1, 1>>, <<4, 1, 1, 1>>,
            <<2, 11, 2, 1>>, <<1, 5, 1, 1>>, <<1, 1, 0, 1>>, <<1, 1, 1>>}

\* One line the program accepts, for its promises about the end of the cruise.
MCOneArgv == {<<2, 2, 1, 1>>}
=============================================================================
