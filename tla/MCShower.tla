------------------------------ MODULE MCShower ------------------------------
(* Command lines for shower.c with queues of three messages.               *)
EXTENDS Shower

\* Men and women for one cabin and for two; more men than a queue has room for
\* tokens; no cabin; more cabins than a queue has room for; nobody; no line.
MCArgvs == {<<1, 2, 2>>, <<2, 3, 1>>, <<1, 4, 0>>, <<0, 1, 1>>, <<4, 1, 0>>,
            <<1, 0, 0>>, <<1, 1>>}
=============================================================================
