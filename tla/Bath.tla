-------------------------------- MODULE Bath --------------------------------
(***************************************************************************)
(* What the shower program (src/PLEASE/shower.c) promises, without message *)
(* queues: one shower room for men and women, never both at a time, with   *)
(* some cabins for whoever is inside.                                      *)
(***************************************************************************)
EXTENDS Naturals, FiniteSets

CONSTANT Human       \* everyone who may want a shower

VARIABLES men,       \* those of them who are men, fixed
          cabins,    \* cabins in the room, fixed
          place      \* where each human is

bvars == <<men, cabins, place>>

Move(h, from, to) == /\ place[h] = from
                     /\ place' = [place EXCEPT ![h] = to]
                     /\ UNCHANGED <<men, cabins>>

Inside == {h \in Human : place[h] \in {"in", "cabin", "washed"}}
InCabin == {h \in Human : place[h] = "cabin"}

Init == place = [h \in Human |-> "out"]

\* Only those inside matter: whoever waits outside has no say.
Enter(h) == /\ \A x \in Inside : x \in men <=> h \in men
            /\ Move(h, "out", "in")

TakeCabin(h) == Cardinality(InCabin) < cabins /\ Move(h, "in", "cabin")
FreeCabin(h) == Move(h, "cabin", "washed")
Leave(h) == Move(h, "washed", "out")

Next == \E h \in Human : Enter(h) \/ TakeCabin(h) \/ FreeCabin(h) \/ Leave(h)

Spec == Init /\ [][Next]_bvars
=============================================================================
