------------------------------- MODULE Cruise -------------------------------
(***************************************************************************)
(* What the cruise program (src/boat/boat.c) promises, without semaphores: *)
(* a ship that docks and departs, a ladder that carries ladd people at a   *)
(* time and only while the ship is docked, cap seats, and passengers who   *)
(* leave the ship only after a departure they were aboard for.             *)
(***************************************************************************)
EXTENDS Naturals, FiniteSets

CONSTANT Passenger      \* everyone who may want a cruise

VARIABLES cap,          \* seats on the ship
          ladd,         \* people the ladder carries at a time
          docked,       \* the ladder is down
          place         \* where each passenger is

cvars == <<cap, ladd, docked, place>>

At(S) == {p \in Passenger : place[p] \in S}
Aboard == At({"boarding", "aboard", "toured"})
OnLadder == At({"boarding", "leaving"})

Move(p, from, to) == /\ place[p] = from
                     /\ place' = [place EXCEPT ![p] = to]
                     /\ UNCHANGED <<cap, ladd, docked>>

Init == /\ docked = FALSE
        /\ place = [p \in Passenger |-> "beach"]

Dock == /\ ~docked /\ docked' = TRUE
        /\ UNCHANGED <<cap, ladd, place>>

\* The ladder goes up only when nobody stands on it.
Depart == /\ docked /\ OnLadder = {} /\ docked' = FALSE
          /\ UNCHANGED <<cap, ladd, place>>

\* Room on the ladder is needed in both directions, a seat only to board.
StepOn(p) == /\ docked
             /\ Cardinality(OnLadder) < ladd
             /\ Cardinality(Aboard) < cap
             /\ Move(p, "beach", "boarding")

StepAboard(p) == docked /\ Move(p, "boarding", "aboard")

\* Being under way is what turns someone aboard into someone who may get off.
Tour(p) == ~docked /\ Move(p, "aboard", "toured")

StepOff(p) == /\ docked
              /\ Cardinality(OnLadder) < ladd
              /\ Move(p, "toured", "leaving")

Ashore(p) == docked /\ Move(p, "leaving", "beach")

Next == \/ Dock \/ Depart
        \/ \E p \in Passenger :
             StepOn(p) \/ StepAboard(p) \/ Tour(p) \/ StepOff(p) \/ Ashore(p)

Spec == Init /\ [][Next]_cvars
=============================================================================
