-------------------------------- MODULE Race --------------------------------
(***************************************************************************)
(* What the relay race (src/runners/main.c) promises, without a message    *)
(* queue: a judge who starts the race when every runner is ready, runners  *)
(* who run one after the other in the order of their numbers, and an end   *)
(* of the race after the last of them.                                     *)
(***************************************************************************)
EXTENDS Naturals

CONSTANT Runner       \* the numbers a runner may have

VARIABLES team,       \* the runners of this race, fixed
          place,      \* where each runner is
          whistle     \* what the judge has blown for

rvars == <<team, place, whistle>>

Move(r, from, to) == /\ place[r] = from
                     /\ place' = [place EXCEPT ![r] = to]
                     /\ UNCHANGED <<team, whistle>>

Init == /\ place = [r \in Runner |-> "home"]
        /\ whistle = "none"

GetReady(r) == Move(r, "home", "ready")

StartRace == /\ whistle = "none" /\ whistle' = "start"
             /\ \A r \in team : place[r] = "ready"
             /\ UNCHANGED <<team, place>>

Run(r) == /\ whistle = "start"
          /\ \A k \in team : k < r => place[k] = "finished"
          /\ Move(r, "ready", "running")

Finish(r) == Move(r, "running", "finished")

EndRace == /\ whistle = "start" /\ whistle' = "end"
           /\ \A r \in team : place[r] = "finished"
           /\ UNCHANGED <<team, place>>

Next == \/ StartRace \/ EndRace
        \/ \E r \in team : GetReady(r) \/ Run(r) \/ Finish(r)

Spec == Init /\ [][Next]_rvars
=============================================================================
