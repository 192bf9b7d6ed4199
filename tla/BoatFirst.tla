----------------------------- MODULE BoatFirst ------------------------------
(***************************************************************************)
(* src/boat/main.c, the cruise before boat.c.  Its V, P, VK and PK return  *)
(* from the function they stand in when semop fails, so that a ship or     *)
(* passenger then goes on in main's loop of forks, and forks, waits and    *)
(* removes the semaphores as main does.  A process is the set of the loop  *)
(* indices it was forked at: {} is main, {-1} the ship, {i} a passenger,   *)
(* {i, j} the passenger j of a passenger i that fell back.                 *)
(***************************************************************************)
EXTENDS Integers, SequencesExt, FiniteSetsExt

CONSTANTS SHRT_MAX,    \* 32767, also SEMVMX
          BIG,         \* (short) 1000000: 16960
          MaxPeople,   \* bound: passengers of a command line
          Argvs        \* numPeople, numTrap, numShip, numTrips, or <<>>

Main == {}
Ship == {-1}
Process == SUBSET (-1 .. MaxPeople - 1)
SEM_BOAT == "SEM_BOAT"
SEM_TRAP == "SEM_TRAP"
SEM_IN == "SEM_IN"
SEM_EXIT == "SEM_EXIT"

VARIABLES argv,     \* fixed
          set,      \* the semaphores: "none", "there", "removed"
          sem,      \* their values
          place,    \* of each process
          idx       \* its loop counter, or the place in its Script

vars == <<argv, set, sem, place, idx>>

ToShort(x) == ((x + SHRT_MAX + 1) % (2 * SHRT_MAX + 2)) - SHRT_MAX - 1
numPeople == ToShort(argv[1])
numTrap == ToShort(argv[2])
numShip == ToShort(argv[3])
numTrips == ToShort(argv[4])

ASSUME BoatFirstAssumption ==
  /\ SHRT_MAX \in Nat \ {0} /\ BIG \in Nat /\ MaxPeople \in Nat
  /\ \A a \in Argvs : a = <<>> \/ (a \in [1 .. 4 -> Int] /\ ToShort(a[1]) <= MaxPeople)

Ended == {"exited", "works", "failed"}

-----------------------------------------------------------------------------
(* The calls in their order, <<semaphore, sem_op>>                         *)

\* Lines 53-69.
Trip == <<<<SEM_IN, 1>>, <<SEM_TRAP, numTrap>>, <<SEM_TRAP, ToShort(-numTrap)>>, <<SEM_IN, -1>>>>

\* Lines 51-77.
ShipScript == <<<<SEM_BOAT, numShip>>>> \o [k \in 1 .. 4 * numTrips |-> Trip[1 + ((k - 1) % 4)]]
  \o <<<<SEM_EXIT, 1>>, <<SEM_IN, 1>>, <<SEM_TRAP, ToShort(numTrap + BIG)>>, <<SEM_BOAT, numShip>>>>

Check == <<SEM_EXIT, 0>>

\* A mutant: the place on the ladder is kept aboard.
KeepPlace == <<Check, <<SEM_BOAT, -1>>, Check, <<SEM_TRAP, -1>>, Check, Check, Check, Check,
               <<SEM_TRAP, -1>>, Check, <<SEM_BOAT, 1>>, Check, <<SEM_TRAP, 1>>, Check>>

\* Lines 101-133, again and again until a check breaks.
PassScript == <<Check, <<SEM_BOAT, -1>>, Check, <<SEM_TRAP, -1>>, Check, <<SEM_TRAP, 1>>, Check, Check,
                <<SEM_TRAP, -1>>, Check, <<SEM_BOAT, 1>>, Check, <<SEM_TRAP, 1>>, Check>>

-----------------------------------------------------------------------------
(* Actions                                                                 *)

Go(p, to, i) == /\ place' = [place EXCEPT ![p] = to] /\ idx' = [idx EXCEPT ![p] = i]
                /\ UNCHANGED argv

\* The head of main's loop of forks, with the counter at i.
Loop(p, i) == IF i < numPeople THEN Go(p, "fork", i) ELSE Go(p, "wait", 0)

\* An error returns from the caller, behind the fork that made p.
FallBack(p) == Loop(p, Max(p) + 1) /\ UNCHANGED <<set, sem>>

\* semop without flags: takes, adds, or waits for zero.
Semop(p, op, to, i) ==
  LET s == op[1] k == op[2] IN
  \/ /\ set = "there" /\ sem[s] + k \in 0 .. SHRT_MAX /\ (k = 0 => sem[s] = 0)
     /\ sem' = [sem EXCEPT ![s] = @ + k]
     /\ Go(p, to, i) /\ UNCHANGED set
  \/ set = "removed" /\ FallBack(p)
  \/ set = "there" /\ k > 0 /\ sem[s] + k > SHRT_MAX /\ FallBack(p)

ShipSteps == /\ place[Ship] = "ship"
             /\ LET last == idx[Ship] = Len(ShipScript)
                IN Semop(Ship, ShipScript[idx[Ship]],
                         IF last THEN "exited" ELSE "ship", IF last THEN 0 ELSE idx[Ship] + 1)

check(p) == /\ place[p] = "pass" /\ PassScript[idx[p]] = Check
            /\ \/ /\ set = "there" /\ sem[SEM_EXIT] = 0
                  /\ Go(p, "pass", (idx[p] % Len(PassScript)) + 1)
               \/ set = "there" /\ sem[SEM_EXIT] > 0 /\ Go(p, "give", 0)
               \/ set = "removed" /\ Go(p, "failed", 0)
            /\ UNCHANGED <<set, sem>>

PassSteps(p) == /\ place[p] = "pass" /\ PassScript[idx[p]] # Check
                /\ Semop(p, PassScript[idx[p]], "pass", idx[p] + 1)

\* A mutant: the seat is not given.
KeepSeat(p) == place[p] = "give" /\ Go(p, "exited", 0) /\ UNCHANGED <<set, sem>>

\* Line 135, with a seat or without one.
Give(p) == place[p] = "give" /\ Semop(p, <<SEM_BOAT, 1>>, "exited", 0)

\* Lines 142-149.
Start == /\ place[Main] = "start"
         /\ \/ argv = <<>> /\ Go(Main, "exited", 0) /\ UNCHANGED set
            \/ argv # <<>> /\ Go(Main, "failed", 0) /\ UNCHANGED set
            \/ argv # <<>> /\ Go(Main, "fork", -1) /\ set' = "there"
         /\ UNCHANGED sem

\* Lines 151-157; the first is the ship's.  A fork that fails is not seen.
Fork(p) == LET i == idx[p] IN
           /\ place[p] = "fork"
           /\ \/ Loop(p, i + 1)
              \/ /\ UNCHANGED argv
                 /\ place' = [place EXCEPT ![p \cup {i}] = IF i = -1 THEN "ship" ELSE "pass",
                                          ![p] = IF i + 1 < numPeople THEN "fork" ELSE "wait"]
                 /\ idx' = [idx EXCEPT ![p \cup {i}] = 1,
                                      ![p] = IF i + 1 < numPeople THEN i + 1 ELSE 0]
           /\ UNCHANGED <<set, sem>>

Born(p) == {q \in Process : \E i \in q : q = p \cup {i} /\ i = Max(q) /\ q # p
                                         /\ place[q] # "unborn"}

\* wait returns a child that has ended, or at once when there is none.  The
\* counter is a short: for SHRT_MAX passengers the loop never ends.
Wait(p) == LET ended == {q \in Born(p) : place[q] \in Ended} IN
           /\ place[p] = "wait" /\ idx[p] <= numPeople
           /\ (idx[p] < Cardinality(ended) \/ idx[p] >= Cardinality(Born(p)))
           /\ Go(p, "wait", ToShort(idx[p] + 1)) /\ UNCHANGED <<set, sem>>

\* A mutant: a wait less.
RemoveEarly(p) == /\ place[p] = "wait" /\ idx[p] >= numPeople
                  /\ Go(p, IF set = "there" THEN "works" ELSE "failed", 0)
                  /\ set' = "removed" /\ UNCHANGED sem

\* Lines 162-165.
RemoveSet(p) == /\ place[p] = "wait" /\ idx[p] > numPeople
                /\ Go(p, IF set = "there" THEN "works" ELSE "failed", 0)
                /\ set' = "removed" /\ UNCHANGED sem

-----------------------------------------------------------------------------
Init == /\ argv \in Argvs /\ set = "none"
        /\ sem = [s \in {SEM_BOAT, SEM_TRAP, SEM_IN, SEM_EXIT} |-> 0]
        /\ place = [p \in Process |-> IF p = Main THEN "start" ELSE "unborn"]
        /\ idx = [p \in Process |-> 0]

Step(p) == \/ check(p) \/ PassSteps(p) \/ Give(p)
           \/ Fork(p) \/ Wait(p) \/ RemoveSet(p)

Next == Start \/ ShipSteps \/ \E p \in Process : Step(p)

Spec == Init /\ [][Next]_vars

\* Every process whose call can return goes on.
FairSpec == /\ Spec /\ WF_vars(Start) /\ WF_vars(ShipSteps)
            /\ \A p \in Process : WF_vars(Step(p))

-----------------------------------------------------------------------------
(* Properties                                                              *)

\* Until the end is announced, SEM_BOAT and the seats taken add up to numShip
\* and SEM_TRAP and the people on the ladder to numTrap, or to 0 while the ship
\* has the ladder up (lines 64, 103-132): it never sails with someone on it.
Accounting ==
  place[Ship] = "ship" /\ set = "there" /\ sem[SEM_EXIT] = 0 /\ idx[Ship] > 1 =>
    LET At(K) == Cardinality({p \in Process : place[p] = "pass" /\ idx[p] \in K})
        down == ShipScript[idx[Ship]] = <<SEM_TRAP, -numTrap>> /\ idx[Ship] % 4 = 0
    IN /\ sem[SEM_BOAT] + At(3 .. 11) = numShip
       /\ sem[SEM_TRAP] + At({5, 6} \cup 10 .. 13) = IF down THEN numTrap ELSE 0

\* With room in SEM_BOAT for the doubled seats and for one more of every passenger
\* (lines 77, 135) no process falls back into main's loop, and the semaphores
\* are removed behind everybody's last call.
Roomy == argv # <<>> /\ numPeople >= 0 /\ 2 * numShip + numPeople <= SHRT_MAX
Orderly ==
  Roomy => \A p \in Process \ {Main} :
             place[p] \in {"unborn", "exited"}
             \/ (place[p] \in {"ship", "pass", "give"} /\ set = "there")

\* With room for all and the end announced, everybody leaves and main ends with
\* success: the ladder's numTrap + 1000000 places are for all that still stand
\* before it, though everyone keeps a place of it.  But when that sum wraps to a
\* negative short, the ship asks for places nobody gives, and main waits for it
\* for good (lines 70-81, 108, 159-164).
Announced == Roomy /\ numShip > 0 /\ numTrap >= 0 /\ sem[SEM_EXIT] > 0
LadderWraps == ToShort(numTrap + BIG) < 0
AllGoHome == /\ (Announced /\ ~LadderWraps) ~> (place[Main] = "works")
             /\ [](Announced /\ LadderWraps => place[Main] # "works")
=============================================================================
