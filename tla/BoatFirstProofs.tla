--------------------------- MODULE BoatFirstProofs ---------------------------
(***************************************************************************)
(* The earlier cruise keeps account of seats and places until it announces *)
(* the end, and with room in SEM_BOAT nobody falls back, for every command *)
(* line.                                                                   *)
(***************************************************************************)
EXTENDS BoatFirst, FiniteSetTheorems, SequenceTheorems, TLAPS

(***************************************************************************)
(* The inductive invariant                                                 *)
(***************************************************************************)

Sems == {SEM_BOAT, SEM_TRAP, SEM_IN, SEM_EXIT}
Places == {"start", "unborn", "fork", "wait", "ship", "pass", "give"} \cup Ended

Short == -SHRT_MAX - 1 .. SHRT_MAX

\* The calls of the ship, and how far it has come; it has come nowhere before
\* it is born.
Calls == 4 * (IF numTrips > 0 THEN numTrips ELSE 0) + 5
Stage == IF place[Ship] = "unborn" THEN 1
         ELSE IF place[Ship] = "ship" THEN idx[Ship] ELSE Calls + 1

\* What holds whoever falls back.
GenInv ==
  /\ argv \in Argvs /\ set \in {"none", "there", "removed"}
  /\ sem \in [Sems -> 0 .. SHRT_MAX] /\ place \in [Process -> Places]
  /\ idx = [p \in Process |-> idx[p]]
  /\ set # "none" => argv # <<>>
  /\ place[Main] = "start" => set = "none"
  /\ place[Ship] = "ship" => idx[Ship] \in 1 .. Calls
  /\ \A p \in Process : place[p] = "pass" => idx[p] \in 1 .. 14

\* Nobody has fallen back before the end is announced, nor ever with room.
Early == set = "there" /\ sem[SEM_EXIT] = 0
Regular == set = "none" \/ Early \/ Roomy

\* main alone forks: the ship, then the passengers in their order.
FamilyInv ==
  /\ place[Ship] \in {"unborn", "ship", "exited"}
  /\ \A p \in Process \ {Main, Ship} :
       /\ place[p] \in {"unborn", "pass", "give", "exited"}
       /\ place[p] # "unborn" => \E k \in 0 .. numPeople - 1 : p = {k}

MainInv ==
  /\ set = "none" => /\ place[Main] \in {"start", "exited", "failed"}
                     /\ sem = [s \in Sems |-> 0]
                     /\ \A p \in Process \ {Main} : place[p] = "unborn"
  /\ set = "there" => place[Main] \in {"fork", "wait"}
  /\ set = "removed" => /\ place[Main] \in {"works", "failed"}
                        /\ \A p \in Process \ {Main} : place[p] \in {"unborn", "exited"}
  /\ place[Main] = "fork" =>
       /\ idx[Main] \in Int /\ -1 <= idx[Main] /\ (idx[Main] = -1 \/ idx[Main] < numPeople)
       /\ \A k \in -1 .. MaxPeople - 1 : k >= idx[Main] => place[{k}] = "unborn"

\* main's waits: as many children have ended as its counter says, or all.
Children == {p \in Process \ {Main} : place[p] # "unborn"}
EndedChildren == {p \in Process \ {Main} : place[p] = "exited"}
WaitInv ==
  place[Main] = "wait" =>
    /\ idx[Main] \in Short
    /\ \/ idx[Main] <= Cardinality(EndedChildren)
       \/ Cardinality(EndedChildren) = Cardinality(Children)

\* Who has a seat, who is on the ladder, who has given a seat at line 135.
At(K) == {p \in Process : place[p] = "pass" /\ idx[p] \in K}
Seated == At(3 .. 11)
OnLadder == At({5, 6} \cup 10 .. 13)
Given == {p \in Process \ {Main, Ship} : place[p] = "exited"}

Seats == IF Stage = 1 THEN 0 ELSE IF Stage <= Calls THEN numShip ELSE numShip + numShip

SemInv ==
  set = "there" =>
    /\ sem[SEM_EXIT] = IF Stage <= Calls - 3 THEN 0 ELSE 1
    /\ sem[SEM_IN] <= 1
    /\ Stage = 1 \/ Stage = Calls - 2 \/ (Stage <= Calls - 3 /\ Stage % 4 = 2) => sem[SEM_IN] = 0
    /\ Stage <= Calls - 3 =>
         /\ sem[SEM_BOAT] + Cardinality(Seated) = Seats
         /\ sem[SEM_TRAP] + Cardinality(OnLadder) = IF Stage % 4 = 0 THEN numTrap ELSE 0
         /\ \A p \in Process \ {Main} : place[p] \notin {"give", "exited"}
    /\ Stage > Calls - 3 =>
         /\ sem[SEM_BOAT] + Cardinality(Seated) <= Seats + Cardinality(Given)
         /\ sem[SEM_TRAP] + Cardinality(OnLadder) <= IF Stage < Calls THEN 0 ELSE SHRT_MAX

IInv == GenInv /\ (Regular => FamilyInv /\ MainInv /\ WaitInv /\ SemInv)

-----------------------------------------------------------------------------
(***************************************************************************)
(* The arguments and the scripts                                           *)
(***************************************************************************)

\* The cast to short lands in a short's range and keeps what is in it.
LEMMA ShortRange == ASSUME NEW v \in Int
                    PROVE  /\ ToShort(v) \in -SHRT_MAX - 1 .. SHRT_MAX
                           /\ v \in -SHRT_MAX - 1 .. SHRT_MAX => ToShort(v) = v
<1> DEFINE w == 2 * SHRT_MAX + 2
           u == v + SHRT_MAX + 1
<1>1. w \in Nat \ {0} /\ u \in Int /\ SHRT_MAX \in Nat
  BY BoatFirstAssumption
<1>2. \A k \in Nat \ {0} : \A x \in Int : x % k \in 0 .. k - 1 /\ (x \in 0 .. k - 1 => x % k = x)
  OBVIOUS
<1>3. u % w \in 0 .. w - 1 /\ (u \in 0 .. w - 1 => u % w = u)
  <2> HIDE DEF w, u
  <2> QED BY <1>1, <1>2
<1>4. ToShort(v) = (u % w) - SHRT_MAX - 1
  BY DEF ToShort
<1>5. /\ (u % w) - SHRT_MAX - 1 \in -SHRT_MAX - 1 .. SHRT_MAX
      /\ v \in -SHRT_MAX - 1 .. SHRT_MAX => u \in 0 .. w - 1
  <2> DEFINE m == u % w
  <2>1. m \in 0 .. w - 1
    BY <1>3
  <2> HIDE DEF m
  <2> QED BY <1>1, <2>1
<1> QED BY <1>1, <1>3, <1>4, <1>5


\* The arguments are shorts, and the passengers within the model's bound.
LEMMA Args == ASSUME argv \in Argvs, argv # <<>>
              PROVE  /\ numPeople \in Short /\ numTrap \in Short /\ numShip \in Short
                     /\ numTrips \in Short /\ numPeople <= MaxPeople
                     /\ Calls \in Nat /\ Calls >= 5 /\ ToShort(-numTrap) \in Short
                     /\ ToShort(numTrap + BIG) \in Short
                     /\ numTrap >= 0 => ToShort(-numTrap) = -numTrap
<1>1. argv \in [1 .. 4 -> Int] /\ ToShort(argv[1]) <= MaxPeople
  BY BoatFirstAssumption
<1>2. argv[1] \in Int /\ argv[2] \in Int /\ argv[3] \in Int /\ argv[4] \in Int
  BY <1>1
<1>3. /\ numPeople \in Short /\ numTrap \in Short /\ numShip \in Short /\ numTrips \in Short
      /\ numPeople <= MaxPeople
  BY <1>1, <1>2, ShortRange DEF numPeople, numTrap, numShip, numTrips, Short
<1>4. SHRT_MAX \in Nat /\ BIG \in Nat
  BY BoatFirstAssumption
<1>5. -numTrap \in Int /\ numTrap + BIG \in Int /\ numTrips \in Int
      /\ (numTrap >= 0 => -numTrap \in Short)
  BY <1>3, <1>4 DEF Short
<1>6. ToShort(-numTrap) \in Short /\ ToShort(numTrap + BIG) \in Short
      /\ (numTrap >= 0 => ToShort(-numTrap) = -numTrap)
  BY <1>5, ShortRange DEF Short
<1>7. Calls \in Nat /\ Calls >= 5
  BY <1>5 DEF Calls
<1> QED BY <1>3, <1>6, <1>7

\* What the ship calls at each place of its script.
TripCall(n) ==
  IF n % 4 = 2 THEN <<SEM_IN, 1>> ELSE IF n % 4 = 3 THEN <<SEM_TRAP, numTrap>>
  ELSE IF n % 4 = 0 THEN <<SEM_TRAP, ToShort(-numTrap)>> ELSE <<SEM_IN, -1>>

LEMMA Script ==
  ASSUME argv \in Argvs, argv # <<>>
  PROVE  /\ Len(ShipScript) = Calls
         /\ ShipScript[1] = <<SEM_BOAT, numShip>>
         /\ \A n \in 2 .. Calls - 4 : ShipScript[n] = TripCall(n)
         /\ ShipScript[Calls - 3] = <<SEM_EXIT, 1>>
         /\ ShipScript[Calls - 2] = <<SEM_IN, 1>>
         /\ ShipScript[Calls - 1] = <<SEM_TRAP, ToShort(numTrap + BIG)>>
         /\ ShipScript[Calls] = <<SEM_BOAT, numShip>>
<1> DEFINE Op == Sems \X Int
           T == IF numTrips > 0 THEN numTrips ELSE 0
           F == 4 * T
           a == <<<<SEM_BOAT, numShip>>>>
           b == [k \in 1 .. F |-> Trip[1 + ((k - 1) % 4)]]
           c == <<<<SEM_EXIT, 1>>, <<SEM_IN, 1>>, <<SEM_TRAP, ToShort(numTrap + BIG)>>, <<SEM_BOAT, numShip>>>>
<1>1. /\ numShip \in Int /\ numTrap \in Int /\ numTrips \in Int /\ ToShort(-numTrap) \in Int
      /\ ToShort(numTrap + BIG) \in Int
  BY Args, BoatFirstAssumption DEF Short
<1>2. F \in Nat /\ 1 .. 4 * numTrips = 1 .. F /\ Calls = F + 5
  BY <1>1 DEF Calls
<1>3. \A k \in Nat : k % 4 \in {0, 1, 2, 3} /\ (k % 4 = 0 <=> (k + 1) % 4 = 1)
         /\ (k % 4 = 1 <=> (k + 1) % 4 = 2) /\ (k % 4 = 2 <=> (k + 1) % 4 = 3)
         /\ (k % 4 = 3 <=> (k + 1) % 4 = 0)
  OBVIOUS
<1>4. ShipScript = (a \o b) \o c
  BY <1>2 DEF ShipScript
<1>5. a \in Seq(Op) /\ Len(a) = 1 /\ a[1] = <<SEM_BOAT, numShip>>
  BY <1>1 DEF Sems
<1>6. /\ c \in Seq(Op) /\ Len(c) = 4
      /\ c[1] = <<SEM_EXIT, 1>> /\ c[2] = <<SEM_IN, 1>>
      /\ c[3] = <<SEM_TRAP, ToShort(numTrap + BIG)>> /\ c[4] = <<SEM_BOAT, numShip>>
  BY <1>1 DEF Sems
<1>7. /\ Trip[1] = <<SEM_IN, 1>> /\ Trip[2] = <<SEM_TRAP, numTrap>>
      /\ Trip[3] = <<SEM_TRAP, ToShort(-numTrap)>> /\ Trip[4] = <<SEM_IN, -1>>
  BY DEF Trip
<1>8. \A i \in 1 .. 4 : Trip[i] \in Op
  <2>1. \A i \in 1 .. 4 : i = 1 \/ i = 2 \/ i = 3 \/ i = 4
    OBVIOUS
  <2>2. Trip[1] \in Op /\ Trip[2] \in Op /\ Trip[3] \in Op /\ Trip[4] \in Op
    BY <1>1, <1>7 DEF Sems
  <2> HIDE DEF Op
  <2> QED BY <2>1, <2>2
<1>9. b \in Seq(Op) /\ Len(b) = F
  <2>1. \A k \in 1 .. F : 1 + ((k - 1) % 4) \in 1 .. 4
    BY <1>2, <1>3
  <2>2. \A k \in 1 .. F : Trip[1 + ((k - 1) % 4)] \in Op
    BY <2>1, <1>8
  <2> DEFINE e(k) == Trip[1 + ((k - 1) % 4)]
  <2>3. \A k \in 1 .. F : e(k) \in Op
    BY <2>2
  <2> HIDE DEF F, Op, e
  <2>4. [k \in 1 .. F |-> e(k)] \in Seq(Op) /\ Len([k \in 1 .. F |-> e(k)]) = F
    BY <1>2, <2>3
  <2> QED BY <2>4 DEF e
<1>10. \A k \in 1 .. F : b[k] = TripCall(k + 1)
  <2> SUFFICES ASSUME NEW k \in 1 .. F PROVE b[k] = TripCall(k + 1)
    OBVIOUS
  <2> DEFINE m == k - 1
  <2>1. m \in Nat /\ k = m + 1 /\ k + 1 = (m + 1) + 1 /\ m + 1 \in Nat
    BY <1>2
  <2>2. b[k] = Trip[1 + (m % 4)]
    OBVIOUS
  <2> HIDE DEF b, m
  <2>3. CASE m % 4 = 0
    <3>1. (k + 1) % 4 = 2 /\ b[k] = Trip[1]
      BY <1>3, <2>1, <2>2, <2>3
    <3> QED BY <3>1, <1>7 DEF TripCall
  <2>4. CASE m % 4 = 1
    <3>1. (k + 1) % 4 = 3 /\ b[k] = Trip[2]
      BY <1>3, <2>1, <2>2, <2>4
    <3> QED BY <3>1, <1>7 DEF TripCall
  <2>5. CASE m % 4 = 2
    <3>1. (k + 1) % 4 = 0 /\ b[k] = Trip[3]
      BY <1>3, <2>1, <2>2, <2>5
    <3> QED BY <3>1, <1>7 DEF TripCall
  <2>6. CASE m % 4 = 3
    <3>1. (k + 1) % 4 = 1 /\ b[k] = Trip[4]
      BY <1>3, <2>1, <2>2, <2>6
    <3> QED BY <3>1, <1>7 DEF TripCall
  <2> QED BY <1>3, <2>1, <2>3, <2>4, <2>5, <2>6
<1>11. /\ a \o b \in Seq(Op) /\ Len(a \o b) = 1 + F
       /\ \A i \in 1 .. 1 + F : (a \o b)[i] = IF i <= 1 THEN a[i] ELSE b[i - 1]
  <2> HIDE DEF a, b, F, Op
  <2> QED BY <1>2, <1>5, <1>9, ConcatProperties
<1>12. /\ Len((a \o b) \o c) = (1 + F) + 4
       /\ \A i \in 1 .. (1 + F) + 4 :
            ((a \o b) \o c)[i] = IF i <= 1 + F THEN (a \o b)[i] ELSE c[i - (1 + F)]
  <2> DEFINE d == a \o b
  <2> HIDE DEF a, b, c, d, F, Op
  <2>1. d \in Seq(Op) /\ Len(d) = 1 + F
    BY <1>11 DEF d
  <2>2. c \in Seq(Op) /\ Len(c) = 4
    BY <1>6
  <2>3. /\ Len(d \o c) = Len(d) + Len(c)
        /\ \A i \in 1 .. Len(d) + Len(c) :
             (d \o c)[i] = IF i <= Len(d) THEN d[i] ELSE c[i - Len(d)]
    BY <2>1, <2>2, ConcatProperties
  <2>4. Len(d \o c) = (1 + F) + 4 /\ \A i \in 1 .. (1 + F) + 4 :
            (d \o c)[i] = IF i <= 1 + F THEN d[i] ELSE c[i - (1 + F)]
    BY <2>1, <2>2, <2>3
  <2> QED BY <2>4 DEF d
<1> HIDE DEF a, b, c, F, Op, T
<1>13. Len(ShipScript) = Calls /\ ShipScript[1] = <<SEM_BOAT, numShip>>
  BY <1>2, <1>4, <1>5, <1>11, <1>12
<1>14. ASSUME NEW n \in 2 .. Calls - 4 PROVE ShipScript[n] = TripCall(n)
  <2>1. n - 1 \in 1 .. F /\ n \in 1 .. 1 + F /\ ~(n <= 1) /\ n \in 1 .. (1 + F) + 4 /\ (n - 1) + 1 = n
    BY <1>2
  <2>2. ShipScript[n] = b[n - 1]
    BY <2>1, <1>2, <1>4, <1>11, <1>12
  <2> QED BY <2>1, <2>2, <1>10
<1>15. ASSUME NEW j \in 1 .. 4 PROVE ShipScript[(1 + F) + j] = c[j]
  <2>1. (1 + F) + j \in 1 .. (1 + F) + 4 /\ ~((1 + F) + j <= 1 + F) /\ ((1 + F) + j) - (1 + F) = j
    BY <1>2
  <2> QED BY <2>1, <1>4, <1>12
<1>16. /\ Calls - 3 = (1 + F) + 1 /\ Calls - 2 = (1 + F) + 2
       /\ Calls - 1 = (1 + F) + 3 /\ Calls = (1 + F) + 4
  BY <1>2
<1>17. /\ ShipScript[Calls - 3] = c[1] /\ ShipScript[Calls - 2] = c[2]
       /\ ShipScript[Calls - 1] = c[3] /\ ShipScript[Calls] = c[4]
  BY <1>15, <1>16
<1> QED BY <1>6, <1>13, <1>14, <1>17

\* What a passenger calls at each place of its script.
LEMMA PassCalls ==
  /\ Len(PassScript) = 14
  /\ \A n \in {1, 3, 5, 7, 8, 10, 12, 14} : PassScript[n] = Check
  /\ PassScript[2] = <<SEM_BOAT, -1>> /\ PassScript[11] = <<SEM_BOAT, 1>>
  /\ PassScript[4] = <<SEM_TRAP, -1>> /\ PassScript[6] = <<SEM_TRAP, 1>>
  /\ PassScript[9] = <<SEM_TRAP, -1>> /\ PassScript[13] = <<SEM_TRAP, 1>>
<1>1. /\ Len(PassScript) = 14
      /\ PassScript[1] = Check /\ PassScript[3] = Check /\ PassScript[5] = Check
      /\ PassScript[7] = Check /\ PassScript[8] = Check /\ PassScript[10] = Check
      /\ PassScript[12] = Check /\ PassScript[14] = Check
  BY DEF PassScript
<1>2. /\ PassScript[2] = <<SEM_BOAT, -1>> /\ PassScript[11] = <<SEM_BOAT, 1>>
      /\ PassScript[4] = <<SEM_TRAP, -1>> /\ PassScript[6] = <<SEM_TRAP, 1>>
      /\ PassScript[9] = <<SEM_TRAP, -1>> /\ PassScript[13] = <<SEM_TRAP, 1>>
  BY DEF PassScript
<1> QED BY <1>1, <1>2

\* Where the passenger goes on after a check.
LEMMA AfterCheck == ASSUME NEW n \in 1 .. 14
                    PROVE  (n % 14) + 1 = IF n = 14 THEN 1 ELSE n + 1
OBVIOUS

-----------------------------------------------------------------------------
(***************************************************************************)
(* What every step keeps, whoever takes it                                 *)
(***************************************************************************)

\* The processes: main, the ship, the passengers main forks, and their numbers.
LEMMA Names == /\ Main \in Process /\ Ship \in Process /\ Main # Ship
               /\ \A k \in -1 .. MaxPeople - 1 : {k} \in Process /\ {k} # Main
               /\ \A k \in Nat : {k} # Ship
               /\ \A j, k : {j} = {k} => j = k
<1>1. MaxPeople \in Nat
  BY BoatFirstAssumption
<1>2. \A j, k : {j} = {k} => j = k
  OBVIOUS
<1>3. \A k \in Nat : k # -1
  OBVIOUS
<1>4. \A k \in Nat : {k} # Ship
  BY <1>2, <1>3 DEF Ship
<1>5. -1 \in -1 .. MaxPeople - 1
  BY <1>1
<1> QED BY <1>2, <1>4, <1>5 DEF Main, Ship, Process

\* A process that can go on has semaphores to call.
LEMMA Alive == ASSUME IInv, NEW p \in Process,
                      place[p] \in {"fork", "wait", "ship", "pass", "give"}
               PROVE  set \in {"there", "removed"} /\ argv # <<>>
<1>1. Main \in Process
  BY DEF Main, Process
<1>2. CASE set = "none"
  BY <1>1, <1>2 DEF IInv, Regular, MainInv
<1> QED BY <1>2 DEF IInv, GenInv

\* A step of one process to a place of its own.
LEMMA GenGo ==
  ASSUME GenInv, argv # <<>>, place[Main] # "start", NEW p \in Process, NEW to \in Places \ {"start"}, NEW i,
         Go(p, to, i), to = "pass" => i \in 1 .. 14, to = "ship" => i \in 1 .. Calls,
         set' \in {"there", "removed"}, sem' \in [Sems -> 0 .. SHRT_MAX]
  PROVE  GenInv'
<1>1. /\ argv' = argv /\ place' = [place EXCEPT ![p] = to] /\ idx' = [idx EXCEPT ![p] = i]
      /\ place \in [Process -> Places] /\ idx = [q \in Process |-> idx[q]]
      /\ Main \in Process /\ Ship \in Process
  BY Names DEF Go, GenInv
<1>2. place' \in [Process -> Places] /\ idx' = [q \in Process |-> idx'[q]]
  BY <1>1
<1>3. \A q \in Process : /\ place'[q] = IF q = p THEN to ELSE place[q]
                         /\ idx'[q] = IF q = p THEN i ELSE idx[q]
  BY <1>1
<1>4. Calls' = Calls
  BY <1>1 DEF Calls, numTrips
<1>5. place'[Main] # "start"
  BY <1>1, <1>3
<1>6. place'[Ship] = "ship" => idx'[Ship] \in 1 .. Calls
  BY <1>1, <1>3 DEF GenInv
<1>7. \A q \in Process : place'[q] = "pass" => idx'[q] \in 1 .. 14
  BY <1>3 DEF GenInv
<1> QED BY <1>1, <1>2, <1>4, <1>5, <1>6, <1>7 DEF GenInv

\* The head of the loop goes on or to the waits.
LEMMA GenLoop ==
  ASSUME GenInv, argv # <<>>, place[Main] # "start", NEW p \in Process, NEW i, Loop(p, i),
         set' \in {"there", "removed"}, UNCHANGED sem
  PROVE  GenInv'
<1>1. sem' \in [Sems -> 0 .. SHRT_MAX]
  BY DEF GenInv
<1>2. CASE Go(p, "fork", i)
  BY <1>1, <1>2, GenGo DEF Places
<1>3. CASE Go(p, "wait", 0)
  BY <1>1, <1>3, GenGo DEF Places
<1> QED BY <1>2, <1>3 DEF Loop

\* A call keeps the types, and one that adds takes nothing.
LEMMA GenSemop ==
  ASSUME GenInv, argv # <<>>, place[Main] # "start", NEW p \in Process, NEW s \in Sems, NEW k \in Int,
         NEW to \in Places \ {"start"}, NEW i, Semop(p, <<s, k>>, to, i),
         to = "pass" => i \in 1 .. 14, to = "ship" => i \in 1 .. Calls
  PROVE  GenInv' /\ argv' = argv /\ set' = set /\ ((s = SEM_EXIT => k >= 0) => sem'[SEM_EXIT] >= sem[SEM_EXIT])
<1>1. set \in {"none", "there", "removed"} /\ sem \in [Sems -> 0 .. SHRT_MAX] /\ SHRT_MAX \in Nat /\ SEM_EXIT \in Sems
  BY BoatFirstAssumption DEF GenInv, Sems
<1>2. CASE FallBack(p) /\ set \in {"there", "removed"}
  <2>1. Loop(p, Max(p) + 1) /\ UNCHANGED <<set, sem>>
    BY <1>2 DEF FallBack
  <2>2. GenInv'
    BY <1>2, <2>1, GenLoop
  <2>3. argv' = argv
    BY <2>1 DEF Loop, Go
  <2>4. sem[SEM_EXIT] \in Int
    BY <1>1
  <2> QED BY <2>1, <2>2, <2>3, <2>4
<1>3. CASE /\ set = "there" /\ sem[s] + k \in 0 .. SHRT_MAX /\ (k = 0 => sem[s] = 0)
           /\ sem' = [sem EXCEPT ![s] = @ + k]
           /\ Go(p, to, i) /\ UNCHANGED set
  <2>1. sem' \in [Sems -> 0 .. SHRT_MAX]
    BY <1>1, <1>3
  <2>2. GenInv'
    BY <1>3, <2>1, GenGo
  <2>3. (s = SEM_EXIT => k >= 0) => sem'[SEM_EXIT] >= sem[SEM_EXIT]
    BY <1>1, <1>3
  <2> QED BY <1>3, <2>2, <2>3 DEF Go
<1> QED BY <1>2, <1>3 DEF Semop

\* Every call of the ship is on one of the four semaphores, and END is only set.
LEMMA ShipCall ==
  ASSUME argv \in Argvs, argv # <<>>, NEW n \in 1 .. Calls
  PROVE  \E s \in Sems : \E k \in Int : ShipScript[n] = <<s, k>> /\ (s = SEM_EXIT => k >= 0)
<1>1. /\ numShip \in Int /\ numTrap \in Int /\ ToShort(-numTrap) \in Int
      /\ ToShort(numTrap + BIG) \in Int /\ Calls \in Nat
  BY Args, BoatFirstAssumption DEF Short
<1>2. n = 1 \/ n \in 2 .. Calls - 4 \/ n = Calls - 3 \/ n = Calls - 2 \/ n = Calls - 1 \/ n = Calls
  BY <1>1
<1>3. SEM_BOAT # SEM_EXIT /\ SEM_TRAP # SEM_EXIT /\ SEM_IN # SEM_EXIT
  BY DEF SEM_BOAT, SEM_TRAP, SEM_IN, SEM_EXIT
<1>4. {SEM_BOAT, SEM_TRAP, SEM_IN, SEM_EXIT} = Sems
  BY DEF Sems
<1>5. CASE n \in {1, Calls}
  BY <1>1, <1>3, <1>4, <1>5, Script
<1>6. CASE n \in 2 .. Calls - 4
  <2>1. ShipScript[n] = TripCall(n)
    BY <1>6, Script
  <2>2. \/ TripCall(n) = <<SEM_IN, 1>> \/ TripCall(n) = <<SEM_TRAP, numTrap>>
        \/ TripCall(n) = <<SEM_TRAP, ToShort(-numTrap)>> \/ TripCall(n) = <<SEM_IN, -1>>
    BY DEF TripCall
  <2> QED BY <1>1, <1>3, <1>4, <2>1, <2>2
<1>7. CASE n = Calls - 3
  <2>1. ShipScript[n] = <<SEM_EXIT, 1>> /\ SEM_EXIT \in Sems /\ 1 \in Int /\ 1 >= 0
    BY <1>4, <1>7, Script
  <2> QED BY <2>1
<1>8. CASE n = Calls - 2
  <2>1. ShipScript[n] = <<SEM_IN, 1>> /\ SEM_IN \in Sems /\ 1 \in Int
    BY <1>4, <1>8, Script
  <2> QED BY <1>3, <2>1
<1>9. CASE n = Calls - 1
  <2>1. ShipScript[n] = <<SEM_TRAP, ToShort(numTrap + BIG)>> /\ SEM_TRAP \in Sems
    BY <1>4, <1>9, Script
  <2> QED BY <1>1, <1>3, <2>1
<1> QED BY <1>2, <1>5, <1>6, <1>7, <1>8, <1>9

\* Every step keeps the types and the arguments, takes nothing from END and
\* does not bring the semaphores back.
LEMMA GenStep ==
  ASSUME IInv, Next
  PROVE  /\ GenInv' /\ argv' = argv /\ sem'[SEM_EXIT] >= sem[SEM_EXIT]
         /\ (set' = "none" => set = "none") /\ (set' = "there" => set \in {"none", "there"})
<1> DEFINE Kept == /\ GenInv' /\ argv' = argv /\ sem'[SEM_EXIT] >= sem[SEM_EXIT]
                   /\ (set' = "none" => set = "none") /\ (set' = "there" => set \in {"none", "there"})
<1>1. /\ GenInv /\ SHRT_MAX \in Nat /\ argv \in Argvs /\ SEM_EXIT \in Sems /\ sem \in [Sems -> 0 .. SHRT_MAX]
      /\ set \in {"none", "there", "removed"} /\ sem[SEM_EXIT] >= sem[SEM_EXIT]
      /\ Main \in Process /\ Ship \in Process /\ (place[Main] = "start" => set = "none")
  BY BoatFirstAssumption, Names DEF IInv, GenInv, Sems
<1>2. CASE Start
  <2>1. place[Main] = "start" /\ set = "none" /\ sem' = sem
    BY <1>1, <1>2 DEF Start
  <2>2. CASE argv = <<>> /\ Go(Main, "exited", 0) /\ UNCHANGED set
    <3>1. /\ argv' = argv /\ place' = [place EXCEPT ![Main] = "exited"] /\ idx' = [idx EXCEPT ![Main] = 0]
          /\ place \in [Process -> Places] /\ idx = [q \in Process |-> idx[q]] /\ "exited" \in Places
      BY <1>1, <2>2 DEF Go, GenInv, Places, Ended
    <3>2. place' \in [Process -> Places] /\ idx' = [q \in Process |-> idx'[q]]
      BY <3>1, <1>1
    <3>3. \A q \in Process : q # Main => place'[q] = place[q] /\ idx'[q] = idx[q]
      BY <3>1
    <3>4. place'[Main] = "exited"
      BY <3>1, <1>1
    <3>5. /\ place'[Ship] = "ship" => idx'[Ship] \in 1 .. Calls
          /\ \A q \in Process : place'[q] = "pass" => idx'[q] \in 1 .. 14
      BY <1>1, <3>3, <3>4, Names DEF GenInv
    <3>6. Calls' = Calls
      BY <3>1 DEF Calls, numTrips
    <3> QED BY <1>1, <2>1, <2>2, <3>1, <3>2, <3>4, <3>5, <3>6 DEF GenInv
  <2>3. CASE argv # <<>> /\ (\/ Go(Main, "failed", 0) /\ UNCHANGED set
                             \/ Go(Main, "fork", -1) /\ set' = "there")
    <3> PICK to \in {"failed", "fork"}, i \in {0, -1} : Go(Main, to, i)
      BY <2>3
    <3>1. /\ argv' = argv /\ place' = [place EXCEPT ![Main] = to] /\ idx' = [idx EXCEPT ![Main] = i]
          /\ place \in [Process -> Places] /\ idx = [q \in Process |-> idx[q]] /\ to \in Places
      BY <1>1 DEF Go, GenInv, Places, Ended
    <3>2. place' \in [Process -> Places] /\ idx' = [q \in Process |-> idx'[q]]
      BY <3>1, <1>1
    <3>3. \A q \in Process : q # Main => place'[q] = place[q] /\ idx'[q] = idx[q]
      BY <3>1
    <3>4. place'[Main] = to
      BY <3>1, <1>1
    <3>5. /\ place'[Ship] = "ship" => idx'[Ship] \in 1 .. Calls
          /\ \A q \in Process : place'[q] = "pass" => idx'[q] \in 1 .. 14
      BY <1>1, <3>3, <3>4, Names DEF GenInv
    <3>6. Calls' = Calls
      BY <3>1 DEF Calls, numTrips
    <3> QED BY <1>1, <2>1, <2>3, <3>1, <3>2, <3>4, <3>5, <3>6 DEF GenInv
  <2> QED BY <1>2, <2>2, <2>3 DEF Start
<1>3. CASE ShipSteps
  <2>1. place[Ship] = "ship" /\ idx[Ship] \in 1 .. Calls
    BY <1>1, <1>3 DEF ShipSteps, GenInv
  <2>2. set \in {"there", "removed"} /\ argv # <<>> /\ place[Main] # "start"
    BY <1>1, <2>1, Alive
  <2>3. Len(ShipScript) = Calls /\ Calls \in Nat
    BY <1>1, <2>2, Script, Args
  <2> DEFINE to == IF idx[Ship] = Len(ShipScript) THEN "exited" ELSE "ship"
             i == IF idx[Ship] = Len(ShipScript) THEN 0 ELSE idx[Ship] + 1
  <2>4. PICK s \in Sems, k \in Int : ShipScript[idx[Ship]] = <<s, k>> /\ (s = SEM_EXIT => k >= 0)
    BY <1>1, <2>1, <2>2, ShipCall
  <2>5. Semop(Ship, <<s, k>>, to, i)
    BY <1>3, <2>4 DEF ShipSteps
  <2>6. to \in Places \ {"start"} /\ to # "pass" /\ (to = "ship" => i \in 1 .. Calls)
    BY <2>1, <2>3 DEF Places, Ended
  <2> HIDE DEF to, i
  <2> QED BY <1>1, <2>2, <2>4, <2>5, <2>6, GenSemop
<1>4. ASSUME NEW p \in Process, Step(p) PROVE Kept
  <2>1. /\ place[p] \in {"fork", "wait", "ship", "pass", "give"}
        /\ set \in {"there", "removed"} /\ argv # <<>> /\ place[Main] # "start"
    <3>1. place[p] \in {"fork", "wait", "ship", "pass", "give"}
      BY <1>4 DEF Step, check, PassSteps, Give, Fork, Wait, RemoveSet
    <3> QED BY <3>1, <1>1, Alive
  <2>2. CASE check(p)
    <3>1. place[p] = "pass" /\ idx[p] \in 1 .. 14 /\ sem' = sem /\ set' = set
      BY <1>1, <2>2 DEF check, GenInv
    <3>2. CASE Go(p, "pass", (idx[p] % Len(PassScript)) + 1)
      <4>1. (idx[p] % Len(PassScript)) + 1 \in 1 .. 14
        BY <3>1, PassCalls, AfterCheck
      <4> QED BY <1>1, <2>1, <3>1, <3>2, <4>1, GenGo DEF Places, Go
    <3>3. CASE Go(p, "give", 0)
      BY <1>1, <2>1, <3>1, <3>3, GenGo DEF Places, Go
    <3>4. CASE Go(p, "failed", 0)
      BY <1>1, <2>1, <3>1, <3>4, GenGo DEF Places, Ended, Go
    <3> QED BY <2>2, <3>2, <3>3, <3>4 DEF check
  <2>3. CASE PassSteps(p)
    <3>1. place[p] = "pass" /\ idx[p] \in 1 .. 14 /\ PassScript[idx[p]] # Check
      BY <1>1, <2>3 DEF PassSteps, GenInv
    <3>2. idx[p] \in {2, 4, 6, 9, 11, 13}
      BY <3>1, PassCalls
    <3>3. PICK s \in Sems, k \in Int : PassScript[idx[p]] = <<s, k>> /\ s # SEM_EXIT
      BY <3>2, PassCalls DEF Sems, SEM_BOAT, SEM_TRAP, SEM_EXIT
    <3>4. Semop(p, <<s, k>>, "pass", idx[p] + 1)
      BY <2>3, <3>3 DEF PassSteps
    <3>5. "pass" \in Places \ {"start"} /\ idx[p] + 1 \in 1 .. 14 /\ "pass" # "ship"
      BY <3>2 DEF Places
    <3> QED BY <1>1, <2>1, <3>3, <3>4, <3>5, GenSemop
  <2>4. CASE Give(p)
    <3>1. Semop(p, <<SEM_BOAT, 1>>, "exited", 0) /\ SEM_BOAT \in Sems /\ SEM_BOAT # SEM_EXIT
          /\ "exited" \in Places \ {"start"} /\ 1 \in Int
      BY <2>4 DEF Give, Sems, SEM_BOAT, SEM_EXIT, Places, Ended
    <3> QED BY <1>1, <2>1, <3>1, GenSemop
  <2>5. CASE Fork(p)
    <3>1. CASE Loop(p, idx[p] + 1) /\ UNCHANGED <<set, sem>>
      BY <1>1, <2>1, <3>1, GenLoop DEF Loop, Go
    <3>2. CASE \E q, a, b, j : /\ a \in {"ship", "pass"} /\ b \in {"fork", "wait"} /\ UNCHANGED <<argv, set, sem>>
                               /\ place' = [place EXCEPT ![q] = a, ![p] = b]
                               /\ idx' = [idx EXCEPT ![q] = 1, ![p] = j]
      <4> PICK q, a, b, j : /\ a \in {"ship", "pass"} /\ b \in {"fork", "wait"} /\ UNCHANGED <<argv, set, sem>>
                            /\ place' = [place EXCEPT ![q] = a, ![p] = b]
                            /\ idx' = [idx EXCEPT ![q] = 1, ![p] = j]
        BY <3>2
      <4>1. /\ place \in [Process -> Places] /\ idx = [r \in Process |-> idx[r]] /\ a \in Places /\ b \in Places
            /\ a # "start" /\ b \notin {"start", "ship", "pass"}
        BY <1>1 DEF GenInv, Places
      <4>2. place' \in [Process -> Places] /\ idx' = [r \in Process |-> idx'[r]]
        BY <4>1
      <4>3. \A r \in Process : \/ place'[r] = b
                               \/ place'[r] = a /\ idx'[r] = 1
                               \/ place'[r] = place[r] /\ idx'[r] = idx[r]
        BY <4>1
      <4>4. Calls' = Calls /\ 1 \in 1 .. Calls
        BY <1>1, <2>1, Args DEF Calls, numTrips
      <4>5. /\ place'[Ship] = "ship" => idx'[Ship] \in 1 .. Calls
            /\ \A r \in Process : place'[r] = "pass" => idx'[r] \in 1 .. 14
            /\ place'[Main] # "start"
        BY <1>1, <2>1, <4>1, <4>3, <4>4 DEF GenInv
      <4> QED BY <1>1, <2>1, <4>2, <4>4, <4>5 DEF GenInv
    <3>3. ASSUME UNCHANGED argv, UNCHANGED <<set, sem>>,
                 place' = [place EXCEPT ![p \cup {idx[p]}] = IF idx[p] = -1 THEN "ship" ELSE "pass",
                                        ![p] = IF idx[p] + 1 < numPeople THEN "fork" ELSE "wait"],
                 idx' = [idx EXCEPT ![p \cup {idx[p]}] = 1,
                                    ![p] = IF idx[p] + 1 < numPeople THEN idx[p] + 1 ELSE 0]
          PROVE  Kept
      <4> DEFINE q == p \cup {idx[p]}
                 a == IF idx[p] = -1 THEN "ship" ELSE "pass"
                 b == IF idx[p] + 1 < numPeople THEN "fork" ELSE "wait"
                 j == IF idx[p] + 1 < numPeople THEN idx[p] + 1 ELSE 0
      <4>1. a \in {"ship", "pass"} /\ b \in {"fork", "wait"} /\ UNCHANGED <<argv, set, sem>>
        BY <3>3
      <4>2. place' = [place EXCEPT ![q] = a, ![p] = b] /\ idx' = [idx EXCEPT ![q] = 1, ![p] = j]
        BY <3>3
      <4> HIDE DEF q, a, b, j, Kept
      <4> QED BY <3>2, <4>1, <4>2
    <3> HIDE DEF Kept
    <3> QED BY <2>5, <3>1, <3>3 DEF Fork
  <2>6. CASE Wait(p)
    <3>1. Go(p, "wait", ToShort(idx[p] + 1)) /\ UNCHANGED <<set, sem>>
      BY <2>6 DEF Wait
    <3> QED BY <1>1, <2>1, <3>1, GenGo DEF Places, Go
  <2>7. CASE RemoveSet(p)
    <3>1. set' = "removed" /\ sem' = sem
      BY <2>7 DEF RemoveSet
    <3>2. PICK to \in {"works", "failed"} : Go(p, to, 0)
      BY <2>7 DEF RemoveSet
    <3> QED BY <1>1, <2>1, <3>1, <3>2, GenGo DEF Places, Ended, Go
  <2> QED BY <1>4, <2>2, <2>3, <2>4, <2>5, <2>6, <2>7 DEF Step
<1> QED BY <1>2, <1>3, <1>4 DEF Next

\* Nobody who had fallen back comes right again.
LEMMA StaysIrregular == ASSUME IInv, Next, Regular'
                        PROVE  Regular /\ (set' = "removed" => Roomy)
<1>1. /\ argv' = argv /\ sem'[SEM_EXIT] >= sem[SEM_EXIT] /\ (set' = "none" => set = "none")
      /\ (set' = "there" => set \in {"none", "there"}) /\ sem[SEM_EXIT] \in Nat /\ sem'[SEM_EXIT] \in Nat
  BY GenStep, BoatFirstAssumption DEF IInv, GenInv, Sems
<1>2. Roomy' = Roomy
  BY <1>1 DEF Roomy, numPeople, numShip
<1>3. Early' => set = "none" \/ Early
  BY <1>1 DEF Early
<1> QED BY <1>1, <1>2, <1>3 DEF Regular, Early

\* Until somebody falls back main forks, waits and removes, and the ship and the
\* passengers only call the semaphores.
LEMMA WhoSteps ==
  ASSUME IInv, Regular, Next
  PROVE  \/ Start \/ ShipSteps \/ Fork(Main) \/ Wait(Main) \/ RemoveSet(Main)
         \/ \E p \in Process \ {Main, Ship} : check(p) \/ PassSteps(p) \/ Give(p)
<1>1. FamilyInv /\ MainInv /\ set \in {"none", "there", "removed"}
  BY DEF IInv, GenInv
<1>2. ASSUME Step(Main) PROVE Fork(Main) \/ Wait(Main) \/ RemoveSet(Main)
  <2>1. place[Main] \notin {"pass", "give"}
    BY <1>1 DEF MainInv
  <2> QED BY <1>2, <2>1 DEF Step, check, PassSteps, Give
<1>3. ~Step(Ship)
  BY <1>1 DEF FamilyInv, Step, check, PassSteps, Give, Fork, Wait, RemoveSet
<1>4. ASSUME NEW p \in Process \ {Main, Ship}, Step(p) PROVE check(p) \/ PassSteps(p) \/ Give(p)
  <2>1. place[p] \in {"unborn", "pass", "give", "exited"}
    BY <1>1 DEF FamilyInv
  <2> QED BY <1>4, <2>1 DEF Step, Fork, Wait, RemoveSet
<1> QED BY <1>2, <1>3, <1>4 DEF Next

-----------------------------------------------------------------------------
(***************************************************************************)
(* Counting processes                                                      *)
(***************************************************************************)

LEMMA Finite == ASSUME NEW S \in SUBSET Process
                PROVE  IsFiniteSet(S) /\ Cardinality(S) \in Nat
<1>1. -1 \in Int /\ MaxPeople - 1 \in Int
  BY BoatFirstAssumption
<1>2. IsFiniteSet(-1 .. MaxPeople - 1)
  BY <1>1, FS_Interval
<1>3. IsFiniteSet(Process)
  BY <1>2, FS_SUBSET DEF Process
<1>4. IsFiniteSet(S)
  BY <1>3, FS_Subset
<1> QED BY <1>4, FS_CardinalityType

\* Two sets that differ in one process at most.
LEMMA CountMove ==
  ASSUME NEW S \in SUBSET Process, NEW T \in SUBSET Process, NEW p,
         \A q \in Process : q # p => (q \in S <=> q \in T)
  PROVE  /\ Cardinality(S) \in Nat /\ Cardinality(T) \in Nat
         /\ Cardinality(T) = Cardinality(S) + (IF p \in T THEN 1 ELSE 0) - (IF p \in S THEN 1 ELSE 0)
         /\ p \in S => Cardinality(S) >= 1
<1> DEFINE B == S \ {p}
<1>1. /\ IsFiniteSet(S) /\ IsFiniteSet(T) /\ IsFiniteSet(B) /\ p \notin B
      /\ Cardinality(S) \in Nat /\ Cardinality(T) \in Nat /\ Cardinality(B) \in Nat
  <2>1. B \in SUBSET Process
    OBVIOUS
  <2> QED BY <2>1, Finite
<1>2. Cardinality(S) = Cardinality(B) + (IF p \in S THEN 1 ELSE 0)
  <2>1. (p \in S => S = B \cup {p}) /\ (p \notin S => S = B)
    OBVIOUS
  <2> HIDE DEF B
  <2>2. Cardinality(B \cup {p}) = Cardinality(B) + 1
    BY <1>1, FS_AddElement
  <2>3. CASE p \in S
    <3>1. S = B \cup {p}
      BY <2>1, <2>3
    <3>2. Cardinality(S) = Cardinality(B) + 1
      BY <2>2, <3>1
    <3> QED BY <2>3, <3>2
  <2>4. CASE p \notin S
    <3>1. S = B
      BY <2>1, <2>4
    <3>2. Cardinality(S) = Cardinality(B)
      BY <3>1
    <3> QED BY <1>1, <2>4, <3>2
  <2> QED BY <2>3, <2>4
<1>3. Cardinality(T) = Cardinality(B) + (IF p \in T THEN 1 ELSE 0)
  <2>1. (p \in T => T = B \cup {p}) /\ (p \notin T => T = B)
    OBVIOUS
  <2> HIDE DEF B
  <2>2. Cardinality(B \cup {p}) = Cardinality(B) + 1
    BY <1>1, FS_AddElement
  <2>3. CASE p \in T
    <3>1. T = B \cup {p}
      BY <2>1, <2>3
    <3>2. Cardinality(T) = Cardinality(B) + 1
      BY <2>2, <3>1
    <3> QED BY <2>3, <3>2
  <2>4. CASE p \notin T
    <3>1. T = B
      BY <2>1, <2>4
    <3>2. Cardinality(T) = Cardinality(B)
      BY <3>1
    <3> QED BY <1>1, <2>4, <3>2
  <2> QED BY <2>3, <2>4
<1> HIDE DEF B
<1> QED BY <1>1, <1>2, <1>3

\* One process's step changes the number of those between two calls.
LEMMA AtMove ==
  ASSUME GenInv, NEW p \in Process, NEW to, NEW i, Go(p, to, i), NEW K
  PROVE  /\ Cardinality(At(K)) \in Nat
         /\ Cardinality(At(K))' = Cardinality(At(K)) + (IF to = "pass" /\ i \in K THEN 1 ELSE 0)
                                   - (IF place[p] = "pass" /\ idx[p] \in K THEN 1 ELSE 0)
         /\ place[p] = "pass" /\ idx[p] \in K => Cardinality(At(K)) >= 1
<1>1. /\ place' = [place EXCEPT ![p] = to] /\ idx' = [idx EXCEPT ![p] = i]
      /\ place \in [Process -> Places] /\ idx = [q \in Process |-> idx[q]]
  BY DEF Go, GenInv
<1>2. \A q \in Process : /\ place'[q] = IF q = p THEN to ELSE place[q]
                         /\ idx'[q] = IF q = p THEN i ELSE idx[q]
  BY <1>1
<1>3. /\ At(K) \in SUBSET Process /\ At(K)' \in SUBSET Process
      /\ p \in At(K) <=> place[p] = "pass" /\ idx[p] \in K
      /\ p \in At(K)' <=> to = "pass" /\ i \in K
      /\ \A q \in Process : q # p => (q \in At(K) <=> q \in At(K)')
  BY <1>2 DEF At
<1> DEFINE S == At(K)
           U == At(K)'
<1>4. /\ Cardinality(S) \in Nat
      /\ Cardinality(U) = Cardinality(S) + (IF p \in U THEN 1 ELSE 0) - (IF p \in S THEN 1 ELSE 0)
      /\ p \in S => Cardinality(S) >= 1
  <2>1. S \in SUBSET Process /\ U \in SUBSET Process
        /\ \A q \in Process : q # p => (q \in S <=> q \in U)
    BY <1>3
  <2> HIDE DEF S, U
  <2> QED BY <2>1, CountMove
<1>5. Cardinality(At(K))' = Cardinality(U)
  OBVIOUS
<1> QED BY <1>3, <1>4, <1>5

\* The passengers main forks are numPeople at most.
LEMMA People ==
  ASSUME FamilyInv, numPeople \in Nat, NEW S \in SUBSET (Process \ {Main, Ship}),
         \A q \in S : place[q] # "unborn"
  PROVE  Cardinality(S) <= numPeople
<1> DEFINE I == 0 .. numPeople - 1
           P == {{k} : k \in I}
           f == [k \in I |-> {k}]
<1>1. IsFiniteSet(I) /\ Cardinality(I) <= numPeople
  <2>1. 0 \in Int /\ numPeople - 1 \in Int
    OBVIOUS
  <2>2. IsFiniteSet(0 .. numPeople - 1)
        /\ Cardinality(0 .. numPeople - 1) = IF 0 > numPeople - 1 THEN 0 ELSE (numPeople - 1) - 0 + 1
    <3> DEFINE last == numPeople - 1
    <3> HIDE DEF last
    <3> QED BY <2>1, FS_Interval DEF last
  <2> QED BY <2>2
<1>2. f \in Surjection(I, P)
  <2> HIDE DEF I
  <2> QED BY DEF Surjection
<1>3. IsFiniteSet(P) /\ Cardinality(P) <= Cardinality(I)
  <2> HIDE DEF I, P, f
  <2> QED BY <1>1, <1>2, FS_Surjection
<1>4. S \subseteq P
  BY DEF FamilyInv
<1>5. Cardinality(S) <= Cardinality(P)
  <2> HIDE DEF P
  <2> QED BY <1>3, <1>4, FS_Subset
<1>6. Cardinality(S) \in Nat /\ Cardinality(P) \in Nat /\ Cardinality(I) \in Nat
  <2> HIDE DEF I, P
  <2> QED BY Finite, <1>1, <1>3, FS_CardinalityType
<1> HIDE DEF I, P
<1> QED BY <1>1, <1>3, <1>5, <1>6

-----------------------------------------------------------------------------
(***************************************************************************)
(* The passengers                                                          *)
(***************************************************************************)

\* The sizes and numbers the accounts are made of.
LEMMA Sizes ==
  ASSUME GenInv, argv # <<>>
  PROVE  /\ Cardinality(Seated) \in Nat /\ Cardinality(OnLadder) \in Nat /\ Cardinality(Given) \in Nat
         /\ \A s \in Sems : sem[s] \in 0 .. SHRT_MAX
         /\ numShip \in Short /\ numTrap \in Short /\ numPeople \in Short /\ SHRT_MAX \in Nat \ {0}
         /\ Calls \in Nat /\ Calls >= 5 /\ Calls % 4 = 1 /\ Stage \in 1 .. Calls + 1
         /\ Seats \in Int
         /\ SEM_BOAT \in Sems /\ SEM_TRAP \in Sems /\ SEM_IN \in Sems /\ SEM_EXIT \in Sems
<1>1. Seated \in SUBSET Process /\ OnLadder \in SUBSET Process /\ Given \in SUBSET Process
  BY DEF Seated, OnLadder, Given, At
<1>2. /\ numShip \in Short /\ numTrap \in Short /\ numPeople \in Short /\ SHRT_MAX \in Nat \ {0}
      /\ Calls \in Nat /\ Calls >= 5 /\ numTrips \in Int
  BY Args, BoatFirstAssumption DEF GenInv, Short
<1>3. Stage \in 1 .. Calls + 1
  BY <1>2 DEF GenInv, Stage
<1>4. Seats \in Int
  BY <1>2 DEF Seats, Short
<1>5. Calls % 4 = 1
  <2> DEFINE T == IF numTrips > 0 THEN numTrips ELSE 0
  <2>1. T \in Nat /\ Calls = 4 * T + 5
    BY <1>2 DEF Calls
  <2>2. \A n \in Nat : (4 * n + 5) % 4 = 1
    OBVIOUS
  <2> HIDE DEF T
  <2> QED BY <2>1, <2>2
<1> QED BY <1>1, <1>2, <1>3, <1>4, <1>5, Finite DEF GenInv, Sems

\* A passenger at its script finds the semaphores there, with room for what it
\* gives back.
LEMMA Room ==
  ASSUME IInv, Regular, NEW p \in Process \ {Main, Ship}, place[p] \in {"pass", "give"}
  PROVE  /\ set = "there" /\ argv # <<>> /\ place[Main] \in {"fork", "wait"}
         /\ sem[SEM_BOAT] + Cardinality(Seated) + (IF place[p] = "give" THEN 1 ELSE 0) <= SHRT_MAX
         /\ sem[SEM_TRAP] + Cardinality(OnLadder) <= SHRT_MAX
         /\ place[p] = "give" => Stage > Calls - 3
<1>1. GenInv /\ FamilyInv /\ MainInv /\ SemInv
  BY DEF IInv
<1>2. set = "there" /\ argv # <<>> /\ place[Main] \in {"fork", "wait"}
  BY <1>1 DEF GenInv, MainInv
<1>3. place[p] = "give" => Stage > Calls - 3
  <2>1. Stage \in Int /\ Calls \in Int
    BY <1>1, <1>2, Sizes
  <2> QED BY <1>1, <1>2, <2>1, Names DEF SemInv
<1>4. CASE Stage <= Calls - 3
  <2>1. /\ sem[SEM_BOAT] + Cardinality(Seated) = Seats
        /\ sem[SEM_TRAP] + Cardinality(OnLadder) = IF Stage % 4 = 0 THEN numTrap ELSE 0
    BY <1>1, <1>2, <1>4 DEF SemInv
  <2>2. Seats <= SHRT_MAX /\ numTrap <= SHRT_MAX /\ 0 <= SHRT_MAX
    BY <1>1, <1>2, <1>4, Sizes DEF Seats, Short
  <2>3. place[p] # "give"
    BY <1>1, <1>2, <1>3, <1>4, Sizes
  <2>4. Cardinality(Seated) \in Nat /\ sem[SEM_BOAT] \in Nat
    BY <1>1, <1>2, Sizes
  <2> QED BY <1>2, <1>3, <2>1, <2>2, <2>3, <2>4
<1>5. CASE Stage > Calls - 3
  <2>1. sem[SEM_EXIT] = 1
    BY <1>1, <1>2, <1>5, Sizes DEF SemInv
  <2>2. Roomy
    BY <1>2, <2>1 DEF Regular, Early
  <2>3. /\ sem[SEM_BOAT] + Cardinality(Seated) <= Seats + Cardinality(Given)
        /\ sem[SEM_TRAP] + Cardinality(OnLadder) <= IF Stage < Calls THEN 0 ELSE SHRT_MAX
    BY <1>1, <1>2, <1>5 DEF SemInv
  <2>4. Cardinality(Given) + 1 <= numPeople
    <3> DEFINE G == Given \cup {p}
    <3>1. /\ G \in SUBSET (Process \ {Main, Ship}) /\ (\A q \in G : place[q] # "unborn")
          /\ p \notin Given /\ Given \in SUBSET Process /\ p \in G
          /\ G \in SUBSET Process /\ (\A q \in Process : q # p => (q \in Given <=> q \in G))
      BY DEF Given
    <3>2. numPeople \in Nat
      BY <1>1, <1>2, <2>2, Sizes DEF Roomy, Short
    <3> HIDE DEF G
    <3>3. Cardinality(G) <= numPeople
      BY <1>1, <3>1, <3>2, People
    <3>4. Cardinality(G) = Cardinality(Given) + 1
      BY <3>1, CountMove
    <3> QED BY <3>3, <3>4
  <2>5. Seats + numPeople <= SHRT_MAX
    <3>1. 2 * numShip + numPeople <= SHRT_MAX
      BY <2>2 DEF Roomy
    <3>2. Calls \in Nat /\ Calls >= 5 /\ Stage \in Int
      BY <1>1, <1>2, Sizes
    <3>3. Seats = numShip \/ Seats = numShip + numShip
      BY <1>5, <3>2 DEF Seats
    <3>4. numShip \in Int /\ numPeople \in Int /\ numPeople <= SHRT_MAX /\ SHRT_MAX \in Int
      BY <1>1, <1>2, Sizes DEF Short
    <3> QED BY <3>1, <3>3, <3>4
  <2>6. /\ Cardinality(Seated) \in Nat /\ sem[SEM_BOAT] \in Nat /\ Cardinality(Given) \in Nat /\ Seats \in Int
        /\ numPeople \in Int /\ SHRT_MAX \in Nat /\ Cardinality(OnLadder) \in Nat /\ sem[SEM_TRAP] \in Nat
    BY <1>1, <1>2, Sizes DEF Short
  <2>7. sem[SEM_BOAT] + Cardinality(Seated) + 1 <= SHRT_MAX
    BY <2>3, <2>4, <2>5, <2>6
  <2>8. sem[SEM_TRAP] + Cardinality(OnLadder) <= SHRT_MAX
    BY <2>3, <2>6
  <2> QED BY <1>2, <1>3, <2>6, <2>7, <2>8
<1> QED BY <1>1, <1>2, <1>4, <1>5, Sizes

\* A passenger's step leaves the ship, main and its account of children alone.
LEMMA PassAlone ==
  ASSUME IInv, Regular, NEW p \in Process \ {Main, Ship}, place[p] \in {"pass", "give"},
         NEW to \in {"pass", "give", "exited"}, NEW i, Go(p, to, i), set' = set, Regular'
  PROVE  /\ FamilyInv' /\ MainInv' /\ WaitInv'
         /\ argv' = argv /\ Stage' = Stage /\ Calls' = Calls /\ Seats' = Seats
         /\ numTrap' = numTrap /\ numShip' = numShip
         /\ \A q \in Process : place'[q] = IF q = p THEN to ELSE place[q]
<1>1. GenInv /\ FamilyInv /\ MainInv /\ WaitInv
  BY DEF IInv
<1>2. set = "there" /\ place[Main] \in {"fork", "wait"}
  BY Room
<1>3. /\ argv' = argv /\ place' = [place EXCEPT ![p] = to] /\ idx' = [idx EXCEPT ![p] = i]
      /\ place \in [Process -> Places] /\ idx = [q \in Process |-> idx[q]]
  BY <1>1 DEF Go, GenInv
<1>4. \A q \in Process : /\ place'[q] = IF q = p THEN to ELSE place[q]
                         /\ idx'[q] = IF q = p THEN i ELSE idx[q]
  BY <1>3
<1>5. /\ place'[Main] = place[Main] /\ idx'[Main] = idx[Main]
      /\ place'[Ship] = place[Ship] /\ idx'[Ship] = idx[Ship]
  BY <1>4, Names
<1>6. /\ numTrap' = numTrap /\ numShip' = numShip /\ numPeople' = numPeople /\ numTrips' = numTrips
  BY <1>3 DEF numTrap, numShip, numPeople, numTrips
<1>7. Calls' = Calls /\ Stage' = Stage
  BY <1>5, <1>6 DEF Calls, Stage
<1>8. Seats' = Seats
  BY <1>6, <1>7 DEF Seats
<1>9. FamilyInv'
  BY <1>1, <1>4, <1>5, <1>6 DEF FamilyInv
<1>10. MainInv'
  <2>1. ASSUME place[Main] = "fork", NEW k \in -1 .. MaxPeople - 1, k >= idx[Main] PROVE place'[{k}] = "unborn"
    <3>1. place[{k}] = "unborn" /\ {k} \in Process
      BY <1>1, <2>1, Names DEF MainInv
    <3> QED BY <3>1, <1>4
  <2> QED BY <1>1, <1>2, <1>5, <1>6, <2>1 DEF MainInv
<1>11. WaitInv'
  <2> SUFFICES ASSUME place[Main] = "wait"
               PROVE  /\ idx[Main] \in Short
                      /\ \/ idx[Main] <= Cardinality(EndedChildren')
                         \/ Cardinality(EndedChildren') = Cardinality(Children')
    BY <1>5 DEF WaitInv
  <2>1. idx[Main] \in Short
    BY <1>1 DEF WaitInv
  <2>2. /\ Children \in SUBSET Process /\ EndedChildren \in SUBSET Children /\ EndedChildren' \in SUBSET Process
        /\ EndedChildren \in SUBSET EndedChildren' /\ p \in Children /\ p \notin EndedChildren
    BY <1>4 DEF Children, EndedChildren
  <2>3. Cardinality(EndedChildren) # Cardinality(Children)
    BY <2>2, Finite, FS_Subset
  <2>4. Cardinality(EndedChildren) <= Cardinality(EndedChildren')
    BY <2>2, Finite, FS_Subset
  <2>5. Cardinality(EndedChildren) \in Nat /\ Cardinality(EndedChildren') \in Nat
    BY <2>2, Finite
  <2> QED BY <1>1, <2>1, <2>3, <2>4, <2>5 DEF WaitInv, Short
<1> QED BY <1>3, <1>4, <1>6, <1>7, <1>8, <1>9, <1>10, <1>11

LEMMA Whole ==
  ASSUME GenInv, argv # <<>>
  PROVE  /\ Cardinality(Seated) \in Int /\ Cardinality(OnLadder) \in Int /\ Cardinality(Given) \in Int
         /\ sem[SEM_BOAT] \in Int /\ sem[SEM_TRAP] \in Int /\ Seats \in Int
         /\ (IF Stage % 4 = 0 THEN numTrap ELSE 0) \in Int /\ (IF Stage < Calls THEN 0 ELSE SHRT_MAX) \in Int
BY Sizes DEF Short

LEMMA NoMore ==
  ASSUME NEW x \in Int, NEW y \in Int, NEW c \in Int, NEW d \in Int, NEW e \in Int,
         x + y <= c, d + e <= 0
  PROVE  (x + d) + (y + e) <= c
OBVIOUS

LEMMA NoMoreThanGiven ==
  ASSUME NEW x \in Int, NEW y \in Int, NEW c \in Int, NEW d \in Int, NEW e \in Int,
         NEW f \in Int, NEW g \in Int, x + y <= c + f, d + e <= g
  PROVE  (x + d) + (y + e) <= c + (f + g)
OBVIOUS

\* The accounts stand when a passenger moves what it takes from a semaphore to
\* itself, or back.
LEMMA Balanced ==
  ASSUME GenInv, argv # <<>>, set = "there", SemInv,
         Stage' = Stage, Calls' = Calls, Seats' = Seats, numTrap' = numTrap,
         sem'[SEM_EXIT] = sem[SEM_EXIT], sem'[SEM_IN] = sem[SEM_IN],
         NEW boat \in Int, sem'[SEM_BOAT] = sem[SEM_BOAT] + boat,
         NEW trap \in Int, sem'[SEM_TRAP] = sem[SEM_TRAP] + trap,
         NEW seat \in Int, Cardinality(Seated)' = Cardinality(Seated) + seat,
         NEW step \in Int, Cardinality(OnLadder)' = Cardinality(OnLadder) + step,
         NEW gift \in Int, Cardinality(Given)' = Cardinality(Given) + gift,
         boat + seat <= gift, trap + step <= 0,
         Stage <= Calls - 3 => /\ boat + seat = 0 /\ trap + step = 0
                               /\ \A q \in Process \ {Main} : place'[q] \notin {"give", "exited"}
  PROVE  SemInv'
<1>1. /\ sem'[SEM_EXIT] = IF Stage <= Calls - 3 THEN 0 ELSE 1
      /\ sem'[SEM_IN] <= 1
      /\ Stage = 1 \/ Stage = Calls - 2 \/ (Stage <= Calls - 3 /\ Stage % 4 = 2) => sem'[SEM_IN] = 0
  BY DEF SemInv
<1> DEFINE free == IF Stage % 4 = 0 THEN numTrap ELSE 0
           last == IF Stage < Calls THEN 0 ELSE SHRT_MAX
<1>2. ASSUME Stage <= Calls - 3
      PROVE  /\ sem'[SEM_BOAT] + Cardinality(Seated)' = Seats
             /\ sem'[SEM_TRAP] + Cardinality(OnLadder)' = free
  <2>1. sem[SEM_BOAT] + Cardinality(Seated) = Seats /\ sem[SEM_TRAP] + Cardinality(OnLadder) = free
    BY <1>2 DEF SemInv
  <2> HIDE DEF free
  <2>3. boat + seat = 0 /\ trap + step = 0
    BY <1>2, Zenon
  <2>4. /\ Cardinality(Seated) \in Int /\ Cardinality(OnLadder) \in Int
        /\ sem[SEM_BOAT] \in Int /\ sem[SEM_TRAP] \in Int
    BY Whole, Zenon
  <2>5. (sem[SEM_BOAT] + boat) + (Cardinality(Seated) + seat) = sem[SEM_BOAT] + Cardinality(Seated)
    BY <2>3, <2>4, SMTT(30)
  <2>6. (sem[SEM_TRAP] + trap) + (Cardinality(OnLadder) + step) = sem[SEM_TRAP] + Cardinality(OnLadder)
    BY <2>3, <2>4, SMTT(30)
  <2> QED BY <2>1, <2>5, <2>6, Zenon
<1>3. ASSUME Stage > Calls - 3
      PROVE  /\ sem'[SEM_BOAT] + Cardinality(Seated)' <= Seats + Cardinality(Given)'
             /\ sem'[SEM_TRAP] + Cardinality(OnLadder)' <= last
  <2>1. /\ sem[SEM_BOAT] + Cardinality(Seated) <= Seats + Cardinality(Given)
        /\ sem[SEM_TRAP] + Cardinality(OnLadder) <= last
    BY <1>3 DEF SemInv
  <2>2. last \in Int
    BY Whole, Zenon
  <2> HIDE DEF last
  <2>3. (sem[SEM_BOAT] + boat) + (Cardinality(Seated) + seat) <= Seats + (Cardinality(Given) + gift)
    BY <2>1, Whole, NoMoreThanGiven, Zenon
  <2>4. (sem[SEM_TRAP] + trap) + (Cardinality(OnLadder) + step) <= last
    BY <2>1, <2>2, Whole, NoMore, Zenon
  <2> QED BY <2>3, <2>4, Zenon
<1> QED BY <1>1, <1>2, <1>3 DEF SemInv

\* Nobody gives before the end is announced, and who gives has left the script.
LEMMA PassGroups ==
  ASSUME IInv, Regular, Regular', NEW p \in Process \ {Main, Ship}, place[p] \in {"pass", "give"},
         NEW to \in {"pass", "give", "exited"}, NEW i, Go(p, to, i), set' = set,
         to = "pass" \/ Stage > Calls - 3
  PROVE  /\ Stage <= Calls - 3 => \A q \in Process \ {Main} : place'[q] \notin {"give", "exited"}
         /\ Cardinality(Given)' = Cardinality(Given) + IF to = "exited" THEN 1 ELSE 0
         /\ Cardinality(Seated)' = Cardinality(Seated) + (IF to = "pass" /\ i \in 3 .. 11 THEN 1 ELSE 0)
                                     - (IF place[p] = "pass" /\ idx[p] \in 3 .. 11 THEN 1 ELSE 0)
         /\ Cardinality(OnLadder)' = Cardinality(OnLadder)
              + (IF to = "pass" /\ i \in {5, 6} \cup 10 .. 13 THEN 1 ELSE 0)
              - (IF place[p] = "pass" /\ idx[p] \in {5, 6} \cup 10 .. 13 THEN 1 ELSE 0)
         /\ place[p] = "pass" /\ idx[p] \in 3 .. 11 => Cardinality(Seated) >= 1
         /\ place[p] = "pass" /\ idx[p] \in {5, 6} \cup 10 .. 13 => Cardinality(OnLadder) >= 1
<1>1. GenInv /\ set = "there" /\ argv # <<>> /\ SemInv
  BY Room DEF IInv
<1>2. \A q \in Process : place'[q] = IF q = p THEN to ELSE place[q]
  BY PassAlone
<1>3. Stage <= Calls - 3 => \A q \in Process \ {Main} : place'[q] \notin {"give", "exited"}
  <2>1. Stage \in Int /\ Calls \in Int
    BY <1>1, Sizes
  <2> QED BY <1>1, <1>2, <2>1 DEF SemInv
<1>4. Cardinality(Given)' = Cardinality(Given) + IF to = "exited" THEN 1 ELSE 0
  <2> DEFINE S == Given
             U == Given'
  <2>1. /\ S \in SUBSET Process /\ U \in SUBSET Process /\ p \notin S /\ (p \in U <=> to = "exited")
        /\ \A q \in Process : q # p => (q \in S <=> q \in U)
    BY <1>2 DEF Given
  <2>2. Cardinality(Given)' = Cardinality(U)
    OBVIOUS
  <2> HIDE DEF S, U
  <2>3. Cardinality(U) = Cardinality(S) + IF to = "exited" THEN 1 ELSE 0
    BY <2>1, CountMove
  <2> QED BY <2>2, <2>3 DEF S
<1>5. /\ Cardinality(At(3 .. 11))' = Cardinality(At(3 .. 11)) + (IF to = "pass" /\ i \in 3 .. 11 THEN 1 ELSE 0)
                                       - (IF place[p] = "pass" /\ idx[p] \in 3 .. 11 THEN 1 ELSE 0)
      /\ place[p] = "pass" /\ idx[p] \in 3 .. 11 => Cardinality(At(3 .. 11)) >= 1
  BY <1>1, AtMove
<1>6. \A K : K = {5, 6} \cup 10 .. 13 =>
      /\ Cardinality(At(K))' = Cardinality(At(K)) + (IF to = "pass" /\ i \in K THEN 1 ELSE 0)
                                 - (IF place[p] = "pass" /\ idx[p] \in K THEN 1 ELSE 0)
      /\ place[p] = "pass" /\ idx[p] \in K => Cardinality(At(K)) >= 1
  BY <1>1, AtMove
<1> QED BY <1>3, <1>4, <1>5, <1>6 DEF Seated, OnLadder

\* A check moves nothing, unless it sends the passenger home.
LEMMA CheckKeeps ==
  ASSUME IInv, Regular, Regular', NEW p \in Process \ {Main, Ship}, check(p)
  PROVE  FamilyInv' /\ MainInv' /\ WaitInv' /\ SemInv'
<1>1. /\ place[p] = "pass" /\ PassScript[idx[p]] = Check /\ idx[p] \in 1 .. 14
      /\ sem' = sem /\ set' = set /\ GenInv /\ SemInv
  BY DEF check, IInv, GenInv
<1>2. set = "there" /\ argv # <<>>
  BY <1>1, Room
<1>3. idx[p] \in {1, 3, 5, 7, 8, 10, 12, 14}
  BY <1>1, PassCalls DEF Check, SEM_EXIT, SEM_BOAT, SEM_TRAP
<1>4. sem'[SEM_BOAT] = sem[SEM_BOAT] + 0 /\ sem'[SEM_TRAP] = sem[SEM_TRAP] + 0
  BY <1>1, <1>2, Sizes
<1>5. CASE Go(p, "pass", (idx[p] % Len(PassScript)) + 1)
  <2> DEFINE i == IF idx[p] = 14 THEN 1 ELSE idx[p] + 1
  <2>1. Go(p, "pass", i)
    BY <1>1, <1>5, PassCalls, AfterCheck
  <2>2. /\ i \in 3 .. 11 <=> idx[p] \in 3 .. 11
        /\ i \in {5, 6} \cup 10 .. 13 <=> idx[p] \in {5, 6} \cup 10 .. 13
    BY <1>3
  <2> HIDE DEF i
  <2>3. /\ Cardinality(Given)' = Cardinality(Given) + 0
        /\ Cardinality(Seated)' = Cardinality(Seated) + 0
        /\ Cardinality(OnLadder)' = Cardinality(OnLadder) + 0
        /\ Stage <= Calls - 3 => \A q \in Process \ {Main} : place'[q] \notin {"give", "exited"}
    <3>1. /\ Stage <= Calls - 3 => \A q \in Process \ {Main} : place'[q] \notin {"give", "exited"}
          /\ Cardinality(Given)' = Cardinality(Given) + 0
          /\ Cardinality(Seated)' = Cardinality(Seated) + (IF i \in 3 .. 11 THEN 1 ELSE 0)
                                      - (IF idx[p] \in 3 .. 11 THEN 1 ELSE 0)
          /\ Cardinality(OnLadder)' = Cardinality(OnLadder)
               + (IF i \in {5, 6} \cup 10 .. 13 THEN 1 ELSE 0)
               - (IF idx[p] \in {5, 6} \cup 10 .. 13 THEN 1 ELSE 0)
      BY <1>1, <2>1, PassGroups
    <3>2. Cardinality(Seated) \in Nat /\ Cardinality(OnLadder) \in Nat
      BY <1>1, <1>2, Sizes
    <3> QED BY <2>2, <3>1, <3>2
  <2>4. /\ FamilyInv' /\ MainInv' /\ WaitInv'
        /\ Stage' = Stage /\ Calls' = Calls /\ Seats' = Seats /\ numTrap' = numTrap
    BY <1>1, <2>1, PassAlone
  <2>5. SemInv'
    BY <1>1, <1>2, <1>4, <2>3, <2>4, Balanced
  <2> QED BY <2>4, <2>5
<1>6. CASE Go(p, "give", 0) /\ sem[SEM_EXIT] > 0
  <2>1. Stage > Calls - 3
    BY <1>1, <1>2, <1>6, Sizes DEF SemInv
  <2> DEFINE seat == IF idx[p] \in 3 .. 11 THEN -1 ELSE 0
             step == IF idx[p] \in {5, 6} \cup 10 .. 13 THEN -1 ELSE 0
  <2>2. /\ Cardinality(Given)' = Cardinality(Given) + 0
        /\ Cardinality(Seated)' = Cardinality(Seated) + seat
        /\ Cardinality(OnLadder)' = Cardinality(OnLadder) + step
    BY <1>1, <1>2, <1>6, <2>1, PassGroups, Sizes
  <2>3. /\ FamilyInv' /\ MainInv' /\ WaitInv'
        /\ Stage' = Stage /\ Calls' = Calls /\ Seats' = Seats /\ numTrap' = numTrap
    BY <1>1, <1>6, PassAlone
  <2>4. seat \in Int /\ step \in Int /\ 0 + seat <= 0 /\ 0 + step <= 0 /\ ~(Stage <= Calls - 3)
    BY <1>1, <1>2, <2>1, Sizes
  <2> HIDE DEF seat, step
  <2>5. SemInv'
    BY <1>1, <1>2, <1>4, <2>2, <2>3, <2>4, Balanced
  <2> QED BY <2>3, <2>5
<1> QED BY <1>1, <1>2, <1>5, <1>6 DEF check

\* A passenger's call moves a seat or a place between a semaphore and itself;
\* there is room for what it gives back.
LEMMA CallKeeps ==
  ASSUME IInv, Regular, Regular', NEW p \in Process \ {Main, Ship}, PassSteps(p)
  PROVE  FamilyInv' /\ MainInv' /\ WaitInv' /\ SemInv'
<1>1. /\ place[p] = "pass" /\ PassScript[idx[p]] # Check /\ idx[p] \in 1 .. 14
      /\ Semop(p, PassScript[idx[p]], "pass", idx[p] + 1) /\ GenInv /\ SemInv
  BY DEF PassSteps, IInv, GenInv
<1>2. /\ set = "there" /\ argv # <<>> /\ sem[SEM_BOAT] + Cardinality(Seated) <= SHRT_MAX
      /\ sem[SEM_TRAP] + Cardinality(OnLadder) <= SHRT_MAX
  <2>1. /\ set = "there" /\ argv # <<>> /\ sem[SEM_TRAP] + Cardinality(OnLadder) <= SHRT_MAX
        /\ sem[SEM_BOAT] + Cardinality(Seated) + (IF place[p] = "give" THEN 1 ELSE 0) <= SHRT_MAX
    BY <1>1, Room
  <2>2. /\ Cardinality(Seated) \in Nat /\ sem[SEM_BOAT] \in Int
    BY <1>1, <2>1, Sizes
  <2> QED BY <1>1, <2>1, <2>2
<1>3. idx[p] \in {2, 4, 6, 9, 11, 13}
  BY <1>1, PassCalls
<1> DEFINE boat == IF idx[p] = 2 THEN -1 ELSE IF idx[p] = 11 THEN 1 ELSE 0
           trap == IF idx[p] \in {4, 9} THEN -1 ELSE IF idx[p] \in {6, 13} THEN 1 ELSE 0
           s == IF boat # 0 THEN SEM_BOAT ELSE SEM_TRAP
           k == boat + trap
<1>4. /\ PassScript[idx[p]] = <<s, k>> /\ boat \in {-1, 0, 1} /\ trap \in {-1, 0, 1}
      /\ (boat = 0 <=> trap # 0) /\ k \in {-1, 1}
  BY <1>3, PassCalls
<1>5. /\ SEM_BOAT # SEM_TRAP /\ SEM_EXIT \notin {SEM_BOAT, SEM_TRAP} /\ SEM_IN \notin {SEM_BOAT, SEM_TRAP}
  BY DEF SEM_BOAT, SEM_TRAP, SEM_IN, SEM_EXIT
<1>6. /\ (IF idx[p] + 1 \in 3 .. 11 THEN 1 ELSE 0) - (IF idx[p] \in 3 .. 11 THEN 1 ELSE 0) = -boat
      /\ (IF idx[p] + 1 \in {5, 6} \cup 10 .. 13 THEN 1 ELSE 0)
           - (IF idx[p] \in {5, 6} \cup 10 .. 13 THEN 1 ELSE 0) = -trap
      /\ (boat = 1 => idx[p] \in 3 .. 11) /\ (trap = 1 => idx[p] \in {5, 6} \cup 10 .. 13)
  BY <1>3
<1>7. /\ Cardinality(Seated) \in Nat /\ Cardinality(OnLadder) \in Nat /\ Cardinality(Given) \in Nat
      /\ sem \in [Sems -> 0 .. SHRT_MAX] /\ SHRT_MAX \in Nat
      /\ SEM_BOAT \in Sems /\ SEM_TRAP \in Sems /\ SEM_IN \in Sems /\ SEM_EXIT \in Sems
  BY <1>1, <1>2, Sizes DEF GenInv
<1> HIDE DEF boat, trap, k
<1>8. /\ sem' = [sem EXCEPT ![s] = @ + k] /\ Go(p, "pass", idx[p] + 1) /\ set' = set
  <2>1. ASSUME k > 0 PROVE sem[s] + k <= SHRT_MAX
    <3>1. CASE boat = 1
      <4>1. Cardinality(Seated) >= 1
        <5>1. p \in Seated /\ Seated \in SUBSET Process
          BY <1>1, <1>6, <3>1 DEF Seated, At
        <5> QED BY <5>1, CountMove
      <4> QED BY <1>2, <1>4, <1>7, <2>1, <3>1, <4>1 DEF k
    <3>2. CASE trap = 1
      <4>1. Cardinality(OnLadder) >= 1
        <5>1. p \in OnLadder /\ OnLadder \in SUBSET Process
          BY <1>1, <1>6, <3>2 DEF OnLadder, At
        <5> QED BY <5>1, CountMove
      <4> QED BY <1>2, <1>4, <1>7, <2>1, <3>2, <4>1 DEF k
    <3> QED BY <1>4, <2>1, <3>1, <3>2 DEF k
  <2>2. Semop(p, <<s, k>>, "pass", idx[p] + 1) /\ sem[s] \in Int /\ k \in Int
    BY <1>1, <1>4, <1>7
  <2> HIDE DEF s
  <2>3. ~(k > 0 /\ sem[s] + k > SHRT_MAX)
    BY <1>7, <2>1, <2>2
  <2> QED BY <1>2, <2>2, <2>3 DEF Semop
<1>9. /\ sem'[SEM_BOAT] = sem[SEM_BOAT] + boat /\ sem'[SEM_TRAP] = sem[SEM_TRAP] + trap
      /\ sem'[SEM_EXIT] = sem[SEM_EXIT] /\ sem'[SEM_IN] = sem[SEM_IN]
  <2>1. CASE boat = 0
    BY <1>4, <1>5, <1>7, <1>8, <2>1 DEF k
  <2>2. CASE boat # 0
    <3>1. trap = 0 /\ k = boat
      BY <1>4, <2>2 DEF k
    <3> QED BY <1>5, <1>7, <1>8, <2>2, <3>1
  <2> QED BY <2>1, <2>2
<1>10. /\ Cardinality(Given)' = Cardinality(Given) + 0
       /\ Cardinality(Seated)' = Cardinality(Seated) + (-boat)
       /\ Cardinality(OnLadder)' = Cardinality(OnLadder) + (-trap)
       /\ Stage <= Calls - 3 => \A q \in Process \ {Main} : place'[q] \notin {"give", "exited"}
  <2>1. /\ Stage <= Calls - 3 => \A q \in Process \ {Main} : place'[q] \notin {"give", "exited"}
        /\ Cardinality(Given)' = Cardinality(Given) + 0
        /\ Cardinality(Seated)' = Cardinality(Seated) + (IF idx[p] + 1 \in 3 .. 11 THEN 1 ELSE 0)
                                    - (IF idx[p] \in 3 .. 11 THEN 1 ELSE 0)
        /\ Cardinality(OnLadder)' = Cardinality(OnLadder)
             + (IF idx[p] + 1 \in {5, 6} \cup 10 .. 13 THEN 1 ELSE 0)
             - (IF idx[p] \in {5, 6} \cup 10 .. 13 THEN 1 ELSE 0)
    BY <1>1, <1>8, PassGroups
  <2> QED BY <1>4, <1>6, <1>7, <2>1
<1>11. /\ FamilyInv' /\ MainInv' /\ WaitInv'
       /\ Stage' = Stage /\ Calls' = Calls /\ Seats' = Seats /\ numTrap' = numTrap
  BY <1>1, <1>8, PassAlone
<1>12. /\ boat \in Int /\ -boat \in Int /\ boat + (-boat) <= 0 /\ boat + (-boat) = 0
       /\ trap \in Int /\ -trap \in Int /\ trap + (-trap) <= 0 /\ trap + (-trap) = 0
  BY <1>4
<1>13. SemInv'
  <2> DEFINE seat == -boat
             step == -trap
  <2>1. /\ boat \in Int /\ seat \in Int /\ boat + seat <= 0 /\ boat + seat = 0
        /\ trap \in Int /\ step \in Int /\ trap + step <= 0 /\ trap + step = 0
        /\ Cardinality(Seated)' = Cardinality(Seated) + seat
        /\ Cardinality(OnLadder)' = Cardinality(OnLadder) + step
    BY <1>10, <1>12
  <2> HIDE DEF seat, step
  <2> QED BY <1>1, <1>2, <1>9, <1>10, <1>11, <2>1, Balanced
<1> QED BY <1>11, <1>13

\* The seat given at line 135 has room, and its giver has ended.
LEMMA GiveKeeps ==
  ASSUME IInv, Regular, Regular', NEW p \in Process \ {Main, Ship}, Give(p)
  PROVE  FamilyInv' /\ MainInv' /\ WaitInv' /\ SemInv'
<1>1. /\ place[p] = "give" /\ Semop(p, <<SEM_BOAT, 1>>, "exited", 0) /\ GenInv /\ SemInv
  BY DEF Give, IInv
<1>2. /\ set = "there" /\ argv # <<>> /\ Stage > Calls - 3
      /\ sem[SEM_BOAT] + Cardinality(Seated) + 1 <= SHRT_MAX
  BY <1>1, Room
<1>3. /\ SEM_BOAT # SEM_TRAP /\ SEM_BOAT # SEM_EXIT /\ SEM_BOAT # SEM_IN
  BY DEF SEM_BOAT, SEM_TRAP, SEM_IN, SEM_EXIT
<1>4. /\ Cardinality(Seated) \in Nat /\ Cardinality(OnLadder) \in Nat /\ Cardinality(Given) \in Nat
      /\ sem \in [Sems -> 0 .. SHRT_MAX] /\ SHRT_MAX \in Nat
      /\ SEM_BOAT \in Sems /\ SEM_TRAP \in Sems /\ SEM_IN \in Sems /\ SEM_EXIT \in Sems
      /\ Stage \in Int /\ Calls \in Int
  BY <1>1, <1>2, Sizes DEF GenInv
<1>5. sem' = [sem EXCEPT ![SEM_BOAT] = @ + 1] /\ Go(p, "exited", 0) /\ set' = set
  <2>1. sem[SEM_BOAT] + 1 <= SHRT_MAX /\ sem[SEM_BOAT] \in Int
    BY <1>2, <1>4
  <2>2. ~(sem[SEM_BOAT] + 1 > SHRT_MAX)
    BY <1>4, <2>1
  <2> QED BY <1>1, <1>2, <2>2 DEF Semop
<1>6. /\ sem'[SEM_BOAT] = sem[SEM_BOAT] + 1 /\ sem'[SEM_TRAP] = sem[SEM_TRAP] + 0
      /\ sem'[SEM_EXIT] = sem[SEM_EXIT] /\ sem'[SEM_IN] = sem[SEM_IN]
  BY <1>3, <1>4, <1>5
<1>7. /\ Cardinality(Given)' = Cardinality(Given) + 1
      /\ Cardinality(Seated)' = Cardinality(Seated) + 0
      /\ Cardinality(OnLadder)' = Cardinality(OnLadder) + 0
  <2>1. /\ Cardinality(Given)' = Cardinality(Given) + 1
        /\ Cardinality(Seated)' = Cardinality(Seated) + 0 - 0
        /\ Cardinality(OnLadder)' = Cardinality(OnLadder) + 0 - 0
    BY <1>1, <1>2, <1>5, PassGroups
  <2> QED BY <1>4, <2>1
<1>8. /\ FamilyInv' /\ MainInv' /\ WaitInv'
      /\ Stage' = Stage /\ Calls' = Calls /\ Seats' = Seats /\ numTrap' = numTrap
  BY <1>1, <1>5, PassAlone
<1>9. ~(Stage <= Calls - 3) /\ 1 + 0 <= 1 /\ 0 + 0 <= 0
  BY <1>2, <1>4
<1>10. SemInv'
  BY <1>1, <1>2, <1>6, <1>7, <1>8, <1>9, Balanced
<1> QED BY <1>8, <1>10

-----------------------------------------------------------------------------
(***************************************************************************)
(* The ship                                                                *)
(***************************************************************************)

\* The ship's step leaves the passengers, main and its account of children alone.
LEMMA ShipAlone ==
  ASSUME IInv, Regular, Regular', place[Ship] = "ship", set = "there", set' = set,
         NEW to \in {"ship", "exited"}, NEW i, Go(Ship, to, i)
  PROVE  /\ FamilyInv' /\ MainInv' /\ WaitInv'
         /\ argv' = argv /\ Calls' = Calls /\ numTrap' = numTrap /\ numShip' = numShip
         /\ place'[Ship] = to /\ idx'[Ship] = i
         /\ Seated' = Seated /\ OnLadder' = OnLadder /\ Given' = Given
         /\ \A q \in Process \ {Main, Ship} : place'[q] = place[q]
<1>1. GenInv /\ FamilyInv /\ MainInv /\ WaitInv /\ Ship \in Process
  BY Names DEF IInv
<1>2. /\ argv' = argv /\ place' = [place EXCEPT ![Ship] = to] /\ idx' = [idx EXCEPT ![Ship] = i]
      /\ place \in [Process -> Places] /\ idx = [q \in Process |-> idx[q]]
  BY <1>1 DEF Go, GenInv
<1>3. \A q \in Process : /\ place'[q] = IF q = Ship THEN to ELSE place[q]
                         /\ idx'[q] = IF q = Ship THEN i ELSE idx[q]
  BY <1>2
<1>4. place'[Main] = place[Main] /\ idx'[Main] = idx[Main] /\ place'[Ship] = to /\ idx'[Ship] = i
  BY <1>3, Names
<1>5. numTrap' = numTrap /\ numShip' = numShip /\ numPeople' = numPeople /\ numTrips' = numTrips
  BY <1>2 DEF numTrap, numShip, numPeople, numTrips
<1>6. Calls' = Calls
  BY <1>5 DEF Calls
<1>7. \A K : At(K)' = At(K)
  BY <1>3 DEF At
<1>8. Seated' = Seated /\ OnLadder' = OnLadder
  BY <1>7 DEF Seated, OnLadder
<1>9. Given' = Given
  BY <1>3 DEF Given
<1>10. FamilyInv'
  BY <1>1, <1>3, <1>4, <1>5 DEF FamilyInv
<1>11. MainInv'
  <2>1. place[Main] \in {"fork", "wait"}
    BY <1>1 DEF MainInv
  <2>2. ASSUME place[Main] = "fork", NEW k \in -1 .. MaxPeople - 1, k >= idx[Main] PROVE place'[{k}] = "unborn"
    <3>1. place[{k}] = "unborn" /\ {k} \in Process
      BY <1>1, <2>2, Names DEF MainInv
    <3> QED BY <3>1, <1>3
  <2> QED BY <1>1, <1>4, <1>5, <2>1, <2>2 DEF MainInv
<1>12. WaitInv'
  <2> SUFFICES ASSUME place[Main] = "wait"
               PROVE  /\ idx[Main] \in Short
                      /\ \/ idx[Main] <= Cardinality(EndedChildren')
                         \/ Cardinality(EndedChildren') = Cardinality(Children')
    BY <1>4 DEF WaitInv
  <2>1. idx[Main] \in Short
    BY <1>1 DEF WaitInv
  <2>2. /\ Children \in SUBSET Process /\ EndedChildren \in SUBSET Children /\ EndedChildren' \in SUBSET Process
        /\ EndedChildren \in SUBSET EndedChildren' /\ Ship \in Children /\ Ship \notin EndedChildren
    BY <1>1, <1>3, Names DEF Children, EndedChildren
  <2>3. Cardinality(EndedChildren) # Cardinality(Children)
    BY <2>2, Finite, FS_Subset
  <2>4. Cardinality(EndedChildren) <= Cardinality(EndedChildren')
    BY <2>2, Finite, FS_Subset
  <2>5. Cardinality(EndedChildren) \in Nat /\ Cardinality(EndedChildren') \in Nat
    BY <2>2, Finite
  <2> QED BY <1>1, <2>1, <2>3, <2>4, <2>5 DEF WaitInv, Short
<1> QED BY <1>2, <1>4, <1>5, <1>6, <1>8, <1>9, <1>10, <1>11, <1>12, <1>3

\* What holds before and after the n-th call, for the counts the semaphores are
\* weighed against.
Account(n, b, t, e, j, S, L, G) ==
  /\ e = IF n <= Calls - 3 THEN 0 ELSE 1
  /\ j <= 1
  /\ n = 1 \/ n = Calls - 2 \/ (n <= Calls - 3 /\ n % 4 = 2) => j = 0
  /\ n <= Calls - 3 =>
       /\ b + S = IF n = 1 THEN 0 ELSE numShip
       /\ t + L = IF n % 4 = 0 THEN numTrap ELSE 0
  /\ n > Calls - 3 =>
       /\ b + S <= (IF n <= Calls THEN numShip ELSE numShip + numShip) + G
       /\ t + L <= IF n < Calls THEN 0 ELSE SHRT_MAX

LEMMA CallAccounted ==
  ASSUME argv \in Argvs, argv # <<>>, NEW n \in 1 .. Calls, NEW s \in Sems, NEW k \in Int,
         ShipScript[n] = <<s, k>>,
         NEW b \in Nat, NEW t \in Nat, NEW e \in Nat, NEW j \in Nat,
         b <= SHRT_MAX, t <= SHRT_MAX,
         NEW S \in Nat, NEW L \in Nat, NEW G \in Nat, Account(n, b, t, e, j, S, L, G),
         n > Calls - 3 => G + 2 * numShip <= SHRT_MAX
  PROVE  /\ s = SEM_BOAT => /\ b + k <= SHRT_MAX
                            /\ b + k >= 0 => Account(n + 1, b + k, t, e, j, S, L, G)
         /\ s = SEM_TRAP => /\ t + k <= SHRT_MAX
                            /\ t + k >= 0 => Account(n + 1, b, t + k, e, j, S, L, G)
         /\ s = SEM_EXIT => /\ e + k <= SHRT_MAX
                            /\ e + k >= 0 => Account(n + 1, b, t, e + k, j, S, L, G)
         /\ s = SEM_IN => /\ j + k <= SHRT_MAX
                          /\ j + k >= 0 => Account(n + 1, b, t, e, j + k, S, L, G)
<1>1. /\ numShip \in Int /\ numTrap \in Int /\ SHRT_MAX \in Nat \ {0} /\ numShip <= SHRT_MAX /\ numTrap <= SHRT_MAX
      /\ ToShort(-numTrap) \in Int /\ ToShort(numTrap + BIG) \in Int /\ ToShort(numTrap + BIG) <= SHRT_MAX
      /\ (numTrap >= 0 => ToShort(-numTrap) = -numTrap) /\ Calls \in Nat /\ Calls >= 5
  BY Args, BoatFirstAssumption DEF Short
<1>2. Calls % 4 = 1 /\ (Calls - 3) % 4 = 2
  <2> DEFINE T == IF numTrips > 0 THEN numTrips ELSE 0
  <2>0. numTrips \in Int
    BY Args, BoatFirstAssumption DEF Short
  <2>1. T \in Nat /\ Calls = 4 * T + 5
    BY <2>0 DEF Calls
  <2>2. \A x \in Nat : (4 * x + 5) % 4 = 1 /\ (4 * x + 2) % 4 = 2
    OBVIOUS
  <2> HIDE DEF T
  <2>3. Calls - 3 = 4 * T + 2
    BY <2>1
  <2> QED BY <2>1, <2>2, <2>3
<1>3. /\ SEM_BOAT # SEM_TRAP /\ SEM_BOAT # SEM_EXIT /\ SEM_BOAT # SEM_IN
      /\ SEM_TRAP # SEM_EXIT /\ SEM_TRAP # SEM_IN /\ SEM_EXIT # SEM_IN
  BY DEF SEM_BOAT, SEM_TRAP, SEM_IN, SEM_EXIT
<1>4. n % 4 \in {0, 1, 2, 3}
      /\ (n % 4 = 0 => (n + 1) % 4 = 1) /\ (n % 4 = 1 => (n + 1) % 4 = 2)
      /\ (n % 4 = 2 => (n + 1) % 4 = 3) /\ (n % 4 = 3 => (n + 1) % 4 = 0)
  <2>1. \A x \in Nat : x % 4 \in {0, 1, 2, 3}
      /\ (x % 4 = 0 => (x + 1) % 4 = 1) /\ (x % 4 = 1 => (x + 1) % 4 = 2)
      /\ (x % 4 = 2 => (x + 1) % 4 = 3) /\ (x % 4 = 3 => (x + 1) % 4 = 0)
    OBVIOUS
  <2> QED BY <2>1
<1>5. n = 1 \/ n \in 2 .. Calls - 4 \/ n = Calls - 3 \/ n = Calls - 2 \/ n = Calls - 1 \/ n = Calls
  BY <1>1
<1>6. CASE n = 1
  <2>1. s = SEM_BOAT /\ k = numShip
    BY <1>6, Script
  <2>2. b = 0 /\ S = 0 /\ t + L = 0 /\ e = 0 /\ j = 0
    BY <1>1, <1>6 DEF Account
  <2>3. (n + 1) % 4 = 2 /\ n + 1 <= Calls - 3 /\ n + 1 # 1
    BY <1>1, <1>6
  <2>4. Account(n + 1, b + k, t, e, j, S, L, G)
    BY <1>1, <2>1, <2>2, <2>3 DEF Account
  <2> QED BY <1>1, <1>3, <2>1, <2>2, <2>4
<1>7. CASE n \in 2 .. Calls - 4
  <2>1. <<s, k>> = TripCall(n)
    BY <1>7, Script
  <2>2. /\ e = 0 /\ j <= 1 /\ b + S = numShip /\ n <= Calls - 3 /\ n # 1
        /\ t + L = IF n % 4 = 0 THEN numTrap ELSE 0
    BY <1>1, <1>7 DEF Account
  <2>3. n + 1 <= Calls - 3 /\ n + 1 # 1 /\ n + 1 # Calls - 2 /\ ~(n + 1 > Calls - 3)
    BY <1>1, <1>7
  <2>4. CASE n % 4 = 2
    <3>1. s = SEM_IN /\ k = 1 /\ j = 0 /\ (n + 1) % 4 = 3
      BY <1>4, <2>1, <2>2, <2>4 DEF TripCall, Account
    <3>2. j + k <= 1 /\ (n + 1) % 4 # 2 /\ (n + 1) % 4 # 0 /\ t + L = 0
      BY <2>2, <2>4, <3>1
    <3>3. Account(n + 1, b, t, e, j + k, S, L, G)
      BY <2>2, <2>3, <3>2 DEF Account
    <3> QED BY <1>1, <1>3, <3>1, <3>3
  <2>5. CASE n % 4 = 3
    <3>1. s = SEM_TRAP /\ k = numTrap /\ (n + 1) % 4 = 0 /\ t = 0 /\ L = 0
      BY <1>4, <2>1, <2>2, <2>5 DEF TripCall
    <3>2. Account(n + 1, b, t + k, e, j, S, L, G)
      BY <1>1, <2>2, <2>3, <3>1 DEF Account
    <3> QED BY <1>1, <1>3, <3>1, <3>2
  <2>6. CASE n % 4 = 0
    <3>0. s = SEM_TRAP /\ k = ToShort(-numTrap) /\ (n + 1) % 4 = 1 /\ t + L = numTrap
      BY <1>4, <2>1, <2>2, <2>6 DEF TripCall
    <3>1. s = SEM_TRAP /\ k = -numTrap /\ (n + 1) % 4 = 1 /\ t + L = numTrap
      <4>1. numTrap >= 0
        BY <3>0
      <4> QED BY <1>1, <3>0, <4>1
    <3>2. Account(n + 1, b, t + k, e, j, S, L, G)
      BY <1>1, <2>2, <2>3, <3>1 DEF Account
    <3> QED BY <1>1, <1>3, <3>1, <3>2
  <2>7. CASE n % 4 = 1
    <3>1. s = SEM_IN /\ k = -1 /\ (n + 1) % 4 = 2 /\ t + L = 0
      BY <1>4, <2>1, <2>2, <2>7 DEF TripCall
    <3>2. ASSUME j + k >= 0 PROVE Account(n + 1, b, t, e, j + k, S, L, G)
      <4> DEFINE in == j + k
      <4>1. in = 0 /\ in <= 1 /\ (n + 1) % 4 # 0
        BY <2>2, <3>1, <3>2
      <4> HIDE DEF in
      <4>2. t + L = IF (n + 1) % 4 = 0 THEN numTrap ELSE 0
        BY <3>1, <4>1
      <4>3. Account(n + 1, b, t, e, in, S, L, G)
        BY <2>2, <2>3, <4>1, <4>2 DEF Account
      <4> QED BY <4>3 DEF in
    <3> QED BY <1>1, <1>3, <2>2, <3>1, <3>2
  <2> QED BY <1>4, <2>4, <2>5, <2>6, <2>7
<1>8. CASE n = Calls - 3
  <2>1. s = SEM_EXIT /\ k = 1
    BY <1>8, Script
  <2>2. /\ e = 0 /\ j = 0 /\ b + S = numShip /\ t + L = 0
    <3>1. n <= Calls - 3 /\ n # 1 /\ n % 4 = 2 /\ n % 4 # 0
      BY <1>1, <1>2, <1>8
    <3> QED BY <3>1 DEF Account
  <2>3. Account(n + 1, b, t, e + k, j, S, L, G)
    BY <1>1, <1>8, <2>1, <2>2 DEF Account
  <2> QED BY <1>1, <1>3, <2>1, <2>2, <2>3
<1>9. CASE n = Calls - 2
  <2>1. s = SEM_IN /\ k = 1
    BY <1>9, Script
  <2>2. e = 1 /\ j = 0 /\ b + S <= numShip + G /\ t + L <= 0
    <3>1. n > Calls - 3 /\ ~(n <= Calls - 3) /\ n <= Calls /\ n < Calls
      BY <1>1, <1>9
    <3> QED BY <1>9, <3>1 DEF Account
  <2>3. Account(n + 1, b, t, e, j + k, S, L, G)
    BY <1>1, <1>9, <2>1, <2>2 DEF Account
  <2> QED BY <1>1, <1>3, <2>1, <2>2, <2>3
<1>10. CASE n = Calls - 1
  <2>1. s = SEM_TRAP /\ k = ToShort(numTrap + BIG)
    BY <1>10, Script
  <2>2. e = 1 /\ j <= 1 /\ b + S <= numShip + G /\ t = 0 /\ L = 0
    BY <1>1, <1>10 DEF Account
  <2>3. Account(n + 1, b, t + k, e, j, S, L, G)
    BY <1>1, <1>10, <2>1, <2>2 DEF Account
  <2> QED BY <1>1, <1>3, <2>1, <2>2, <2>3
<1>11. CASE n = Calls
  <2>1. s = SEM_BOAT /\ k = numShip
    BY <1>11, Script
  <2>2. e = 1 /\ j <= 1 /\ b + S <= numShip + G /\ t + L <= SHRT_MAX
    <3>1. n > Calls - 3 /\ ~(n <= Calls - 3) /\ n <= Calls /\ ~(n < Calls)
      BY <1>1, <1>11
    <3> QED BY <1>11, <3>1 DEF Account
  <2>3. Account(n + 1, b + k, t, e, j, S, L, G)
    <3>1. /\ n + 1 > Calls - 3 /\ ~(n + 1 <= Calls - 3) /\ ~(n + 1 <= Calls) /\ ~(n + 1 < Calls)
          /\ n + 1 # 1 /\ n + 1 # Calls - 2
      BY <1>1, <1>11
    <3>2. (b + k) + S <= (numShip + numShip) + G
      BY <1>1, <2>1, <2>2
    <3> QED BY <2>2, <3>1, <3>2 DEF Account
  <2>4. b + k <= SHRT_MAX
    <3>1. G + 2 * numShip <= SHRT_MAX
      BY <1>1, <1>11
    <3>2. b + S <= numShip + G /\ k = numShip /\ b \in Nat /\ S \in Nat /\ G \in Nat /\ numShip \in Int
      BY <1>1, <2>1, <2>2
    <3>3. \A x, y, z \in Nat : \A u, v \in Int : x + y <= u + z /\ z + 2 * u <= v => x + u <= v
      OBVIOUS
    <3> QED BY <1>1, <3>1, <3>2, <3>3
  <2> QED BY <1>1, <1>3, <2>1, <2>3, <2>4
<1> QED BY <1>5, <1>6, <1>7, <1>8, <1>9, <1>10, <1>11

\* The semaphores' account is SemInv's, whatever the ship's stage.
Accounted ==
  /\ Account(Stage, sem[SEM_BOAT], sem[SEM_TRAP], sem[SEM_EXIT], sem[SEM_IN],
             Cardinality(Seated), Cardinality(OnLadder), Cardinality(Given))
  /\ Stage <= Calls - 3 => \A q \in Process \ {Main} : place[q] \notin {"give", "exited"}
There == argv # <<>> /\ set = "there"

LEMMA AccountIs == GenInv /\ There => (SemInv <=> Accounted)
<1> HAVE GenInv /\ There
<1>1. Stage \in Int /\ Calls \in Int /\ Calls >= 5
  BY Sizes DEF There
<1>2. Stage <= Calls - 3 => Seats = IF Stage = 1 THEN 0 ELSE numShip
  BY <1>1 DEF Seats
<1>3. Stage > Calls - 3 => Seats = IF Stage <= Calls THEN numShip ELSE numShip + numShip
  BY <1>1 DEF Seats
<1> QED BY <1>1, <1>2, <1>3 DEF SemInv, Account, Accounted, There

\* The ship's call finds room and keeps the account.
LEMMA ShipKeeps ==
  ASSUME IInv, Regular, Regular', ShipSteps, GenInv'
  PROVE  FamilyInv' /\ MainInv' /\ WaitInv' /\ SemInv'
<1> DEFINE n == idx[Ship]
           S == Cardinality(Seated)
           L == Cardinality(OnLadder)
           G == Cardinality(Given)
<1>1. GenInv /\ FamilyInv /\ MainInv /\ SemInv /\ place[Ship] = "ship" /\ n \in 1 .. Calls /\ Ship \in Process
  BY Names DEF IInv, GenInv, ShipSteps
<1>2. set = "there" /\ argv # <<>> /\ argv \in Argvs
  BY <1>1, Names DEF GenInv, MainInv
<1>3. Len(ShipScript) = Calls /\ Calls \in Nat /\ Calls >= 5
  BY <1>2, Script, Args
<1> DEFINE to == IF n = Calls THEN "exited" ELSE "ship"
           i == IF n = Calls THEN 0 ELSE n + 1
<1>4. PICK s \in Sems, k \in Int : ShipScript[n] = <<s, k>>
  BY <1>1, <1>2, ShipCall
<1>5. Semop(Ship, <<s, k>>, to, i)
  BY <1>1, <1>3, <1>4 DEF ShipSteps
<1>6. Stage = n
  BY <1>1 DEF Stage
<1>7. /\ S \in Nat /\ L \in Nat /\ G \in Nat /\ sem \in [Sems -> 0 .. SHRT_MAX] /\ SHRT_MAX \in Nat
      /\ numShip \in Int /\ numPeople \in Int
      /\ sem[SEM_BOAT] \in Nat /\ sem[SEM_BOAT] <= SHRT_MAX /\ sem[SEM_TRAP] \in Nat /\ sem[SEM_TRAP] <= SHRT_MAX
      /\ sem[SEM_IN] \in Nat /\ sem[SEM_EXIT] \in Nat
      /\ SEM_BOAT \in Sems /\ SEM_TRAP \in Sems /\ SEM_IN \in Sems /\ SEM_EXIT \in Sems
  BY <1>1, <1>2, Sizes DEF GenInv, Short
<1>8. Account(n, sem[SEM_BOAT], sem[SEM_TRAP], sem[SEM_EXIT], sem[SEM_IN], S, L, G)
  BY <1>1, <1>2, <1>6, AccountIs DEF Accounted, There
<1>9. ASSUME n > Calls - 3 PROVE G + 2 * numShip <= SHRT_MAX
  <2>1. sem[SEM_EXIT] = 1
    BY <1>1, <1>3, <1>8, <1>9 DEF Account
  <2>2. numPeople >= 0 /\ 2 * numShip + numPeople <= SHRT_MAX
    BY <1>2, <2>1 DEF Regular, Early, Roomy
  <2>3. G <= numPeople
    <3>1. Given \in SUBSET (Process \ {Main, Ship}) /\ (\A q \in Given : place[q] # "unborn") /\ numPeople \in Nat
      BY <1>7, <2>2 DEF Given
    <3> QED BY <1>1, <3>1, People
  <2> HIDE DEF G
  <2> QED BY <1>7, <2>2, <2>3
<1> HIDE DEF n, S, L, G, to, i
<1>10. /\ s = SEM_BOAT => /\ sem[SEM_BOAT] + k <= SHRT_MAX
                          /\ sem[SEM_BOAT] + k >= 0 =>
                               Account(n + 1, sem[SEM_BOAT] + k, sem[SEM_TRAP], sem[SEM_EXIT], sem[SEM_IN], S, L, G)
       /\ s = SEM_TRAP => /\ sem[SEM_TRAP] + k <= SHRT_MAX
                          /\ sem[SEM_TRAP] + k >= 0 =>
                               Account(n + 1, sem[SEM_BOAT], sem[SEM_TRAP] + k, sem[SEM_EXIT], sem[SEM_IN], S, L, G)
       /\ s = SEM_EXIT => /\ sem[SEM_EXIT] + k <= SHRT_MAX
                          /\ sem[SEM_EXIT] + k >= 0 =>
                               Account(n + 1, sem[SEM_BOAT], sem[SEM_TRAP], sem[SEM_EXIT] + k, sem[SEM_IN], S, L, G)
       /\ s = SEM_IN => /\ sem[SEM_IN] + k <= SHRT_MAX
                        /\ sem[SEM_IN] + k >= 0 =>
                             Account(n + 1, sem[SEM_BOAT], sem[SEM_TRAP], sem[SEM_EXIT], sem[SEM_IN] + k, S, L, G)
  BY <1>1, <1>2, <1>4, <1>7, <1>8, <1>9, CallAccounted
<1>11. s = SEM_BOAT \/ s = SEM_TRAP \/ s = SEM_EXIT \/ s = SEM_IN
  BY <1>4 DEF Sems
<1>12. sem[s] + k <= SHRT_MAX /\ sem[s] \in Int /\ k \in Int
  BY <1>4, <1>7, <1>10, <1>11
<1>13. /\ sem' = [sem EXCEPT ![s] = @ + k] /\ Go(Ship, to, i) /\ set' = set /\ sem[s] + k >= 0
  <2>1. ~(sem[s] + k > SHRT_MAX)
    BY <1>7, <1>12
  <2> QED BY <1>2, <1>5, <1>7, <1>12, <2>1 DEF Semop
<1>14. Account(n + 1, sem'[SEM_BOAT], sem'[SEM_TRAP], sem'[SEM_EXIT], sem'[SEM_IN], S, L, G)
  <2>1. /\ sem'[s] = sem[s] + k
        /\ \A r \in Sems : r # s => sem'[r] = sem[r]
    BY <1>4, <1>7, <1>13
  <2>2. /\ SEM_BOAT # SEM_TRAP /\ SEM_BOAT # SEM_EXIT /\ SEM_BOAT # SEM_IN
        /\ SEM_TRAP # SEM_EXIT /\ SEM_TRAP # SEM_IN /\ SEM_EXIT # SEM_IN
    BY DEF SEM_BOAT, SEM_TRAP, SEM_IN, SEM_EXIT
  <2>3. CASE s = SEM_BOAT
    BY <1>7, <1>10, <1>13, <2>1, <2>2, <2>3
  <2>4. CASE s = SEM_TRAP
    BY <1>7, <1>10, <1>13, <2>1, <2>2, <2>4
  <2>5. CASE s = SEM_EXIT
    BY <1>7, <1>10, <1>13, <2>1, <2>2, <2>5
  <2>6. CASE s = SEM_IN
    BY <1>7, <1>10, <1>13, <2>1, <2>2, <2>6
  <2> QED BY <1>11, <2>3, <2>4, <2>5, <2>6
<1>15. to \in {"ship", "exited"}
  BY DEF to
<1>16. /\ FamilyInv' /\ MainInv' /\ WaitInv'
       /\ argv' = argv /\ Calls' = Calls /\ numTrap' = numTrap /\ numShip' = numShip
       /\ place'[Ship] = to /\ idx'[Ship] = i
       /\ Seated' = Seated /\ OnLadder' = OnLadder /\ Given' = Given
       /\ \A q \in Process \ {Main, Ship} : place'[q] = place[q]
  BY <1>1, <1>2, <1>13, <1>15, ShipAlone
<1>17. Stage' = n + 1
  <2>1. CASE n = Calls
    BY <1>16, <2>1 DEF Stage, to
  <2>2. CASE n # Calls
    BY <1>16, <2>2 DEF Stage, to, i
  <2> QED BY <2>1, <2>2
<1>18. ASSUME n + 1 <= Calls - 3 PROVE \A q \in Process \ {Main} : place'[q] \notin {"give", "exited"}
  <2>1. n <= Calls - 3 /\ n # Calls
    BY <1>1, <1>3, <1>18
  <2>2. \A q \in Process \ {Main} : place[q] \notin {"give", "exited"}
    BY <1>1, <1>2, <1>6, <2>1 DEF SemInv
  <2>3. place'[Ship] = "ship"
    BY <1>16, <2>1 DEF to
  <2> QED BY <1>16, <2>2, <2>3
<1>19. SemInv'
  <2>1. GenInv' /\ There'
    BY <1>2, <1>13, <1>16 DEF There
  <2>2. Accounted'
    BY <1>14, <1>16, <1>17, <1>18 DEF Account, Accounted, S, L, G
  <2> QED BY <2>1, <2>2, AccountIs, PTL
<1> QED BY <1>16, <1>19

-----------------------------------------------------------------------------
(***************************************************************************)
(* main                                                                    *)
(***************************************************************************)

\* main starts with nobody else there.
LEMMA StartKeeps ==
  ASSUME IInv, Start, GenInv'
  PROVE  FamilyInv' /\ MainInv' /\ WaitInv' /\ SemInv'
<1>1. GenInv /\ place[Main] = "start" /\ set = "none" /\ sem' = sem /\ Main \in Process /\ Ship \in Process /\ Ship # Main
  BY Names DEF IInv, GenInv, Start
<1>2. /\ sem = [s \in Sems |-> 0] /\ \A q \in Process \ {Main} : place[q] = "unborn"
  BY <1>1 DEF IInv, Regular, MainInv
<1>3. PICK to \in {"exited", "failed", "fork"}, i \in {0, -1} :
        /\ Go(Main, to, i)
        /\ \/ to \in {"exited", "failed"} /\ set' = "none"
           \/ to = "fork" /\ i = -1 /\ set' = "there" /\ argv # <<>>
  BY <1>1 DEF Start
<1>4. /\ argv' = argv /\ place' = [place EXCEPT ![Main] = to] /\ idx' = [idx EXCEPT ![Main] = i]
      /\ place \in [Process -> Places] /\ idx = [q \in Process |-> idx[q]]
  BY <1>1, <1>3 DEF Go, GenInv
<1>5. place'[Main] = to /\ idx'[Main] = i /\ \A q \in Process \ {Main} : place'[q] = "unborn"
  BY <1>1, <1>2, <1>4
<1>6. FamilyInv'
  BY <1>1, <1>5 DEF FamilyInv
<1>7. MainInv'
  <2>1. \A k \in -1 .. MaxPeople - 1 : place'[{k}] = "unborn"
    BY <1>5, Names
  <2>2. -1 \in Int /\ -1 <= -1
    OBVIOUS
  <2>3. CASE set' = "none"
    <3>1. to \in {"exited", "failed"}
      BY <1>3, <2>3
    <3> QED BY <1>1, <1>2, <1>5, <2>3, <3>1 DEF MainInv
  <2>4. CASE set' = "there"
    <3>1. to = "fork" /\ i = -1
      BY <1>3, <2>4
    <3> QED BY <1>5, <2>1, <2>2, <2>4, <3>1 DEF MainInv
  <2> QED BY <1>3, <2>3, <2>4
<1>8. WaitInv'
  BY <1>3, <1>5 DEF WaitInv
<1>9. ASSUME set' = "there" PROVE SemInv'
  <2>1. argv # <<>> /\ place'[Main] # "pass" /\ place'[Ship] = "unborn"
    BY <1>1, <1>3, <1>5, <1>9
  <2>2. Seated' = {} /\ OnLadder' = {} /\ Given' = {}
    BY <1>5, <2>1 DEF Seated, OnLadder, Given, At
  <2>3. Cardinality(Seated') = 0 /\ Cardinality(OnLadder') = 0 /\ Cardinality(Given') = 0
    BY <2>2, FS_EmptySet
  <2>4. Stage' = 1
    BY <2>1 DEF Stage
  <2>5. Calls' = Calls /\ Calls \in Nat /\ Calls >= 5
    BY <1>1, <1>4, <2>1, Args DEF GenInv, Calls, numTrips
  <2>6. sem'[SEM_BOAT] = 0 /\ sem'[SEM_TRAP] = 0 /\ sem'[SEM_IN] = 0 /\ sem'[SEM_EXIT] = 0
    BY <1>1, <1>2 DEF Sems
  <2>7. \A q \in Process \ {Main} : place'[q] \notin {"give", "exited"}
    BY <1>5
  <2>8. Account(1, 0, 0, 0, 0, 0, 0, 0)'
    BY <2>5 DEF Account
  <2>9. Accounted'
    BY <2>3, <2>4, <2>5, <2>6, <2>7, <2>8 DEF Account, Accounted
  <2>10. There'
    BY <1>4, <1>9, <2>1 DEF There
  <2> QED BY <2>9, <2>10, AccountIs, PTL
<1>10. SemInv'
  BY <1>9 DEF SemInv
<1> QED BY <1>6, <1>7, <1>8, <1>10

\* A process that takes up no place of the account changes none of it.
LEMMA Unaccounted ==
  ASSUME GenInv, GenInv', There, SemInv, UNCHANGED <<argv, set, sem>>, Stage' = Stage,
         \A q \in Process \ {Main} : \/ place'[q] = place[q] /\ idx'[q] = idx[q]
                                     \/ /\ place[q] = "unborn"
                                        /\ place'[q] = "ship" \/ (place'[q] = "pass" /\ idx'[q] = 1),
         place[Main] # "pass", place'[Main] # "pass"
  PROVE  SemInv'
<1>1. \A K : 1 \notin K => At(K)' = At(K)
  BY DEF At
<1>2. Seated' = Seated /\ OnLadder' = OnLadder
  <2>1. 1 \notin 3 .. 11 /\ 1 \notin {5, 6} \cup 10 .. 13
    OBVIOUS
  <2> QED BY <1>1, <2>1 DEF Seated, OnLadder
<1>3. Given' = Given
  BY DEF Given
<1>4. Calls' = Calls /\ numTrap' = numTrap /\ numShip' = numShip
  BY DEF Calls, numTrap, numShip, numTrips
<1>5. Accounted
  BY AccountIs
<1>6. Accounted'
  BY <1>2, <1>3, <1>4, <1>5 DEF Accounted, Account
<1>7. There'
  BY DEF There
<1> QED BY <1>6, <1>7, AccountIs, PTL

\* main forks the ship, then the passengers in their order.
LEMMA ForkKeeps ==
  ASSUME IInv, Regular, Fork(Main), GenInv'
  PROVE  FamilyInv' /\ MainInv' /\ WaitInv' /\ SemInv'
<1> DEFINE i == idx[Main]
           c == {i}
           to == IF i + 1 < numPeople THEN "fork" ELSE "wait"
           j == IF i + 1 < numPeople THEN i + 1 ELSE 0
<1>1. /\ GenInv /\ FamilyInv /\ MainInv /\ SemInv /\ place[Main] = "fork" /\ UNCHANGED <<set, sem>>
      /\ Main \in Process /\ Ship \in Process /\ Ship # Main
  BY Names DEF IInv, Fork
<1>2. set = "there" /\ argv # <<>> /\ argv \in Argvs
  BY <1>1 DEF GenInv, MainInv
<1>3. numPeople \in Int /\ numPeople <= MaxPeople /\ MaxPeople \in Nat /\ i \in Int /\ -1 <= i
      /\ (i = -1 \/ i < numPeople)
      /\ \A k \in -1 .. MaxPeople - 1 : k >= i => place[{k}] = "unborn"
  <2>1. numPeople \in Int /\ numPeople <= MaxPeople /\ MaxPeople \in Nat
    BY <1>2, Args, BoatFirstAssumption DEF Short
  <2>2. /\ i \in Int /\ -1 <= i /\ (i = -1 \/ i < numPeople)
        /\ \A k \in -1 .. MaxPeople - 1 : k >= i => place[{k}] = "unborn"
    BY <1>1 DEF MainInv
  <2> QED BY <2>1, <2>2
<1>4. i \in -1 .. MaxPeople - 1
  BY <1>3
<1>5. c \in Process /\ c # Main /\ place[c] = "unborn" /\ Main \cup {i} = c /\ (i = -1 <=> c = Ship)
  <2>1. place[{i}] = "unborn"
    <3>1. i >= i
      BY <1>3
    <3> QED BY <1>3, <1>4, <3>1
  <2>2. {i} = {-1} => i = -1
    OBVIOUS
  <2> QED BY <1>4, <2>1, <2>2, Names DEF Main, Ship
<1>6. /\ argv' = argv
      /\ \/ place' = [place EXCEPT ![Main] = to] /\ idx' = [idx EXCEPT ![Main] = j]
         \/ /\ place' = [place EXCEPT ![c] = IF i = -1 THEN "ship" ELSE "pass", ![Main] = to]
            /\ idx' = [idx EXCEPT ![c] = 1, ![Main] = j]
  <2>1. \/ Loop(Main, i + 1)
        \/ /\ UNCHANGED argv
           /\ place' = [place EXCEPT ![Main \cup {i}] = IF i = -1 THEN "ship" ELSE "pass", ![Main] = to]
           /\ idx' = [idx EXCEPT ![Main \cup {i}] = 1, ![Main] = j]
    BY DEF Fork
  <2>2. Loop(Main, i + 1) => /\ UNCHANGED argv /\ place' = [place EXCEPT ![Main] = to]
                             /\ idx' = [idx EXCEPT ![Main] = j]
    <3> HIDE DEF i
    <3> QED BY DEF Loop, Go
  <2>3. Main \cup {i} = c
    BY <1>5
  <2> HIDE DEF c, to, i, j
  <2> QED BY <2>1, <2>2, <2>3
<1>7. place \in [Process -> Places] /\ idx = [q \in Process |-> idx[q]]
  BY <1>1 DEF GenInv
<1> HIDE DEF i, c, to, j
<1>8. /\ place'[Main] = to /\ idx'[Main] = j
      /\ \A q \in Process \ {Main} : q # c => place'[q] = place[q] /\ idx'[q] = idx[q]
      /\ \/ place'[c] = place[c] /\ idx'[c] = idx[c]
         \/ place'[c] = (IF i = -1 THEN "ship" ELSE "pass") /\ idx'[c] = 1
  BY <1>1, <1>5, <1>6, <1>7
<1>9. numPeople' = numPeople
  BY <1>6 DEF numPeople
<1>10. FamilyInv'
  <2>1. place'[Ship] \in {"unborn", "ship", "exited"}
    BY <1>1, <1>5, <1>8 DEF FamilyInv
  <2>2. ASSUME NEW q \in Process \ {Main, Ship}
        PROVE  /\ place'[q] \in {"unborn", "pass", "give", "exited"}
               /\ place'[q] # "unborn" => \E k \in 0 .. numPeople - 1 : q = {k}
    <3>1. CASE q = c
      <4>1. i # -1 /\ i \in 0 .. numPeople - 1
        BY <1>3, <1>5, <2>2, <3>1
      <4>2. q = {i}
        BY <3>1 DEF c
      <4> QED BY <1>5, <1>8, <3>1, <4>1, <4>2
    <3>2. CASE q # c
      BY <1>1, <1>8, <3>2 DEF FamilyInv
    <3> QED BY <3>1, <3>2
  <2> QED BY <1>9, <2>1, <2>2 DEF FamilyInv
<1>11. MainInv'
  <2>1. to \in {"fork", "wait"} /\ (to = "fork" => i + 1 < numPeople /\ j = i + 1)
    BY DEF to, j
  <2>2. ASSUME to = "fork"
        PROVE  /\ j \in Int /\ -1 <= j /\ (j = -1 \/ j < numPeople)
               /\ \A k \in -1 .. MaxPeople - 1 : k >= j => place'[{k}] = "unborn"
    <3>1. j \in Int /\ -1 <= j /\ j < numPeople
      BY <1>3, <2>1, <2>2
    <3>2. ASSUME NEW k \in -1 .. MaxPeople - 1, k >= j PROVE place'[{k}] = "unborn"
      <4>1. k >= i /\ k # i
        BY <1>3, <2>1, <2>2, <3>2
      <4>2. {k} # c /\ {k} \in Process \ {Main}
        BY <4>1, Names DEF c
      <4>3. place[{k}] = "unborn"
        BY <1>1, <4>1 DEF MainInv, i
      <4> QED BY <1>8, <4>2, <4>3
    <3> QED BY <3>1, <3>2
  <2> QED BY <1>1, <1>2, <1>8, <1>9, <2>1, <2>2 DEF MainInv
<1>12. WaitInv'
  <2>1. ASSUME to = "wait" PROVE j = 0
    BY <2>1 DEF to, j
  <2>2. EndedChildren' \in SUBSET Process
    BY DEF EndedChildren
  <2>3. Cardinality(EndedChildren') \in Nat
    BY <2>2, Finite
  <2>4. 0 \in Short
    BY BoatFirstAssumption DEF Short
  <2> QED BY <1>8, <2>1, <2>3, <2>4 DEF WaitInv
<1>13. Stage' = Stage
  <2>1. CASE c = Ship
    <3>1. place[Ship] = "unborn" /\ (place'[Ship] = "unborn" \/ (place'[Ship] = "ship" /\ idx'[Ship] = 1))
      BY <1>5, <1>8, <2>1
    <3> QED BY <3>1 DEF Stage
  <2>2. CASE c # Ship
    <3>1. place'[Ship] = place[Ship] /\ idx'[Ship] = idx[Ship]
      BY <1>1, <1>8, <2>2
    <3>2. Calls' = Calls
      BY <1>6 DEF Calls, numTrips
    <3> QED BY <3>1, <3>2 DEF Stage
  <2> QED BY <2>1, <2>2
<1>14. SemInv'
  <2>1. There /\ place'[Main] # "pass" /\ UNCHANGED <<argv, set, sem>> /\ place[Main] # "pass"
    BY <1>1, <1>2, <1>6, <1>8 DEF There, to
  <2>2. \A q \in Process \ {Main} : \/ place'[q] = place[q] /\ idx'[q] = idx[q]
                                    \/ /\ place[q] = "unborn"
                                       /\ place'[q] = "ship" \/ (place'[q] = "pass" /\ idx'[q] = 1)
    BY <1>5, <1>8
  <2> QED BY <1>1, <1>13, <2>1, <2>2, Unaccounted
<1> QED BY <1>10, <1>11, <1>12, <1>14

\* While nobody has fallen back, main's children are all the others there are.
LEMMA Family ==
  ASSUME IInv, Regular
  PROVE  Born(Main) = Children /\ {q \in Born(Main) : place[q] \in Ended} = EndedChildren
<1>1. FamilyInv
  BY DEF IInv
<1>2. ASSUME NEW k \in Int PROVE Max({k}) = k
  <2>1. \E x \in {k} : \A y \in {k} : x >= y
    OBVIOUS
  <2>2. Max({k}) \in {k}
    BY <2>1 DEF Max
  <2> QED BY <2>2
<1>3. ASSUME NEW q \in Process \ {Main}, place[q] # "unborn" PROVE \E k \in Int : q = {k}
  <2>1. CASE q = Ship
    BY <2>1 DEF Ship
  <2>2. CASE q # Ship
    BY <1>1, <1>3, <2>2 DEF FamilyInv
  <2> QED BY <2>1, <2>2
<1>4. ASSUME NEW q \in Process \ {Main}, place[q] # "unborn" PROVE q \in Born(Main)
  <2>1. PICK k \in Int : q = {k}
    BY <1>3, <1>4
  <2>2. k \in q /\ q = Main \cup {k} /\ k = Max(q) /\ q # Main
    BY <1>2, <1>4, <2>1 DEF Main
  <2> QED BY <1>4, <2>2 DEF Born
<1>5. Born(Main) = Children
  <2>1. Born(Main) \in SUBSET (Process \ {Main}) /\ \A q \in Born(Main) : place[q] # "unborn"
    BY DEF Born
  <2> QED BY <1>4, <2>1 DEF Children
<1>6. \A q \in Process \ {Main} : place[q] \in Ended <=> place[q] = "exited"
  BY <1>1 DEF FamilyInv, Ended
<1>7. {q \in Children : place[q] \in Ended} = EndedChildren
  BY <1>6 DEF Children, EndedChildren
<1> QED BY <1>5, <1>7

\* The children are counted, and never more than the ship and the passengers.
LEMMA Offspring ==
  ASSUME IInv, Regular
  PROVE  /\ Cardinality(EndedChildren) \in Nat /\ Cardinality(Children) \in Nat
         /\ Cardinality(EndedChildren) <= Cardinality(Children)
         /\ Cardinality(EndedChildren) = Cardinality(Children) => EndedChildren = Children
         /\ numPeople \in Nat => Cardinality(Children) <= numPeople + 1
<1>1. FamilyInv
  BY DEF IInv
<1>2. Children \in SUBSET Process /\ EndedChildren \in SUBSET Children /\ EndedChildren \in SUBSET Process
  BY DEF Children, EndedChildren
<1>3. /\ Cardinality(EndedChildren) \in Nat /\ Cardinality(Children) \in Nat
      /\ Cardinality(EndedChildren) <= Cardinality(Children)
      /\ Cardinality(EndedChildren) = Cardinality(Children) => EndedChildren = Children
  BY <1>2, Finite, FS_Subset
<1>4. ASSUME numPeople \in Nat PROVE Cardinality(Children) <= numPeople + 1
  <2> DEFINE R == Children \ {Ship}
  <2>1. /\ R \in SUBSET Process /\ R \in SUBSET (Process \ {Main, Ship}) /\ (\A q \in R : place[q] # "unborn")
        /\ (\A q \in Process : q # Ship => (q \in R <=> q \in Children)) /\ Ship \notin R
    BY DEF Children
  <2> HIDE DEF R
  <2>2. Cardinality(R) <= numPeople
    BY <1>1, <1>4, <2>1, People
  <2>3. Cardinality(Children) = Cardinality(R) + (IF Ship \in Children THEN 1 ELSE 0)
    <3>1. /\ Cardinality(R) \in Nat
          /\ Cardinality(Children) = Cardinality(R) + (IF Ship \in Children THEN 1 ELSE 0)
                                      - (IF Ship \in R THEN 1 ELSE 0)
      BY <1>2, <2>1, CountMove
    <3> QED BY <2>1, <3>1
  <2>4. Cardinality(R) \in Nat
    BY <2>1, Finite
  <2> QED BY <1>4, <2>2, <2>3, <2>4
<1> QED BY <1>3, <1>4

\* A wait returns for a child that has ended, or when all have.
LEMMA WaitKeeps ==
  ASSUME IInv, Regular, Wait(Main), GenInv'
  PROVE  FamilyInv' /\ MainInv' /\ WaitInv' /\ SemInv'
<1>1. /\ GenInv /\ FamilyInv /\ MainInv /\ WaitInv /\ SemInv
      /\ place[Main] = "wait" /\ Go(Main, "wait", ToShort(idx[Main] + 1)) /\ UNCHANGED <<set, sem>>
      /\ Main \in Process /\ Ship \in Process /\ Ship # Main
  BY Names DEF IInv, Wait
<1>2. set = "there" /\ argv # <<>>
  BY <1>1 DEF GenInv, MainInv
<1>3. /\ argv' = argv /\ place' = [place EXCEPT ![Main] = "wait"] /\ idx' = [idx EXCEPT ![Main] = ToShort(idx[Main] + 1)]
      /\ place \in [Process -> Places] /\ idx = [q \in Process |-> idx[q]]
  BY <1>1 DEF Go, GenInv
<1>4. /\ place' = place /\ idx'[Main] = ToShort(idx[Main] + 1)
      /\ \A q \in Process \ {Main} : place'[q] = place[q] /\ idx'[q] = idx[q]
  BY <1>1, <1>3
<1>5. numPeople' = numPeople /\ numTrips' = numTrips
  BY <1>3 DEF numPeople, numTrips
<1>6. FamilyInv'
  BY <1>1, <1>4, <1>5 DEF FamilyInv
<1>7. MainInv'
  BY <1>1, <1>2, <1>4 DEF MainInv
<1>8. WaitInv'
  <2>1. Children' = Children /\ EndedChildren' = EndedChildren
    BY <1>4 DEF Children, EndedChildren
  <2>2. idx[Main] < Cardinality(EndedChildren) \/ idx[Main] >= Cardinality(Children)
    BY Family DEF Wait
  <2>3. /\ idx[Main] \in Short
        /\ idx[Main] <= Cardinality(EndedChildren) \/ Cardinality(EndedChildren) = Cardinality(Children)
    BY <1>1 DEF WaitInv
  <2>4. ToShort(idx[Main] + 1) \in Short /\ ToShort(idx[Main] + 1) <= idx[Main] + 1
    <3> DEFINE v == idx[Main] + 1
    <3>1. v \in Int /\ v <= SHRT_MAX + 1 /\ v >= -SHRT_MAX - 1 /\ SHRT_MAX \in Nat
      BY <2>3, BoatFirstAssumption DEF Short
    <3>2. /\ ToShort(v) \in -SHRT_MAX - 1 .. SHRT_MAX
          /\ v \in -SHRT_MAX - 1 .. SHRT_MAX => ToShort(v) = v
      BY <3>1, ShortRange
    <3> HIDE DEF v
    <3>3. ToShort(v) \in Short /\ ToShort(v) <= v
      BY <3>1, <3>2 DEF Short
    <3> QED BY <3>3 DEF v
  <2>5. \/ ToShort(idx[Main] + 1) <= Cardinality(EndedChildren)
        \/ Cardinality(EndedChildren) = Cardinality(Children)
    BY <2>2, <2>3, <2>4, Offspring DEF Short
  <2> QED BY <1>4, <2>1, <2>4, <2>5 DEF WaitInv
<1>9. Stage' = Stage
  <2>1. Calls' = Calls
    BY <1>5 DEF Calls
  <2> QED BY <1>1, <1>4, <2>1 DEF Stage
<1>10. SemInv'
  <2>1. There /\ place'[Main] # "pass" /\ UNCHANGED <<argv, set, sem>> /\ place[Main] # "pass"
    BY <1>1, <1>2, <1>3, <1>4 DEF There
  <2> QED BY <1>1, <1>4, <1>9, <2>1, Unaccounted
<1> QED BY <1>6, <1>7, <1>8, <1>10

\* With room the semaphores are removed when every child has ended.
LEMMA RemoveKeeps ==
  ASSUME IInv, Regular, Roomy, RemoveSet(Main), GenInv'
  PROVE  FamilyInv' /\ MainInv' /\ WaitInv' /\ SemInv'
<1>1. /\ GenInv /\ FamilyInv /\ MainInv /\ WaitInv
      /\ place[Main] = "wait" /\ idx[Main] > numPeople /\ set' = "removed" /\ sem' = sem
      /\ Main \in Process /\ Ship \in Process /\ Ship # Main
  BY Names DEF IInv, RemoveSet
<1>2. set = "there" /\ argv # <<>> /\ argv \in Argvs
  BY <1>1 DEF GenInv, MainInv
<1>3. Go(Main, "works", 0)
  BY <1>2 DEF RemoveSet
<1>4. /\ argv' = argv /\ place' = [place EXCEPT ![Main] = "works"]
      /\ place \in [Process -> Places]
  BY <1>1, <1>3 DEF Go, GenInv
<1>5. place'[Main] = "works" /\ \A q \in Process \ {Main} : place'[q] = place[q]
  BY <1>1, <1>4
<1>6. numPeople' = numPeople
  BY <1>4 DEF numPeople
<1>7. EndedChildren = Children
  <2>1. numPeople \in Nat
    BY <1>2, Args, BoatFirstAssumption DEF Roomy, Short
  <2>2. /\ idx[Main] \in Int
        /\ idx[Main] <= Cardinality(EndedChildren) \/ Cardinality(EndedChildren) = Cardinality(Children)
    BY <1>1 DEF WaitInv, Short
  <2>3. Cardinality(EndedChildren) = Cardinality(Children)
    BY <1>1, <2>1, <2>2, Offspring
  <2> QED BY <2>3, Offspring
<1>8. \A q \in Process \ {Main} : place[q] \in {"unborn", "exited"}
  BY <1>7 DEF Children, EndedChildren
<1>9. FamilyInv'
  BY <1>1, <1>5, <1>6 DEF FamilyInv
<1>10. MainInv'
  BY <1>1, <1>5, <1>8 DEF MainInv
<1>11. WaitInv' /\ SemInv'
  BY <1>1, <1>5 DEF WaitInv, SemInv
<1> QED BY <1>9, <1>10, <1>11

-----------------------------------------------------------------------------
(***************************************************************************)
(* The theorems                                                            *)
(***************************************************************************)

LEMMA InitIInv == Init => IInv
<1> SUFFICES ASSUME Init PROVE IInv
  OBVIOUS
<1>1. /\ argv \in Argvs /\ set = "none" /\ sem = [s \in Sems |-> 0]
      /\ place = [p \in Process |-> IF p = Main THEN "start" ELSE "unborn"]
      /\ idx = [p \in Process |-> 0] /\ Main \in Process /\ Ship \in Process /\ Ship # Main
      /\ SHRT_MAX \in Nat
  BY Names, BoatFirstAssumption DEF Init, Sems
<1>2. place[Main] = "start" /\ \A p \in Process \ {Main} : place[p] = "unborn"
  BY <1>1
<1>3. GenInv
  <2>1. place \in [Process -> Places] /\ sem \in [Sems -> 0 .. SHRT_MAX] /\ idx = [p \in Process |-> idx[p]]
    BY <1>1 DEF Places
  <2>2. \A p \in Process : place[p] \notin {"ship", "pass"}
    BY <1>2
  <2> QED BY <1>1, <1>2, <2>1, <2>2 DEF GenInv
<1>4. FamilyInv /\ MainInv /\ WaitInv /\ SemInv
  BY <1>1, <1>2 DEF FamilyInv, MainInv, WaitInv, SemInv
<1> QED BY <1>3, <1>4 DEF IInv

LEMMA NextIInv == IInv /\ [Next]_vars => IInv'
<1> SUFFICES ASSUME IInv, [Next]_vars PROVE IInv'
  OBVIOUS
<1>1. CASE Next
  <2>1. GenInv'
    BY <1>1, GenStep
  <2> SUFFICES ASSUME Regular' PROVE FamilyInv' /\ MainInv' /\ WaitInv' /\ SemInv'
    BY <2>1 DEF IInv
  <2>2. Regular /\ (set' = "removed" => Roomy)
    BY <1>1, StaysIrregular
  <2>3. CASE Start
    BY <2>1, <2>3, StartKeeps
  <2>4. CASE ShipSteps
    BY <2>1, <2>2, <2>4, ShipKeeps
  <2>5. CASE Fork(Main)
    BY <2>1, <2>2, <2>5, ForkKeeps
  <2>6. CASE Wait(Main)
    BY <2>1, <2>2, <2>6, WaitKeeps
  <2>7. CASE RemoveSet(Main)
    <3>1. set' = "removed"
      BY <2>7 DEF RemoveSet
    <3> QED BY <2>1, <2>2, <2>7, <3>1, RemoveKeeps
  <2>8. ASSUME NEW p \in Process \ {Main, Ship}, check(p) \/ PassSteps(p) \/ Give(p)
        PROVE  FamilyInv' /\ MainInv' /\ WaitInv' /\ SemInv'
    BY <2>2, <2>8, CheckKeeps, CallKeeps, GiveKeeps
  <2> QED BY <1>1, <2>2, <2>3, <2>4, <2>5, <2>6, <2>7, <2>8, WhoSteps
<1>2. CASE UNCHANGED vars
  <2>1. UNCHANGED <<argv, set, sem, place, idx>>
    BY <1>2 DEF vars
  <2>2. UNCHANGED <<numPeople, numShip, numTrap, numTrips>>
    BY <2>1 DEF numPeople, numShip, numTrap, numTrips
  <2>3. UNCHANGED <<Calls, Stage>>
    BY <2>1, <2>2 DEF Calls, Stage
  <2>4. UNCHANGED <<Seats, Roomy, Early>>
    BY <2>1, <2>2, <2>3 DEF Seats, Roomy, Early
  <2>5. \A K : At(K)' = At(K)
    BY <2>1 DEF At
  <2>6. UNCHANGED <<Seated, OnLadder, Given, Children, EndedChildren>>
    BY <2>1, <2>5 DEF Seated, OnLadder, Given, Children, EndedChildren
  <2>7. GenInv' = GenInv /\ FamilyInv' = FamilyInv /\ MainInv' = MainInv
    BY <2>1, <2>2, <2>3 DEF GenInv, FamilyInv, MainInv
  <2>8. WaitInv' = WaitInv /\ SemInv' = SemInv
    BY <2>1, <2>2, <2>3, <2>4, <2>6 DEF WaitInv, SemInv
  <2>9. Regular' = Regular
    BY <2>1, <2>4 DEF Regular
  <2> QED BY <2>7, <2>8, <2>9 DEF IInv
<1> QED BY <1>1, <1>2

\* The inductive invariant holds of every behaviour, also of those whose
\* processes fall back into main's loop.
THEOREM Invariance == Spec => []IInv
BY InitIInv, NextIInv, PTL DEF Spec

\* Until the end is announced the seats taken and those left in SEM_BOAT make
\* numShip, and the ship sails with nobody on the ladder (lines 64, 103-132),
\* whatever the arguments.
THEOREM SailsClear == Spec => []Accounting
<1>1. IInv => Accounting
  <2> SUFFICES ASSUME IInv, place[Ship] = "ship", set = "there", sem[SEM_EXIT] = 0, idx[Ship] > 1
               PROVE  LET down == ShipScript[idx[Ship]] = <<SEM_TRAP, -numTrap>> /\ idx[Ship] % 4 = 0
                      IN /\ sem[SEM_BOAT] + Cardinality(Seated) = numShip
                         /\ sem[SEM_TRAP] + Cardinality(OnLadder) = IF down THEN numTrap ELSE 0
    BY DEF Accounting, Seated, OnLadder, At
  <2> DEFINE n == idx[Ship]
  <2>1. GenInv /\ SemInv /\ n \in 1 .. Calls /\ argv # <<>> /\ argv \in Argvs
    BY DEF IInv, Regular, Early, GenInv
  <2>2. Stage = n /\ Calls \in Nat /\ Calls >= 5 /\ n <= Calls /\ n > 1
    BY <2>1, Args DEF Stage
  <2>3. n <= Calls - 3
    BY <2>1, <2>2 DEF SemInv
  <2>4. /\ sem[SEM_BOAT] + Cardinality(Seated) = numShip
        /\ sem[SEM_TRAP] + Cardinality(OnLadder) = IF n % 4 = 0 THEN numTrap ELSE 0
    BY <2>1, <2>2, <2>3 DEF SemInv, Seats
  <2>5. ASSUME n % 4 = 0 PROVE ShipScript[n] = <<SEM_TRAP, -numTrap>>
    <3>1. numTrap >= 0
      BY <2>1, <2>4, <2>5, Sizes
    <3>2. Calls % 4 = 1 /\ (Calls - 3) % 4 = 2
      <4>1. \A x \in Int : x % 4 = 1 => (x - 3) % 4 = 2
        OBVIOUS
      <4>2. Calls % 4 = 1
        BY <2>1, Sizes
      <4> QED BY <2>2, <4>1, <4>2
    <3>3. n \in 2 .. Calls - 4
      BY <2>1, <2>2, <2>3, <2>5, <3>2
    <3>4. ShipScript[n] = <<SEM_TRAP, ToShort(-numTrap)>>
      BY <2>1, <2>5, <3>3, Script DEF TripCall
    <3> QED BY <2>1, <3>1, <3>4, Args
  <2> QED BY <2>4, <2>5
<1> QED BY <1>1, Invariance, PTL

\* With room in SEM_BOAT for what lines 77 and 135 give, no process falls back
\* into main's loop, and the semaphores stay until everybody has ended.
THEOREM NobodyFallsBack == Spec => []Orderly
<1>1. IInv => Orderly
  <2> SUFFICES ASSUME IInv, Roomy, NEW p \in Process \ {Main}
               PROVE  \/ place[p] \in {"unborn", "exited"}
                      \/ (place[p] \in {"ship", "pass", "give"} /\ set = "there")
    BY DEF Orderly
  <2>1. FamilyInv /\ MainInv /\ set \in {"none", "there", "removed"}
    BY DEF IInv, Regular, GenInv
  <2>2. place[p] \in {"unborn", "ship", "pass", "give", "exited"}
    BY <2>1 DEF FamilyInv
  <2> QED BY <2>1, <2>2 DEF MainInv
<1> QED BY <1>1, Invariance, PTL
=============================================================================
