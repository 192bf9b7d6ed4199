----------------------------- MODULE BoatProofs -----------------------------
(***************************************************************************)
(* Boat keeps its types and its seat and ladder accounts, and implements   *)
(* Cruise, for every short and every set of command lines.                 *)
(***************************************************************************)
EXTENDS Boat, FiniteSetTheorems, TLAPS

(***************************************************************************)
(* The inductive invariant                                                 *)
(***************************************************************************)

\* Children are forked only after the arguments are accepted, and in order.
MainInv ==
  /\ main \notin {"args", "usage"} => ArgsOK
  /\ main \in {"args", "usage", "semget", "failed", "fork ship"} =>
       ship = "unborn" /\ pass = [p \in Passenger |-> "unborn"]
  /\ main = "fork" =>
       i >= 0 /\ \A p \in Passenger : p >= i => pass[p] = "unborn"

\* What the ship's own place says of SLEEP, END and its loop counter.
Asleep == {"open", "close", "allow", "open2", "wait", "exited", "failed"}
Over == {"forbid2", "open2", "wait", "exited", "failed"}
ShipInv ==
  /\ sem["SLEEP"] = IF ship \in Asleep THEN 1 ELSE 0
  /\ sem["END"] = IF ship \in Over THEN 1 ELSE 0
  /\ ship \notin {"unborn", "init"} => trip <= nfloat
  /\ ship \in {"open", "close", "allow"} => trip < nfloat

\* Those who passed check_end before END was set: the ship's last operation
\* sells no seat to them.
Riders == In({"ladd", "ship", "waiting", "ladd2", "leave"})
RidersInv == ArgsOK => Cardinality(Riders) <= ship_cap

IInv == /\ TypeOK /\ MainInv /\ ShipInv
        /\ SeatAccounting /\ LadderAccounting /\ RidersInv

PassPlaces == {"unborn", "ticket", "check", "ladd", "ship", "waiting", "ladd2",
               "leave", "beach", "ret", "exited", "failed", "failed on ladder"}

-----------------------------------------------------------------------------
(***************************************************************************)
(* Lemmas                                                                  *)
(***************************************************************************)

\* The cast to short lands in a short's range, whatever strtol returned.
LEMMA ShortRange == ASSUME NEW v \in Int
                    PROVE  ToShort(v) \in -SHRT_MAX - 1 .. SHRT_MAX
<1> DEFINE w == 2 * (SHRT_MAX + 1)
<1>1. w \in Nat \ {0} /\ v + SHRT_MAX + 1 \in Int
  BY ShortAssumption
<1>2. \A k \in Nat \ {0} : \A x \in Int : x % k \in 0 .. k - 1
  OBVIOUS
<1>3. (v + SHRT_MAX + 1) % w \in 0 .. w - 1
  <2> HIDE DEF w
  <2> QED BY <1>1, <1>2
<1>4. QED BY <1>3, ShortAssumption DEF ToShort

\* The cast of a counter's next value never adds to it.
LEMMA ShortWraps == ASSUME NEW v \in -SHRT_MAX - 1 .. SHRT_MAX
                    PROVE  ToShort(v + 1) <= v + 1
<1> DEFINE w == 2 * (SHRT_MAX + 1)
           u == v + 1 + SHRT_MAX + 1
<1>1. w \in Nat \ {0} /\ u \in 0 .. w /\ u \in Nat /\ v \in Int
  BY ShortAssumption
<1>2. u % w <= u
  <2>1. \A k \in Nat \ {0} : \A x \in 0 .. k : x % k <= x
    OBVIOUS
  <2> HIDE DEF w, u
  <2> QED BY <1>1, <2>1
<1>3. u % w \in Int
  <2>1. \A k \in Nat \ {0} : \A x \in Int : x % k \in 0 .. k - 1
    OBVIOUS
  <2> HIDE DEF w, u
  <2> QED BY <1>1, <2>1
<1> QED BY <1>1, <1>2, <1>3, ShortAssumption DEF ToShort

\* So every parsed argument is a short.
LEMMA ArgRange == ASSUME argv \in Argvs, NEW n
                  PROVE  Arg(n) \in -SHRT_MAX - 1 .. SHRT_MAX
<1>1. CASE n \in DOMAIN argv
  <2>1. argv \in Seq(Int)
    BY ArgvsAssumption
  <2>2. argv[n] \in Int
    BY <1>1, <2>1
  <2> QED BY <1>1, <2>2, ShortRange DEF Arg
<1>2. CASE n \notin DOMAIN argv
  BY <1>2, ShortAssumption DEF Arg
<1> QED BY <1>1, <1>2

\* Accepted arguments are positive shorts.
LEMMA ArgsPositive == ASSUME argv \in Argvs, ArgsOK
                      PROVE  /\ npass \in 1 .. SHRT_MAX /\ ship_cap \in 1 .. SHRT_MAX
                             /\ ladd_cap \in 1 .. SHRT_MAX /\ nfloat \in 1 .. SHRT_MAX
<1>1. \A n \in 1 .. 4 : Arg(n) \in 1 .. SHRT_MAX
  <2> SUFFICES ASSUME NEW n \in 1 .. 4 PROVE Arg(n) \in 1 .. SHRT_MAX
    OBVIOUS
  <2>1. Arg(n) \in -SHRT_MAX - 1 .. SHRT_MAX
    BY ArgRange
  <2> QED BY <2>1, ShortAssumption DEF ArgsOK
<1> QED BY <1>1 DEF npass, ship_cap, ladd_cap, nfloat

\* The passengers are finitely many, so every group of them has a size.
LEMMA GroupFinite == ASSUME NEW S
                     PROVE  IsFiniteSet(In(S)) /\ Cardinality(In(S)) \in Nat
<1>1. IsFiniteSet(Passenger)
  <2>1. 0 \in Int /\ SHRT_MAX - 1 \in Int
    BY ShortAssumption
  <2> QED BY <2>1, FS_Interval DEF Passenger
<1>2. In(S) \subseteq Passenger
  BY DEF In
<1>3. IsFiniteSet(In(S))
  BY <1>1, <1>2, FS_Subset
<1> QED BY <1>3, FS_CardinalityType

\* One passenger's move changes the size of a group by who joins and leaves.
LEMMA GroupMove ==
  ASSUME pass \in [Passenger -> PassPlaces], NEW p \in Passenger, NEW to,
         pass' = [pass EXCEPT ![p] = to], NEW S
  PROVE  /\ Cardinality(In(S))' = Cardinality(In(S))
                                   + (IF to \in S THEN 1 ELSE 0)
                                   - (IF pass[p] \in S THEN 1 ELSE 0)
         /\ pass[p] \in S => Cardinality(In(S)) >= 1
         /\ Cardinality(In(S)) \in Nat
<1> DEFINE B == In(S) \ {p}
<1>1. IsFiniteSet(In(S)) /\ Cardinality(In(S)) \in Nat
  BY GroupFinite
<1>2. IsFiniteSet(B) /\ Cardinality(B) \in Nat /\ p \notin B
  BY <1>1, FS_RemoveElement, FS_CardinalityType
<1>3. Cardinality(In(S)) = Cardinality(B) + (IF pass[p] \in S THEN 1 ELSE 0)
  <2>1. CASE pass[p] \in S
    <3>1. In(S) = B \cup {p}
      BY <2>1 DEF In
    <3> HIDE DEF B
    <3> QED BY <2>1, <3>1, <1>2, FS_AddElement
  <2>2. CASE pass[p] \notin S
    <3>1. In(S) = B
      BY <2>2 DEF In
    <3> QED BY <2>2, <3>1, <1>2
  <2> QED BY <2>1, <2>2
<1>4. Cardinality(In(S))' = Cardinality(B) + (IF to \in S THEN 1 ELSE 0)
  <2>1. CASE to \in S
    <3>1. In(S)' = B \cup {p}
      BY <2>1 DEF In
    <3> HIDE DEF B
    <3>2. Cardinality(B \cup {p}) = Cardinality(B) + 1
      BY <1>2, FS_AddElement
    <3> QED BY <2>1, <3>1, <3>2
  <2>2. CASE to \notin S
    <3>1. In(S)' = B
      BY <2>2 DEF In
    <3> QED BY <2>2, <3>1, <1>2
  <2> QED BY <2>1, <2>2
<1> HIDE DEF B
<1> QED BY <1>1, <1>2, <1>3, <1>4

\* A semaphore operation that stays in range changes one value by n.
LEMMA AddSem ==
  ASSUME sem \in [Sem -> 0 .. SEMVMX], NEW s \in Sem, NEW n \in Int, Add(s, n)
  PROVE  /\ sem'[s] = sem[s] + n
         /\ \A r \in Sem : r # s => sem'[r] = sem[r]
         /\ sem[s] + n \in 0 .. SEMVMX => sem' \in [Sem -> 0 .. SEMVMX]
BY DEF Add

-----------------------------------------------------------------------------
(***************************************************************************)
(* The invariant holds initially and is preserved by every process         *)
(***************************************************************************)

LEMMA InitInv == Init => IInv
<1> SUFFICES ASSUME Init PROVE IInv
  OBVIOUS
<1> USE DEF Init
<1>1. TypeOK
  BY ShortAssumption DEF TypeOK, SEMVMX, Sem
<1>2. Holders = {} /\ OnLadder = {} /\ Riders = {}
  BY DEF Holders, OnLadder, Riders, In
<1>3. Cardinality(Holders) = 0 /\ Cardinality(OnLadder) = 0 /\ Cardinality(Riders) = 0
  BY <1>2, FS_EmptySet
<1>4. SeatAccounting /\ LadderAccounting
  BY <1>3 DEF SeatAccounting, SeatsOnSale, LadderAccounting, LadderDown, Sem
<1>5. RidersInv
  BY <1>3, ArgsPositive DEF RidersInv
<1>6. MainInv /\ ShipInv
  BY DEF MainInv, ShipInv, Asleep, Over, Sem
<1> QED BY <1>1, <1>4, <1>5, <1>6 DEF IInv

\* What every step keeps: the command line, and with it the arguments.
LEMMA ArgsKept == ASSUME argv' = argv
                  PROVE  /\ npass' = npass /\ ship_cap' = ship_cap
                         /\ ladd_cap' = ladd_cap /\ nfloat' = nfloat
                         /\ ArgsOK' = ArgsOK
BY DEF npass, ship_cap, ladd_cap, nfloat, Arg, ArgsOK

LEMMA CounterInt == ASSUME TypeOK PROVE i \in Int
<1>1. i \in -SHRT_MAX - 1 .. SHRT_MAX
  BY DEF TypeOK
<1> QED BY <1>1, ShortAssumption

\* The groups are those of pass alone.
LEMMA GroupsKept == ASSUME pass' = pass
                    PROVE  /\ Holders' = Holders /\ OnLadder' = OnLadder
                           /\ Riders' = Riders
BY DEF Holders, OnLadder, Riders, In

LEMMA ShipStep == ASSUME IInv, ShipNext PROVE IInv'
<1> USE DEF IInv
<1>1. ship # "unborn" /\ UNCHANGED <<argv, main, i, pass, reaped>> /\ ship' # "unborn"
  BY DEF ShipNext, ShipInit, ShipForbid, ShipOpen, ShipClose, ShipAllow, ShipEnd,
         ShipForbid2, ShipOpen2, ShipWait, ShipGo
<1>2. ArgsOK
  BY <1>1 DEF MainInv
<1>3. /\ npass \in 1 .. SHRT_MAX /\ ship_cap \in 1 .. SHRT_MAX
      /\ ladd_cap \in 1 .. SHRT_MAX /\ nfloat \in 1 .. SHRT_MAX
  BY <1>2, ArgsPositive DEF TypeOK
<1>4. /\ npass' = npass /\ ship_cap' = ship_cap /\ ladd_cap' = ladd_cap
      /\ nfloat' = nfloat /\ ArgsOK' = ArgsOK
  BY <1>1, ArgsKept
<1>5. Holders' = Holders /\ OnLadder' = OnLadder /\ Riders' = Riders
  BY <1>1, GroupsKept
<1>6. /\ Cardinality(Holders) \in Nat /\ Cardinality(OnLadder) \in Nat
      /\ Cardinality(Riders) \in Nat
  BY GroupFinite DEF Holders, OnLadder, Riders
<1>7. MainInv' /\ RidersInv'
  BY <1>1, <1>4, <1>5 DEF MainInv, RidersInv
<1>8. TypeOK' /\ ShipInv' /\ SeatAccounting' /\ LadderAccounting'
  <2>1. /\ sem \in [Sem -> 0 .. SEMVMX] /\ trip \in 0 .. SHRT_MAX
        /\ sem["SHIP"] \in 0 .. SHRT_MAX /\ sem["LADD"] \in 0 .. SHRT_MAX
        /\ "SHIP" \in Sem /\ "LADD" \in Sem /\ "SLEEP" \in Sem /\ "END" \in Sem
    BY DEF TypeOK, Sem, SEMVMX
  <2>2. ASSUME sem' \in [Sem -> 0 .. SEMVMX] PROVE TypeOK'
    <3>1. ship' \in {"forbid", "open", "close", "allow", "forbid2", "open2", "wait",
                     "exited", "failed"}
      BY DEF ShipNext, ShipInit, ShipForbid, ShipOpen, ShipClose, ShipAllow, ShipEnd,
             ShipForbid2, ShipOpen2, ShipWait, ShipGo
    <3>2. trip' \in 0 .. SHRT_MAX
      BY <1>3, <2>1, ShortAssumption
      DEF ShipNext, ShipInit, ShipForbid, ShipOpen, ShipClose, ShipAllow, ShipEnd,
          ShipForbid2, ShipOpen2, ShipWait, ShipGo, ShipInv
    <3> QED BY <1>1, <2>2, <3>1, <3>2 DEF TypeOK
  <2> USE <1>1, <1>3, <1>4, <1>5, <1>6, <2>1, ShortAssumption
      DEF ShipInv, SeatAccounting, SeatsOnSale, LadderAccounting, LadderDown, Asleep,
          Over, ShipGo, SEMVMX
  <2>3. CASE ShipInit
    <3>1. Add("SHIP", ship_cap) /\ sem["SHIP"] + ship_cap \in 0 .. SEMVMX
      BY <2>3 DEF ShipInit, Sub
    <3>2. /\ sem'["SHIP"] = sem["SHIP"] + ship_cap
          /\ \A r \in Sem : r # "SHIP" => sem'[r] = sem[r]
          /\ sem' \in [Sem -> 0 .. SEMVMX]
      BY <3>1, AddSem
    <3>3. ShipInv' /\ SeatAccounting' /\ LadderAccounting'
      BY <2>3, <3>2 DEF ShipInit
    <3> QED BY <2>2, <3>2, <3>3
  <2>4. CASE ShipForbid
    <3>1. Add("SLEEP", 1) /\ sem["SLEEP"] + 1 \in 0 .. SEMVMX
      BY <2>4 DEF ShipForbid, Sub
    <3>2. /\ sem'["SLEEP"] = sem["SLEEP"] + 1
          /\ \A r \in Sem : r # "SLEEP" => sem'[r] = sem[r]
          /\ sem' \in [Sem -> 0 .. SEMVMX]
      BY <3>1, AddSem
    <3>3. ShipInv' /\ SeatAccounting' /\ LadderAccounting'
      BY <2>4, <3>2 DEF ShipForbid
    <3> QED BY <2>2, <3>2, <3>3
  <2>5. CASE ShipOpen
    <3>1. Add("LADD", ladd_cap) /\ sem["LADD"] + ladd_cap \in 0 .. SEMVMX
      BY <2>5 DEF ShipOpen, Sub
    <3>2. /\ sem'["LADD"] = sem["LADD"] + ladd_cap
          /\ \A r \in Sem : r # "LADD" => sem'[r] = sem[r]
          /\ sem' \in [Sem -> 0 .. SEMVMX]
      BY <3>1, AddSem
    <3>3. ShipInv' /\ SeatAccounting' /\ LadderAccounting'
      BY <2>5, <3>2 DEF ShipOpen
    <3> QED BY <2>2, <3>2, <3>3
  <2>6. CASE ShipClose
    <3>1. Add("LADD", -ladd_cap) /\ sem["LADD"] + -ladd_cap \in 0 .. SEMVMX
      BY <2>6 DEF ShipClose, Sub
    <3>2. /\ sem'["LADD"] = sem["LADD"] + -ladd_cap
          /\ \A r \in Sem : r # "LADD" => sem'[r] = sem[r]
          /\ sem' \in [Sem -> 0 .. SEMVMX]
      BY <3>1, AddSem
    <3>3. ShipInv' /\ SeatAccounting' /\ LadderAccounting'
      BY <2>6, <3>2 DEF ShipClose
    <3> QED BY <2>2, <3>2, <3>3
  <2>7. CASE ShipAllow
    <3>1. Add("SLEEP", -1) /\ sem["SLEEP"] + -1 \in 0 .. SEMVMX
      BY <2>7 DEF ShipAllow, Sub
    <3>2. /\ sem'["SLEEP"] = sem["SLEEP"] + -1
          /\ \A r \in Sem : r # "SLEEP" => sem'[r] = sem[r]
          /\ sem' \in [Sem -> 0 .. SEMVMX]
      BY <3>1, AddSem
    <3>3. ShipInv' /\ SeatAccounting' /\ LadderAccounting'
      BY <2>7, <3>2 DEF ShipAllow
    <3> QED BY <2>2, <3>2, <3>3
  <2>8. CASE ShipEnd
    <3>1. Add("END", 1) /\ sem["END"] + 1 \in 0 .. SEMVMX
      BY <2>8 DEF ShipEnd, Sub
    <3>2. /\ sem'["END"] = sem["END"] + 1
          /\ \A r \in Sem : r # "END" => sem'[r] = sem[r]
          /\ sem' \in [Sem -> 0 .. SEMVMX]
      BY <3>1, AddSem
    <3>3. ShipInv' /\ SeatAccounting' /\ LadderAccounting'
      BY <2>8, <3>2 DEF ShipEnd
    <3> QED BY <2>2, <3>2, <3>3
  <2>9. CASE ShipForbid2
    <3>1. Add("SLEEP", 1) /\ sem["SLEEP"] + 1 \in 0 .. SEMVMX
      BY <2>9 DEF ShipForbid2, Sub
    <3>2. /\ sem'["SLEEP"] = sem["SLEEP"] + 1
          /\ \A r \in Sem : r # "SLEEP" => sem'[r] = sem[r]
          /\ sem' \in [Sem -> 0 .. SEMVMX]
      BY <3>1, AddSem
    <3>3. ShipInv' /\ SeatAccounting' /\ LadderAccounting'
      BY <2>9, <3>2 DEF ShipForbid2
    <3> QED BY <2>2, <3>2, <3>3
  <2>10. CASE ShipOpen2
    <3>1. Add("LADD", ladd_cap) /\ sem["LADD"] + ladd_cap \in 0 .. SEMVMX
      BY <2>10 DEF ShipOpen2, Sub
    <3>2. /\ sem'["LADD"] = sem["LADD"] + ladd_cap
          /\ \A r \in Sem : r # "LADD" => sem'[r] = sem[r]
          /\ sem' \in [Sem -> 0 .. SEMVMX]
      BY <3>1, AddSem
    <3>3. ShipInv' /\ SeatAccounting' /\ LadderAccounting'
      BY <2>10, <3>2 DEF ShipOpen2
    <3> QED BY <2>2, <3>2, <3>3
  <2>11. CASE ShipWait
    <3>1. CASE sem["SHIP"] + ship_cap <= SEMVMX
      <4>1. Add("SHIP", ship_cap) /\ ship = "wait" /\ ship' = "exited" /\ trip' = trip
        BY <2>11, <3>1 DEF ShipWait
      <4>2. /\ sem'["SHIP"] = sem["SHIP"] + ship_cap
            /\ \A r \in Sem : r # "SHIP" => sem'[r] = sem[r]
            /\ sem' \in [Sem -> 0 .. SEMVMX]
        BY <3>1, <4>1, AddSem
      <4>3. ShipInv' /\ SeatAccounting' /\ LadderAccounting'
        BY <4>1, <4>2
      <4> QED BY <2>2, <4>2, <4>3
    <3>2. CASE sem["SHIP"] + ship_cap > SEMVMX
      <4>1. sem' = sem /\ ship = "wait" /\ ship' = "failed" /\ trip' = trip
        BY <2>11, <3>2 DEF ShipWait
      <4>2. ShipInv' /\ SeatAccounting' /\ LadderAccounting'
        BY <4>1
      <4> QED BY <2>2, <4>1, <4>2
    <3> QED BY <3>1, <3>2
  <2> QED BY <2>3, <2>4, <2>5, <2>6, <2>7, <2>8, <2>9, <2>10, <2>11 DEF ShipNext
<1> QED BY <1>7, <1>8

HolderPlaces == {"check", "ladd", "ship", "waiting", "ladd2", "leave", "ret",
                 "failed", "failed on ladder"}
LadderPlaces == {"ship", "leave", "beach", "failed on ladder"}
RiderPlaces == {"ladd", "ship", "waiting", "ladd2", "leave"}
Change(S, from, to) == (IF to \in S THEN 1 ELSE 0) - (IF from \in S THEN 1 ELSE 0)

Counts(from, to) ==
  /\ Cardinality(Holders)' = Cardinality(Holders) + Change(HolderPlaces, from, to)
  /\ Cardinality(OnLadder)' = Cardinality(OnLadder) + Change(LadderPlaces, from, to)
  /\ Cardinality(Riders)' = Cardinality(Riders) + Change(RiderPlaces, from, to)
  /\ from \in LadderPlaces => Cardinality(OnLadder) >= 1

\* A passenger's move in the terms of the accounts.
LEMMA PassCounts ==
  ASSUME TypeOK, NEW p \in Passenger, NEW from, NEW to, PassGo(p, from, to)
  PROVE  Counts(from, to)
<1>1. /\ pass \in [Passenger -> PassPlaces] /\ pass[p] = from
      /\ pass' = [pass EXCEPT ![p] = to]
  BY DEF TypeOK, PassPlaces, PassGo
<1>2. \A S : /\ Cardinality(In(S))' = Cardinality(In(S)) + (IF to \in S THEN 1 ELSE 0)
                                       - (IF from \in S THEN 1 ELSE 0)
             /\ from \in S => Cardinality(In(S)) >= 1
             /\ Cardinality(In(S)) \in Nat
  BY <1>1, GroupMove
<1> QED BY <1>2 DEF Holders, OnLadder, Riders, HolderPlaces, LadderPlaces, RiderPlaces,
                   Change, Counts

\* Whoever may still board holds a seat.
LEMMA RidersHold == /\ Cardinality(Riders) <= Cardinality(Holders)
                    /\ Cardinality(Riders)' <= Cardinality(Holders)'
<1>1. Riders \subseteq Holders /\ Riders' \subseteq Holders'
  BY DEF Riders, Holders, In
<1>2. IsFiniteSet(Passenger)
  BY ShortAssumption, FS_Interval DEF Passenger
<1>3. Holders \subseteq Passenger /\ Holders' \subseteq Passenger
  BY DEF Holders, In
<1>4. IsFiniteSet(Holders) /\ IsFiniteSet(Holders')
  BY <1>2, <1>3, FS_Subset
<1> QED BY <1>1, <1>4, FS_Subset

LEMMA PassStep == ASSUME IInv, NEW p \in Passenger, PassNext(p) PROVE IInv'
<1> USE DEF IInv
<1>1. /\ pass[p] # "unborn" /\ UNCHANGED <<argv, main, i, ship, trip, reaped>>
      /\ \E to \in PassPlaces \ {"unborn"} : pass' = [pass EXCEPT ![p] = to]
  BY DEF PassNext, Ticket, CheckEnd, GoToLadder, GoToShip, WaitDeparture,
         LeaveByLadder, FreeSeat, GoToBeach, ReturnTicket, GiveSeat, PassGo, PassPlaces
<1>2. ArgsOK /\ MainInv'
  <2>1. main \notin {"args", "usage", "semget", "failed", "fork ship"} /\ ArgsOK
    BY <1>1 DEF MainInv
  <2>2. ASSUME main = "fork", NEW q \in Passenger, q >= i PROVE pass'[q] = "unborn"
    BY <1>1, <2>2 DEF MainInv, TypeOK
  <2>3. ArgsOK' = ArgsOK
    BY <1>1, ArgsKept
  <2> QED BY <1>1, <2>1, <2>2, <2>3 DEF MainInv
<1>3. /\ npass \in 1 .. SHRT_MAX /\ ship_cap \in 1 .. SHRT_MAX
      /\ ladd_cap \in 1 .. SHRT_MAX /\ nfloat \in 1 .. SHRT_MAX
  BY <1>2, ArgsPositive DEF TypeOK
<1>4. /\ npass' = npass /\ ship_cap' = ship_cap /\ ladd_cap' = ladd_cap
      /\ nfloat' = nfloat /\ ArgsOK' = ArgsOK
  BY <1>1, ArgsKept
<1>5. /\ sem \in [Sem -> 0 .. SEMVMX]
      /\ sem["SHIP"] \in 0 .. SHRT_MAX /\ sem["LADD"] \in 0 .. SHRT_MAX
      /\ "SHIP" \in Sem /\ "LADD" \in Sem /\ "SLEEP" \in Sem /\ "END" \in Sem
  BY DEF TypeOK, Sem, SEMVMX
<1>6. ASSUME sem' \in [Sem -> 0 .. SEMVMX] PROVE TypeOK'
  BY <1>1, <1>6 DEF TypeOK, PassPlaces
<1>7. ASSUME sem'["SLEEP"] = sem["SLEEP"], sem'["END"] = sem["END"] PROVE ShipInv'
  BY <1>1, <1>4, <1>7 DEF ShipInv
<1>8. /\ Cardinality(Holders) \in Nat /\ Cardinality(OnLadder) \in Nat
      /\ Cardinality(Riders) \in Nat
  BY GroupFinite DEF Holders, OnLadder, Riders
<1>9. ASSUME sem' = sem PROVE TypeOK' /\ ShipInv' /\ MainInv'
  BY <1>2, <1>5, <1>6, <1>7, <1>9
<1> DEFINE Accounts == SeatAccounting /\ LadderAccounting /\ RidersInv
<1>10. CASE Ticket(p)
  <2>1. PassGo(p, "ticket", "check") /\ Add("SHIP", -1)
    BY <1>10 DEF Ticket, Sub
  <2>2. /\ Cardinality(Holders)' = Cardinality(Holders) + 1
        /\ Cardinality(OnLadder)' = Cardinality(OnLadder)
        /\ Cardinality(Riders)' = Cardinality(Riders)
    <3>1. Counts("ticket", "check")
      BY <2>1, PassCounts
    <3> QED BY <1>8, <3>1 DEF Counts, Change, HolderPlaces, LadderPlaces, RiderPlaces
  <2>3. sem["SHIP"] + -1 \in 0 .. SEMVMX
    BY <1>10, <1>3, <1>5, <1>8, <2>2, ShortAssumption DEF Ticket, Sub, SEMVMX
  <2>4. /\ sem'["SHIP"] = sem["SHIP"] + -1
        /\ \A r \in Sem : r # "SHIP" => sem'[r] = sem[r]
        /\ sem' \in [Sem -> 0 .. SEMVMX]
    BY <1>5, <2>1, <2>3, AddSem
  <2>5. Accounts'
    BY <1>1, <1>3, <1>4, <1>5, <1>8, <2>2, <2>4
    DEF SeatAccounting, SeatsOnSale, LadderAccounting, LadderDown, RidersInv
  <2>6. TypeOK' /\ ShipInv'
    BY <1>5, <1>6, <1>7, <2>4
  <2> QED BY <1>2, <2>5, <2>6
<1>11. CASE GoToLadder(p)
  <2>1. PassGo(p, "ladd", "ship") /\ Add("LADD", -1)
    BY <1>11 DEF GoToLadder, Sub
  <2>2. /\ Cardinality(Holders)' = Cardinality(Holders)
        /\ Cardinality(OnLadder)' = Cardinality(OnLadder) + 1
        /\ Cardinality(Riders)' = Cardinality(Riders)
    <3>1. Counts("ladd", "ship")
      BY <2>1, PassCounts
    <3> QED BY <1>8, <3>1 DEF Counts, Change, HolderPlaces, LadderPlaces, RiderPlaces
  <2>3. sem["LADD"] + -1 \in 0 .. SEMVMX
    BY <1>11, <1>3, <1>5, <1>8, <2>2, ShortAssumption DEF GoToLadder, Sub, SEMVMX
  <2>4. /\ sem'["LADD"] = sem["LADD"] + -1
        /\ \A r \in Sem : r # "LADD" => sem'[r] = sem[r]
        /\ sem' \in [Sem -> 0 .. SEMVMX]
    BY <1>5, <2>1, <2>3, AddSem
  <2>5. Accounts'
    BY <1>1, <1>3, <1>4, <1>5, <1>8, <2>2, <2>4
    DEF SeatAccounting, SeatsOnSale, LadderAccounting, LadderDown, RidersInv
  <2>6. TypeOK' /\ ShipInv'
    BY <1>5, <1>6, <1>7, <2>4
  <2> QED BY <1>2, <2>5, <2>6
<1>12. CASE GoToShip(p)
  <2>1. PassGo(p, "ship", "waiting") /\ Add("LADD", 1)
    BY <1>12 DEF GoToShip, Sub
  <2>2. /\ Cardinality(Holders)' = Cardinality(Holders)
        /\ Cardinality(OnLadder)' = Cardinality(OnLadder) - 1
        /\ Cardinality(Riders)' = Cardinality(Riders)
        /\ Cardinality(OnLadder) >= 1
    <3>1. Counts("ship", "waiting")
      BY <2>1, PassCounts
    <3> QED BY <1>8, <3>1 DEF Counts, Change, HolderPlaces, LadderPlaces, RiderPlaces
  <2>3. sem["LADD"] + 1 \in 0 .. SEMVMX
    BY <1>12, <1>3, <1>5, <1>8, <2>2, ShortAssumption DEF LadderAccounting, SEMVMX
  <2>4. /\ sem'["LADD"] = sem["LADD"] + 1
        /\ \A r \in Sem : r # "LADD" => sem'[r] = sem[r]
        /\ sem' \in [Sem -> 0 .. SEMVMX]
    BY <1>5, <2>1, <2>3, AddSem
  <2>5. Accounts'
    BY <1>1, <1>3, <1>4, <1>5, <1>8, <2>2, <2>4
    DEF SeatAccounting, SeatsOnSale, LadderAccounting, LadderDown, RidersInv
  <2>6. TypeOK' /\ ShipInv'
    BY <1>5, <1>6, <1>7, <2>4
  <2> QED BY <1>2, <2>5, <2>6
<1>13. CASE LeaveByLadder(p)
  <2>1. PassGo(p, "ladd2", "leave") /\ Add("LADD", -1)
    BY <1>13 DEF LeaveByLadder, Sub
  <2>2. /\ Cardinality(Holders)' = Cardinality(Holders)
        /\ Cardinality(OnLadder)' = Cardinality(OnLadder) + 1
        /\ Cardinality(Riders)' = Cardinality(Riders)
    <3>1. Counts("ladd2", "leave")
      BY <2>1, PassCounts
    <3> QED BY <1>8, <3>1 DEF Counts, Change, HolderPlaces, LadderPlaces, RiderPlaces
  <2>3. sem["LADD"] + -1 \in 0 .. SEMVMX
    BY <1>13, <1>3, <1>5, <1>8, <2>2, ShortAssumption DEF LeaveByLadder, Sub, SEMVMX
  <2>4. /\ sem'["LADD"] = sem["LADD"] + -1
        /\ \A r \in Sem : r # "LADD" => sem'[r] = sem[r]
        /\ sem' \in [Sem -> 0 .. SEMVMX]
    BY <1>5, <2>1, <2>3, AddSem
  <2>5. Accounts'
    BY <1>1, <1>3, <1>4, <1>5, <1>8, <2>2, <2>4
    DEF SeatAccounting, SeatsOnSale, LadderAccounting, LadderDown, RidersInv
  <2>6. TypeOK' /\ ShipInv'
    BY <1>5, <1>6, <1>7, <2>4
  <2> QED BY <1>2, <2>5, <2>6
<1>14. CASE GoToBeach(p)
  <2>1. PassGo(p, "beach", "ticket") /\ Add("LADD", 1)
    BY <1>14 DEF GoToBeach, Sub
  <2>2. /\ Cardinality(Holders)' = Cardinality(Holders)
        /\ Cardinality(OnLadder)' = Cardinality(OnLadder) - 1
        /\ Cardinality(Riders)' = Cardinality(Riders)
        /\ Cardinality(OnLadder) >= 1
    <3>1. Counts("beach", "ticket")
      BY <2>1, PassCounts
    <3> QED BY <1>8, <3>1 DEF Counts, Change, HolderPlaces, LadderPlaces, RiderPlaces
  <2>3. sem["LADD"] + 1 \in 0 .. SEMVMX
    BY <1>14, <1>3, <1>5, <1>8, <2>2, ShortAssumption DEF LadderAccounting, SEMVMX
  <2>4. /\ sem'["LADD"] = sem["LADD"] + 1
        /\ \A r \in Sem : r # "LADD" => sem'[r] = sem[r]
        /\ sem' \in [Sem -> 0 .. SEMVMX]
    BY <1>5, <2>1, <2>3, AddSem
  <2>5. Accounts'
    BY <1>1, <1>3, <1>4, <1>5, <1>8, <2>2, <2>4
    DEF SeatAccounting, SeatsOnSale, LadderAccounting, LadderDown, RidersInv
  <2>6. TypeOK' /\ ShipInv'
    BY <1>5, <1>6, <1>7, <2>4
  <2> QED BY <1>2, <2>5, <2>6
<1>15. CASE CheckEnd(p)
  <2>1. sem' = sem
    BY <1>15 DEF CheckEnd
  <2>2. CASE sem["END"] = 0 /\ PassGo(p, "check", "ladd")
    <3>1. /\ Cardinality(Holders)' = Cardinality(Holders)
          /\ Cardinality(OnLadder)' = Cardinality(OnLadder)
          /\ Cardinality(Riders)' = Cardinality(Riders) + 1
      <4>1. Counts("check", "ladd")
        BY <2>2, PassCounts
      <4> QED BY <1>8, <4>1 DEF Counts, Change, HolderPlaces, LadderPlaces, RiderPlaces
    <3>2. Cardinality(Holders) <= ship_cap
      BY <1>3, <1>5, <1>8, <2>2 DEF ShipInv, Over, SeatAccounting, SeatsOnSale
    <3>3. RidersInv'
      <4>1. Cardinality(Riders)' <= Cardinality(Holders)'
        BY RidersHold
      <4> QED BY <1>3, <1>4, <1>8, <3>1, <3>2, <4>1 DEF RidersInv
    <3>4. SeatAccounting' /\ LadderAccounting'
      BY <1>1, <1>3, <1>4, <1>5, <1>8, <2>1, <3>1
      DEF SeatAccounting, SeatsOnSale, LadderAccounting, LadderDown
    <3> QED BY <1>9, <2>1, <3>3, <3>4
  <2>3. CASE sem["END"] # 0 /\ PassGo(p, "check", "ret")
    <3>1. /\ Cardinality(Holders)' = Cardinality(Holders)
          /\ Cardinality(OnLadder)' = Cardinality(OnLadder)
          /\ Cardinality(Riders)' = Cardinality(Riders)
      <4>1. Counts("check", "ret")
        BY <2>3, PassCounts
      <4> QED BY <1>8, <4>1 DEF Counts, Change, HolderPlaces, LadderPlaces, RiderPlaces
    <3>2. Accounts'
      BY <1>1, <1>3, <1>4, <1>5, <1>8, <2>1, <2>3, <3>1
      DEF SeatAccounting, SeatsOnSale, LadderAccounting, LadderDown, RidersInv
    <3> QED BY <1>9, <2>1, <3>2
  <2> QED BY <1>15, <2>2, <2>3 DEF CheckEnd
<1>16. CASE WaitDeparture(p)
  <2>1. PassGo(p, "waiting", "ladd2") /\ sem' = sem
    BY <1>16 DEF WaitDeparture, WaitZero
  <2>2. /\ Cardinality(Holders)' = Cardinality(Holders)
        /\ Cardinality(OnLadder)' = Cardinality(OnLadder)
        /\ Cardinality(Riders)' = Cardinality(Riders)
    <3>1. Counts("waiting", "ladd2")
      BY <2>1, PassCounts
    <3> QED BY <1>8, <3>1 DEF Counts, Change, HolderPlaces, LadderPlaces, RiderPlaces
  <2>3. Accounts'
    BY <1>1, <1>3, <1>4, <1>5, <1>8, <2>1, <2>2
    DEF SeatAccounting, SeatsOnSale, LadderAccounting, LadderDown, RidersInv
  <2> QED BY <1>9, <2>1, <2>3
<1>17. CASE FreeSeat(p)
  <2>1. CASE sem["SHIP"] < SEMVMX /\ PassGo(p, "leave", "beach") /\ Add("SHIP", 1)
    <3>1. /\ Cardinality(Holders)' = Cardinality(Holders) - 1
          /\ Cardinality(OnLadder)' = Cardinality(OnLadder)
          /\ Cardinality(Riders)' = Cardinality(Riders) - 1
          /\ Cardinality(OnLadder) >= 1
      <4>1. Counts("leave", "beach")
        BY <2>1, PassCounts
      <4> QED BY <1>8, <4>1 DEF Counts, Change, HolderPlaces, LadderPlaces, RiderPlaces
    <3>2. sem["SHIP"] + 1 \in 0 .. SEMVMX
      BY <1>5, <2>1, ShortAssumption DEF SEMVMX
    <3>3. /\ sem'["SHIP"] = sem["SHIP"] + 1
          /\ \A r \in Sem : r # "SHIP" => sem'[r] = sem[r]
          /\ sem' \in [Sem -> 0 .. SEMVMX]
      BY <1>5, <2>1, <3>2, AddSem
    <3>4. Accounts'
      BY <1>1, <1>3, <1>4, <1>5, <1>8, <3>1, <3>3
      DEF SeatAccounting, SeatsOnSale, LadderAccounting, LadderDown, RidersInv
    <3> QED BY <1>2, <1>5, <1>6, <1>7, <3>3, <3>4
  <2>2. CASE sem["SHIP"] = SEMVMX /\ PassGo(p, "leave", "failed on ladder") /\ sem' = sem
    <3>1. /\ Cardinality(Holders)' = Cardinality(Holders)
          /\ Cardinality(OnLadder)' = Cardinality(OnLadder)
          /\ Cardinality(Riders)' = Cardinality(Riders) - 1
          /\ Cardinality(OnLadder) >= 1
      <4>1. Counts("leave", "failed on ladder")
        BY <2>2, PassCounts
      <4> QED BY <1>8, <4>1 DEF Counts, Change, HolderPlaces, LadderPlaces, RiderPlaces
    <3>2. SeatAccounting' /\ LadderAccounting'
      BY <1>1, <1>3, <1>4, <1>5, <1>8, <2>2, <3>1
      DEF SeatAccounting, SeatsOnSale, LadderAccounting, LadderDown
    <3>3. RidersInv'
      BY <1>3, <1>4, <1>8, <3>1 DEF RidersInv
    <3> QED BY <1>9, <2>2, <3>2, <3>3
  <2> QED BY <1>17, <2>1, <2>2 DEF FreeSeat, GiveSeat
<1>18. CASE ReturnTicket(p)
  <2>1. CASE sem["SHIP"] < SEMVMX /\ PassGo(p, "ret", "exited") /\ Add("SHIP", 1)
    <3>1. /\ Cardinality(Holders)' = Cardinality(Holders) - 1
          /\ Cardinality(OnLadder)' = Cardinality(OnLadder)
          /\ Cardinality(Riders)' = Cardinality(Riders)
      <4>1. Counts("ret", "exited")
        BY <2>1, PassCounts
      <4> QED BY <1>8, <4>1 DEF Counts, Change, HolderPlaces, LadderPlaces, RiderPlaces
    <3>2. sem["SHIP"] + 1 \in 0 .. SEMVMX
      BY <1>5, <2>1, ShortAssumption DEF SEMVMX
    <3>3. /\ sem'["SHIP"] = sem["SHIP"] + 1
          /\ \A r \in Sem : r # "SHIP" => sem'[r] = sem[r]
          /\ sem' \in [Sem -> 0 .. SEMVMX]
      BY <1>5, <2>1, <3>2, AddSem
    <3>4. Accounts'
      BY <1>1, <1>3, <1>4, <1>5, <1>8, <3>1, <3>3
      DEF SeatAccounting, SeatsOnSale, LadderAccounting, LadderDown, RidersInv
    <3> QED BY <1>2, <1>5, <1>6, <1>7, <3>3, <3>4
  <2>2. CASE sem["SHIP"] = SEMVMX /\ PassGo(p, "ret", "failed") /\ sem' = sem
    <3>1. /\ Cardinality(Holders)' = Cardinality(Holders)
          /\ Cardinality(OnLadder)' = Cardinality(OnLadder)
          /\ Cardinality(Riders)' = Cardinality(Riders)
      <4>1. Counts("ret", "failed")
        BY <2>2, PassCounts
      <4> QED BY <1>8, <4>1 DEF Counts, Change, HolderPlaces, LadderPlaces, RiderPlaces
    <3>2. Accounts'
      BY <1>1, <1>3, <1>4, <1>5, <1>8, <2>2, <3>1
      DEF SeatAccounting, SeatsOnSale, LadderAccounting, LadderDown, RidersInv
    <3> QED BY <1>9, <2>2, <3>2
  <2> QED BY <1>18, <2>1, <2>2 DEF ReturnTicket, GiveSeat
<1> QED BY <1>10, <1>11, <1>12, <1>13, <1>14, <1>15, <1>16, <1>17, <1>18 DEF PassNext

LEMMA MainStep == ASSUME IInv, MainNext PROVE IInv'
<1> USE DEF IInv
<1>1. UNCHANGED <<argv, trip, sem>> /\ TypeOK
  BY DEF MainNext, CheckArgs, Semget, ForkShip, ForkPassenger, ForksDone, Wait, Remove,
         MainGo
<1>2. /\ npass' = npass /\ ship_cap' = ship_cap /\ ladd_cap' = ladd_cap
      /\ nfloat' = nfloat /\ ArgsOK' = ArgsOK
  BY <1>1, ArgsKept
<1>3. ASSUME pass' = pass, ship' = ship
      PROVE  ShipInv' /\ SeatAccounting' /\ LadderAccounting' /\ RidersInv'
  <2>1. Holders' = Holders /\ OnLadder' = OnLadder /\ Riders' = Riders
    BY <1>3, GroupsKept
  <2> QED BY <1>1, <1>2, <1>3, <2>1
      DEF ShipInv, SeatAccounting, SeatsOnSale, LadderAccounting, LadderDown, RidersInv
<1>4. CASE CheckArgs
  <2>1. TypeOK' /\ MainInv' /\ pass' = pass /\ ship' = ship
    BY <1>1, <1>2, <1>4 DEF CheckArgs, MainGo, TypeOK, MainInv
  <2> QED BY <1>3, <2>1
<1>5. CASE Semget
  <2>1. TypeOK' /\ MainInv' /\ pass' = pass /\ ship' = ship
    BY <1>1, <1>2, <1>5 DEF Semget, MainGo, TypeOK, MainInv
  <2> QED BY <1>3, <2>1
<1>6. CASE ForkShip
  <2>1. main = "fork ship" /\ main' = "fork" /\ reaped' = reaped
    BY <1>6 DEF ForkShip, MainGo
  <2>2. i' = 0
    BY <1>6 DEF ForkShip
  <2>3. /\ pass' = pass /\ ship = "unborn" /\ ship' \in {"init", "unborn"}
        /\ pass = [p \in Passenger |-> "unborn"] /\ ArgsOK
    BY <1>6, <2>1 DEF ForkShip, MainInv
  <2>4. TypeOK'
    <3>1. i' \in -SHRT_MAX - 1 .. SHRT_MAX
      BY <2>2, ShortAssumption
    <3> QED BY <1>1, <2>1, <2>3, <3>1 DEF TypeOK
  <2>5. MainInv'
    <3>1. i' >= 0 /\ \A p \in Passenger : pass'[p] = "unborn"
      BY <2>2, <2>3
    <3> QED BY <1>2, <2>1, <2>3, <3>1 DEF MainInv
  <2>6. Holders' = Holders /\ OnLadder' = OnLadder /\ Riders' = Riders
    BY <2>3, GroupsKept
  <2> QED BY <1>1, <1>2, <2>3, <2>4, <2>5, <2>6
      DEF ShipInv, Asleep, Over, SeatAccounting, SeatsOnSale, LadderAccounting, LadderDown,
          RidersInv
<1>7. CASE ForkPassenger
  <2>1. /\ main = "fork" /\ main' = "fork" /\ i < npass /\ i >= 0 /\ i' = i + 1
        /\ ship' = ship /\ reaped' = reaped /\ ArgsOK
    BY <1>7 DEF ForkPassenger, MainGo, MainInv
  <2>2. npass \in 1 .. SHRT_MAX /\ i \in Passenger /\ i + 1 \in 0 .. SHRT_MAX
    <3>1. npass \in 1 .. SHRT_MAX /\ i \in Int
      <4>1. argv \in Argvs
        BY <1>1 DEF TypeOK
      <4> QED BY <1>1, <2>1, <4>1, ArgsPositive, CounterInt
    <3> QED BY <2>1, <3>1, ShortAssumption DEF Passenger
  <2>3. PICK start \in {"ticket", "unborn"} : pass' = [pass EXCEPT ![i] = start]
    BY <1>7 DEF ForkPassenger
  <2>4. /\ pass[i] = "unborn"
        /\ \A q \in Passenger : q >= i => pass[q] = "unborn"
    <3>1. \A q \in Passenger : q >= i => pass[q] = "unborn"
      BY <2>1 DEF MainInv
    <3>2. i >= i
      BY <2>2 DEF Passenger
    <3> QED BY <2>2, <3>1, <3>2
  <2>5. TypeOK'
    <3>1. pass' \in [Passenger -> PassPlaces]
      BY <1>1, <2>3 DEF TypeOK, PassPlaces
    <3>2. i' \in -SHRT_MAX - 1 .. SHRT_MAX
      BY <2>1, <2>2, ShortAssumption
    <3> QED BY <1>1, <2>1, <3>1, <3>2 DEF TypeOK, PassPlaces
  <2>6. MainInv'
    <3>1. ASSUME NEW q \in Passenger, q >= i' PROVE pass'[q] = "unborn"
      <4>1. q >= i /\ q # i
        BY <2>1, <2>2, <3>1 DEF Passenger
      <4> QED BY <1>1, <2>3, <2>4, <4>1 DEF TypeOK
    <3> QED BY <1>2, <2>1, <2>2, <3>1 DEF MainInv
  <2>7. /\ Cardinality(Holders)' = Cardinality(Holders)
        /\ Cardinality(OnLadder)' = Cardinality(OnLadder)
        /\ Cardinality(Riders)' = Cardinality(Riders)
    <3>1. Holders' = Holders /\ OnLadder' = OnLadder /\ Riders' = Riders
      BY <1>1, <2>2, <2>3, <2>4 DEF Holders, OnLadder, Riders, In, TypeOK
    <3> QED BY <3>1
  <2> QED BY <1>1, <1>2, <2>1, <2>5, <2>6, <2>7
      DEF ShipInv, SeatAccounting, SeatsOnSale, LadderAccounting, LadderDown, RidersInv
<1>8. CASE ForksDone
  <2>1. TypeOK' /\ MainInv' /\ pass' = pass /\ ship' = ship
    <3>1. main = "fork" /\ main' = "wait" /\ i' = 0 /\ UNCHANGED <<ship, pass, reaped>>
      BY <1>8 DEF ForksDone, MainGo
    <3>2. TypeOK'
      <4>1. i' \in -SHRT_MAX - 1 .. SHRT_MAX
        BY <3>1, ShortAssumption
      <4> QED BY <1>1, <3>1, <4>1 DEF TypeOK
    <3>3. MainInv'
      BY <1>2, <3>1 DEF MainInv
    <3> QED BY <3>1, <3>2, <3>3
  <2> QED BY <1>3, <2>1
<1>9. CASE Wait
  <2>1. main = "wait" /\ main' = "wait" /\ i' = ToShort(i + 1) /\ pass' = pass /\ ship' = ship
    BY <1>9 DEF Wait, MainGo
  <2>2. i' \in -SHRT_MAX - 1 .. SHRT_MAX
    <3>1. i \in Int
      BY <1>1, CounterInt
    <3>2. i + 1 \in Int
      BY <3>1
    <3> QED BY <2>1, <3>2, ShortRange
  <2>3. reaped' \subseteq Passenger \cup {Ship}
    <3>1. reaped \subseteq Passenger \cup {Ship} /\ Ended \subseteq Passenger \cup {Ship}
      BY <1>1 DEF TypeOK, Ended
    <3>2. \/ \E c \in Ended \ reaped : reaped' = reaped \cup {c}
          \/ reaped' = reaped
      BY <1>9 DEF Wait
    <3> QED BY <3>1, <3>2
  <2>4. TypeOK' /\ MainInv'
    BY <1>1, <1>2, <2>1, <2>2, <2>3 DEF TypeOK, MainInv
  <2> QED BY <1>3, <2>1, <2>4
<1>10. CASE Remove
  <2>1. TypeOK' /\ MainInv' /\ pass' = pass /\ ship' = ship
    BY <1>1, <1>2, <1>10 DEF Remove, MainGo, TypeOK, MainInv
  <2> QED BY <1>3, <2>1
<1> QED BY <1>4, <1>5, <1>6, <1>7, <1>8, <1>9, <1>10 DEF MainNext

LEMMA StepInv == ASSUME IInv, [Next]_vars PROVE IInv'
<1>1. CASE MainNext
  BY <1>1, MainStep
<1>2. CASE ShipNext
  BY <1>2, ShipStep
<1>3. CASE \E p \in Passenger : PassNext(p)
  BY <1>3, PassStep
<1>4. CASE UNCHANGED vars
  <2>1. UNCHANGED <<argv, main, i, ship, trip, pass, sem, reaped>>
    BY <1>4 DEF vars
  <2>2. /\ npass' = npass /\ ship_cap' = ship_cap /\ ladd_cap' = ladd_cap
        /\ nfloat' = nfloat /\ ArgsOK' = ArgsOK
    BY <2>1, ArgsKept
  <2>3. Holders' = Holders /\ OnLadder' = OnLadder /\ Riders' = Riders
    BY <2>1, GroupsKept
  <2> QED BY <2>1, <2>2, <2>3
      DEF IInv, TypeOK, MainInv, ShipInv, SeatAccounting, SeatsOnSale, LadderAccounting,
          LadderDown, RidersInv
<1> QED BY <1>1, <1>2, <1>3, <1>4 DEF Next

-----------------------------------------------------------------------------
(***************************************************************************)
(* The theorems                                                            *)
(***************************************************************************)

\* The accounts and what they rest on hold in every reachable state.
THEOREM Invariance == Spec => []IInv
<1>1. Init => IInv
  BY InitInv
<1>2. IInv /\ [Next]_vars => IInv'
  BY StepInv
<1> QED BY <1>1, <1>2, PTL DEF Spec

\* No variable leaves its range, and no semaphore operation that boat.c makes
\* takes a semaphore below 0 or above SEMVMX unnoticed.
THEOREM TypeCorrect == Spec => []TypeOK
<1>1. IInv => TypeOK
  BY DEF IInv
<1> QED BY <1>1, Invariance, PTL

\* No interleaving of boarding, leaving, giving up and failing loses or
\* invents a seat.
THEOREM SeatsAccounted == Spec => []SeatAccounting
<1>1. IInv => SeatAccounting
  BY DEF IInv
<1> QED BY <1>1, Invariance, PTL

\* A raised ladder has nobody on it, a lowered one at most ladd_cap.
THEOREM LadderAccounted == Spec => []LadderAccounting
<1>1. IInv => LadderAccounting
  BY DEF IInv
<1> QED BY <1>1, Invariance, PTL

-----------------------------------------------------------------------------
(***************************************************************************)
(* The four semaphores implement the cruise                                *)
(***************************************************************************)

\* The instance's own copy of Cardinality.
LEMMA CruiseCardinality == ASSUME NEW S PROVE C!Cardinality(S) = Cardinality(S)
BY DEF C!Cardinality, Cardinality

LEMMA SemInt == ASSUME TypeOK PROVE sem["SHIP"] \in Int /\ sem["LADD"] \in Int
<1>1. sem \in [Sem -> 0 .. SEMVMX] /\ "SHIP" \in Sem /\ "LADD" \in Sem
  BY DEF TypeOK, Sem
<1> QED BY <1>1, ShortAssumption DEF SEMVMX

\* A passenger's move is a move between the places of the cruise.
Moved(p, from, to) == place[p] = from /\ place' = [place EXCEPT ![p] = to]

LEMMA PlaceMove ==
  ASSUME TypeOK, NEW p \in Passenger, NEW from, NEW to, PassGo(p, from, to)
  PROVE  Moved(p, Place(from), Place(to))
BY DEF TypeOK, PassGo, place, Moved

LEMMA PlaceValues ==
  /\ Place("ticket") = "beach" /\ Place("check") = "beach" /\ Place("ladd") = "beach"
  /\ Place("ret") = "beach" /\ Place("exited") = "beach" /\ Place("failed") = "beach"
  /\ Place("ship") = "boarding" /\ Place("waiting") = "aboard"
  /\ Place("ladd2") = "toured" /\ Place("leave") = "leaving"
  /\ Place("beach") = "leaving" /\ Place("failed on ladder") = "leaving"
BY DEF Place

\* Those on the cruise's ladder are those on the program's, and those aboard
\* are riders, one fewer while somebody stands before the ladder.
LEMMA CruiseGroups ==
  ASSUME TypeOK
  PROVE  /\ C!OnLadder = OnLadder
         /\ C!Aboard \subseteq Riders
         /\ \A p \in Passenger : pass[p] = "ladd" => p \in Riders /\ p \notin C!Aboard
<1>1. C!OnLadder = OnLadder
  BY DEF C!OnLadder, C!At, place, Place, OnLadder, In, TypeOK
<1>2. C!Aboard \subseteq Riders
  BY DEF C!Aboard, C!At, place, Place, Riders, In, TypeOK
<1>3. ASSUME NEW p \in Passenger, pass[p] = "ladd"
      PROVE  p \in Riders /\ p \notin C!Aboard
  BY <1>3 DEF C!Aboard, C!At, place, Place, Riders, In
<1> QED BY <1>1, <1>2, <1>3

\* Steps that leave the ladder up or down and everyone in place.
LEMMA CruiseStutter ==
  ASSUME argv' = argv, LadderDown' = LadderDown, place' = place
  PROVE  UNCHANGED C!cvars
BY ArgsKept DEF C!cvars

LEMMA ShipCruise == ASSUME IInv, ShipNext PROVE [C!Next]_(C!cvars)
<1> USE DEF IInv
<1>1. argv' = argv /\ pass' = pass /\ place' = place /\ ship # "unborn"
  BY DEF ShipNext, ShipInit, ShipForbid, ShipOpen, ShipClose, ShipAllow, ShipEnd,
         ShipForbid2, ShipOpen2, ShipWait, ShipGo, place
<1>2. ship_cap' = ship_cap /\ ladd_cap' = ladd_cap
  BY <1>1, ArgsKept
<1>3. CASE ShipOpen \/ ShipOpen2
  <2>1. ~LadderDown /\ LadderDown'
    BY <1>3 DEF ShipOpen, ShipOpen2, ShipGo, LadderDown
  <2>2. C!Dock
    BY <1>1, <1>2, <2>1 DEF C!Dock
  <2> QED BY <2>2 DEF C!Next
<1>4. CASE ShipClose
  <2>1. LadderDown /\ ~LadderDown'
    BY <1>4 DEF ShipClose, ShipGo, LadderDown
  <2>2. OnLadder = {}
    <3>1. ArgsOK /\ argv \in Argvs
      BY <1>1 DEF MainInv, TypeOK
    <3>2. sem["LADD"] \in Int
      BY SemInt
    <3>3. IsFiniteSet(OnLadder) /\ Cardinality(OnLadder) \in Nat
      BY GroupFinite DEF OnLadder
    <3>4. Cardinality(OnLadder) = 0
      BY <1>4, <2>1, <3>1, <3>2, <3>3, ArgsPositive DEF ShipClose, Sub, LadderAccounting
    <3> QED BY <3>3, <3>4, FS_EmptySet
  <2>3. C!Depart
    BY <1>1, <1>2, <2>1, <2>2, CruiseGroups DEF C!Depart
  <2> QED BY <2>3 DEF C!Next
<1>5. CASE ShipInit \/ ShipForbid \/ ShipAllow \/ ShipEnd \/ ShipForbid2 \/ ShipWait
  <2>1. LadderDown' = LadderDown
    BY <1>5 DEF ShipInit, ShipForbid, ShipAllow, ShipEnd, ShipForbid2, ShipWait, ShipGo,
                LadderDown
  <2> QED BY <1>1, <2>1, CruiseStutter
<1> QED BY <1>3, <1>4, <1>5 DEF ShipNext

LEMMA MainCruise == ASSUME IInv, MainNext PROVE [C!Next]_(C!cvars)
<1> USE DEF IInv
<1>1. argv' = argv
  BY DEF MainNext, CheckArgs, Semget, ForkShip, ForkPassenger, ForksDone, Wait, Remove,
         MainGo
<1>2. LadderDown' = LadderDown
  <2>1. CASE ForkShip
    <3>1. ship = "unborn" /\ ship' \in {"init", "unborn"}
      BY <2>1 DEF ForkShip, MainGo, MainInv
    <3> QED BY <3>1 DEF LadderDown
  <2>2. CASE ~ForkShip
    BY <2>2 DEF MainNext, CheckArgs, Semget, ForkPassenger, ForksDone, Wait, Remove,
                LadderDown
  <2> QED BY <2>1, <2>2
<1>3. place' = place
  <2>1. CASE ForkPassenger
    <3>1. PICK start \in {"ticket", "unborn"} : pass' = [pass EXCEPT ![i] = start]
      BY <2>1 DEF ForkPassenger
    <3>2. main = "fork"
      BY <2>1 DEF ForkPassenger, MainGo
    <3>3. ASSUME NEW q \in Passenger PROVE Place(pass'[q]) = Place(pass[q])
      <4>1. CASE q = i
        <5>1. pass[q] = "unborn"
          <6>1. q >= i
            BY <4>1, ShortAssumption DEF Passenger
          <6> QED BY <3>2, <6>1 DEF MainInv
        <5>2. pass'[q] \in {"ticket", "unborn"}
          BY <3>1, <4>1 DEF TypeOK
        <5> QED BY <5>1, <5>2 DEF Place
      <4>2. CASE q # i
        BY <3>1, <4>2 DEF TypeOK
      <4> QED BY <4>1, <4>2
    <3> QED BY <3>3 DEF place
  <2>2. CASE ~ForkPassenger
    BY <2>2 DEF MainNext, CheckArgs, Semget, ForkShip, ForksDone, Wait, Remove, place
  <2> QED BY <2>1, <2>2
<1> QED BY <1>1, <1>2, <1>3, CruiseStutter

LEMMA PassCruise == ASSUME IInv, NEW p \in Passenger, PassNext(p)
                    PROVE  [C!Next]_(C!cvars)
<1> USE DEF IInv
<1>1. argv' = argv /\ ship' = ship /\ LadderDown' = LadderDown /\ pass[p] # "unborn"
  BY DEF PassNext, Ticket, CheckEnd, GoToLadder, GoToShip, WaitDeparture, LeaveByLadder,
         FreeSeat, GoToBeach, ReturnTicket, GiveSeat, PassGo, LadderDown
<1>2. ship_cap' = ship_cap /\ ladd_cap' = ladd_cap
  BY <1>1, ArgsKept
<1>3. ArgsOK /\ ship_cap \in 1 .. SHRT_MAX /\ ladd_cap \in 1 .. SHRT_MAX
  <2>1. ArgsOK
    BY <1>1 DEF MainInv
  <2> QED BY <2>1, ArgsPositive DEF TypeOK
<1>4. IsFiniteSet(OnLadder) /\ Cardinality(OnLadder) \in Nat /\ sem["LADD"] \in Int
  BY GroupFinite, SemInt DEF OnLadder
<1>5. C!OnLadder = OnLadder
  BY CruiseGroups
<1>6. ASSUME p \in OnLadder PROVE LadderDown
  <2>1. OnLadder # {}
    BY <1>6
  <2>2. Cardinality(OnLadder) # 0
    BY <1>4, <2>1, FS_EmptySet
  <2>3. sem["LADD"] >= 0
    <3>1. sem \in [Sem -> 0 .. SEMVMX] /\ "LADD" \in Sem
      BY DEF TypeOK, Sem
    <3> QED BY <3>1, ShortAssumption DEF SEMVMX
  <2> QED BY <1>4, <2>2, <2>3 DEF LadderAccounting
<1>7. ASSUME sem["LADD"] >= 1 PROVE LadderDown /\ Cardinality(C!OnLadder) < ladd_cap
  BY <1>3, <1>4, <1>5, <1>7 DEF LadderAccounting
<1>8. CASE Ticket(p) \/ CheckEnd(p) \/ FreeSeat(p) \/ ReturnTicket(p)
  <2>1. PICK from \in PassPlaces, to \in PassPlaces :
          PassGo(p, from, to) /\ Place(from) = Place(to)
    <3>1. CASE Ticket(p)
      BY <3>1, PlaceValues DEF Ticket, PassPlaces
    <3>2. CASE CheckEnd(p)
      BY <3>2, PlaceValues DEF CheckEnd, PassPlaces
    <3>3. CASE FreeSeat(p)
      BY <3>3, PlaceValues DEF FreeSeat, GiveSeat, PassPlaces
    <3>4. CASE ReturnTicket(p)
      BY <3>4, PlaceValues DEF ReturnTicket, GiveSeat, PassPlaces
    <3> QED BY <1>8, <3>1, <3>2, <3>3, <3>4
  <2>2. place' = place
    <3>1. Moved(p, Place(from), Place(to))
      BY <2>1, PlaceMove
    <3> QED BY <2>1, <3>1 DEF Moved, place
  <2> QED BY <1>1, <2>2, CruiseStutter
<1>9. CASE GoToLadder(p)
  <2>1. PassGo(p, "ladd", "ship") /\ pass[p] = "ladd" /\ sem["LADD"] >= 1
    BY <1>9 DEF GoToLadder, Sub, PassGo
  <2>2. Moved(p, "beach", "boarding")
    <3>1. Moved(p, Place("ladd"), Place("ship"))
      BY <2>1, PlaceMove
    <3> QED BY <3>1, PlaceValues
  <2>3. Cardinality(C!Aboard) < ship_cap
    <3>1. C!Aboard \cup {p} \subseteq Riders /\ p \notin C!Aboard
      BY <2>1, CruiseGroups
    <3>2. IsFiniteSet(Riders) /\ Cardinality(Riders) \in Nat
      BY GroupFinite DEF Riders
    <3>3. IsFiniteSet(C!Aboard) /\ Cardinality(C!Aboard) \in Nat
      BY <3>1, <3>2, FS_Subset, FS_CardinalityType
    <3>4. Cardinality(C!Aboard \cup {p}) = Cardinality(C!Aboard) + 1
      BY <3>1, <3>3, FS_AddElement
    <3>5. Cardinality(C!Aboard \cup {p}) <= Cardinality(Riders)
      BY <3>1, <3>2, FS_Subset
    <3>6. Cardinality(Riders) <= ship_cap
      BY <1>3 DEF RidersInv
    <3> HIDE DEF IInv
    <3> QED BY <1>3, <3>2, <3>3, <3>4, <3>5, <3>6
  <2>4. LadderDown /\ Cardinality(C!OnLadder) < ladd_cap
    BY <1>7, <2>1
  <2>5. C!StepOn(p)
    BY <1>1, <1>2, <2>2, <2>3, <2>4, CruiseCardinality DEF C!StepOn, C!Move, Moved
  <2> QED BY <2>5 DEF C!Next
<1>10. CASE GoToShip(p)
  <2>1. PassGo(p, "ship", "waiting") /\ p \in OnLadder
    BY <1>10 DEF GoToShip, PassGo, OnLadder, In
  <2>2. Moved(p, "boarding", "aboard")
    <3>1. Moved(p, Place("ship"), Place("waiting"))
      BY <2>1, PlaceMove
    <3> QED BY <3>1, PlaceValues
  <2>3. C!StepAboard(p)
    BY <1>1, <1>2, <1>6, <2>1, <2>2 DEF C!StepAboard, C!Move, Moved
  <2> QED BY <2>3 DEF C!Next
<1>11. CASE WaitDeparture(p)
  <2>1. PassGo(p, "waiting", "ladd2") /\ sem["SLEEP"] = 0
    BY <1>11 DEF WaitDeparture, WaitZero
  <2>2. Moved(p, "aboard", "toured")
    <3>1. Moved(p, Place("waiting"), Place("ladd2"))
      BY <2>1, PlaceMove
    <3> QED BY <3>1, PlaceValues
  <2>3. ~LadderDown
    BY <2>1 DEF ShipInv, Asleep, LadderDown
  <2>4. C!Tour(p)
    BY <1>1, <1>2, <2>2, <2>3 DEF C!Tour, C!Move, Moved
  <2> QED BY <2>4 DEF C!Next
<1>12. CASE LeaveByLadder(p)
  <2>1. PassGo(p, "ladd2", "leave") /\ sem["LADD"] >= 1
    BY <1>12 DEF LeaveByLadder, Sub
  <2>2. Moved(p, "toured", "leaving")
    <3>1. Moved(p, Place("ladd2"), Place("leave"))
      BY <2>1, PlaceMove
    <3> QED BY <3>1, PlaceValues
  <2>3. LadderDown /\ Cardinality(C!OnLadder) < ladd_cap
    BY <1>7, <2>1
  <2>4. C!StepOff(p)
    BY <1>1, <1>2, <2>2, <2>3, CruiseCardinality DEF C!StepOff, C!Move, Moved
  <2> QED BY <2>4 DEF C!Next
<1>13. CASE GoToBeach(p)
  <2>1. PassGo(p, "beach", "ticket") /\ p \in OnLadder
    BY <1>13 DEF GoToBeach, PassGo, OnLadder, In
  <2>2. Moved(p, "leaving", "beach")
    <3>1. Moved(p, Place("beach"), Place("ticket"))
      BY <2>1, PlaceMove
    <3> QED BY <3>1, PlaceValues
  <2>3. C!Ashore(p)
    BY <1>1, <1>2, <1>6, <2>1, <2>2 DEF C!Ashore, C!Move, Moved
  <2> QED BY <2>3 DEF C!Next
<1> QED BY <1>8, <1>9, <1>10, <1>11, <1>12, <1>13 DEF PassNext

\* boat.c implements the cruise: nobody stands on a raised ladder, at most
\* ship_cap are aboard and ladd_cap on the ladder, and whoever leaves has been
\* aboard through a departure.
THEOREM Refinement == Spec => CruiseSpec
<1>1. Init => C!Init
  <2> SUFFICES ASSUME Init PROVE C!Init
    OBVIOUS
  <2>1. LadderDown = FALSE /\ place = [p \in Passenger |-> "beach"]
    BY DEF Init, LadderDown, place, Place
  <2> QED BY <2>1 DEF C!Init
<1>2. IInv /\ [Next]_vars => [C!Next]_(C!cvars)
  <2> SUFFICES ASSUME IInv, [Next]_vars PROVE [C!Next]_(C!cvars)
    OBVIOUS
  <2>1. CASE UNCHANGED vars
    BY <2>1, CruiseStutter DEF vars, LadderDown, place
  <2> QED BY <2>1, MainCruise, ShipCruise, PassCruise DEF Next
<1> QED BY <1>1, <1>2, Invariance, PTL DEF Spec, CruiseSpec, C!Spec

-----------------------------------------------------------------------------
(***************************************************************************)
(* Removing the semaphores                                                 *)
(***************************************************************************)

\* wait() has returned as many children as main's counter says, or there is
\* none left.  The counter, a short, may have wrapped below zero.
ReapInv == /\ reaped \subseteq Ended
           /\ main \notin {"wait", "success"} => reaped = {}
           /\ \A p \in Passenger : pass[p] # "unborn" => p < npass
           /\ main = "wait" => \/ Born = reaped
                               \/ IsFiniteSet(reaped) /\ Cardinality(reaped) >= i
           /\ RemovedAfterAll

\* A process that has ended takes no step, and none is born by its own step.
LEMMA ShipReap == ASSUME IInv, ReapInv, ShipNext PROVE ReapInv'
<1>1. /\ UNCHANGED <<argv, main, i, pass, reaped>>
      /\ ship \notin {"unborn", "exited", "failed"} /\ ship' # "unborn"
  BY DEF ShipNext, ShipInit, ShipForbid, ShipOpen, ShipClose, ShipAllow, ShipEnd,
         ShipForbid2, ShipOpen2, ShipWait, ShipGo
<1>2. Born' = Born /\ Ended \subseteq Ended' /\ npass' = npass
  BY <1>1, ArgsKept DEF Born, Ended
<1> QED BY <1>1, <1>2 DEF ReapInv, RemovedAfterAll

LEMMA PassReap == ASSUME IInv, ReapInv, NEW p \in Passenger, PassNext(p) PROVE ReapInv'
<1>1. PICK to \in PassPlaces :
        /\ UNCHANGED <<argv, main, i, ship, trip, reaped>>
        /\ pass[p] \notin {"unborn", "exited", "failed", "failed on ladder"}
        /\ to # "unborn" /\ pass' = [pass EXCEPT ![p] = to]
  BY DEF PassNext, Ticket, CheckEnd, GoToLadder, GoToShip, WaitDeparture, LeaveByLadder,
         FreeSeat, GoToBeach, ReturnTicket, GiveSeat, PassGo, PassPlaces
<1>2. pass \in [Passenger -> PassPlaces]
  BY DEF IInv, TypeOK, PassPlaces
<1>3. Born' = Born /\ Ended \subseteq Ended' /\ npass' = npass
  BY <1>1, <1>2, ArgsKept DEF Born, Ended
<1> QED BY <1>1, <1>2, <1>3 DEF ReapInv, RemovedAfterAll

\* main has one wait() for each child that can have been born.
LEMMA BornCount ==
  ASSUME ReapInv, npass \in 1 .. SHRT_MAX
  PROVE  IsFiniteSet(Born) /\ Cardinality(Born) <= npass + 1
<1>1. Born \subseteq Ship .. npass - 1
  BY ShortAssumption DEF ReapInv, Born, Ship, Passenger
<1>2. Ship \in Int /\ npass - 1 \in Int
  BY DEF Ship
<1>3. IsFiniteSet(Ship .. npass - 1) /\ Cardinality(Ship .. npass - 1) = npass + 1
  <2> DEFINE last == npass - 1
  <2>1. /\ IsFiniteSet(Ship .. last)
        /\ Cardinality(Ship .. last) = IF Ship > last THEN 0 ELSE last - Ship + 1
    <3> HIDE DEF last
    <3> QED BY <1>2, FS_Interval DEF last
  <2> QED BY <2>1 DEF Ship
<1> QED BY <1>1, <1>3, FS_Subset

LEMMA WaitReap == ASSUME IInv, ReapInv, Wait PROVE ReapInv'
<1>1. /\ main = "wait" /\ main' = "wait" /\ i' = ToShort(i + 1) /\ i < npass + 1
      /\ UNCHANGED <<argv, ship, pass>>
  BY DEF Wait, MainGo
<1>2. Ended' = Ended /\ Born' = Born /\ npass' = npass
  BY <1>1, ArgsKept DEF Ended, Born
<1>3. CASE Born = reaped /\ UNCHANGED reaped
  BY <1>1, <1>2, <1>3 DEF ReapInv, RemovedAfterAll
<1>4. ASSUME NEW c \in Ended \ reaped, reaped' = reaped \cup {c} PROVE ReapInv'
  <2>1. Born # reaped
    BY <1>4 DEF Born, Ended
  <2>2. IsFiniteSet(reaped) /\ Cardinality(reaped) >= i /\ i \in Int
    BY <1>1, <2>1, CounterInt DEF ReapInv, IInv
  <2>3. Cardinality(reaped) \in Nat
    BY <2>2, FS_CardinalityType
  <2>4. IsFiniteSet(reaped') /\ Cardinality(reaped') = Cardinality(reaped) + 1
    BY <1>4, <2>2, FS_AddElement
  <2>5. ToShort(i + 1) <= i + 1
    <3>1. i \in -SHRT_MAX - 1 .. SHRT_MAX
      BY DEF IInv, TypeOK
    <3> QED BY <3>1, ShortWraps
  <2>6. ToShort(i + 1) \in Int
    <3>1. i + 1 \in Int
      BY <2>2
    <3> QED BY <3>1, ShortRange, ShortAssumption
  <2>7. Cardinality(reaped') >= i'
    BY <1>1, <2>2, <2>3, <2>4, <2>5, <2>6
  <2> QED BY <1>1, <1>2, <1>4, <2>4, <2>7 DEF ReapInv, RemovedAfterAll
<1> QED BY <1>3, <1>4 DEF Wait

LEMMA MainReap == ASSUME IInv, ReapInv, MainNext PROVE ReapInv'
<1>1. TypeOK /\ UNCHANGED argv
  BY DEF IInv, MainNext, CheckArgs, Semget, ForkShip, ForkPassenger, ForksDone, Wait, Remove,
         MainGo
<1>2. npass' = npass
  BY <1>1, ArgsKept
<1>3. CASE CheckArgs \/ Semget \/ ForkShip
  <2>1. /\ main \notin {"wait", "success"} /\ main' \notin {"wait", "success"}
        /\ UNCHANGED <<pass, reaped>>
    BY <1>3 DEF CheckArgs, Semget, ForkShip, MainGo
  <2> QED BY <1>2, <2>1 DEF ReapInv, RemovedAfterAll
<1>4. CASE ForkPassenger
  <2>1. /\ main = "fork" /\ main' = "fork" /\ i < npass /\ UNCHANGED reaped
        /\ \E start \in {"ticket", "unborn"} : pass' = [pass EXCEPT ![i] = start]
    BY <1>4 DEF ForkPassenger, MainGo
  <2>2. \A p \in Passenger : pass'[p] # "unborn" => p < npass
    BY <1>1, <2>1 DEF ReapInv, TypeOK
  <2> QED BY <1>2, <2>1, <2>2 DEF ReapInv, RemovedAfterAll
<1>5. CASE ForksDone
  <2>1. main = "fork" /\ main' = "wait" /\ i' = 0 /\ UNCHANGED <<ship, pass, reaped>>
    BY <1>5 DEF ForksDone, MainGo
  <2>2. reaped = {} /\ IsFiniteSet(reaped') /\ Cardinality(reaped') = 0
    BY <2>1, FS_EmptySet DEF ReapInv
  <2> QED BY <1>2, <2>1, <2>2 DEF ReapInv, RemovedAfterAll
<1>6. CASE Remove
  <2>1. /\ main = "wait" /\ main' = "success" /\ i >= npass + 1
        /\ UNCHANGED <<ship, pass, reaped>> /\ npass \in 1 .. SHRT_MAX /\ i \in Int
    <3>1. main = "wait" /\ argv \in Argvs
      BY <1>1, <1>6 DEF Remove, MainGo, TypeOK
    <3>2. ArgsOK
      BY <3>1 DEF IInv, MainInv
    <3>3. npass \in 1 .. SHRT_MAX
      BY <3>1, <3>2, ArgsPositive
    <3> QED BY <1>1, <1>6, <3>3, CounterInt DEF Remove, MainGo
  <2>2. reaped \subseteq Born /\ reaped \subseteq Ended
    BY DEF ReapInv, Ended, Born
  <2>3. Born = reaped
    <3> SUFFICES ASSUME IsFiniteSet(reaped), Cardinality(reaped) >= i PROVE Born = reaped
      BY <2>1 DEF ReapInv
    <3>1. IsFiniteSet(Born) /\ Cardinality(Born) <= npass + 1
      BY <2>1, BornCount
    <3>2. /\ Cardinality(reaped) <= Cardinality(Born)
          /\ Cardinality(reaped) \in Nat /\ Cardinality(Born) \in Nat
      BY <2>2, <3>1, FS_Subset, FS_CardinalityType
    <3>3. Cardinality(reaped) = Cardinality(Born)
      BY <2>1, <3>1, <3>2
    <3> QED BY <2>2, <3>1, <3>3, FS_Subset
  <2>4. Born' = Born /\ Ended' = Ended
    BY <2>1 DEF Born, Ended
  <2> QED BY <1>2, <2>1, <2>2, <2>3, <2>4 DEF ReapInv, RemovedAfterAll
<1> QED BY <1>3, <1>4, <1>5, <1>6, WaitReap DEF MainNext

\* main removes the semaphores (line 112) when no child can use them any more,
\* for every number of passengers a short can hold.
THEOREM RemovedLast == Spec => []RemovedAfterAll
<1>1. Init => ReapInv
  BY DEF Init, ReapInv, RemovedAfterAll
<1>2. IInv /\ ReapInv /\ [Next]_vars => ReapInv'
  <2> SUFFICES ASSUME IInv, ReapInv, [Next]_vars PROVE ReapInv'
    OBVIOUS
  <2>1. CASE UNCHANGED vars
    <3>1. UNCHANGED <<argv, main, i, ship, pass, reaped>>
      BY <2>1 DEF vars
    <3>2. npass' = npass
      BY <3>1, ArgsKept
    <3> QED BY <3>1, <3>2 DEF ReapInv, RemovedAfterAll, Born, Ended
  <2> QED BY <2>1, ShipReap, PassReap, MainReap DEF Next
<1>3. ReapInv => RemovedAfterAll
  BY DEF ReapInv
<1> QED BY <1>1, <1>2, <1>3, Invariance, PTL DEF Spec
=============================================================================
