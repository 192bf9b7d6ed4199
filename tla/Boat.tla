-------------------------------- MODULE Boat --------------------------------
(***************************************************************************)
(* src/boat/boat.c: a ship process and npass passenger processes that      *)
(* share one System V set of four semaphores.                              *)
(*   SHIP   free seats (a ticket is one of them)                           *)
(*   LADD   free places on the ladder, 0 while it is up                    *)
(*   SLEEP  1 while nobody may start to leave the ship                     *)
(*   END    1 once the cruise is over                                      *)
(* One action is one semop, fork or wait; a semop that has to block is an  *)
(* action that is not enabled.  A process may be preempted just before any *)
(* call, so usleep orders nothing and is left out.                         *)
(***************************************************************************)
EXTENDS Integers, Sequences, FiniteSets

CONSTANTS SHRT_MAX,   \* largest short, and the kernel's SEMVMX: 32767
          Argvs       \* command lines: sequences of what strtol returns

ASSUME ShortAssumption == SHRT_MAX \in Nat \ {0}
ASSUME ArgvsAssumption == Argvs \subseteq Seq(Int)

SEMVMX == SHRT_MAX

\* The cast to short of lines 65-89: 16-bit wrap-around when SHRT_MAX is 32767.
ToShort(v) == ((v + SHRT_MAX + 1) % (2 * (SHRT_MAX + 1))) - (SHRT_MAX + 1)

Passenger == 0 .. SHRT_MAX - 1     \* the values of passenger()'s parameter
Ship == -1                         \* the ship among main's children
Sem == {"SHIP", "LADD", "SLEEP", "END"}

VARIABLES argv,     \* the command line, fixed
          main,     \* where main() is
          i,        \* main's loop counter, a short
          ship,     \* where ship() is
          trip,     \* ship()'s loop counter
          pass,     \* where each passenger() is
          sem,      \* the semaphore set
          reaped    \* the children wait() has returned

vars == <<argv, main, i, ship, trip, pass, sem, reaped>>

Arg(n) == IF n \in DOMAIN argv THEN ToShort(argv[n]) ELSE 0
npass == Arg(1)
ship_cap == Arg(2)
ladd_cap == Arg(3)
nfloat == Arg(4)

ArgsOK == Len(argv) = 4 /\ \A n \in 1 .. 4 : Arg(n) > 0

-----------------------------------------------------------------------------
(* semop: a negative operation waits for enough, a zero one waits for 0.   *)

Add(s, n) == sem' = [sem EXCEPT ![s] = @ + n]
Sub(s, n) == sem[s] >= n /\ Add(s, -n)
WaitZero(s) == sem[s] = 0 /\ UNCHANGED sem

-----------------------------------------------------------------------------
(* ship()                                                                  *)

ShipGo(from, to) == /\ ship = from /\ ship' = to
                    /\ UNCHANGED <<argv, main, i, pass, reaped>>

ShipInit == /\ ShipGo("init", "forbid") /\ Add("SHIP", ship_cap)
            /\ trip' = 0

\* A mutant: one trip too many, "i <= nfloat".
ForbidOnceMore == /\ trip <= nfloat
                  /\ ShipGo("forbid", "open") /\ Add("SLEEP", 1)
                  /\ UNCHANGED trip

\* The loop head is here: nfloat trips, then the end.
ShipForbid == /\ trip < nfloat
              /\ ShipGo("forbid", "open") /\ Add("SLEEP", 1)
              /\ UNCHANGED trip

ShipOpen == /\ ShipGo("open", "close") /\ Add("LADD", ladd_cap)
            /\ UNCHANGED trip

\* A mutant: set LADD to 0 (SETVAL) instead of taking every place back.
ShipCloseResets == /\ ShipGo("close", "allow") /\ sem' = [sem EXCEPT !["LADD"] = 0]
                   /\ UNCHANGED trip

ShipClose == /\ ShipGo("close", "allow") /\ Sub("LADD", ladd_cap)
             /\ UNCHANGED trip

ShipAllow == /\ ShipGo("allow", "forbid") /\ Sub("SLEEP", 1)
             /\ trip' = trip + 1

ShipEnd == /\ trip >= nfloat
           /\ ShipGo("forbid", "forbid2") /\ Add("END", 1)
           /\ UNCHANGED trip

ShipForbid2 == /\ ShipGo("forbid2", "open2") /\ Add("SLEEP", 1)
               /\ UNCHANGED trip

ShipOpen2 == /\ ShipGo("open2", "wait") /\ Add("LADD", ladd_cap)
             /\ UNCHANGED trip

\* The operation called "wait" adds a second ship_cap to SHIP.  The kernel
\* answers ERANGE above SEMVMX, and ASSERT then ends the process.
ShipWait == /\ UNCHANGED trip
            /\ \/ /\ sem["SHIP"] + ship_cap <= SEMVMX
                  /\ ShipGo("wait", "exited") /\ Add("SHIP", ship_cap)
               \/ /\ sem["SHIP"] + ship_cap > SEMVMX
                  /\ ShipGo("wait", "failed") /\ UNCHANGED sem

ShipNext == \/ ShipInit \/ ShipForbid \/ ShipOpen \/ ShipClose \/ ShipAllow
            \/ ShipEnd \/ ShipForbid2 \/ ShipOpen2 \/ ShipWait

-----------------------------------------------------------------------------
(* passenger(p)                                                            *)

PassGo(p, from, to) == /\ pass[p] = from
                       /\ pass' = [pass EXCEPT ![p] = to]
                       /\ UNCHANGED <<argv, main, i, ship, trip, reaped>>

Ticket(p) == PassGo(p, "ticket", "check") /\ Sub("SHIP", 1)

\* check_end: IPC_NOWAIT makes "not zero" an answer instead of a block.
CheckEnd(p) == /\ UNCHANGED sem
               /\ \/ sem["END"] = 0 /\ PassGo(p, "check", "ladd")
                  \/ sem["END"] # 0 /\ PassGo(p, "check", "ret")

GoToLadder(p) == PassGo(p, "ladd", "ship") /\ Sub("LADD", 1)

\* A mutant: the place on the ladder is kept.
KeepLadder(p) == PassGo(p, "ship", "waiting") /\ UNCHANGED sem

GoToShip(p) == PassGo(p, "ship", "waiting") /\ Add("LADD", 1)

\* A mutant: WAIT left out, as in the program's earlier version (main.c:115).
LeaveAtOnce(p) == PassGo(p, "waiting", "ladd2") /\ UNCHANGED sem

WaitDeparture(p) == PassGo(p, "waiting", "ladd2") /\ WaitZero("SLEEP")
LeaveByLadder(p) == PassGo(p, "ladd2", "leave") /\ Sub("LADD", 1)

\* Giving a seat back goes past SEMVMX when the ship has added its second
\* ship_cap: ERANGE, and ASSERT ends the process where it is.
GiveSeat(p, from, to, failed) ==
  \/ sem["SHIP"] < SEMVMX /\ PassGo(p, from, to) /\ Add("SHIP", 1)
  \/ sem["SHIP"] = SEMVMX /\ PassGo(p, from, failed) /\ UNCHANGED sem

FreeSeat(p) == GiveSeat(p, "leave", "beach", "failed on ladder")
GoToBeach(p) == PassGo(p, "beach", "ticket") /\ Add("LADD", 1)

\* A mutant: home with the ticket still in hand.
KeepTicket(p) == PassGo(p, "ret", "exited") /\ UNCHANGED sem

ReturnTicket(p) == GiveSeat(p, "ret", "exited", "failed")

PassNext(p) == \/ Ticket(p) \/ CheckEnd(p) \/ GoToLadder(p) \/ GoToShip(p)
               \/ WaitDeparture(p) \/ LeaveByLadder(p) \/ FreeSeat(p)
               \/ GoToBeach(p) \/ ReturnTicket(p)

-----------------------------------------------------------------------------
(* main()                                                                  *)

MainGo(from, to) == main = from /\ main' = to /\ UNCHANGED <<argv, trip, sem>>

CheckArgs == /\ \/ ArgsOK /\ MainGo("args", "semget")
                \/ ~ArgsOK /\ MainGo("args", "usage")
             /\ UNCHANGED <<i, ship, pass, reaped>>

Semget == /\ \/ MainGo("semget", "fork ship")
             \/ MainGo("semget", "failed")
          /\ UNCHANGED <<i, ship, pass, reaped>>

\* fork() == -1 is not 0, so a fork that fails is taken for the parent's side.
ForkShip == /\ MainGo("fork ship", "fork")
            /\ i' = 0
            /\ ship' \in {"init", "unborn"}
            /\ UNCHANGED <<pass, reaped>>

ForkPassenger == /\ i < npass
                 /\ MainGo("fork", "fork")
                 /\ i' = i + 1
                 /\ \E start \in {"ticket", "unborn"} :
                       pass' = [pass EXCEPT ![i] = start]
                 /\ UNCHANGED <<ship, reaped>>

ForksDone == /\ i >= npass
             /\ MainGo("fork", "wait")
             /\ i' = 0
             /\ UNCHANGED <<ship, pass, reaped>>

Born == {p \in Passenger : pass[p] # "unborn"}
        \cup (IF ship = "unborn" THEN {} ELSE {Ship})
Ended == {p \in Passenger : pass[p] \in {"exited", "failed", "failed on ladder"}}
         \cup (IF ship \in {"exited", "failed"} THEN {Ship} ELSE {})

\* A mutant: go on to the next child only when wait() found one.
WaitRetries == /\ i < npass + 1
               /\ MainGo("wait", "wait")
               /\ \/ /\ \E c \in Ended \ reaped : reaped' = reaped \cup {c}
                     /\ i' = ToShort(i + 1)
                  \/ Born = reaped /\ UNCHANGED <<i, reaped>>
               /\ UNCHANGED <<ship, pass>>

\* wait(NULL): some child that has ended, or ECHILD at once when none is left.
\* The bound npass + 1 is an int, the counter a short.
Wait == /\ i < npass + 1
        /\ MainGo("wait", "wait")
        /\ i' = ToShort(i + 1)
        /\ \/ \E c \in Ended \ reaped : reaped' = reaped \cup {c}
           \/ Born = reaped /\ UNCHANGED reaped
        /\ UNCHANGED <<ship, pass>>

\* A mutant: the ship's wait() forgotten.
RemoveAfterNpass == /\ i >= npass
                    /\ MainGo("wait", "success")
                    /\ UNCHANGED <<i, ship, pass, reaped>>

\* IPC_RMID and "Success".
Remove == /\ i >= npass + 1
          /\ MainGo("wait", "success")
          /\ UNCHANGED <<i, ship, pass, reaped>>

MainNext == \/ CheckArgs \/ Semget \/ ForkShip \/ ForkPassenger \/ ForksDone
            \/ Wait \/ Remove

-----------------------------------------------------------------------------
\* A new semaphore set holds zeros (Linux; the program never sets it).
Init == /\ argv \in Argvs
        /\ main = "args"
        /\ i = 0
        /\ ship = "unborn"
        /\ trip = 0
        /\ pass = [p \in Passenger |-> "unborn"]
        /\ sem = [s \in Sem |-> 0]
        /\ reaped = {}

Next == MainNext \/ ShipNext \/ \E p \in Passenger : PassNext(p)

Spec == Init /\ [][Next]_vars

\* Every process keeps running as long as its next call can return.
FairSpec == /\ Spec
            /\ WF_vars(MainNext)
            /\ WF_vars(ShipNext)
            /\ \A p \in Passenger : WF_vars(PassNext(p))

-----------------------------------------------------------------------------
(* Properties                                                              *)

\* Types, and no semaphore ever passes SEMVMX by an operation the code does
\* not check for it.
TypeOK == /\ argv \in Argvs
          /\ main \in {"args", "usage", "semget", "failed", "fork ship", "fork",
                       "wait", "success"}
          /\ i \in -SHRT_MAX - 1 .. SHRT_MAX
          /\ ship \in {"unborn", "init", "forbid", "open", "close", "allow",
                       "forbid2", "open2", "wait", "exited", "failed"}
          /\ trip \in 0 .. SHRT_MAX
          /\ pass \in [Passenger -> {"unborn", "ticket", "check", "ladd", "ship",
                       "waiting", "ladd2", "leave", "beach", "ret", "exited", "failed",
                       "failed on ladder"}]
          /\ sem \in [Sem -> 0 .. SEMVMX]
          /\ reaped \subseteq Passenger \cup {Ship}

In(S) == {p \in Passenger : pass[p] \in S}

Holders == In({"check", "ladd", "ship", "waiting", "ladd2", "leave", "ret",
               "failed", "failed on ladder"})
OnLadder == In({"ship", "leave", "beach", "failed on ladder"})
LadderDown == ship \in {"close", "wait", "exited", "failed"}

\* SHIP counts the free seats: whoever bought a ticket and did not give the
\* seat back (lines 187-226) is missing from it, over all interleavings, and
\* the ship's last operation doubles the seats.
SeatsOnSale == IF ship \in {"unborn", "init"} THEN 0
               ELSE IF ship = "exited" THEN 2 * ship_cap ELSE ship_cap
SeatAccounting == sem["SHIP"] + Cardinality(Holders) = SeatsOnSale

\* LADD counts the free places of a ladder that is down, and a raised ladder
\* has nobody on it (lines 138-147 against 194-222).
LadderAccounting ==
  sem["LADD"] + Cardinality(OnLadder) = IF LadderDown THEN ladd_cap ELSE 0

Place(at) == IF at = "ship" THEN "boarding"
             ELSE IF at = "waiting" THEN "aboard"
             ELSE IF at = "ladd2" THEN "toured"
             ELSE IF at \in {"leave", "beach", "failed on ladder"} THEN "leaving"
             ELSE "beach"

place == [p \in Passenger |-> Place(pass[p])]

C == INSTANCE Cruise WITH cap <- ship_cap, ladd <- ladd_cap, docked <- LadderDown

\* The four semaphores implement the cruise: nobody on a raised ladder, never
\* more than ship_cap aboard or ladd_cap on the ladder, and nobody leaves
\* before a departure (the comment at line 131).
CruiseSpec == C!Spec

\* main removes the semaphores (line 112) when no child can use them any more.
RemovedAfterAll == main = "success" => Born \subseteq Ended

\* However the passengers crowd the ladder, the ship gets it back at every
\* beach and completes its trips (lines 127-178).
ShipFinishes == ship = "init" ~> ship \in {"exited", "failed"}

\* Whoever still wants a ticket when the ship is gone gets one, finds END set
\* and goes home (lines 187-191, 226-231).
LateArrivalsGoHome ==
  \A p \in Passenger : (ship = "exited" /\ pass[p] = "ticket")
                           ~> pass[p] \in {"exited", "failed"}

\* When every child has ended, main comes to the end of its wait loop (lines
\* 109-115), fork failures included.  Not for npass = SHRT_MAX: see the hazards.
MainReports ==
  (main = "wait" /\ npass < SHRT_MAX /\ Born \subseteq Ended) ~> main = "success"

\* Line 171, before the ship's last operation: "wait when all passangers leave
\* ship".
ShipLeavesEmpty ==
  ship = "exited" => In({"ship", "waiting", "ladd2", "leave"}) = {}

\* Line 156: "signal to passangers that cruise end", so that they go home.
EndReachesAll ==
  \A p \in Passenger : sem["END"] = 1 ~> pass[p] \in {"unborn", "exited"}
=============================================================================
