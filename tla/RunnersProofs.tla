---------------------------- MODULE RunnersProofs ---------------------------
(***************************************************************************)
(* The relay race keeps one baton, counts who is ready, implements Race    *)
(* and removes an empty queue, for teams and queues of every size.         *)
(***************************************************************************)
EXTENDS Runners, FiniteSetTheorems, TLAPS

(***************************************************************************)
(* The inductive invariant                                                 *)
(***************************************************************************)

Places == {"unborn", "ready", "wait", "run", "exited"}
Batonlike == Type \ {READY}

\* Children are forked in the order of their numbers, and only the team.
MainInv ==
  /\ main \in {"msgget", "failed", "fork judge"} =>
       judge = "unborn" /\ \A r \in Runner : runner[r] = "unborn"
  /\ main = "fork" => \A r \in Runner : r >= i => runner[r] = "unborn"
  /\ \A r \in Runner : r >= numRun => runner[r] = "unborn"

Only(t) == \A u \in Batonlike : msgs[u] = IF u = t THEN 1 ELSE 0
NoBaton == \A u \in Batonlike : msgs[u] = 0

\* Leg b of the race: everybody before runner b has run, everybody behind
\* waits, and the baton lies for b in the queue or is in b's hand.
Leg(b) == /\ \A r \in Runner : /\ r < b => runner[r] = "exited"
                               /\ b < r /\ r < numRun => runner[r] = "wait"
          /\ \/ runner[b] = "wait" /\ Only(START + b)
             \/ runner[b] = "run" /\ NoBaton

\* A judge who starts a race without a team waits for it, or fails, for good.
RaceInv ==
  /\ judge \in {"unborn", "hear"} =>
       NoBaton /\ \A r \in Runner : runner[r] \in {"unborn", "ready", "wait"}
  /\ judge = "finish" =>
       /\ heard >= numRun
       /\ \/ numRun <= 0 /\ Only(START)
          \/ \E b \in Runner : b < numRun /\ Leg(b)
          \/ numRun > 0 /\ Only(FINISH) /\ \A r \in Runner : r < numRun => runner[r] = "exited"
  /\ judge = "exited" =>
       /\ heard >= numRun /\ NoBaton
       /\ \A r \in Runner : r < numRun => runner[r] = "exited"
  /\ judge = "failed" => Removed /\ numRun < 0 /\ (NoBaton \/ Only(START))

\* wait() has returned as many children as main's counter says, or there is
\* none left; so nobody is left when the queue is removed.
ReapInv == /\ reaped <= Ended
           /\ main \notin {"wait", "removed"} => reaped = 0
           /\ main = "wait" => reaped = Born \/ reaped >= i
           /\ Removed /\ numRun >= 0 => Ended = Born

IInv == TypeOK /\ MainInv /\ Account /\ RaceInv /\ ReapInv

-----------------------------------------------------------------------------
(***************************************************************************)
(* Lemmas                                                                  *)
(***************************************************************************)

\* Runners and message types are where the code's arithmetic puts them.
LEMMA Numbers ==
  /\ MaxRun \in Nat /\ NumRuns \subseteq Int /\ \A n \in NumRuns : n <= MaxRun
  /\ Runner \subseteq Nat /\ READY \in Type /\ FINISH \in Batonlike /\ START \in Batonlike
  /\ READY \notin Batonlike /\ Type = Batonlike \cup {READY}
  /\ \A r \in Runner : START + r \in Batonlike /\ START + r + 1 \in Batonlike
  /\ \A r \in Nat : START + r # FINISH /\ START + r # READY
BY RunnersAssumption DEF Runner, Type, Batonlike, READY, FINISH, START

\* Sending and receiving change the number of messages of one type by one.
LEMMA SendMsg ==
  ASSUME msgs \in [Type -> Nat], NEW t \in Type, send_msg(t)
  PROVE  /\ ~Removed /\ msgs' \in [Type -> Nat]
         /\ msgs'[t] = msgs[t] + 1 /\ \A u \in Type : u # t => msgs'[u] = msgs[u]
BY DEF send_msg

LEMMA GetMsg ==
  ASSUME msgs \in [Type -> Nat], NEW t \in Type, get_msg(t)
  PROVE  /\ ~Removed /\ msgs' \in [Type -> Nat] /\ msgs[t] > 0
         /\ msgs'[t] = msgs[t] - 1 /\ \A u \in Type : u # t => msgs'[u] = msgs[u]
BY DEF get_msg

In(S) == {r \in Runner : runner[r] \in S}

\* The runners are finitely many, so every group of them has a size.
LEMMA GroupFinite == ASSUME NEW S
                     PROVE  IsFiniteSet(In(S)) /\ Cardinality(In(S)) \in Nat
<1>1. IsFiniteSet(Runner)
  <2>1. 0 \in Int /\ MaxRun - 1 \in Int
    BY RunnersAssumption
  <2> QED BY <2>1, FS_Interval DEF Runner
<1>2. In(S) \subseteq Runner
  BY DEF In
<1>3. IsFiniteSet(In(S))
  BY <1>1, <1>2, FS_Subset
<1> QED BY <1>3, FS_CardinalityType

\* One runner's move changes the size of a group by who joins and leaves.
LEMMA GroupMove ==
  ASSUME runner \in [Runner -> Places], NEW p \in Runner, NEW to,
         runner' = [runner EXCEPT ![p] = to], NEW S
  PROVE  Cardinality(In(S))' = Cardinality(In(S))
                                + (IF to \in S THEN 1 ELSE 0)
                                - (IF runner[p] \in S THEN 1 ELSE 0)
<1> DEFINE B == In(S) \ {p}
<1>1. IsFiniteSet(In(S)) /\ Cardinality(In(S)) \in Nat
  BY GroupFinite
<1>2. IsFiniteSet(B) /\ Cardinality(B) \in Nat /\ p \notin B
  BY <1>1, FS_RemoveElement, FS_CardinalityType
<1>3. Cardinality(In(S)) = Cardinality(B) + (IF runner[p] \in S THEN 1 ELSE 0)
  <2>1. CASE runner[p] \in S
    <3>1. In(S) = B \cup {p}
      BY <2>1 DEF In
    <3> HIDE DEF B
    <3> QED BY <2>1, <3>1, <1>2, FS_AddElement
  <2>2. CASE runner[p] \notin S
    <3>1. Cardinality(In(S)) = Cardinality(B)
      BY <2>2 DEF In
    <3> HIDE DEF B
    <3> QED BY <2>2, <3>1, <1>2
  <2> QED BY <2>1, <2>2
<1>4. Cardinality(In(S))' = Cardinality(B) + (IF to \in S THEN 1 ELSE 0)
  <2>1. CASE to \in S
    <3>1. In(S)' = B \cup {p}
      BY <2>1 DEF In
    <3> HIDE DEF B
    <3>2. Cardinality(B \cup {p}) = Cardinality(B) + 1
      BY <1>2, FS_AddElement
    <3> QED BY <2>1, <3>1, <3>2
  <2>2. CASE to \notin S
    <3>1. In(S)' = B
      BY <2>2 DEF In
    <3> QED BY <2>2, <3>1, <1>2
  <2> QED BY <2>1, <2>2
<1> HIDE DEF B
<1> QED BY <1>1, <1>2, <1>3, <1>4

\* The groups that the code's counters count.
Alive == {"ready", "wait", "run", "exited"}
Told == {"wait", "run", "exited"}

LEMMA Groups ==
  /\ runner \in [Runner -> Places] =>
       BornRunners = In(Alive) /\ BornRunners \ At("ready") = In(Told)
  /\ runner' \in [Runner -> Places] =>
       BornRunners' = In(Alive)' /\ (BornRunners \ At("ready"))' = In(Told)'
  /\ ExitedRunners = In({"exited"}) /\ ExitedRunners' = In({"exited"})'
  /\ At("run") = In({"run"})
BY DEF BornRunners, At, ExitedRunners, In, Alive, Told, Places

\* What a runner's move does to them.
LEMMA RunnerMove ==
  ASSUME TypeOK, NEW r \in Runner, NEW to \in Places, runner' = [runner EXCEPT ![r] = to]
  PROVE  LET Joins(S) == (IF to \in S THEN 1 ELSE 0) - (IF runner[r] \in S THEN 1 ELSE 0)
         IN  /\ runner' \in [Runner -> Places] /\ runner'[r] = to
             /\ \A k \in Runner : k # r => runner'[k] = runner[k]
             /\ Cardinality(BornRunners)' = Cardinality(BornRunners) + Joins(Alive)
             /\ Cardinality(ExitedRunners)' = Cardinality(ExitedRunners) + Joins({"exited"})
             /\ Cardinality(BornRunners \ At("ready"))'
                  = Cardinality(BornRunners \ At("ready")) + Joins(Told)
             /\ Cardinality(BornRunners) \in Nat /\ Cardinality(ExitedRunners) \in Nat
             /\ Cardinality(BornRunners \ At("ready")) \in Nat
<1>1. runner \in [Runner -> Places] /\ runner' \in [Runner -> Places]
  BY DEF TypeOK, Places
<1>2. \A k \in Runner : runner'[k] = IF k = r THEN to ELSE runner[k]
  BY <1>1
<1> DEFINE Joins(S) == (IF to \in S THEN 1 ELSE 0) - (IF runner[r] \in S THEN 1 ELSE 0)
<1>3. ASSUME NEW S
      PROVE  Cardinality(In(S))' = Cardinality(In(S)) + Joins(S) /\ Cardinality(In(S)) \in Nat
  BY <1>1, GroupMove, GroupFinite
<1> HIDE DEF Joins
<1>4. /\ BornRunners = In(Alive) /\ BornRunners \ At("ready") = In(Told)
      /\ BornRunners' = In(Alive)' /\ (BornRunners \ At("ready"))' = In(Told)'
      /\ ExitedRunners = In({"exited"}) /\ ExitedRunners' = In({"exited"})'
  BY <1>1, Groups
<1> QED BY <1>1, <1>2, <1>3, <1>4 DEF Joins

\* Only the born end, and they are the judge and at most the team.
LEMMA EndedBorn == ASSUME TypeOK, MainInv
                   PROVE  /\ Ended \in Nat /\ Born \in Nat /\ Ended <= Born
                          /\ numRun >= 0 => Born <= numRun + 1
                          /\ Ended = Born => judge \in {"unborn", "exited", "failed"}
<1>1. runner \in [Runner -> Places] /\ numRun \in Int
  BY Numbers DEF TypeOK, Places
<1>2. ExitedRunners \subseteq BornRunners /\ IsFiniteSet(BornRunners)
  BY <1>1, Groups, GroupFinite DEF ExitedRunners, BornRunners
<1>3. /\ Cardinality(ExitedRunners) \in Nat /\ Cardinality(BornRunners) \in Nat
      /\ Cardinality(ExitedRunners) <= Cardinality(BornRunners)
  BY <1>2, FS_Subset, FS_CardinalityType
<1>4. ASSUME numRun >= 0 PROVE Cardinality(BornRunners) <= numRun
  <2> DEFINE last == numRun - 1
  <2>1. last \in Int /\ 0 \in Int
    BY <1>1
  <2>2. /\ IsFiniteSet(0 .. last)
        /\ Cardinality(0 .. last) = IF 0 > last THEN 0 ELSE last - 0 + 1
    <3> HIDE DEF last
    <3> QED BY <2>1, FS_Interval
  <2>3. BornRunners \subseteq 0 .. last
    <3> SUFFICES ASSUME NEW r \in Runner, runner[r] # "unborn" PROVE r \in 0 .. last
      BY DEF BornRunners
    <3>1. r \in Nat /\ ~(r >= numRun)
      BY Numbers DEF MainInv
    <3> QED BY <1>1, <3>1
  <2>4. Cardinality(0 .. last) = numRun
    BY <1>1, <1>4, <2>2
  <2> HIDE DEF last
  <2> QED BY <2>2, <2>3, <2>4, FS_Subset
<1>5. judge \in {"unborn", "hear", "finish", "exited", "failed"}
  BY DEF TypeOK
<1>6. numRun >= 0 => Born <= numRun + 1
  <2> SUFFICES ASSUME numRun >= 0 PROVE Born <= numRun + 1
    OBVIOUS
  <2>1. Cardinality(BornRunners) <= numRun
    BY <1>4
  <2> QED BY <1>1, <1>3, <2>1 DEF Born
<1>7. Ended \in Nat /\ Born \in Nat /\ Ended <= Born
  BY <1>3, <1>5 DEF Ended, Born
<1>8. Ended = Born => judge \in {"unborn", "exited", "failed"}
  BY <1>3, <1>5 DEF Ended, Born
<1> QED BY <1>6, <1>7, <1>8

-----------------------------------------------------------------------------
(***************************************************************************)
(* The invariant holds initially and is preserved by every process         *)
(***************************************************************************)

LEMMA InitInv == Init => IInv
<1> SUFFICES ASSUME Init PROVE IInv
  OBVIOUS
<1> USE DEF Init
<1>1. TypeOK
  BY Numbers DEF TypeOK
<1>2. BornRunners \ At("ready") = {} /\ ExitedRunners = {} /\ BornRunners = {}
  BY DEF BornRunners, ExitedRunners
<1>3. Account
  BY <1>2, FS_EmptySet, Numbers DEF Account
<1>4. MainInv
  BY DEF MainInv
<1>5. RaceInv
  BY Numbers DEF RaceInv, NoBaton
<1>6. ReapInv
  <2>1. Ended = 0
    BY <1>2, FS_EmptySet DEF Ended
  <2> QED BY <2>1 DEF ReapInv, Removed
<1> QED BY <1>1, <1>3, <1>4, <1>5, <1>6 DEF IInv

\* When the judge has heard the whole team, each of them waits or is past it.
LEMMA AllTold ==
  ASSUME TypeOK, MainInv, Account, heard >= numRun
  PROVE  \A r \in Runner : r < numRun => runner[r] \in Told
<1> DEFINE T == BornRunners \ At("ready")
           last == numRun - 1
<1>1. /\ runner \in [Runner -> Places] /\ numRun \in Int /\ numRun <= MaxRun
      /\ heard \in Nat /\ msgs[READY] \in Nat
  BY Numbers DEF TypeOK, Places
<1>2. T = In(Told)
  BY <1>1, Groups
<1>3. T \subseteq 0 .. last
  <2> SUFFICES ASSUME NEW r \in In(Told) PROVE r \in 0 .. last
    BY <1>2
  <2>1. r \in Nat /\ ~(r >= numRun)
    BY Numbers DEF MainInv, In, Told
  <2> QED BY <1>1, <2>1
<1>4. Cardinality(T) = msgs[READY] + heard
  BY DEF Account
<1>5. CASE numRun > 0
  <2>1. /\ IsFiniteSet(0 .. last)
        /\ Cardinality(0 .. last) = IF 0 > last THEN 0 ELSE last - 0 + 1
    <3>1. 0 \in Int /\ last \in Int
      BY <1>1
    <3> HIDE DEF last
    <3> QED BY <3>1, FS_Interval
  <2>2. Cardinality(0 .. last) = numRun
    BY <1>1, <1>5, <2>1
  <2>3. Cardinality(T) <= numRun
    <3> HIDE DEF T, last
    <3> QED BY <1>3, <2>1, <2>2, FS_Subset
  <2>4. Cardinality(T) = numRun
    <3> HIDE DEF T
    <3> QED BY <1>1, <1>4, <2>3
  <2>5. T = 0 .. last
    <3> HIDE DEF T, last
    <3> QED BY <1>3, <2>1, <2>2, <2>4, FS_Subset
  <2> SUFFICES ASSUME NEW r \in Runner, r < numRun PROVE runner[r] \in Told
    OBVIOUS
  <2>6. r \in 0 .. last
    BY <1>1, Numbers
  <2> HIDE DEF T, last
  <2> QED BY <1>2, <2>5, <2>6 DEF In
<1>6. CASE ~(numRun > 0)
  BY <1>1, <1>6, Numbers
<1> QED BY <1>5, <1>6

LEMMA RunnerStep == ASSUME IInv, NEW r \in Runner, RunnerNext(r) PROVE IInv'
<1> USE DEF IInv
<1>1. /\ UNCHANGED <<numRun, main, i, judge, heard, reaped>>
      /\ ~Removed /\ runner[r] \notin {"unborn", "exited"}
      /\ \E to \in {"wait", "run", "exited"} : runner' = [runner EXCEPT ![r] = to]
  BY DEF RunnerNext, GetReady, TakeBaton, PassBaton, RunnerGo, send_msg, get_msg
<1>2. PICK to \in {"wait", "run", "exited"} : runner' = [runner EXCEPT ![r] = to]
  BY <1>1
<1>3. /\ runner \in [Runner -> Places] /\ runner[r] \in {"ready", "wait", "run"}
      /\ msgs \in [Type -> Nat] /\ numRun \in Int /\ heard \in Nat
      /\ r \in Nat /\ r < numRun /\ numRun <= MaxRun
  <2>1. runner \in [Runner -> Places] /\ msgs \in [Type -> Nat] /\ heard \in Nat
    BY DEF TypeOK, Places
  <2>2. numRun \in Int /\ numRun <= MaxRun /\ r \in Nat
    BY Numbers DEF TypeOK
  <2>3. ~(r >= numRun)
    BY <1>1 DEF MainInv
  <2> QED BY <1>1, <2>1, <2>2, <2>3 DEF Places
<1>4. /\ runner' \in [Runner -> Places] /\ runner'[r] = to
      /\ \A k \in Runner : k # r => runner'[k] = runner[k]
      /\ Cardinality(BornRunners)' = Cardinality(BornRunners)
      /\ Cardinality(BornRunners \ At("ready"))'
           = Cardinality(BornRunners \ At("ready")) + (IF runner[r] = "ready" THEN 1 ELSE 0)
      /\ Cardinality(ExitedRunners)' >= Cardinality(ExitedRunners)
      /\ Cardinality(ExitedRunners)' \in Nat /\ Cardinality(ExitedRunners) \in Nat
      /\ Cardinality(BornRunners \ At("ready")) \in Nat /\ Cardinality(BornRunners) \in Nat
  <2> DEFINE Joins(S) == (IF to \in S THEN 1 ELSE 0) - (IF runner[r] \in S THEN 1 ELSE 0)
  <2>1. to \in Places
    BY DEF Places
  <2>2. /\ runner' \in [Runner -> Places] /\ runner'[r] = to
        /\ \A k \in Runner : k # r => runner'[k] = runner[k]
        /\ Cardinality(BornRunners)' = Cardinality(BornRunners) + Joins(Alive)
        /\ Cardinality(ExitedRunners)' = Cardinality(ExitedRunners) + Joins({"exited"})
        /\ Cardinality(BornRunners \ At("ready"))'
             = Cardinality(BornRunners \ At("ready")) + Joins(Told)
        /\ Cardinality(BornRunners) \in Nat /\ Cardinality(ExitedRunners) \in Nat
        /\ Cardinality(BornRunners \ At("ready")) \in Nat
    BY <1>2, <2>1, RunnerMove
  <2>3. /\ Joins(Alive) = 0 /\ Joins({"exited"}) \in {0, 1}
        /\ Joins(Told) = IF runner[r] = "ready" THEN 1 ELSE 0
    BY <1>2, <1>3 DEF Alive, Told
  <2> HIDE DEF Joins
  <2> QED BY <2>2, <2>3
<1>5. MainInv'
  BY <1>1, <1>3, <1>4 DEF MainInv
<1>6. ReapInv'
  <2>1. /\ Born' = Born /\ Ended' >= Ended /\ Ended \in Nat /\ Ended' \in Nat
        /\ Born \in Nat
    BY <1>1, <1>4 DEF Born, Ended
  <2>2. Removed' = Removed /\ reaped \in Nat
    BY <1>1 DEF Removed, TypeOK
  <2> QED BY <1>1, <2>1, <2>2 DEF ReapInv
<1>7. ASSUME msgs' \in [Type -> Nat] PROVE TypeOK'
  BY <1>1, <1>4, <1>7 DEF TypeOK, Places
<1>8. ~(judge \in {"exited", "failed"})
  BY <1>1, <1>3 DEF RaceInv
<1>9. CASE GetReady(r)
  <2>1. /\ runner[r] = "ready" /\ runner'[r] = "wait" /\ msgs' \in [Type -> Nat]
        /\ msgs'[READY] = msgs[READY] + 1
        /\ \A u \in Type : u # READY => msgs'[u] = msgs[u]
    BY <1>3, <1>9, SendMsg, Numbers DEF GetReady, RunnerGo
  <2>2. Account'
    BY <1>1, <1>3, <1>4, <2>1, Numbers DEF Account
  <2>3. judge # "finish"
    BY <1>3, <2>1, AllTold DEF RaceInv, Told
  <2>4. RaceInv'
    BY <1>1, <1>4, <1>8, <2>1, <2>3, Numbers DEF RaceInv, NoBaton, TypeOK
  <2> QED BY <1>5, <1>6, <1>7, <2>1, <2>2, <2>4
<1>10. CASE TakeBaton(r)
  <2>1. /\ runner[r] = "wait" /\ runner'[r] = "run" /\ msgs' \in [Type -> Nat]
        /\ msgs[START + r] > 0 /\ msgs'[START + r] = msgs[START + r] - 1
        /\ \A u \in Type : u # START + r => msgs'[u] = msgs[u]
        /\ START + r \in Batonlike
    <3>1. START + r \in Type /\ START + r \in Batonlike
      BY Numbers
    <3> QED BY <1>3, <1>10, <3>1, GetMsg DEF TakeBaton, RunnerGo
  <2>2. Account'
    BY <1>1, <1>3, <1>4, <2>1, Numbers DEF Account
  <2>3. judge = "finish"
    <3>1. ~NoBaton
      BY <2>1 DEF NoBaton
    <3>2. judge \in {"unborn", "hear", "finish"}
      BY <1>8 DEF TypeOK
    <3> QED BY <3>1, <3>2 DEF RaceInv
  <2>4. PICK b \in Runner : b < numRun /\ Leg(b)
    <3>1. START + r # FINISH
      BY <1>3, Numbers
    <3>2. ~(numRun <= 0)
      BY <1>3
    <3>3. ~Only(FINISH)
      BY <2>1, <3>1 DEF Only
    <3> QED BY <2>3, <3>2, <3>3 DEF RaceInv
  <2>5. r = b /\ Only(START + b)
    <3>1. Only(START + b) /\ START + r = START + b
      BY <2>1, <2>4 DEF Leg, Only, NoBaton
    <3>2. r \in Nat /\ b \in Nat
      BY Numbers
    <3> QED BY <3>1, <3>2 DEF START
  <2>6. NoBaton'
    BY <1>3, <2>1, <2>5, Numbers DEF NoBaton, Only
  <2>7. Leg(r)'
    BY <1>1, <1>3, <1>4, <2>1, <2>4, <2>5, <2>6, Numbers DEF Leg
  <2>8. RaceInv'
    BY <1>1, <1>3, <2>3, <2>7 DEF RaceInv
  <2> QED BY <1>5, <1>6, <1>7, <2>1, <2>2, <2>8
<1>11. CASE PassBaton(r)
  <2>1. PICK t \in Batonlike : /\ t = IF r = numRun - 1 THEN FINISH ELSE START + r + 1
                               /\ send_msg(t)
    BY <1>11, Numbers DEF PassBaton
  <2>2. /\ runner[r] = "run" /\ runner'[r] = "exited" /\ msgs' \in [Type -> Nat]
        /\ msgs'[t] = msgs[t] + 1 /\ \A u \in Type : u # t => msgs'[u] = msgs[u]
    <3>1. t \in Type
      BY Numbers
    <3> QED BY <1>3, <1>11, <2>1, <3>1, SendMsg DEF PassBaton, RunnerGo
  <2>3. Account'
    BY <1>1, <1>3, <1>4, <2>2, Numbers DEF Account
  <2>4. judge = "finish"
    BY <1>8, <2>2 DEF RaceInv, TypeOK
  <2>5. PICK b \in Runner : b < numRun /\ Leg(b)
    BY <1>3, <2>2, <2>4 DEF RaceInv
  <2>6. r = b /\ NoBaton
    <3>1. b \in Nat
      BY Numbers
    <3>2. ~(r < b) /\ ~(b < r)
      BY <1>3, <2>2, <2>5 DEF Leg
    <3> QED BY <1>3, <2>2, <2>5, <3>1, <3>2 DEF Leg
  <2>7. Only(t)'
    BY <1>3, <2>1, <2>2, <2>6, Numbers DEF NoBaton, Only
  <2>8. \A k \in Runner : k <= r => runner'[k] = "exited"
    <3> SUFFICES ASSUME NEW k \in Runner, k <= r PROVE runner'[k] = "exited"
      OBVIOUS
    <3>1. k \in Nat
      BY Numbers
    <3>2. CASE k = r
      BY <2>2, <3>2
    <3>3. CASE k # r
      <4>1. k < b
        BY <1>3, <2>6, <3>1, <3>3
      <4> QED BY <1>4, <2>5, <3>3, <4>1 DEF Leg
    <3> QED BY <3>2, <3>3
  <2>9. CASE r = numRun - 1
    <3>1. \A k \in Runner : k < numRun => k <= r
      BY <1>3, <2>9, Numbers
    <3>2. t = FINISH /\ numRun > 0
      BY <1>3, <2>1, <2>9
    <3> QED BY <1>1, <1>3, <1>5, <1>6, <1>7, <2>2, <2>3, <2>4, <2>7, <2>8, <3>1, <3>2
        DEF RaceInv
  <2>10. CASE r # numRun - 1
    <3>1. r + 1 \in Runner /\ r + 1 < numRun /\ t = START + (r + 1)
      BY <1>3, <2>1, <2>10, Numbers DEF Runner, START
    <3>2. runner'[r + 1] = "wait"
      <4>1. b < r + 1 /\ r + 1 # r
        BY <1>3, <2>6
      <4> QED BY <1>4, <2>5, <3>1, <4>1 DEF Leg
    <3>3. \A k \in Runner : k < r + 1 => runner'[k] = "exited"
      BY <1>3, <2>8, Numbers
    <3>4. \A k \in Runner : r + 1 < k /\ k < numRun => runner'[k] = "wait"
      <4> SUFFICES ASSUME NEW k \in Runner, r + 1 < k, k < numRun PROVE runner'[k] = "wait"
        OBVIOUS
      <4>1. k # r /\ b < k
        BY <1>3, <2>6, Numbers
      <4> QED BY <1>4, <2>5, <4>1 DEF Leg
    <3>5. Leg(r + 1)'
      BY <1>1, <2>7, <3>1, <3>2, <3>3, <3>4 DEF Leg
    <3>6. RaceInv'
      BY <1>1, <2>4, <3>1, <3>5 DEF RaceInv
    <3> QED BY <1>5, <1>6, <1>7, <2>2, <2>3, <3>6
  <2> QED BY <2>9, <2>10
<1> QED BY <1>9, <1>10, <1>11 DEF RunnerNext

LEMMA JudgeStep == ASSUME IInv, JudgeNext PROVE IInv'
<1> USE DEF IInv
<1>1. /\ UNCHANGED <<numRun, main, i, runner, reaped>>
      /\ judge \in {"hear", "finish"}
  BY DEF JudgeNext, HearReady, StartRace, EndRace, JudgeFails, JudgeGo
<1>2. /\ runner \in [Runner -> Places] /\ msgs \in [Type -> Nat]
      /\ numRun \in Int /\ numRun <= MaxRun /\ heard \in Nat
  BY Numbers DEF TypeOK, Places
<1>3. MainInv'
  <2>1. main \notin {"msgget", "failed", "fork judge"}
    BY <1>1 DEF MainInv
  <2> QED BY <1>1, <2>1 DEF MainInv
<1>4. /\ BornRunners' = BornRunners /\ ExitedRunners' = ExitedRunners
      /\ (BornRunners \ At("ready"))' = BornRunners \ At("ready")
      /\ Removed' = Removed
  BY <1>1 DEF BornRunners, ExitedRunners, At, Removed
<1>5. Ended \in Nat /\ Born \in Nat /\ Ended # Born
  BY <1>1, EndedBorn
<1>6. ASSUME judge' \in {"hear", "finish", "exited", "failed"},
             Removed => numRun < 0
      PROVE  ReapInv'
  <2>1. Born' = Born
    BY <1>1, <1>4, <1>6 DEF Born
  <2>2. Ended' >= Ended /\ Ended' \in Nat
    <3>1. Cardinality(ExitedRunners) \in Nat
      BY Groups, GroupFinite
    <3> QED BY <1>1, <1>4, <1>6, <3>1 DEF Ended
  <2>3. reaped \in Nat
    BY DEF TypeOK
  <2> QED BY <1>1, <1>2, <1>4, <1>5, <1>6, <2>1, <2>2, <2>3 DEF ReapInv
<1>7. CASE HearReady
  <2>1. /\ heard < numRun /\ judge = "hear" /\ judge' = "hear" /\ heard' = heard + 1
        /\ ~Removed /\ msgs' \in [Type -> Nat] /\ msgs'[READY] = msgs[READY] - 1
        /\ \A u \in Type : u # READY => msgs'[u] = msgs[u]
    BY <1>2, <1>7, GetMsg, Numbers DEF HearReady, JudgeGo
  <2>2. TypeOK'
    <3>1. heard' \in Nat /\ heard' <= (IF numRun > 0 THEN numRun ELSE 0)
      BY <1>2, <2>1
    <3> QED BY <1>1, <2>1, <3>1 DEF TypeOK
  <2>3. Account'
    <3>1. msgs[READY] \in Nat
      BY <1>2, Numbers
    <3>2. msgs'[READY] + heard' = msgs[READY] + heard
      BY <1>2, <2>1, <3>1
    <3> QED BY <1>4, <3>2 DEF Account
  <2>4. RaceInv'
    BY <1>1, <2>1, Numbers DEF RaceInv, NoBaton
  <2> QED BY <1>3, <1>6, <2>1, <2>2, <2>3, <2>4
<1>8. CASE StartRace
  <2>1. /\ heard >= numRun /\ judge = "hear" /\ judge' = "finish" /\ heard' = heard
        /\ ~Removed /\ msgs' \in [Type -> Nat] /\ msgs'[START] = msgs[START] + 1
        /\ \A u \in Type : u # START => msgs'[u] = msgs[u]
    BY <1>2, <1>8, SendMsg, Numbers DEF StartRace, JudgeGo
  <2>2. TypeOK'
    BY <1>1, <2>1 DEF TypeOK
  <2>3. Account'
    BY <1>4, <2>1, Numbers DEF Account
  <2>4. Only(START)'
    <3>1. NoBaton
      BY <2>1 DEF RaceInv
    <3>2. START \in Batonlike /\ Batonlike \subseteq Type /\ msgs[START] = 0
      BY <3>1, Numbers DEF NoBaton
    <3>3. \A u \in Batonlike : msgs'[u] = IF u = START THEN 1 ELSE 0
      BY <2>1, <3>1, <3>2 DEF NoBaton
    <3> QED BY <3>3 DEF Only
  <2>5. CASE numRun <= 0
    <3>1. RaceInv'
      BY <1>1, <2>1, <2>4, <2>5 DEF RaceInv
    <3> QED BY <1>3, <1>6, <2>1, <2>2, <2>3, <3>1
  <2>6. CASE ~(numRun <= 0)
    <3>1. 0 \in Runner /\ 0 < numRun
      BY <1>2, <2>6, Numbers DEF Runner
    <3>2. \A r \in Runner : r < numRun => runner[r] = "wait"
      BY <2>1, AllTold DEF RaceInv, Told
    <3>3. Only(START + 0)'
      BY <2>4 DEF START
    <3>4. \A r \in Runner : ~(r < 0)
      BY Numbers
    <3>5. Leg(0)'
      BY <1>1, <3>1, <3>2, <3>3, <3>4 DEF Leg
    <3> QED BY <1>1, <1>3, <1>6, <2>1, <2>2, <2>3, <3>1, <3>5 DEF RaceInv
  <2> QED BY <1>3, <1>6, <2>1, <2>2, <2>3, <2>5, <2>6
<1>9. CASE EndRace
  <2>1. /\ judge = "finish" /\ judge' = "exited" /\ heard' = heard
        /\ ~Removed /\ msgs' \in [Type -> Nat]
        /\ msgs[FINISH] > 0 /\ msgs'[FINISH] = msgs[FINISH] - 1
        /\ \A u \in Type : u # FINISH => msgs'[u] = msgs[u]
    BY <1>2, <1>9, GetMsg, Numbers DEF EndRace, JudgeGo
  <2>2. TypeOK'
    BY <1>1, <2>1 DEF TypeOK
  <2>3. Account'
    BY <1>4, <2>1, Numbers DEF Account, FINISH, READY
  <2>4. ~NoBaton /\ \A t \in Batonlike : t # FINISH => ~Only(t)
    BY <2>1, Numbers DEF NoBaton, Only
  <2>5. \A r \in Runner : START + r \in Batonlike /\ START + r # FINISH
    BY Numbers
  <2>6. /\ heard >= numRun /\ Only(FINISH)
        /\ \A r \in Runner : r < numRun => runner[r] = "exited"
    BY <2>1, <2>4, <2>5, Numbers DEF RaceInv, Leg, START, FINISH
  <2>7. NoBaton'
    BY <1>2, <2>1, <2>6, Numbers DEF Only, NoBaton
  <2>8. RaceInv'
    BY <1>1, <2>1, <2>6, <2>7 DEF RaceInv
  <2> QED BY <1>3, <1>6, <2>1, <2>2, <2>3, <2>8
<1>10. CASE JudgeFails
  <2>1. Removed /\ judge' = "failed" /\ UNCHANGED <<heard, msgs>>
    BY <1>10 DEF JudgeFails, JudgeGo
  <2>2. numRun < 0
    BY <1>2, <1>5, <2>1 DEF ReapInv
  <2>3. TypeOK'
    BY <1>1, <2>1 DEF TypeOK
  <2>4. Account'
    BY <1>4, <2>1 DEF Account
  <2>5. NoBaton \/ Only(START)
    <3>1. \A b \in Runner : ~(b < numRun)
      BY <1>2, <2>2, Numbers
    <3>2. ~(numRun > 0)
      BY <1>2, <2>2
    <3> QED BY <1>1, <3>1, <3>2 DEF RaceInv
  <2>6. RaceInv'
    BY <1>1, <1>4, <2>1, <2>2, <2>5 DEF RaceInv, NoBaton, Only
  <2> QED BY <1>3, <1>6, <2>1, <2>2, <2>3, <2>4, <2>6
<1> QED BY <1>7, <1>8, <1>9, <1>10 DEF JudgeNext

LEMMA MainStep == ASSUME IInv, MainNext PROVE IInv'
<1> USE DEF IInv
<1>1. UNCHANGED <<numRun, heard, msgs>> /\ main \notin {"failed", "removed"}
  BY DEF MainNext, Msgget, ForkJudge, ForkRunner, ForksDone, Wait, Remove, MainGo
<1>2. /\ runner \in [Runner -> Places] /\ numRun \in Int /\ numRun <= MaxRun
      /\ i \in Nat /\ reaped \in Nat /\ ~Removed
      /\ Ended \in Nat /\ Born \in Nat /\ Ended <= Born
      /\ numRun >= 0 => Born <= numRun + 1
  BY <1>1, Numbers, EndedBorn DEF TypeOK, Places, Removed
<1>3. ASSUME UNCHANGED <<judge, runner>>
      PROVE  Account' /\ RaceInv' /\ Born' = Born /\ Ended' = Ended
  <2>1. judge # "failed"
    BY <1>2 DEF RaceInv
  <2>2. Account' /\ Born' = Born /\ Ended' = Ended
    BY <1>1, <1>3 DEF Account, BornRunners, At, Born, Ended, ExitedRunners
  <2>3. RaceInv'
    BY <1>1, <1>3, <2>1 DEF RaceInv, NoBaton, Only, Leg
  <2> QED BY <2>2, <2>3
<1>4. CASE Msgget
  <2>1. /\ main = "msgget" /\ main' \in {"fork judge", "failed"}
        /\ UNCHANGED <<i, judge, runner, reaped>>
    BY <1>4 DEF Msgget, MainGo
  <2>2. TypeOK' /\ MainInv'
    BY <1>1, <2>1 DEF TypeOK, MainInv
  <2>3. ReapInv'
    BY <1>2, <1>3, <2>1 DEF ReapInv, Removed
  <2> QED BY <1>3, <2>1, <2>2, <2>3
<1>5. CASE ForkJudge
  <2>1. /\ main = "fork judge" /\ main' = "fork" /\ judge' \in {"hear", "unborn"}
        /\ UNCHANGED <<i, runner, reaped>> /\ judge = "unborn"
        /\ \A r \in Runner : runner[r] = "unborn"
    BY <1>5 DEF ForkJudge, MainGo, MainInv
  <2>2. TypeOK' /\ MainInv'
    BY <1>1, <2>1 DEF TypeOK, MainInv
  <2>3. Account'
    BY <1>1, <2>1 DEF Account, BornRunners, At
  <2>4. RaceInv'
    BY <1>1, <2>1 DEF RaceInv, NoBaton
  <2>5. reaped' = 0 /\ reaped' <= Ended'
    <3>1. Ended' = Ended
      BY <2>1 DEF Ended, ExitedRunners
    <3> QED BY <1>2, <2>1, <3>1 DEF ReapInv
  <2>6. ReapInv'
    BY <2>1, <2>5 DEF ReapInv, Removed
  <2> QED BY <2>2, <2>3, <2>4, <2>6
<1>6. CASE ForkRunner
  <2>1. /\ main = "fork" /\ main' = "fork" /\ i < numRun /\ i' = i + 1
        /\ UNCHANGED <<judge, reaped>>
    BY <1>6 DEF ForkRunner, MainGo
  <2>2. PICK start \in {"ready", "unborn"} : runner' = [runner EXCEPT ![i] = start]
    BY <1>6 DEF ForkRunner
  <2>3. i \in Runner /\ runner[i] = "unborn"
    <3>1. i \in Runner /\ i >= i
      BY <1>2, <2>1, RunnersAssumption DEF Runner
    <3> QED BY <2>1, <3>1 DEF MainInv
  <2> DEFINE Joins(S) == (IF start \in S THEN 1 ELSE 0) - (IF runner[i] \in S THEN 1 ELSE 0)
  <2>4. /\ runner' \in [Runner -> Places] /\ runner'[i] = start
        /\ \A k \in Runner : k # i => runner'[k] = runner[k]
        /\ Cardinality(ExitedRunners)' = Cardinality(ExitedRunners) + Joins({"exited"})
        /\ Cardinality(BornRunners \ At("ready"))'
             = Cardinality(BornRunners \ At("ready")) + Joins(Told)
        /\ Cardinality(BornRunners \ At("ready")) \in Nat /\ Cardinality(ExitedRunners) \in Nat
    <3>1. start \in Places
      BY DEF Places
    <3> QED BY <2>2, <2>3, <3>1, RunnerMove
  <2>5. Joins({"exited"}) = 0 /\ Joins(Told) = 0
    BY <2>3 DEF Told
  <2> HIDE DEF Joins
  <2>6. TypeOK' /\ MainInv'
    <3>1. TypeOK'
      BY <1>1, <1>2, <2>1, <2>4 DEF TypeOK, Places
    <3>2. \A r \in Runner : r >= i' => runner'[r] = "unborn"
      <4> SUFFICES ASSUME NEW r \in Runner, r >= i' PROVE runner'[r] = "unborn"
        OBVIOUS
      <4>1. r # i /\ r >= i
        BY <1>2, <2>1, Numbers
      <4> QED BY <2>1, <2>4, <4>1 DEF MainInv
    <3>3. \A r \in Runner : r >= numRun => runner'[r] = "unborn"
      <4> SUFFICES ASSUME NEW r \in Runner, r >= numRun PROVE runner'[r] = "unborn"
        OBVIOUS
      <4>1. r # i
        BY <1>2, <2>1, Numbers
      <4> QED BY <2>4, <4>1 DEF MainInv
    <3> QED BY <1>1, <2>1, <3>1, <3>2, <3>3 DEF MainInv
  <2>7. Account'
    BY <1>1, <2>4, <2>5 DEF Account
  <2>8. judge \in {"unborn", "hear"}
    <3>1. judge \notin {"finish", "exited"}
      BY <2>1, <2>3, AllTold DEF RaceInv, Told
    <3>2. judge # "failed"
      BY <1>2 DEF RaceInv
    <3> QED BY <3>1, <3>2 DEF TypeOK
  <2>9. RaceInv'
    <3>1. \A r \in Runner : runner'[r] \in {"unborn", "ready", "wait"}
      BY <2>4, <2>8 DEF RaceInv
    <3> QED BY <1>1, <2>1, <2>8, <3>1 DEF RaceInv, NoBaton
  <2>10. ReapInv'
    <3>1. Ended' = Ended
      BY <2>1, <2>4, <2>5 DEF Ended
    <3> QED BY <2>1, <3>1 DEF ReapInv, Removed
  <2> QED BY <2>6, <2>7, <2>9, <2>10
<1>7. CASE ForksDone
  <2>1. /\ main = "fork" /\ main' = "wait" /\ i' = 0 /\ UNCHANGED <<judge, runner, reaped>>
    BY <1>7 DEF ForksDone, MainGo
  <2>2. TypeOK' /\ MainInv'
    BY <1>1, <2>1 DEF TypeOK, MainInv
  <2>3. ReapInv'
    BY <1>2, <1>3, <2>1 DEF ReapInv, Removed
  <2> QED BY <1>3, <2>1, <2>2, <2>3
<1>8. CASE Wait
  <2>1. /\ main = "wait" /\ main' = "wait" /\ i' = i + 1 /\ UNCHANGED <<judge, runner>>
        /\ \/ reaped < Ended /\ reaped' = reaped + 1
           \/ reaped = Born /\ UNCHANGED reaped
    BY <1>8 DEF Wait, MainGo
  <2>2. TypeOK' /\ MainInv'
    <3>1. i' \in Nat /\ reaped' \in Nat
      BY <1>2, <2>1
    <3> QED BY <1>1, <2>1, <3>1 DEF TypeOK, MainInv
  <2>3. ReapInv'
    BY <1>2, <1>3, <2>1 DEF ReapInv, Removed
  <2> QED BY <1>3, <2>1, <2>2, <2>3
<1>9. CASE Remove
  <2>1. /\ main = "wait" /\ main' = "removed" /\ i >= numRun + 1
        /\ UNCHANGED <<i, judge, runner, reaped>>
    BY <1>9 DEF Remove, MainGo
  <2>2. TypeOK' /\ MainInv'
    BY <1>1, <2>1 DEF TypeOK, MainInv
  <2>3. ReapInv'
    <3>1. numRun >= 0 => Ended = Born
      BY <1>2, <2>1 DEF ReapInv
    <3> QED BY <1>1, <1>3, <2>1, <3>1 DEF ReapInv
  <2> QED BY <1>3, <2>1, <2>2, <2>3
<1> QED BY <1>4, <1>5, <1>6, <1>7, <1>8, <1>9 DEF MainNext

LEMMA StepInv == ASSUME IInv, [Next]_vars PROVE IInv'
<1>1. CASE UNCHANGED vars
  BY <1>1 DEF vars, IInv, TypeOK, MainInv, Account, RaceInv, ReapInv, NoBaton, Only, Leg,
              BornRunners, ExitedRunners, At, Born, Ended, Removed
<1> QED BY <1>1, MainStep, JudgeStep, RunnerStep DEF Next

\* The inductive invariant holds at every step of main, judge and runners.
THEOREM Invariance == Spec => []IInv
BY InitInv, StepInv, PTL DEF Spec

\* The variables keep their types, and the judge's loop counter (line 67) never
\* passes the size of the team.
THEOREM TypeCorrect == Spec => []TypeOK
<1>1. IInv => TypeOK
  BY DEF IInv
<1> QED BY <1>1, Invariance, PTL

-----------------------------------------------------------------------------
(***************************************************************************)
(* One baton                                                               *)
(***************************************************************************)

\* What lies in the queue beside the messages of the ready.
LEMMA BatonSet ==
  ASSUME msgs \in [Type -> Nat]
  PROVE  /\ NoBaton => Batons = {}
         /\ \A t \in Batonlike : Only(t) => Batons = {t} /\ msgs[t] = 1
<1>1. Batons = {t \in Batonlike : msgs[t] > 0}
  BY Numbers DEF Batons
<1>2. NoBaton => Batons = {}
  BY <1>1 DEF NoBaton
<1>3. ASSUME NEW t \in Batonlike, Only(t) PROVE Batons = {t} /\ msgs[t] = 1
  BY <1>1, <1>3 DEF Only
<1> QED BY <1>2, <1>3

LEMMA BatonSteps == ASSUME IInv PROVE OneBaton
<1> USE DEF IInv
<1>1. /\ msgs \in [Type -> Nat] /\ runner \in [Runner -> Places]
      /\ numRun \in Int /\ numRun <= MaxRun
      /\ judge \in {"unborn", "hear", "finish", "exited", "failed"}
  BY Numbers DEF TypeOK, Places
<1>2. \A r \in Runner : r < numRun \/ runner[r] = "unborn"
  <2> SUFFICES ASSUME NEW r \in Runner, runner[r] # "unborn" PROVE r < numRun
    OBVIOUS
  <2>1. r \in Nat /\ ~(r >= numRun)
    BY Numbers DEF MainInv
  <2> QED BY <1>1, <2>1
<1>3. Cardinality({}) = 0
  BY FS_EmptySet
<1>4. CASE Batons = {} /\ At("run") = {} /\ judge # "finish"
  BY <1>3, <1>4 DEF OneBaton
<1>5. CASE /\ judge = "finish" /\ At("run") = {}
           /\ \E t \in Batonlike : Batons = {t} /\ msgs[t] = 1
  <2>1. PICK t \in Batonlike : Batons = {t} /\ msgs[t] = 1
    BY <1>5
  <2>2. Cardinality({t}) = 1
    BY FS_Singleton
  <2>3. Cardinality(Batons) + Cardinality(At("run")) = 1
    BY <1>3, <1>5, <2>1, <2>2
  <2> QED BY <1>5, <2>1, <2>3 DEF OneBaton
<1>6. CASE judge \in {"unborn", "hear"}
  <2>1. NoBaton /\ At("run") = {}
    BY <1>6 DEF RaceInv, At
  <2> QED BY <1>1, <1>4, <1>6, <2>1, BatonSet
<1>7. CASE judge = "exited"
  <2>1. NoBaton /\ At("run") = {}
    BY <1>2, <1>7 DEF RaceInv, At
  <2> QED BY <1>1, <1>4, <1>7, <2>1, BatonSet
<1>8. CASE judge = "failed"
  <2>1. NoBaton \/ Only(START)
    BY <1>8 DEF RaceInv
  <2>2. \A t \in Batons : msgs[t] = 1
    BY <1>1, <2>1, BatonSet, Numbers
  <2> QED BY <1>8, <2>2 DEF OneBaton
<1>9. CASE judge = "finish"
  <2>1. CASE numRun <= 0 /\ Only(START)
    <3>1. At("run") = {}
      <4>1. \A r \in Runner : ~(r < numRun)
        BY <1>1, <2>1, Numbers
      <4> QED BY <1>2, <4>1 DEF At
    <3> QED BY <1>1, <1>5, <1>9, <2>1, <3>1, BatonSet, Numbers
  <2>2. CASE \E b \in Runner : b < numRun /\ Leg(b)
    <3>1. PICK b \in Runner : b < numRun /\ Leg(b)
      BY <2>2
    <3>2. \A k \in Runner : k # b => runner[k] # "run"
      <4> SUFFICES ASSUME NEW k \in Runner, k # b PROVE runner[k] # "run"
        OBVIOUS
      <4>1. k < b \/ (b < k /\ k < numRun) \/ runner[k] = "unborn"
        BY <1>1, <1>2, Numbers
      <4> QED BY <3>1, <4>1 DEF Leg
    <3>3. CASE runner[b] = "wait" /\ Only(START + b)
      <4>1. At("run") = {}
        BY <3>2, <3>3 DEF At
      <4> QED BY <1>1, <1>5, <1>9, <3>3, <4>1, BatonSet, Numbers
    <3>4. CASE runner[b] = "run" /\ NoBaton
      <4>1. At("run") = {b} /\ Batons = {}
        BY <1>1, <3>2, <3>4, BatonSet DEF At
      <4>2. Cardinality({b}) = 1
        BY FS_Singleton
      <4>3. Cardinality(Batons) + Cardinality(At("run")) = 1
        BY <1>3, <4>1, <4>2
      <4> QED BY <1>9, <4>1, <4>3 DEF OneBaton
    <3> QED BY <3>1, <3>3, <3>4 DEF Leg
  <2>3. CASE numRun > 0 /\ Only(FINISH) /\ \A r \in Runner : r < numRun => runner[r] = "exited"
    <3>1. At("run") = {}
      BY <1>2, <2>3 DEF At
    <3> QED BY <1>1, <1>5, <1>9, <2>3, <3>1, BatonSet, Numbers
  <2> QED BY <1>9, <2>1, <2>2, <2>3 DEF RaceInv
<1> QED BY <1>1, <1>6, <1>7, <1>8, <1>9

\* From the start of the race to its end there is one baton, in the queue or in
\* one runner's hand (lines 76-77, 93-101), for a team of every size.
THEOREM BatonIsOne == Spec => []OneBaton
<1>1. IInv => OneBaton
  BY BatonSteps
<1> QED BY <1>1, Invariance, PTL

\* Every runner who is ready, and only they, has told the judge, and the judge
\* sends the first one off only when each of the team has been born and has
\* reported (lines 67-76, 88), however the queue interleaves the messages.
THEOREM AllHeard == Spec => []EveryoneHeard
<1>1. ASSUME IInv PROVE EveryoneHeard
  <2>1. SUFFICES ASSUME judge \in {"finish", "exited"}, NEW r \in Runner, r < numRun
                 PROVE  runner[r] \notin {"unborn", "ready"}
    BY <1>1 DEF EveryoneHeard, IInv
  <2>2. heard >= numRun
    BY <1>1, <2>1 DEF IInv, RaceInv
  <2>3. CASE judge = "exited"
    BY <1>1, <2>1, <2>3 DEF IInv, RaceInv
  <2>4. CASE judge = "finish"
    <3>1. ~(numRun <= 0)
      <4>1. numRun \in Int /\ r \in Nat
        BY <1>1, Numbers DEF IInv, TypeOK
      <4> QED BY <2>1, <4>1
    <3>2. CASE \E b \in Runner : b < numRun /\ Leg(b)
      <4>1. PICK b \in Runner : b < numRun /\ Leg(b)
        BY <3>2
      <4>2. r < b \/ r = b \/ b < r
        BY Numbers
      <4> QED BY <2>1, <4>1, <4>2 DEF Leg
    <3> QED BY <1>1, <2>1, <2>4, <3>1, <3>2 DEF IInv, RaceInv
  <2> QED BY <2>1, <2>3, <2>4
<1> QED BY <1>1, Invariance, PTL

-----------------------------------------------------------------------------
(***************************************************************************)
(* Removing the queue                                                      *)
(***************************************************************************)

LEMMA RemovedSteps == ASSUME IInv PROVE RemovedAfterRace
<1> USE DEF IInv
<1> SUFFICES ASSUME Removed, numRun >= 0
             PROVE  Ended = Born /\ \A t \in Type : msgs[t] = 0
  BY DEF RemovedAfterRace
<1>1. /\ msgs \in [Type -> Nat] /\ runner \in [Runner -> Places] /\ heard \in Nat
      /\ numRun \in Int
  BY Numbers DEF TypeOK, Places
<1>2. Ended = Born /\ judge \in {"unborn", "exited"}
  <2>1. Ended = Born
    BY DEF ReapInv
  <2>2. judge # "failed"
    BY <1>1 DEF RaceInv
  <2> QED BY <2>1, <2>2, EndedBorn
<1> DEFINE T == BornRunners \ At("ready")
<1>3. IsFiniteSet(T) /\ Cardinality(T) \in Nat /\ msgs[READY] \in Nat
  BY <1>1, Groups, GroupFinite, Numbers
<1>4. Cardinality(T) = msgs[READY] + heard
  BY DEF Account
<1>5. NoBaton
  BY <1>2 DEF RaceInv
<1>6. msgs[READY] = 0
  <2>1. CASE judge = "unborn"
    <3>1. IsFiniteSet(BornRunners) /\ Cardinality(BornRunners) \in Nat
      BY <1>1, Groups, GroupFinite
    <3>2. ExitedRunners = {}
      BY <2>1 DEF RaceInv, ExitedRunners
    <3>3. Cardinality(BornRunners) = 0
      BY <1>2, <2>1, <3>1, <3>2, FS_EmptySet DEF Ended, Born
    <3>4. T = {}
      BY <3>1, <3>3, FS_EmptySet
    <3>5. Cardinality(T) = 0
      BY <3>4, FS_EmptySet
    <3> HIDE DEF T
    <3> QED BY <1>1, <1>3, <1>4, <3>5
  <2>2. CASE judge = "exited"
    <3>1. heard >= numRun
      BY <2>2 DEF RaceInv
    <3>2. Cardinality(T) <= numRun
      <4>1. T \subseteq BornRunners /\ IsFiniteSet(BornRunners)
        BY <1>1, Groups, GroupFinite
      <4>2. Cardinality(T) <= Cardinality(BornRunners) /\ Cardinality(BornRunners) \in Nat
        <5> HIDE DEF T
        <5> QED BY <4>1, FS_Subset, FS_CardinalityType
      <4>3. Born = Cardinality(BornRunners) + 1
        BY <2>2 DEF Born
      <4>4. Born <= numRun + 1
        BY EndedBorn
      <4> HIDE DEF T
      <4> QED BY <1>1, <1>3, <4>2, <4>3, <4>4
    <3> HIDE DEF T
    <3> QED BY <1>1, <1>3, <1>4, <3>1, <3>2
  <2> QED BY <1>2, <2>1, <2>2
<1>7. \A t \in Type : msgs[t] = 0
  BY <1>5, <1>6, Numbers DEF NoBaton
<1> QED BY <1>2, <1>7

\* main removes the queue (line 126) with nobody left to use it and nothing
\* left in it: wait() is called once for each child there can be.
THEOREM RemovedLast == Spec => []RemovedAfterRace
<1>1. IInv => RemovedAfterRace
  BY RemovedSteps
<1> QED BY <1>1, Invariance, PTL

-----------------------------------------------------------------------------
(***************************************************************************)
(* The messages implement the race                                         *)
(***************************************************************************)

Team == {r \in Runner : r < numRun}
RacePlace == [r \in Runner |-> Place(runner[r])]

\* What does not show in the places or the whistle is a stutter of the race.
LEMMA RaceStutter ==
  ASSUME numRun' = numRun, RacePlace' = RacePlace, Whistle' = Whistle
  PROVE  UNCHANGED R!rvars
BY DEF R!rvars, RacePlace

\* A runner's step is a step of the one runner of the race.
LEMMA RunnerPlace ==
  ASSUME TypeOK, NEW r \in Runner, NEW from, NEW to, RunnerGo(r, from, to)
  PROVE  R!Move(r, Place(from), Place(to))
<1>1. runner \in [Runner -> Places] /\ runner[r] = from
      /\ runner' = [runner EXCEPT ![r] = to] /\ numRun' = numRun /\ judge' = judge
  BY DEF TypeOK, Places, RunnerGo
<1>2. RacePlace' = [RacePlace EXCEPT ![r] = Place(to)] /\ RacePlace[r] = Place(from)
  BY <1>1 DEF RacePlace
<1>3. Whistle' = Whistle
  BY <1>1 DEF Whistle
<1> QED BY <1>1, <1>2, <1>3 DEF R!Move, RacePlace

LEMMA RunnerRace == ASSUME IInv, NEW r \in Runner, RunnerNext(r) PROVE [R!Next]_(R!rvars)
<1> USE DEF IInv
<1>1. runner[r] # "unborn" /\ numRun \in Int
  BY Numbers DEF RunnerNext, GetReady, TakeBaton, PassBaton, RunnerGo, TypeOK
<1>2. r \in Team
  <2>1. r \in Nat /\ ~(r >= numRun)
    BY <1>1, Numbers DEF MainInv
  <2>2. r < numRun
    BY <1>1, <2>1
  <2> QED BY <2>2 DEF Team
<1>3. CASE GetReady(r)
  <2>1. R!Move(r, "home", "ready")
    BY <1>3, RunnerPlace DEF GetReady, Place
  <2> QED BY <1>2, <2>1 DEF R!Next, R!GetReady, Team
<1>4. CASE TakeBaton(r)
  <2>1. R!Move(r, "ready", "running")
    BY <1>4, RunnerPlace DEF TakeBaton, Place
  <2>2. /\ runner[r] = "wait" /\ msgs[START + r] > 0 /\ START + r \in Batonlike
        /\ START + r # FINISH
    BY <1>4, GetMsg, Numbers DEF TakeBaton, RunnerGo, TypeOK, get_msg
  <2>3. PICK b \in Runner : judge = "finish" /\ b < numRun /\ Leg(b)
    <3>1. ~NoBaton
      BY <2>2 DEF NoBaton
    <3>2. r < numRun
      BY <1>2 DEF Team
    <3>3. judge = "finish"
      <4>1. judge \in {"unborn", "hear", "finish", "exited", "failed"}
        BY DEF TypeOK
      <4>2. judge # "failed"
        BY <1>1, <3>2, Numbers DEF RaceInv
      <4>3. judge # "exited"
        BY <2>2, <3>1 DEF RaceInv
      <4> QED BY <2>2, <3>1, <4>1, <4>2, <4>3 DEF RaceInv
    <3>4. ~(numRun <= 0)
      BY <1>1, <3>2, Numbers
    <3> QED BY <2>2, <3>2, <3>3, <3>4 DEF RaceInv
  <2>4. b = r
    <3>1. Only(START + b)
      BY <2>2, <2>3 DEF Leg, NoBaton
    <3>2. START + r = START + b
      BY <2>2, <3>1 DEF Only
    <3> QED BY <3>2, Numbers DEF START
  <2>5. \A k \in Team : k < r => RacePlace[k] = "finished"
    BY <2>3, <2>4 DEF Leg, Team, RacePlace, Place
  <2>6. Whistle = "start"
    BY <2>3 DEF Whistle
  <2> QED BY <1>2, <2>1, <2>5, <2>6 DEF R!Next, R!Run, Team, RacePlace
<1>5. CASE PassBaton(r)
  <2>1. R!Move(r, "running", "finished")
    BY <1>5, RunnerPlace DEF PassBaton, Place
  <2> QED BY <1>2, <2>1 DEF R!Next, R!Finish, Team
<1> QED BY <1>3, <1>4, <1>5 DEF RunnerNext

LEMMA JudgeRace == ASSUME IInv, JudgeNext PROVE [R!Next]_(R!rvars)
<1> USE DEF IInv
<1>1. /\ UNCHANGED <<numRun, main, runner>> /\ numRun \in Int
      /\ msgs \in [Type -> Nat]
  BY Numbers DEF JudgeNext, HearReady, StartRace, EndRace, JudgeFails, JudgeGo, TypeOK
<1>2. Team' = Team /\ RacePlace' = RacePlace
  BY <1>1 DEF Team, RacePlace
<1>3. CASE HearReady
  <2>1. Whistle' = Whistle
    BY <1>3 DEF HearReady, JudgeGo, Whistle
  <2> QED BY <1>1, <1>2, <2>1, RaceStutter
<1>4. CASE StartRace
  <2>1. judge = "hear" /\ judge' = "finish" /\ heard >= numRun
    BY <1>4 DEF StartRace, JudgeGo
  <2>2. \A r \in Team : RacePlace[r] = "ready"
    BY <2>1, AllTold DEF RaceInv, Told, Team, RacePlace, Place
  <2>3. Whistle = "none" /\ Whistle' = "start"
    BY <2>1 DEF Whistle
  <2>4. R!StartRace
    BY <1>2, <2>2, <2>3 DEF R!StartRace, Team, RacePlace
  <2> QED BY <2>4 DEF R!Next
<1>5. CASE EndRace
  <2>1. judge = "finish" /\ judge' = "exited" /\ msgs[FINISH] > 0
    BY <1>5 DEF EndRace, JudgeGo, get_msg
  <2>2. ~NoBaton /\ \A t \in Batonlike : t # FINISH => ~Only(t)
    BY <1>1, <2>1, Numbers DEF NoBaton, Only
  <2>3. \A r \in Runner : START + r \in Batonlike /\ START + r # FINISH
    BY Numbers
  <2>4. \A r \in Runner : r < numRun => runner[r] = "exited"
    BY <2>1, <2>2, <2>3, Numbers DEF RaceInv, Leg, START, FINISH
  <2>5. \A r \in Team : RacePlace[r] = "finished"
    BY <2>4 DEF Team, RacePlace, Place
  <2>6. Whistle = "start" /\ Whistle' = "end"
    BY <2>1 DEF Whistle
  <2>7. R!EndRace
    BY <1>2, <2>5, <2>6 DEF R!EndRace, Team, RacePlace
  <2> QED BY <2>7 DEF R!Next
<1>6. CASE JudgeFails
  <2>1. Removed /\ judge \in {"hear", "finish"} /\ judge' = "failed"
    BY <1>6 DEF JudgeFails, JudgeGo
  <2>2. numRun < 0
    BY <1>1, <2>1, EndedBorn DEF ReapInv
  <2>3. Team = {}
    <3>1. \A r \in Runner : ~(r < numRun)
      BY <1>1, <2>2, Numbers
    <3> QED BY <3>1 DEF Team
  <2>4. CASE judge = "hear"
    <3>1. Whistle = "none" /\ Whistle' = "start"
      BY <2>1, <2>4 DEF Whistle
    <3>2. R!StartRace
      BY <1>2, <2>3, <3>1 DEF R!StartRace, Team, RacePlace
    <3> QED BY <3>2 DEF R!Next
  <2>5. CASE judge = "finish"
    <3>1. Whistle' = Whistle
      BY <2>1, <2>5 DEF Whistle
    <3> QED BY <1>1, <1>2, <3>1, RaceStutter
  <2> QED BY <2>1, <2>4, <2>5
<1> QED BY <1>3, <1>4, <1>5, <1>6 DEF JudgeNext

\* Being born is no event of the race.
LEMMA MainRace == ASSUME IInv, MainNext PROVE [R!Next]_(R!rvars)
<1> USE DEF IInv
<1>1. numRun' = numRun /\ runner \in [Runner -> Places]
  BY DEF MainNext, Msgget, ForkJudge, ForkRunner, ForksDone, Wait, Remove, MainGo,
         TypeOK, Places
<1>2. CASE ForkJudge
  <2>1. judge = "unborn" /\ judge' \in {"hear", "unborn"} /\ runner' = runner
    BY <1>2 DEF ForkJudge, MainGo, MainInv
  <2>2. RacePlace' = RacePlace /\ Whistle' = Whistle
    BY <2>1 DEF RacePlace, Whistle
  <2> QED BY <1>1, <2>2, RaceStutter
<1>3. CASE ForkRunner
  <2>1. PICK start \in {"ready", "unborn"} : runner' = [runner EXCEPT ![i] = start]
    BY <1>3 DEF ForkRunner
  <2>2. judge' = judge /\ \A r \in Runner : r = i => runner[r] = "unborn"
    BY <1>3, Numbers DEF ForkRunner, MainGo, MainInv
  <2>3. RacePlace' = RacePlace
    <3>1. \A r \in Runner : runner'[r] = runner[r] \/ (runner[r] = "unborn" /\ runner'[r] = "ready")
      BY <1>1, <2>1, <2>2
    <3>2. \A r \in Runner : Place(runner'[r]) = Place(runner[r])
      BY <3>1 DEF Place
    <3> QED BY <3>2 DEF RacePlace
  <2> QED BY <1>1, <2>2, <2>3, RaceStutter DEF Whistle
<1>4. CASE Msgget \/ ForksDone \/ Wait \/ Remove
  <2>1. judge' = judge /\ runner' = runner
    BY <1>4 DEF Msgget, ForksDone, Wait, Remove
  <2>2. RacePlace' = RacePlace /\ Whistle' = Whistle
    BY <2>1 DEF RacePlace, Whistle
  <2> QED BY <1>1, <2>2, RaceStutter
<1> QED BY <1>2, <1>3, <1>4 DEF MainNext

\* The program implements the race: it starts when every runner is ready, they
\* run one at a time in the order of their numbers (lines 93-101), and the
\* judge sees the end after the last of them (lines 76-77).
THEOREM Refinement == Spec => RaceSpec
<1>1. Init => R!Init
  <2> SUFFICES ASSUME Init PROVE R!Init
    OBVIOUS
  <2>1. RacePlace = [r \in Runner |-> "home"] /\ Whistle = "none"
    BY DEF Init, RacePlace, Place, Whistle
  <2> QED BY <2>1 DEF R!Init, RacePlace
<1>2. IInv /\ [Next]_vars => [R!Next]_(R!rvars)
  <2> SUFFICES ASSUME IInv, [Next]_vars PROVE [R!Next]_(R!rvars)
    OBVIOUS
  <2>1. CASE UNCHANGED vars
    BY <2>1, RaceStutter DEF vars, RacePlace, Whistle
  <2> QED BY <2>1, MainRace, JudgeRace, RunnerRace DEF Next
<1> QED BY <1>1, <1>2, Invariance, PTL DEF Spec, RaceSpec, R!Spec
=============================================================================
