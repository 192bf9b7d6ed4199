---------------------------- MODULE ShowerProofs ----------------------------
(***************************************************************************)
(* The shower's tokens match who is inside, and its queues implement the   *)
(* bath, for every number of humans and cabins and every queue capacity.   *)
(***************************************************************************)
EXTENDS Shower, FiniteSetTheorems, TLAPS

(***************************************************************************)
(* The inductive invariant                                                 *)
(***************************************************************************)

Setup == {"args", "usage", "cubs"}
Cabins == IF N > 0 THEN N ELSE 0

Hand == {"put_back", "again"}
Holder == {"unlock", "proceed", "cabin", "leave", "take"}
Locker == {"sync", "put_back", "add", "unlock", "take", "look", "again", "anyone",
           "leave_unlock"}
Size(g, S) == Cardinality(In(g, S))

\* Humans are forked after the queues are filled and in order, and the room is
\* closed until the last fork.
Open == main \in {"wait", "removed"}
MainInv == /\ main \in Setup => human = [h \in Human |-> "unborn"] /\ i = cub
           /\ main \in {"args", "usage"} => i = 0
           /\ main \notin {"args", "usage"} => Len(argv) = 3
           /\ \A h \in Human : h >= M + W => human[h] = "unborn"
           /\ main = "fork" => \A h \in Human : h >= i => human[h] = "unborn"

\* A gender's tokens are in q_sync for those who hold one and not in a hand, its
\* lock is in q_lock or in one hand, and who is about to send ANYONE is the last.
Account(g) == /\ sync[g] + Size(g, Hand) = Size(g, Holder)
              /\ lock[g] + Size(g, Locker) = IF main \in Setup THEN 0 ELSE 1
              /\ Size(g, {"anyone"}) > 0 => Size(g, Room) = 1

AnyoneInv == /\ sync["ANYONE"] = IF Open /\ Size("MAN", Room) = 0 /\ Size("WOMAN", Room) = 0
                                 THEN 1 ELSE 0
             /\ ~Open => Size("MAN", Room) = 0 /\ Size("WOMAN", Room) = 0

\* Each cabin is free or in use.
Cubs == /\ main \notin Setup =>
             cub + Size("MAN", {"cabin"}) + Size("WOMAN", {"cabin"}) = Cabins
        /\ cub <= Cabins

\* Never both kinds inside.
Exclusive == Size("MAN", Room) = 0 \/ Size("WOMAN", Room) = 0

IInv == /\ TypeOK /\ MainInv /\ Account("MAN") /\ Account("WOMAN")
        /\ AnyoneInv /\ Cubs /\ Exclusive

Places == {"unborn", "enter", "sync", "put_back", "add", "unlock", "proceed", "cabin",
           "leave", "take", "look", "again", "anyone", "leave_unlock", "exited"}

-----------------------------------------------------------------------------
(***************************************************************************)
(* Lemmas                                                                  *)
(***************************************************************************)

\* The humans are finitely many, so every group of them has a size.
LEMMA GroupFinite == ASSUME NEW g, NEW S
                     PROVE  IsFiniteSet(In(g, S)) /\ Size(g, S) \in Nat
<1>1. IsFiniteSet(Human)
  <2>1. 0 \in Int /\ MaxHumans - 1 \in Int
    BY ShowerAssumption
  <2> QED BY <2>1, FS_Interval DEF Human
<1>2. In(g, S) \subseteq Human
  BY DEF In
<1>3. IsFiniteSet(In(g, S))
  BY <1>1, <1>2, FS_Subset
<1> QED BY <1>3, FS_CardinalityType DEF Size

LEMMA GroupFiniteNext == ASSUME NEW g, NEW S PROVE Size(g, S)' \in Nat
<1>1. IsFiniteSet(Human)
  <2>1. 0 \in Int /\ MaxHumans - 1 \in Int
    BY ShowerAssumption
  <2> QED BY <2>1, FS_Interval DEF Human
<1>2. In(g, S)' \subseteq Human
  BY DEF In
<1> QED BY <1>1, <1>2, FS_Subset, FS_CardinalityType DEF Size

\* A group with somebody in it is not of size 0, and one of size 1 is that one.
LEMMA GroupMember ==
  ASSUME NEW g, NEW S, NEW h \in In(g, S)
  PROVE  Size(g, S) >= 1 /\ (Size(g, S) = 1 => In(g, S) = {h})
<1>1. IsFiniteSet(In(g, S)) /\ Size(g, S) \in Nat
  BY GroupFinite
<1>2. Size(g, S) # 0
  BY <1>1, FS_EmptySet DEF Size
<1>3. ASSUME Size(g, S) = 1 PROVE In(g, S) = {h}
  <2>1. PICK x : In(g, S) = {x}
    BY <1>1, <1>3, FS_Singleton DEF Size
  <2> QED BY <2>1
<1> QED BY <1>1, <1>2, <1>3

LEMMA GroupNobody == ASSUME NEW g, NEW S, Size(g, S) = 0 PROVE In(g, S) = {}
BY GroupFinite, FS_EmptySet DEF Size

LEMMA NobodyGroup == ASSUME NEW g, NEW S, In(g, S) = {} PROVE Size(g, S) = 0
BY FS_EmptySet DEF Size

\* One human's move changes the size of a group of its gender by who joins and
\* leaves, and no other group.
Jump(h, from, to) == /\ human[h] = from /\ human' = [human EXCEPT ![h] = to]
                     /\ argv' = argv
Change(S, from, to) == (IF to \in S THEN 1 ELSE 0) - (IF from \in S THEN 1 ELSE 0)

LEMMA GenderKept == ASSUME argv' = argv
                    PROVE  /\ N' = N /\ M' = M /\ W' = W /\ Cabins' = Cabins
                           /\ \A h : gender(h)' = gender(h)
BY DEF N, M, W, Arg, gender, Cabins

LEMMA GroupMove ==
  ASSUME human \in [Human -> Places], NEW h \in Human, NEW from, NEW to,
         Jump(h, from, to), NEW S, NEW g
  PROVE  Size(g, S)' = IF gender(h) = g THEN Size(g, S) + Change(S, from, to)
                       ELSE Size(g, S)
<1> DEFINE A == In(g, S) \ {h}
<1>1. /\ human[h] = from /\ human' = [human EXCEPT ![h] = to]
      /\ \A x : gender(x)' = gender(x)
  BY GenderKept DEF Jump
<1>2. IsFiniteSet(In(g, S)) /\ Size(g, S) \in Nat
  BY GroupFinite
<1>3. CASE gender(h) # g
  <2>1. In(g, S)' = In(g, S)
    BY <1>1, <1>3 DEF In
  <2> QED BY <1>3, <2>1 DEF Size
<1>4. CASE gender(h) = g
  <2>1. IsFiniteSet(A) /\ Cardinality(A) \in Nat /\ h \notin A
    BY <1>2, FS_RemoveElement, FS_CardinalityType
  <2>2. Size(g, S) = Cardinality(A) + (IF from \in S THEN 1 ELSE 0)
    <3>1. CASE from \in S
      <4>1. In(g, S) = A \cup {h}
        BY <1>1, <1>4, <3>1 DEF In
      <4> HIDE DEF A
      <4> QED BY <2>1, <3>1, <4>1, FS_AddElement DEF Size
    <3>2. CASE from \notin S
      <4>1. In(g, S) = A
        BY <1>1, <3>2 DEF In
      <4> HIDE DEF A
      <4> QED BY <2>1, <3>2, <4>1 DEF Size
    <3> QED BY <3>1, <3>2
  <2>3. Size(g, S)' = Cardinality(A) + (IF to \in S THEN 1 ELSE 0)
    <3>1. CASE to \in S
      <4>1. In(g, S)' = A \cup {h}
        BY <1>1, <1>4, <3>1 DEF In
      <4> HIDE DEF A
      <4>2. Cardinality(A \cup {h}) = Cardinality(A) + 1
        BY <2>1, FS_AddElement
      <4> QED BY <3>1, <4>1, <4>2 DEF Size
    <3>2. CASE to \notin S
      <4>1. In(g, S)' = A
        BY <1>1, <3>2 DEF In
      <4> HIDE DEF A
      <4> QED BY <2>1, <3>2, <4>1 DEF Size
    <3> QED BY <3>1, <3>2
  <2> HIDE DEF A
  <2> QED BY <1>4, <2>1, <2>2, <2>3 DEF Change
<1> QED BY <1>3, <1>4

-----------------------------------------------------------------------------
(***************************************************************************)
(* The moves of a human                                                    *)
(***************************************************************************)

\* What each call adds: ds to the gender's tokens in q_sync, da to ANYONE, dl
\* to the gender's lock, dc to the cabins.
Row(from, to, ds, da, dl, dc) ==
  \/ from = "enter" /\ to = "sync" /\ ds = 0 /\ da = 0 /\ dl = -1 /\ dc = 0
  \/ from = "sync" /\ to = "put_back" /\ ds = -1 /\ da = 0 /\ dl = 0 /\ dc = 0
  \/ from = "sync" /\ to = "add" /\ ds = 0 /\ da = -1 /\ dl = 0 /\ dc = 0
  \/ from = "put_back" /\ to = "add" /\ ds = 1 /\ da = 0 /\ dl = 0 /\ dc = 0
  \/ from = "add" /\ to = "unlock" /\ ds = 1 /\ da = 0 /\ dl = 0 /\ dc = 0
  \/ from = "unlock" /\ to = "proceed" /\ ds = 0 /\ da = 0 /\ dl = 1 /\ dc = 0
  \/ from = "proceed" /\ to = "cabin" /\ ds = 0 /\ da = 0 /\ dl = 0 /\ dc = -1
  \/ from = "cabin" /\ to = "leave" /\ ds = 0 /\ da = 0 /\ dl = 0 /\ dc = 1
  \/ from = "leave" /\ to = "take" /\ ds = 0 /\ da = 0 /\ dl = -1 /\ dc = 0
  \/ from = "take" /\ to = "look" /\ ds = -1 /\ da = 0 /\ dl = 0 /\ dc = 0
  \/ from = "look" /\ to = "again" /\ ds = -1 /\ da = 0 /\ dl = 0 /\ dc = 0
  \/ from = "look" /\ to = "anyone" /\ ds = 0 /\ da = 0 /\ dl = 0 /\ dc = 0
  \/ from = "again" /\ to = "leave_unlock" /\ ds = 1 /\ da = 0 /\ dl = 0 /\ dc = 0
  \/ from = "anyone" /\ to = "leave_unlock" /\ ds = 0 /\ da = 1 /\ dl = 0 /\ dc = 0
  \/ from = "leave_unlock" /\ to = "exited" /\ ds = 0 /\ da = 0 /\ dl = 1 /\ dc = 0

Effect(g, ds, da, dl, dc) ==
  /\ sync' \in [Gender \cup {"ANYONE"} -> Nat] /\ lock' \in [Gender -> Nat] /\ cub' \in Nat
  /\ sync'[g] = sync[g] + ds /\ sync'[Other(g)] = sync[Other(g)]
  /\ sync'["ANYONE"] = sync["ANYONE"] + da
  /\ lock'[g] = lock[g] + dl /\ lock'[Other(g)] = lock[Other(g)]
  /\ cub' = cub + dc

Moved(h, from, to, ds, da, dl, dc) ==
  /\ Jump(h, from, to) /\ UNCHANGED <<main, i, reaped>>
  /\ Row(from, to, ds, da, dl, dc)
  /\ Effect(gender(h), ds, da, dl, dc)
  /\ to = "anyone" => sync[gender(h)] = 0

LEMMA QueueTypes ==
  ASSUME TypeOK, NEW g \in Gender
  PROVE  /\ sync \in [Gender \cup {"ANYONE"} -> Nat] /\ lock \in [Gender -> Nat]
         /\ cub \in Nat
         /\ Other(g) \in Gender /\ Other(g) # g /\ g # "ANYONE" /\ Other(g) # "ANYONE"
         /\ sync[g] \in Nat /\ sync["ANYONE"] \in Nat /\ lock[g] \in Nat
<1>1. g = "MAN" \/ g = "WOMAN"
  BY DEF Gender
<1>2. Other(g) \in Gender /\ Other(g) # g /\ g # "ANYONE" /\ Other(g) # "ANYONE"
  BY <1>1 DEF Other, Gender
<1>3. sync \in [Gender \cup {"ANYONE"} -> Nat] /\ cub \in Nat
  BY DEF TypeOK
<1>4. lock \in [Gender -> 0 .. 1]
  BY DEF TypeOK
<1>5. lock \in [Gender -> Nat]
  BY <1>4
<1> QED BY <1>2, <1>3, <1>5

LEMMA SyncTaken ==
  ASSUME TypeOK, NEW g \in Gender, UNCHANGED <<lock, cub>>
  PROVE  /\ SyncReceive(g) => Effect(g, -1, 0, 0, 0)
         /\ SyncReceive("ANYONE") => Effect(g, 0, -1, 0, 0)
<1>0. /\ sync \in [Gender \cup {"ANYONE"} -> Nat] /\ lock \in [Gender -> Nat]
      /\ cub \in Nat
      /\ Other(g) \in Gender /\ Other(g) # g /\ g # "ANYONE" /\ Other(g) # "ANYONE"
      /\ sync[g] \in Nat /\ sync["ANYONE"] \in Nat /\ lock[g] \in Nat
  BY QueueTypes
<1> USE <1>0 DEF SyncReceive
<1>1. ASSUME SyncReceive(g) PROVE Effect(g, -1, 0, 0, 0)
  <2>1. sync[g] \in Nat /\ sync[g] - 1 \in Nat
    BY <1>1
  <2> QED BY <1>1, <2>1 DEF Effect
<1>2. ASSUME SyncReceive("ANYONE") PROVE Effect(g, 0, -1, 0, 0)
  <2>1. sync["ANYONE"] \in Nat /\ sync["ANYONE"] - 1 \in Nat
    BY <1>2
  <2> QED BY <1>2, <2>1 DEF Effect
<1> QED BY <1>1, <1>2

LEMMA SyncGiven ==
  ASSUME TypeOK, NEW g \in Gender, UNCHANGED <<lock, cub>>
  PROVE  /\ SyncSend(g) => Effect(g, 1, 0, 0, 0)
         /\ SyncSend("ANYONE") => Effect(g, 0, 1, 0, 0)
<1>0. /\ sync \in [Gender \cup {"ANYONE"} -> Nat] /\ lock \in [Gender -> Nat]
      /\ cub \in Nat
      /\ Other(g) \in Gender /\ Other(g) # g /\ g # "ANYONE" /\ Other(g) # "ANYONE"
      /\ sync[g] \in Nat /\ sync["ANYONE"] \in Nat /\ lock[g] \in Nat
  BY QueueTypes
<1> USE <1>0 DEF SyncSend
<1>1. ASSUME SyncSend(g) PROVE Effect(g, 1, 0, 0, 0)
  <2>1. sync[g] \in Nat /\ sync[g] + 1 \in Nat
    OBVIOUS
  <2> QED BY <1>1, <2>1 DEF Effect
<1>2. ASSUME SyncSend("ANYONE") PROVE Effect(g, 0, 1, 0, 0)
  <2>1. sync["ANYONE"] \in Nat /\ sync["ANYONE"] + 1 \in Nat
    OBVIOUS
  <2> QED BY <1>2, <2>1 DEF Effect
<1> QED BY <1>1, <1>2

LEMMA LockMoved ==
  ASSUME TypeOK, NEW g \in Gender, UNCHANGED <<sync, cub>>
  PROVE  /\ Lock(g) => Effect(g, 0, 0, -1, 0)
         /\ Unlock(g) => Effect(g, 0, 0, 1, 0)
<1>0. /\ sync \in [Gender \cup {"ANYONE"} -> Nat] /\ lock \in [Gender -> Nat]
      /\ cub \in Nat
      /\ Other(g) \in Gender /\ Other(g) # g /\ g # "ANYONE" /\ Other(g) # "ANYONE"
      /\ sync[g] \in Nat /\ sync["ANYONE"] \in Nat /\ lock[g] \in Nat
  BY QueueTypes
<1> USE <1>0 DEF Lock, Unlock
<1>1. ASSUME Lock(g) PROVE Effect(g, 0, 0, -1, 0)
  <2>1. lock[g] \in Nat /\ lock[g] - 1 \in Nat
    BY <1>1
  <2> QED BY <1>1, <2>1 DEF Effect
<1>2. ASSUME Unlock(g) PROVE Effect(g, 0, 0, 1, 0)
  <2>1. lock[g] \in Nat /\ lock[g] + 1 \in Nat
    OBVIOUS
  <2> QED BY <1>2, <2>1 DEF Effect
<1> QED BY <1>1, <1>2

LEMMA CubMoved ==
  ASSUME TypeOK, NEW g \in Gender, UNCHANGED <<sync, lock>>
  PROVE  /\ cub > 0 /\ cub' = cub - 1 => Effect(g, 0, 0, 0, -1)
         /\ cub' = cub + 1 => Effect(g, 0, 0, 0, 1)
         /\ cub' = cub => Effect(g, 0, 0, 0, 0)
BY QueueTypes DEF Effect

\* Every step of a human is one row of the table.
LEMMA HumanMoves ==
  ASSUME TypeOK, NEW h \in Human, HumanNext(h)
  PROVE  \E from, to \in Places, ds, da, dl, dc \in {-1, 0, 1} :
            Moved(h, from, to, ds, da, dl, dc)
<1> DEFINE g == gender(h)
<1>1. g \in Gender /\ g # "ANYONE"
  BY DEF gender, Gender
<1>2. ASSUME NEW from, NEW to, Go(h, from, to)
      PROVE  Jump(h, from, to) /\ UNCHANGED <<main, i, reaped>>
  BY <1>2 DEF Go, Jump
<1> HIDE DEF g
<1> USE DEF Moved, Row, Places
<1>4. CASE EnterLock(h)
  <2>1. Jump(h, "enter", "sync") /\ UNCHANGED <<main, i, reaped>>
    BY <1>2, <1>4 DEF EnterLock
  <2>2. Effect(g, 0, 0, -1, 0)
    BY <1>1, <1>4, LockMoved DEF EnterLock, g
  <2>3. Moved(h, "enter", "sync", 0, 0, -1, 0)
    BY <2>1, <2>2 DEF g
  <2> QED BY <2>3
<1>5. CASE SyncReceive(gender(h)) /\ Go(h, "sync", "put_back") /\ UNCHANGED <<cub, lock>>
  <2>1. Jump(h, "sync", "put_back") /\ UNCHANGED <<main, i, reaped>>
    BY <1>2, <1>5
  <2>2. Effect(g, -1, 0, 0, 0)
    BY <1>1, <1>5, SyncTaken DEF g
  <2>3. Moved(h, "sync", "put_back", -1, 0, 0, 0)
    BY <2>1, <2>2 DEF g
  <2> QED BY <2>3
<1>6. CASE SyncReceive("ANYONE") /\ Go(h, "sync", "add") /\ UNCHANGED <<cub, lock>>
  <2>1. Jump(h, "sync", "add") /\ UNCHANGED <<main, i, reaped>>
    BY <1>2, <1>6
  <2>2. Effect(g, 0, -1, 0, 0)
    BY <1>1, <1>6, SyncTaken DEF g
  <2>3. Moved(h, "sync", "add", 0, -1, 0, 0)
    BY <2>1, <2>2 DEF g
  <2> QED BY <2>3
<1>7. CASE PutBack(h)
  <2>1. Jump(h, "put_back", "add") /\ UNCHANGED <<main, i, reaped>>
    BY <1>2, <1>7 DEF PutBack
  <2>2. Effect(g, 1, 0, 0, 0)
    BY <1>1, <1>7, SyncGiven DEF PutBack, g
  <2>3. Moved(h, "put_back", "add", 1, 0, 0, 0)
    BY <2>1, <2>2 DEF g
  <2> QED BY <2>3
<1>8. CASE AddToken(h)
  <2>1. Jump(h, "add", "unlock") /\ UNCHANGED <<main, i, reaped>>
    BY <1>2, <1>8 DEF AddToken
  <2>2. Effect(g, 1, 0, 0, 0)
    BY <1>1, <1>8, SyncGiven DEF AddToken, g
  <2>3. Moved(h, "add", "unlock", 1, 0, 0, 0)
    BY <2>1, <2>2 DEF g
  <2> QED BY <2>3
<1>9. CASE EnterUnlock(h)
  <2>1. Jump(h, "unlock", "proceed") /\ UNCHANGED <<main, i, reaped>>
    BY <1>2, <1>9 DEF EnterUnlock
  <2>2. Effect(g, 0, 0, 1, 0)
    BY <1>1, <1>9, LockMoved DEF EnterUnlock, g
  <2>3. Moved(h, "unlock", "proceed", 0, 0, 1, 0)
    BY <2>1, <2>2 DEF g
  <2> QED BY <2>3
<1>10. CASE TakeCub(h)
  <2>1. Jump(h, "proceed", "cabin") /\ UNCHANGED <<main, i, reaped>>
    BY <1>2, <1>10 DEF TakeCub
  <2>2. Effect(g, 0, 0, 0, -1)
    BY <1>1, <1>10, CubMoved DEF TakeCub, g
  <2>3. Moved(h, "proceed", "cabin", 0, 0, 0, -1)
    BY <2>1, <2>2 DEF g
  <2> QED BY <2>3
<1>11. CASE GiveCub(h)
  <2>1. Jump(h, "cabin", "leave") /\ UNCHANGED <<main, i, reaped>>
    BY <1>2, <1>11 DEF GiveCub
  <2>2. Effect(g, 0, 0, 0, 1)
    BY <1>1, <1>11, CubMoved DEF GiveCub, g
  <2>3. Moved(h, "cabin", "leave", 0, 0, 0, 1)
    BY <2>1, <2>2 DEF g
  <2> QED BY <2>3
<1>12. CASE LeaveLock(h)
  <2>1. Jump(h, "leave", "take") /\ UNCHANGED <<main, i, reaped>>
    BY <1>2, <1>12 DEF LeaveLock
  <2>2. Effect(g, 0, 0, -1, 0)
    BY <1>1, <1>12, LockMoved DEF LeaveLock, g
  <2>3. Moved(h, "leave", "take", 0, 0, -1, 0)
    BY <2>1, <2>2 DEF g
  <2> QED BY <2>3
<1>13. CASE TakeToken(h)
  <2>1. Jump(h, "take", "look") /\ UNCHANGED <<main, i, reaped>>
    BY <1>2, <1>13 DEF TakeToken
  <2>2. Effect(g, -1, 0, 0, 0)
    BY <1>1, <1>13, SyncTaken DEF TakeToken, g
  <2>3. Moved(h, "take", "look", -1, 0, 0, 0)
    BY <2>1, <2>2 DEF g
  <2> QED BY <2>3
<1>14. CASE SyncReceive(gender(h)) /\ Go(h, "look", "again") /\ UNCHANGED <<cub, lock>>
  <2>1. Jump(h, "look", "again") /\ UNCHANGED <<main, i, reaped>>
    BY <1>2, <1>14
  <2>2. Effect(g, -1, 0, 0, 0)
    BY <1>1, <1>14, SyncTaken DEF g
  <2>3. Moved(h, "look", "again", -1, 0, 0, 0)
    BY <2>1, <2>2 DEF g
  <2> QED BY <2>3
<1>15. CASE /\ sync[gender(h)] = 0 /\ Go(h, "look", "anyone")
            /\ UNCHANGED <<sync, cub, lock>>
  <2>1. Jump(h, "look", "anyone") /\ UNCHANGED <<main, i, reaped>>
    BY <1>2, <1>15
  <2>2. Effect(g, 0, 0, 0, 0)
    BY <1>1, <1>15, CubMoved
  <2>3. Moved(h, "look", "anyone", 0, 0, 0, 0)
    BY <1>15, <2>1, <2>2 DEF g
  <2> QED BY <2>3
<1>16. CASE Go(h, "again", "leave_unlock") /\ SyncSend(gender(h)) /\ UNCHANGED <<cub, lock>>
  <2>1. Jump(h, "again", "leave_unlock") /\ UNCHANGED <<main, i, reaped>>
    BY <1>2, <1>16
  <2>2. Effect(g, 1, 0, 0, 0)
    BY <1>1, <1>16, SyncGiven DEF g
  <2>3. Moved(h, "again", "leave_unlock", 1, 0, 0, 0)
    BY <2>1, <2>2 DEF g
  <2> QED BY <2>3
<1>17. CASE Go(h, "anyone", "leave_unlock") /\ SyncSend("ANYONE") /\ UNCHANGED <<cub, lock>>
  <2>1. Jump(h, "anyone", "leave_unlock") /\ UNCHANGED <<main, i, reaped>>
    BY <1>2, <1>17
  <2>2. Effect(g, 0, 1, 0, 0)
    BY <1>1, <1>17, SyncGiven DEF g
  <2>3. Moved(h, "anyone", "leave_unlock", 0, 1, 0, 0)
    BY <2>1, <2>2 DEF g
  <2> QED BY <2>3
<1>18. CASE LeaveUnlock(h)
  <2>1. Jump(h, "leave_unlock", "exited") /\ UNCHANGED <<main, i, reaped>>
    BY <1>2, <1>18 DEF LeaveUnlock
  <2>2. Effect(g, 0, 0, 1, 0)
    BY <1>1, <1>18, LockMoved DEF LeaveUnlock, g
  <2>3. Moved(h, "leave_unlock", "exited", 0, 0, 1, 0)
    BY <2>1, <2>2 DEF g
  <2> QED BY <2>3
<1> QED
  BY <1>4, <1>5, <1>6, <1>7, <1>8, <1>9, <1>10, <1>11, <1>12, <1>13, <1>14, <1>15,
     <1>16, <1>17, <1>18
  DEF HumanNext, EnterSync, Look, PutToken

-----------------------------------------------------------------------------
(***************************************************************************)
(* The groups of one gender, put together from the places in them          *)
(***************************************************************************)

LEMMA SizeSplit ==
  ASSUME NEW g, NEW S, NEW T, S \cap T = {}
  PROVE  Size(g, S \cup T) = Size(g, S) + Size(g, T)
<1>1. /\ IsFiniteSet(In(g, S)) /\ Size(g, S) \in Nat
      /\ IsFiniteSet(In(g, T)) /\ Size(g, T) \in Nat
  BY GroupFinite
<1>2. In(g, S \cup T) = In(g, S) \cup In(g, T) /\ In(g, S) \cap In(g, T) = {}
  <2>1. \A h : h \in In(g, S \cup T) <=> h \in In(g, S) \/ h \in In(g, T)
    BY DEF In
  <2>2. \A h : ~(h \in In(g, S) /\ h \in In(g, T))
    BY DEF In
  <2> QED BY <2>1, <2>2
<1> DEFINE A == In(g, S)
           D == In(g, T)
<1>3. IsFiniteSet(A) /\ IsFiniteSet(D) /\ A \cap D = {}
  BY <1>1, <1>2
<1>4. Size(g, S \cup T) = Cardinality(A \cup D)
  BY <1>2 DEF Size
<1>5. Size(g, S) = Cardinality(A) /\ Size(g, T) = Cardinality(D)
  BY DEF Size
<1> HIDE DEF A, D
<1>6. Cardinality(A \cup D) = Cardinality(A) + Cardinality(D) - Cardinality(A \cap D)
  BY <1>3, FS_Union
<1>7. Cardinality(A \cap D) = 0
  BY <1>3, FS_EmptySet
<1> QED BY <1>1, <1>4, <1>5, <1>6, <1>7

Rest == {"unlock", "take", "leave_unlock"}

Sums(g) ==
  /\ Size(g, Hand) = Size(g, {"put_back"}) + Size(g, {"again"})
  /\ Size(g, Locker) = Size(g, {"sync"}) + Size(g, {"put_back"}) + Size(g, {"again"})
                       + Size(g, {"add"}) + Size(g, {"look"}) + Size(g, {"anyone"})
                       + Size(g, Rest)
  /\ Size(g, Room) = Size(g, {"put_back"}) + Size(g, {"again"}) + Size(g, {"add"})
                     + Size(g, {"look"}) + Size(g, {"anyone"}) + Size(g, Holder)
  /\ Size(g, {"sync"}) \in Nat /\ Size(g, {"put_back"}) \in Nat
  /\ Size(g, {"again"}) \in Nat /\ Size(g, {"add"}) \in Nat /\ Size(g, {"look"}) \in Nat
  /\ Size(g, {"anyone"}) \in Nat /\ Size(g, Rest) \in Nat /\ Size(g, Holder) \in Nat
  /\ Size(g, {"cabin"}) \in Nat

LEMMA GroupSums == ASSUME NEW g PROVE Sums(g)
<1> DEFINE s1 == {"anyone"} \cup Holder
           s2 == {"look"} \cup s1
           s3 == {"add"} \cup s2
           r1 == {"anyone"} \cup Rest
           r2 == {"look"} \cup r1
           r3 == {"add"} \cup r2
           r4 == Hand \cup r3
<1>1. Size(g, {"put_back"} \cup {"again"}) = Size(g, {"put_back"}) + Size(g, {"again"})
  BY SizeSplit
<1>2. Hand = {"put_back"} \cup {"again"}
  BY DEF Hand
<1>3. Size(g, s1) = Size(g, {"anyone"}) + Size(g, Holder)
  <2>1. {"anyone"} \cap Holder = {}
    BY DEF Holder
  <2> QED BY <2>1, SizeSplit
<1>4. Size(g, s2) = Size(g, {"look"}) + Size(g, s1)
  <2>1. {"look"} \cap s1 = {}
    BY DEF Holder
  <2> QED BY <2>1, SizeSplit
<1>5. Size(g, s3) = Size(g, {"add"}) + Size(g, s2)
  <2>1. {"add"} \cap s2 = {}
    BY DEF Holder
  <2> QED BY <2>1, SizeSplit
<1>6. Size(g, Hand \cup s3) = Size(g, Hand) + Size(g, s3)
  <2>1. Hand \cap s3 = {}
    BY DEF Holder, Hand
  <2> QED BY <2>1, SizeSplit
<1>7. Room = Hand \cup s3
  BY DEF Room, Hand, Holder
<1>8. Size(g, r1) = Size(g, {"anyone"}) + Size(g, Rest)
  <2>1. {"anyone"} \cap Rest = {}
    BY DEF Rest
  <2> QED BY <2>1, SizeSplit
<1>9. Size(g, r2) = Size(g, {"look"}) + Size(g, r1)
  <2>1. {"look"} \cap r1 = {}
    BY DEF Rest
  <2> QED BY <2>1, SizeSplit
<1>10. Size(g, r3) = Size(g, {"add"}) + Size(g, r2)
  <2>1. {"add"} \cap r2 = {}
    BY DEF Rest
  <2> QED BY <2>1, SizeSplit
<1>11. Size(g, r4) = Size(g, Hand) + Size(g, r3)
  <2>1. Hand \cap r3 = {}
    BY DEF Rest, Hand
  <2> QED BY <2>1, SizeSplit
<1>12. Size(g, {"sync"} \cup r4) = Size(g, {"sync"}) + Size(g, r4)
  <2>1. {"sync"} \cap r4 = {}
    BY DEF Rest, Hand
  <2> QED BY <2>1, SizeSplit
<1>13. Locker = {"sync"} \cup r4
  BY DEF Locker, Hand, Rest
<1>14. /\ Size(g, {"sync"}) \in Nat /\ Size(g, {"put_back"}) \in Nat
       /\ Size(g, {"again"}) \in Nat /\ Size(g, {"add"}) \in Nat
       /\ Size(g, {"look"}) \in Nat /\ Size(g, {"anyone"}) \in Nat
       /\ Size(g, Rest) \in Nat /\ Size(g, Holder) \in Nat /\ Size(g, {"cabin"}) \in Nat
  BY GroupFinite
<1>15. Size(g, Hand) = Size(g, {"put_back"}) + Size(g, {"again"})
  BY <1>1, <1>2
<1>16. Size(g, Room) = Size(g, Hand) + Size(g, s3)
  BY <1>6, <1>7
<1>17. Size(g, Locker) = Size(g, {"sync"}) + Size(g, r4)
  BY <1>12, <1>13
<1> HIDE DEF s1, s2, s3, r1, r2, r3, r4
<1>18. /\ Size(g, Room) \in Nat /\ Size(g, Hand) \in Nat /\ Size(g, Locker) \in Nat
       /\ Size(g, s1) \in Nat /\ Size(g, s2) \in Nat /\ Size(g, s3) \in Nat
       /\ Size(g, r1) \in Nat /\ Size(g, r2) \in Nat /\ Size(g, r3) \in Nat
       /\ Size(g, r4) \in Nat
  BY GroupFinite
<1> DEFINE sy == Size(g, {"sync"})
           pb == Size(g, {"put_back"})
           ag == Size(g, {"again"})
           ad == Size(g, {"add"})
           lo == Size(g, {"look"})
           an == Size(g, {"anyone"})
<1> HIDE DEF sy, pb, ag, ad, lo, an
<1>19. /\ sy \in Nat /\ pb \in Nat /\ ag \in Nat /\ ad \in Nat /\ lo \in Nat /\ an \in Nat
       /\ Size(g, Rest) \in Nat /\ Size(g, Holder) \in Nat
  BY <1>14 DEF sy, pb, ag, ad, lo, an
<1>20. /\ Size(g, s1) = an + Size(g, Holder) /\ Size(g, s2) = lo + Size(g, s1)
       /\ Size(g, s3) = ad + Size(g, s2) /\ Size(g, Hand) = pb + ag
  BY <1>3, <1>4, <1>5, <1>15 DEF pb, ag, ad, lo, an
<1>21. /\ Size(g, r1) = an + Size(g, Rest) /\ Size(g, r2) = lo + Size(g, r1)
       /\ Size(g, r3) = ad + Size(g, r2) /\ Size(g, r4) = Size(g, Hand) + Size(g, r3)
       /\ Size(g, Locker) = sy + Size(g, r4)
  BY <1>8, <1>9, <1>10, <1>11, <1>17 DEF sy, ad, lo, an
<1>22. Size(g, Room) = pb + ag + ad + lo + an + Size(g, Holder)
  BY <1>16, <1>18, <1>19, <1>20
<1>23. Size(g, Locker) = sy + pb + ag + ad + lo + an + Size(g, Rest)
  BY <1>18, <1>19, <1>20, <1>21
<1> QED BY <1>14, <1>15, <1>22, <1>23 DEF Sums, sy, pb, ag, ad, lo, an

-----------------------------------------------------------------------------
(***************************************************************************)
(* Every step preserves the invariant                                      *)
(***************************************************************************)

LEMMA ArgTypes == ASSUME argv \in Argvs
                  PROVE  N \in Int /\ M \in Int /\ W \in Int /\ Cabins \in Nat
<1>1. argv \in Seq(Int)
  BY ShowerAssumption
<1>2. N \in Int /\ M \in Int /\ W \in Int
  BY <1>1 DEF N, M, W, Arg
<1> QED BY <1>2 DEF Cabins

LEMMA InitInv == Init => IInv
<1> SUFFICES ASSUME Init PROVE IInv
  OBVIOUS
<1> USE DEF Init
<1>1. TypeOK
  <2>1. lock \in [Gender -> 0 .. 1] /\ sync \in [Gender \cup {"ANYONE"} -> Nat]
    OBVIOUS
  <2>2. cub \in Nat /\ cub <= (IF N > 0 THEN N ELSE 0)
    BY ArgTypes
  <2> QED BY <2>1, <2>2 DEF TypeOK
<1>2. \A g, S : "unborn" \notin S => Size(g, S) = 0
  <2> SUFFICES ASSUME NEW g, NEW S, "unborn" \notin S PROVE Size(g, S) = 0
    OBVIOUS
  <2>1. In(g, S) = {}
    BY DEF In
  <2> QED BY <2>1, FS_EmptySet DEF Size
<1>3. \A g \in Gender : /\ Size(g, Hand) = 0 /\ Size(g, Holder) = 0 /\ Size(g, Locker) = 0
                        /\ Size(g, {"anyone"}) = 0 /\ Size(g, Room) = 0
  BY <1>2 DEF Hand, Holder, Locker, Room
<1>4. "MAN" \in Gender /\ "WOMAN" \in Gender
  BY DEF Gender
<1>5. Account("MAN") /\ Account("WOMAN")
  <2>1. /\ sync["MAN"] = 0 /\ sync["WOMAN"] = 0 /\ lock["MAN"] = 0 /\ lock["WOMAN"] = 0
        /\ main \in Setup
    BY <1>4 DEF Setup
  <2> QED BY <1>3, <1>4, <2>1 DEF Account
<1>6. AnyoneInv /\ Exclusive
  BY <1>3, <1>4 DEF AnyoneInv, Exclusive, Open
<1>7. Cabins \in Nat
  BY ArgTypes DEF Cabins
<1>8. Cubs /\ MainInv
  BY <1>7 DEF Cubs, MainInv, Setup
<1> QED BY <1>1, <1>5, <1>6, <1>8 DEF IInv

\* Each row keeps the accounts of tokens, locks and cabins.
Keeps(from, to, ds, dl, dc) ==
  /\ ds + Change(Hand, from, to) = Change(Holder, from, to)
  /\ dl + Change(Locker, from, to) = 0
  /\ dc + Change({"cabin"}, from, to) = 0

\* Who comes into the room, who leaves it, and who moves inside or outside it.
Into(from, to, ds, da) ==
  /\ Change(Room, from, to) = 1 /\ Change({"anyone"}, from, to) = 0
  /\ from = "sync"
  /\ (to = "put_back" /\ ds = -1 /\ da = 0) \/ (to = "add" /\ da = -1)
Last(from, to, da) ==
  /\ Change(Room, from, to) = 0 /\ Change({"anyone"}, from, to) = 1
  /\ from = "look" /\ to = "anyone" /\ da = 0
Out(from, to, da) ==
  /\ Change(Room, from, to) = -1
  /\ \/ from = "again" /\ da = 0 /\ Change({"anyone"}, from, to) = 0
     \/ from = "anyone" /\ da = 1 /\ Change({"anyone"}, from, to) = -1
Within(from, to, da) ==
  /\ Change(Room, from, to) = 0 /\ Change({"anyone"}, from, to) = 0 /\ da = 0

LEMMA RowEffect ==
  ASSUME NEW from, NEW to, NEW ds, NEW da, NEW dl, NEW dc, Row(from, to, ds, da, dl, dc)
  PROVE  /\ Keeps(from, to, ds, dl, dc)
         /\ \/ Into(from, to, ds, da) \/ Last(from, to, da) \/ Out(from, to, da)
            \/ Within(from, to, da)
<1> USE DEF Change, Hand, Holder, Locker, Room, Keeps, Into, Last, Out, Within
<1>1. CASE from = "enter" /\ to = "sync" /\ ds = 0 /\ da = 0 /\ dl = -1 /\ dc = 0
  BY <1>1
<1>2. CASE from = "sync" /\ to = "put_back" /\ ds = -1 /\ da = 0 /\ dl = 0 /\ dc = 0
  <2>1. ds + Change(Hand, from, to) = Change(Holder, from, to)
    BY <1>2
  <2>2. dl + Change(Locker, from, to) = 0
    BY <1>2
  <2>3. dc + Change({"cabin"}, from, to) = 0
    BY <1>2
  <2>4. Into(from, to, ds, da)
    BY <1>2
  <2> QED BY <2>1, <2>2, <2>3, <2>4 DEF Keeps
<1>3. CASE from = "sync" /\ to = "add" /\ ds = 0 /\ da = -1 /\ dl = 0 /\ dc = 0
  BY <1>3
<1>4. CASE from = "put_back" /\ to = "add" /\ ds = 1 /\ da = 0 /\ dl = 0 /\ dc = 0
  <2>1. ds + Change(Hand, from, to) = Change(Holder, from, to)
    BY <1>4
  <2>2. dl + Change(Locker, from, to) = 0
    BY <1>4
  <2>3. dc + Change({"cabin"}, from, to) = 0
    BY <1>4
  <2>4. Within(from, to, da)
    BY <1>4
  <2> QED BY <2>1, <2>2, <2>3, <2>4 DEF Keeps
<1>5. CASE from = "add" /\ to = "unlock" /\ ds = 1 /\ da = 0 /\ dl = 0 /\ dc = 0
  BY <1>5
<1>6. CASE from = "unlock" /\ to = "proceed" /\ ds = 0 /\ da = 0 /\ dl = 1 /\ dc = 0
  BY <1>6
<1>7. CASE from = "proceed" /\ to = "cabin" /\ ds = 0 /\ da = 0 /\ dl = 0 /\ dc = -1
  BY <1>7
<1>8. CASE from = "cabin" /\ to = "leave" /\ ds = 0 /\ da = 0 /\ dl = 0 /\ dc = 1
  BY <1>8
<1>9. CASE from = "leave" /\ to = "take" /\ ds = 0 /\ da = 0 /\ dl = -1 /\ dc = 0
  BY <1>9
<1>10. CASE from = "take" /\ to = "look" /\ ds = -1 /\ da = 0 /\ dl = 0 /\ dc = 0
  BY <1>10
<1>11. CASE from = "look" /\ to = "again" /\ ds = -1 /\ da = 0 /\ dl = 0 /\ dc = 0
  BY <1>11
<1>12. CASE from = "look" /\ to = "anyone" /\ ds = 0 /\ da = 0 /\ dl = 0 /\ dc = 0
  BY <1>12
<1>13. CASE from = "again" /\ to = "leave_unlock" /\ ds = 1 /\ da = 0 /\ dl = 0 /\ dc = 0
  <2>1. ds + Change(Hand, from, to) = Change(Holder, from, to)
    BY <1>13
  <2>2. dl + Change(Locker, from, to) = 0
    BY <1>13
  <2>3. dc + Change({"cabin"}, from, to) = 0
    BY <1>13
  <2>4. Out(from, to, da)
    BY <1>13
  <2> QED BY <2>1, <2>2, <2>3, <2>4 DEF Keeps
<1>14. CASE from = "anyone" /\ to = "leave_unlock" /\ ds = 0 /\ da = 1 /\ dl = 0 /\ dc = 0
  <2>1. ds + Change(Hand, from, to) = Change(Holder, from, to)
    BY <1>14
  <2>2. dl + Change(Locker, from, to) = 0
    BY <1>14
  <2>3. dc + Change({"cabin"}, from, to) = 0
    BY <1>14
  <2>4. Out(from, to, da)
    BY <1>14
  <2> QED BY <2>1, <2>2, <2>3, <2>4 DEF Keeps
<1>15. CASE from = "leave_unlock" /\ to = "exited" /\ ds = 0 /\ da = 0 /\ dl = 1 /\ dc = 0
  <2>1. ds + Change(Hand, from, to) = Change(Holder, from, to)
    BY <1>15
  <2>2. dl + Change(Locker, from, to) = 0
    BY <1>15
  <2>3. dc + Change({"cabin"}, from, to) = 0
    BY <1>15
  <2>4. Within(from, to, da)
    BY <1>15
  <2> QED BY <2>1, <2>2, <2>3, <2>4 DEF Keeps
<1> HIDE DEF Change, Hand, Holder, Locker, Room, Keeps, Into, Last, Out, Within
<1> QED
  BY <1>1, <1>2, <1>3, <1>4, <1>5, <1>6, <1>7, <1>8, <1>9, <1>10, <1>11, <1>12, <1>13,
     <1>14, <1>15
  DEF Row

\* A step of a human, in the sizes of the groups of the human's gender.
LEMMA HumanStep == ASSUME IInv, NEW h \in Human, HumanNext(h) PROVE IInv'
<1> USE DEF IInv
<1>1. PICK from, to \in Places, ds, da, dl, dc \in {-1, 0, 1} :
         Moved(h, from, to, ds, da, dl, dc)
  BY HumanMoves
<1>2. PICK g \in Gender, o \in Gender :
         /\ g = gender(h) /\ o = Other(g) /\ g # o
         /\ (g = "MAN" /\ o = "WOMAN") \/ (g = "WOMAN" /\ o = "MAN")
  BY DEF gender, Gender, Other
<1>3. /\ Jump(h, from, to) /\ Row(from, to, ds, da, dl, dc) /\ Effect(g, ds, da, dl, dc)
      /\ UNCHANGED <<main, i, reaped>> /\ argv' = argv
      /\ to = "anyone" => sync[g] = 0
  BY <1>1, <1>2 DEF Moved, Jump
<1>4. from # "unborn" /\ to # "unborn"
  BY <1>3 DEF Row
<1>5. human \in [Human -> Places]
  BY DEF TypeOK, Places
<1>6. main \notin Setup
  BY <1>3, <1>4 DEF MainInv, Jump
<1>7. N' = N /\ M' = M /\ W' = W /\ Cabins' = Cabins /\ \A x : gender(x)' = gender(x)
  BY <1>3, GenderKept
<1>8. \A S : /\ Size(g, S)' = Size(g, S) + Change(S, from, to)
             /\ Size(o, S)' = Size(o, S)
             /\ Size(g, S) \in Nat /\ Size(o, S) \in Nat
  <2> SUFFICES ASSUME NEW S
               PROVE  /\ Size(g, S)' = Size(g, S) + Change(S, from, to)
                      /\ Size(o, S)' = Size(o, S)
                      /\ Size(g, S) \in Nat /\ Size(o, S) \in Nat
    OBVIOUS
  <2>1. Size("MAN", S)' = IF gender(h) = "MAN" THEN Size("MAN", S) + Change(S, from, to)
                          ELSE Size("MAN", S)
    BY <1>3, <1>5, GroupMove
  <2>2. Size("WOMAN", S)' = IF gender(h) = "WOMAN" THEN Size("WOMAN", S) + Change(S, from, to)
                            ELSE Size("WOMAN", S)
    BY <1>3, <1>5, GroupMove
  <2>3. Size("MAN", S) \in Nat /\ Size("WOMAN", S) \in Nat
    BY GroupFinite
  <2> QED BY <1>2, <2>1, <2>2, <2>3
<1>9. Size(g, {from}) >= 1
  <2>1. h \in In(g, {from})
    BY <1>2, <1>3 DEF In, Jump
  <2> QED BY <2>1, GroupMember
<1>10. /\ sync[g] \in Nat /\ sync[o] \in Nat /\ lock[g] \in Nat /\ lock[o] \in Nat
       /\ sync["ANYONE"] \in Nat /\ cub \in Nat
       /\ sync'[g] \in Nat /\ sync'["ANYONE"] \in Nat /\ lock'[g] \in Nat /\ cub' \in Nat
  <2>1. sync'[g] \in Nat /\ sync'["ANYONE"] \in Nat /\ lock'[g] \in Nat /\ cub' \in Nat
    BY <1>2, <1>3 DEF Effect
  <2> QED BY <1>2, <2>1, QueueTypes
<1>11. /\ sync'[g] = sync[g] + ds /\ sync'[o] = sync[o]
       /\ sync'["ANYONE"] = sync["ANYONE"] + da
       /\ lock'[g] = lock[g] + dl /\ lock'[o] = lock[o] /\ cub' = cub + dc
  BY <1>2, <1>3 DEF Effect
<1>12. /\ Account(g) /\ Account(o)
       /\ Size(g, Room) = 0 \/ Size(o, Room) = 0
       /\ sync["ANYONE"] = IF Open /\ Size(g, Room) = 0 /\ Size(o, Room) = 0 THEN 1 ELSE 0
       /\ ~Open => Size(g, Room) = 0 /\ Size(o, Room) = 0
  BY <1>2 DEF Exclusive, AnyoneInv
<1>13. Open' = Open
  BY <1>3 DEF Open
<1>14. /\ Into(from, to, ds, da) \/ Last(from, to, da) \/ Out(from, to, da)
          \/ Within(from, to, da)
       /\ Keeps(from, to, ds, dl, dc)
  BY <1>3, RowEffect
<1>15. /\ ds + Change(Hand, from, to) = Change(Holder, from, to)
       /\ dl + Change(Locker, from, to) = 0
       /\ dc + Change({"cabin"}, from, to) = 0
  BY <1>14 DEF Keeps
<1>16. \A S : Change(S, from, to) \in {-1, 0, 1}
  BY DEF Change
<1>17. /\ sync[g] + Size(g, Hand) = Size(g, Holder)
       /\ lock[g] + Size(g, Locker) = 1
       /\ Size(g, {"anyone"}) > 0 => Size(g, Room) = 1
  BY <1>6, <1>12 DEF Account
<1>18. sync'[g] + Size(g, Hand)' = Size(g, Holder)' /\ lock'[g] + Size(g, Locker)' = 1
  <2>1. /\ Size(g, Hand)' = Size(g, Hand) + Change(Hand, from, to)
        /\ Size(g, Holder)' = Size(g, Holder) + Change(Holder, from, to)
        /\ Size(g, Locker)' = Size(g, Locker) + Change(Locker, from, to)
        /\ Size(g, Hand) \in Nat /\ Size(g, Holder) \in Nat /\ Size(g, Locker) \in Nat
    BY <1>8
  <2>2. /\ Change(Hand, from, to) \in {-1, 0, 1} /\ Change(Holder, from, to) \in {-1, 0, 1}
        /\ Change(Locker, from, to) \in {-1, 0, 1}
    BY <1>16
  <2> DEFINE hs == Size(g, Hand)
             os == Size(g, Holder)
             ch == Change(Hand, from, to)
             co == Change(Holder, from, to)
  <2>3. sync'[g] + Size(g, Hand)' = Size(g, Holder)'
    <3>1. /\ hs \in Nat /\ os \in Nat /\ ch \in {-1, 0, 1} /\ co \in {-1, 0, 1}
          /\ ds + ch = co /\ sync[g] + hs = os
          /\ Size(g, Hand)' = hs + ch /\ Size(g, Holder)' = os + co
      BY <1>15, <1>17, <2>1, <2>2
    <3> HIDE DEF hs, os, ch, co
    <3> QED BY <1>10, <1>11, <3>1
  <2>4. lock'[g] + Size(g, Locker)' = 1
    BY <1>10, <1>11, <1>15, <1>17, <2>1, <2>2
  <2> QED BY <2>3, <2>4
<1>19. Account(o)'
  <2>1. /\ Size(o, Hand)' = Size(o, Hand) /\ Size(o, Holder)' = Size(o, Holder)
        /\ Size(o, Locker)' = Size(o, Locker) /\ Size(o, Room)' = Size(o, Room)
        /\ Size(o, {"anyone"})' = Size(o, {"anyone"})
    BY <1>8
  <2> QED BY <1>3, <1>11, <1>12, <2>1 DEF Account
<1>20. /\ Size(g, Room)' = Size(g, Room) + Change(Room, from, to)
       /\ Size(g, {"anyone"})' = Size(g, {"anyone"}) + Change({"anyone"}, from, to)
       /\ Size(o, Room)' = Size(o, Room)
       /\ Size(g, Room) \in Nat /\ Size(o, Room) \in Nat /\ Size(g, {"anyone"}) \in Nat
       /\ Size(g, Locker) \in Nat /\ Size(g, Hand) \in Nat /\ Size(g, Holder) \in Nat
  BY <1>8
\* What remains: who is in the room.
<1> DEFINE sa == sync["ANYONE"]
           rm == Size(g, Room)
           ro == Size(o, Room)
           pb == Size(g, {"put_back"})
           ag == Size(g, {"again"})
           ad == Size(g, {"add"})
           lo == Size(g, {"look"})
           an == Size(g, {"anyone"})
           sy == Size(g, {"sync"})
           re == Size(g, Rest)
           hd == Size(g, Holder)
<1>a. /\ sync[g] + pb + ag = hd
      /\ lock[g] + (sy + pb + ag + ad + lo + an + re) = 1
      /\ rm = pb + ag + ad + lo + an + hd
      /\ pb \in Nat /\ ag \in Nat /\ ad \in Nat /\ lo \in Nat /\ an \in Nat
      /\ sy \in Nat /\ re \in Nat /\ hd \in Nat /\ rm \in Nat /\ ro \in Nat /\ sa \in Nat
  <2>1. Sums(g)
    BY GroupSums
  <2>2. /\ Size(g, Hand) = pb + ag
        /\ Size(g, Locker) = sy + pb + ag + ad + lo + an + re
        /\ rm = pb + ag + ad + lo + an + hd
        /\ pb \in Nat /\ ag \in Nat /\ ad \in Nat /\ lo \in Nat /\ an \in Nat
        /\ sy \in Nat /\ re \in Nat /\ hd \in Nat
    BY <2>1 DEF Sums
  <2>3. rm \in Nat /\ ro \in Nat /\ sa \in Nat
    BY <1>10, <1>20
  <2>4. sync[g] + Size(g, Hand) = hd /\ lock[g] + Size(g, Locker) = 1
    BY <1>17
  <2> HIDE DEF sa, rm, ro, pb, ag, ad, lo, an, sy, re, hd
  <2> QED BY <1>10, <2>2, <2>3, <2>4
<1>b. /\ an > 0 => rm = 1
      /\ rm = 0 \/ ro = 0
      /\ sa = IF Open /\ rm = 0 /\ ro = 0 THEN 1 ELSE 0
      /\ ~Open => rm = 0 /\ ro = 0
  BY <1>12, <1>17
<1>c. /\ from = "sync" => sy >= 1
      /\ from = "look" => lo >= 1
      /\ from = "again" => ag >= 1
      /\ from = "anyone" => an >= 1
  BY <1>9
<1> DEFINE rmNext == rm + Change(Room, from, to)
           anNext == an + Change({"anyone"}, from, to)
           saNext == sa + da
<1>d. /\ Size(g, Room)' = rmNext /\ Size(g, {"anyone"})' = anNext /\ Size(o, Room)' = ro
      /\ sync'["ANYONE"] = saNext
  BY <1>11, <1>20
<1> HIDE DEF sa, rm, ro, pb, ag, ad, lo, an, sy, re, hd
<1>21. /\ anNext > 0 => rmNext = 1
       /\ rmNext = 0 \/ ro = 0
       /\ saNext = IF Open /\ rmNext = 0 /\ ro = 0 THEN 1 ELSE 0
       /\ ~Open => rmNext = 0 /\ ro = 0
  <2>1. CASE Into(from, to, ds, da)
    <3>0. /\ Change(Room, from, to) = 1 /\ Change({"anyone"}, from, to) = 0
          /\ from = "sync"
      BY <2>1 DEF Into
    <3>1. sy >= 1 /\ rmNext = rm + 1 /\ anNext = an
      BY <1>a, <1>c, <3>0
    <3>2. an = 0
      BY <1>10, <1>a, <3>1
    <3>3. CASE ds = -1 /\ da = 0
      <4>1. rm >= 1
        BY <1>10, <1>11, <1>a, <3>3
      <4> QED BY <1>a, <1>b, <3>1, <3>2, <3>3, <4>1
    <3>4. CASE da = -1
      <4>1. sa >= 1
        BY <1>10, <1>11, <3>4 DEF sa
      <4> QED BY <1>a, <1>b, <3>1, <3>2, <3>4, <4>1
    <3> QED BY <2>1, <3>3, <3>4 DEF Into
  <2>2. CASE Last(from, to, da)
    <3>1. lo >= 1 /\ sync[g] = 0 /\ da = 0 /\ rmNext = rm /\ anNext = an + 1
      BY <1>3, <1>a, <1>c, <2>2 DEF Last
    <3>2. rm = 1
      BY <1>10, <1>a, <3>1
    <3>3. an = 0
      BY <1>10, <1>a, <3>1
    <3> QED BY <1>a, <1>b, <3>1, <3>2, <3>3
  <2>3. CASE Out(from, to, da) /\ from = "again"
    <3>1. ag >= 1 /\ da = 0 /\ rmNext = rm - 1 /\ anNext = an
      BY <1>a, <1>c, <2>3 DEF Out
    <3>2. rm >= 2 /\ an = 0
      BY <1>10, <1>a, <3>1
    <3> QED BY <1>a, <1>b, <3>1, <3>2
  <2>4. CASE Out(from, to, da) /\ from = "anyone"
    <3>1. an >= 1 /\ da = 1 /\ rmNext = rm - 1 /\ anNext = an - 1
      BY <1>a, <1>c, <2>4 DEF Out
    <3>2. rm = 1 /\ an = 1
      BY <1>10, <1>a, <1>b, <3>1
    <3> QED BY <1>a, <1>b, <3>1, <3>2
  <2>5. CASE Within(from, to, da)
    <3>1. da = 0 /\ rmNext = rm /\ anNext = an /\ saNext = sa
      BY <1>a, <2>5 DEF Within
    <3> QED BY <1>a, <1>b, <3>1
  <2> QED BY <1>14, <2>1, <2>2, <2>3, <2>4, <2>5 DEF Out
<1>22. Account(g)'
  <2>1. Size(g, {"anyone"})' > 0 => Size(g, Room)' = 1
    BY <1>21, <1>d
  <2> QED BY <1>3, <1>6, <1>18, <2>1 DEF Account
<1>23. AnyoneInv' /\ Exclusive'
  <2>1. /\ Size(g, Room)' = 0 \/ Size(o, Room)' = 0
        /\ sync'["ANYONE"] = IF Open' /\ Size(g, Room)' = 0 /\ Size(o, Room)' = 0
                             THEN 1 ELSE 0
        /\ ~Open' => Size(g, Room)' = 0 /\ Size(o, Room)' = 0
    BY <1>13, <1>21, <1>d
  <2> QED BY <1>2, <2>1 DEF AnyoneInv, Exclusive
<1>24. Account("MAN")' /\ Account("WOMAN")'
  BY <1>2, <1>19, <1>22
<1>25. Cubs'
  <2>1. cub' + Size("MAN", {"cabin"})' + Size("WOMAN", {"cabin"})' = Cabins'
    <3>1. /\ Size(g, {"cabin"})' = Size(g, {"cabin"}) + Change({"cabin"}, from, to)
          /\ Size(o, {"cabin"})' = Size(o, {"cabin"})
          /\ Size(g, {"cabin"}) \in Nat /\ Size(o, {"cabin"}) \in Nat
          /\ Change({"cabin"}, from, to) \in {-1, 0, 1}
      BY <1>8, <1>16
    <3>2. cub + Size(g, {"cabin"}) + Size(o, {"cabin"}) = Cabins
      <4>1. cub + Size("MAN", {"cabin"}) + Size("WOMAN", {"cabin"}) = Cabins
        BY <1>6 DEF Cubs
      <4> QED BY <1>2, <1>10, <3>1, <4>1
    <3>3. cub' + Size(g, {"cabin"})' + Size(o, {"cabin"})' = Cabins'
      BY <1>7, <1>10, <1>11, <1>15, <3>1, <3>2
    <3> QED BY <1>2, <1>10, <3>1, <3>3
  <2>2. Size("MAN", {"cabin"})' \in Nat /\ Size("WOMAN", {"cabin"})' \in Nat
    BY GroupFiniteNext
  <2> QED BY <1>3, <1>6, <1>10, <2>1, <2>2 DEF Cubs, Setup
<1>26. MainInv'
  <2>1. human' = [human EXCEPT ![h] = to] /\ human[h] # "unborn"
    BY <1>3, <1>4 DEF Jump
  <2>2. Len(argv') = Len(argv) /\ M' = M /\ W' = W
    BY <1>3, <1>7
  <2> QED BY <1>3, <1>5, <1>6, <2>1, <2>2 DEF MainInv, Setup
<1>27. TypeOK'
  <2>1. human' \in [Human -> Places]
    BY <1>3, <1>5 DEF Jump
  <2>2. lock' \in [Gender -> 0 .. 1]
    <3>1. lock'["MAN"] \in Nat /\ lock'["WOMAN"] \in Nat
      BY <1>3 DEF Effect, Gender
    <3>2. lock'["MAN"] <= 1 /\ lock'["WOMAN"] <= 1
      <4>1. /\ lock'["MAN"] + Size("MAN", Locker)' = 1
            /\ lock'["WOMAN"] + Size("WOMAN", Locker)' = 1
        BY <1>3, <1>6, <1>24 DEF Account
      <4>2. Size("MAN", Locker)' \in Nat /\ Size("WOMAN", Locker)' \in Nat
        BY GroupFiniteNext
      <4> QED BY <3>1, <4>1, <4>2
    <3> QED BY <1>3, <3>1, <3>2 DEF Effect, Gender
  <2>3. cub' <= (IF N' > 0 THEN N' ELSE 0)
    BY <1>25 DEF Cubs, Cabins
  <2> QED BY <1>3, <1>10, <2>1, <2>2, <2>3 DEF TypeOK, Places, Effect
<1> QED BY <1>23, <1>24, <1>25, <1>26, <1>27

LEMMA SizesKept ==
  ASSUME human' = human, argv' = argv
  PROVE  \A g, S : Size(g, S)' = Size(g, S)
<1>1. \A x : gender(x)' = gender(x)
  BY GenderKept
<1>2. \A g, S : In(g, S)' = In(g, S)
  BY <1>1 DEF In
<1> QED BY <1>2 DEF Size

\* The sizes the invariant speaks of, of one gender.
Sizes(g) == <<Size(g, Hand), Size(g, Holder), Size(g, Locker), Size(g, Room),
              Size(g, {"anyone"}), Size(g, {"cabin"})>>

\* A step of main that sends nothing and moves nobody into or out of a group.
LEMMA QuietStep ==
  ASSUME IInv, UNCHANGED <<argv, queues>>,
         UNCHANGED Sizes("MAN"), UNCHANGED Sizes("WOMAN"),
         (main \in Setup) <=> (main' \in Setup), Open' <=> Open
  PROVE  /\ Account("MAN")' /\ Account("WOMAN")' /\ AnyoneInv' /\ Cubs' /\ Exclusive'
<1>1. Cabins' = Cabins /\ UNCHANGED <<sync, cub, lock>>
  BY GenderKept DEF queues
<1>2. Account("MAN")' /\ Account("WOMAN")'
  BY <1>1 DEF IInv, Account, Sizes
<1>3. AnyoneInv'
  BY <1>1 DEF IInv, AnyoneInv, Sizes
<1>4. Cubs'
  BY <1>1 DEF IInv, Cubs, Sizes
<1>5. Exclusive'
  BY DEF IInv, Exclusive, Sizes
<1> QED BY <1>2, <1>3, <1>4, <1>5

\* A step of main, with one case for each of its actions.
LEMMA MainStep == ASSUME IInv, MainNext PROVE IInv'
<1>1. /\ TypeOK /\ MainInv /\ Account("MAN") /\ Account("WOMAN") /\ AnyoneInv
      /\ Cubs /\ Exclusive
  BY DEF IInv
<1>2. argv' = argv /\ argv \in Argvs
  BY <1>1 DEF MainNext, CheckArgc, SendCub, SendLocks, Fork, SendAnyone, Wait, Remove,
              MainGo, TypeOK
<1>3. /\ N' = N /\ M' = M /\ W' = W /\ Cabins' = Cabins
      /\ N \in Int /\ M \in Int /\ W \in Int /\ Cabins \in Nat
  BY <1>2, GenderKept, ArgTypes
<1>4. ASSUME human' = human
      PROVE  UNCHANGED Sizes("MAN") /\ UNCHANGED Sizes("WOMAN")
  <2>1. \A g, S : Size(g, S)' = Size(g, S)
    BY <1>2, <1>4, SizesKept
  <2> QED BY <2>1 DEF Sizes, Hand, Holder, Locker, Room
<1>5. \A h \in Human : h \in Int
  BY ShowerAssumption DEF Human
<1>6. CASE CheckArgc
  <2>1. /\ main = "args" /\ UNCHANGED <<i, human, queues, reaped>>
        /\ (main' = "cubs" /\ Len(argv) = 3) \/ main' = "usage"
    BY <1>6 DEF CheckArgc, MainGo
  <2>2. TypeOK'
    BY <1>1, <1>2, <1>3, <2>1 DEF TypeOK, queues
  <2>3. MainInv'
    BY <1>1, <1>2, <1>3, <2>1 DEF MainInv, queues, Setup
  <2>4. (main \in Setup) <=> (main' \in Setup)
    BY <2>1 DEF Setup
  <2>5. Open' <=> Open
    BY <2>1 DEF Open
  <2> QED BY <1>2, <1>4, <2>1, <2>2, <2>3, <2>4, <2>5, QuietStep DEF IInv
<1>7. CASE SendCub
  <2>1. /\ main = "cubs" /\ main' = "cubs" /\ i < N /\ cub' = cub + 1 /\ i' = i + 1
        /\ UNCHANGED <<human, sync, lock, reaped>>
    BY <1>7 DEF SendCub, MainGo
  <2>2. i = cub /\ cub \in Nat
    BY <1>1, <2>1 DEF MainInv, TypeOK, Setup
  <2>3. cub' \in Nat /\ cub' <= Cabins'
    BY <1>3, <2>1, <2>2 DEF Cabins
  <2>4. TypeOK'
    BY <1>1, <1>2, <1>3, <2>1, <2>2, <2>3 DEF TypeOK, Cabins
  <2>5. MainInv'
    BY <1>1, <1>2, <1>3, <2>1, <2>2 DEF MainInv, Setup
  <2>6. UNCHANGED Sizes("MAN") /\ UNCHANGED Sizes("WOMAN")
    BY <1>4, <2>1
  <2>7. Account("MAN")' /\ Account("WOMAN")'
    BY <1>1, <2>1, <2>6 DEF Account, Sizes, Setup
  <2>8. AnyoneInv' /\ Exclusive'
    BY <1>1, <2>1, <2>6 DEF AnyoneInv, Exclusive, Sizes, Open
  <2>9. Cubs'
    BY <2>1, <2>3 DEF Cubs, Setup
  <2> QED BY <2>4, <2>5, <2>7, <2>8, <2>9 DEF IInv
<1>8. CASE SendLocks
  <2>1. /\ main = "cubs" /\ main' = "fork" /\ i >= N /\ lock' = [g \in Gender |-> 1] /\ i' = 0
        /\ UNCHANGED <<human, sync, cub, reaped>>
    BY <1>8 DEF SendLocks, MainGo
  <2>2. /\ i = cub /\ cub \in Nat /\ cub <= Cabins /\ human = [h \in Human |-> "unborn"]
        /\ Len(argv) = 3
    BY <1>1, <2>1 DEF MainInv, TypeOK, Setup, Cubs
  <2>3. cub = Cabins
    BY <1>3, <2>1, <2>2 DEF Cabins
  <2>4. TypeOK'
    <3>1. lock' \in [Gender -> 0 .. 1]
      BY <2>1
    <3>2. i' \in Nat
      BY <2>1
    <3> QED BY <1>1, <1>2, <1>3, <2>1, <3>1, <3>2 DEF TypeOK
  <2>5. MainInv'
    BY <1>1, <1>2, <1>3, <2>1, <2>2 DEF MainInv, Setup
  <2>6. UNCHANGED Sizes("MAN") /\ UNCHANGED Sizes("WOMAN")
    BY <1>4, <2>1
  <2>7. \A g, S : "unborn" \notin S => Size(g, S) = 0
    <3> SUFFICES ASSUME NEW g, NEW S, "unborn" \notin S PROVE Size(g, S) = 0
      OBVIOUS
    <3>1. In(g, S) = {}
      BY <2>2 DEF In
    <3> QED BY <3>1, NobodyGroup
  <2>8. Size("MAN", Locker) = 0 /\ Size("WOMAN", Locker) = 0
    BY <2>7 DEF Locker
  <2>9. Size("MAN", {"cabin"}) = 0 /\ Size("WOMAN", {"cabin"}) = 0
    BY <2>7
  <2>10. Account("MAN")' /\ Account("WOMAN")'
    <3>1. lock'["MAN"] = 1 /\ lock'["WOMAN"] = 1
      BY <2>1 DEF Gender
    <3>2. main' \notin Setup
      BY <2>1 DEF Setup
    <3> QED BY <1>1, <2>1, <2>6, <2>8, <3>1, <3>2 DEF Account, Sizes
  <2>11. AnyoneInv' /\ Exclusive'
    BY <1>1, <2>1, <2>6 DEF AnyoneInv, Exclusive, Sizes, Open
  <2>12. Cubs'
    <3>1. Size("MAN", {"cabin"})' = 0 /\ Size("WOMAN", {"cabin"})' = 0
      BY <2>6, <2>9 DEF Sizes
    <3> QED BY <1>3, <2>1, <2>2, <2>3, <3>1 DEF Cubs
  <2> QED BY <2>4, <2>5, <2>10, <2>11, <2>12 DEF IInv
<1>9. CASE Fork
  <2>1. PICK start \in {"enter", "unborn"} :
           /\ main = "fork" /\ main' = "fork" /\ i < M + W
           /\ human' = [human EXCEPT ![i] = start] /\ i' = i + 1
           /\ UNCHANGED <<queues, reaped>>
    BY <1>9 DEF Fork, MainGo
  <2>2. Len(argv) = 3 /\ i \in Nat /\ human \in [Human -> Places]
    BY <1>1, <2>1 DEF MainInv, TypeOK, Places
  <2>3. i \in Human
    <3>1. M + W <= MaxHumans
      <4>1. argv[2] + argv[3] <= MaxHumans
        BY <1>2, <2>2, ShowerAssumption
      <4> QED BY <2>2, <4>1 DEF M, W, Arg
    <3> QED BY <1>3, <2>1, <2>2, <3>1, ShowerAssumption DEF Human
  <2>4. human[i] = "unborn"
    BY <1>1, <2>1, <2>2, <2>3 DEF MainInv
  <2>5. \A S : "unborn" \notin S /\ "enter" \notin S
                => Size("MAN", S)' = Size("MAN", S) /\ Size("WOMAN", S)' = Size("WOMAN", S)
    <3> SUFFICES ASSUME NEW S, "unborn" \notin S, "enter" \notin S
                 PROVE  Size("MAN", S)' = Size("MAN", S) /\ Size("WOMAN", S)' = Size("WOMAN", S)
      OBVIOUS
    <3>1. Jump(i, "unborn", start)
      BY <1>2, <2>1, <2>4 DEF Jump
    <3>2. Change(S, "unborn", start) = 0
      BY DEF Change
    <3>3. Size("MAN", S) \in Nat /\ Size("WOMAN", S) \in Nat
      BY GroupFinite
    <3>4. Size("MAN", S)' = IF gender(i) = "MAN" THEN Size("MAN", S) + Change(S, "unborn", start)
                            ELSE Size("MAN", S)
      BY <2>2, <2>3, <3>1, GroupMove
    <3>5. Size("WOMAN", S)' = IF gender(i) = "WOMAN"
                              THEN Size("WOMAN", S) + Change(S, "unborn", start)
                              ELSE Size("WOMAN", S)
      BY <2>2, <2>3, <3>1, GroupMove
    <3> QED BY <3>2, <3>3, <3>4, <3>5
  <2>6. UNCHANGED Sizes("MAN") /\ UNCHANGED Sizes("WOMAN")
    BY <2>5 DEF Sizes, Hand, Holder, Locker, Room
  <2>7. TypeOK'
    <3>1. human' \in [Human -> Places]
      BY <2>1, <2>2 DEF Places
    <3> QED BY <1>1, <1>2, <1>3, <2>1, <2>2, <3>1 DEF TypeOK, Places, queues
  <2>8. MainInv'
    <3>1. \A h \in Human : h >= M + W => human'[h] = "unborn"
      BY <1>1, <1>3, <1>5, <2>1, <2>2 DEF MainInv
    <3>2. \A h \in Human : h >= i + 1 => human'[h] = "unborn"
      BY <1>1, <1>5, <2>1, <2>2 DEF MainInv
    <3> QED BY <1>1, <1>2, <1>3, <2>1, <2>2, <3>1, <3>2 DEF MainInv, Setup
  <2>9. (main \in Setup) <=> (main' \in Setup)
    BY <2>1
  <2>10. Open' <=> Open
    BY <2>1 DEF Open
  <2> QED BY <1>2, <2>1, <2>6, <2>7, <2>8, <2>9, <2>10, QuietStep DEF IInv
<1>10. CASE SendAnyone
  <2>1. /\ main = "fork" /\ main' = "wait" /\ i >= M + W /\ SyncSend("ANYONE") /\ i' = 0
        /\ UNCHANGED <<human, cub, lock, reaped>>
    BY <1>10 DEF SendAnyone, MainGo
  <2>2. /\ sync' \in [Gender \cup {"ANYONE"} -> Nat]
        /\ sync'["MAN"] = sync["MAN"] /\ sync'["WOMAN"] = sync["WOMAN"]
        /\ sync'["ANYONE"] = sync["ANYONE"] + 1
    <3>1. Effect("MAN", 0, 1, 0, 0)
      BY <1>1, <2>1, SyncGiven DEF Gender
    <3>2. Other("MAN") = "WOMAN"
      BY DEF Other
    <3>3. sync["MAN"] \in Nat
      BY <1>1, QueueTypes DEF Gender
    <3> QED BY <3>1, <3>2, <3>3 DEF Effect
  <2>3. UNCHANGED Sizes("MAN") /\ UNCHANGED Sizes("WOMAN")
    BY <1>4, <2>1
  <2>4. main \notin Setup /\ main' \notin Setup /\ ~Open /\ Open'
    BY <2>1 DEF Setup, Open
  <2>5. TypeOK'
    BY <1>1, <1>2, <1>3, <2>1, <2>2 DEF TypeOK
  <2>6. MainInv'
    BY <1>1, <1>2, <1>3, <2>1, <2>4 DEF MainInv
  <2>7. Account("MAN")' /\ Account("WOMAN")'
    BY <1>1, <2>1, <2>2, <2>3, <2>4 DEF Account, Sizes
  <2>8. AnyoneInv' /\ Exclusive'
    BY <1>1, <2>2, <2>3, <2>4 DEF AnyoneInv, Exclusive, Sizes
  <2>9. Cubs'
    BY <1>1, <1>3, <2>1, <2>3, <2>4 DEF Cubs, Sizes
  <2> QED BY <2>5, <2>6, <2>7, <2>8, <2>9 DEF IInv
<1>11. CASE Wait
  <2>1. /\ main = "wait" /\ main' = "wait" /\ i' = i + 1 /\ UNCHANGED <<human, queues>>
        /\ reaped' \subseteq reaped \cup Human
    BY <1>11 DEF Wait, MainGo, Exited
  <2>2. TypeOK'
    BY <1>1, <1>2, <1>3, <2>1 DEF TypeOK, queues
  <2>3. MainInv'
    BY <1>1, <1>2, <1>3, <2>1 DEF MainInv, Setup
  <2>4. (main \in Setup) <=> (main' \in Setup)
    BY <2>1
  <2>5. Open' <=> Open
    BY <2>1 DEF Open
  <2> QED BY <1>2, <1>4, <2>1, <2>2, <2>3, <2>4, <2>5, QuietStep DEF IInv
<1>12. CASE Remove
  <2>1. main = "wait" /\ main' = "removed" /\ UNCHANGED <<i, human, queues, reaped>>
    BY <1>12 DEF Remove, MainGo
  <2>2. TypeOK'
    BY <1>1, <1>2, <1>3, <2>1 DEF TypeOK, queues
  <2>3. MainInv'
    BY <1>1, <1>2, <1>3, <2>1 DEF MainInv, Setup
  <2>4. (main \in Setup) <=> (main' \in Setup)
    BY <2>1 DEF Setup
  <2>5. Open' <=> Open
    BY <2>1 DEF Open
  <2> QED BY <1>2, <1>4, <2>1, <2>2, <2>3, <2>4, <2>5, QuietStep DEF IInv
<1> QED
  BY <1>6, <1>7, <1>8, <1>9, <1>10, <1>11, <1>12 DEF MainNext

LEMMA StutterStep == ASSUME IInv, UNCHANGED vars PROVE IInv'
<1>1. /\ argv' = argv /\ main' = main /\ human' = human /\ i' = i /\ reaped' = reaped
      /\ UNCHANGED queues
  BY DEF vars
<1>2. \A g, S : Size(g, S)' = Size(g, S)
  BY <1>1, SizesKept
<1>3. UNCHANGED Sizes("MAN") /\ UNCHANGED Sizes("WOMAN")
  BY <1>2 DEF Sizes, Hand, Holder, Locker, Room
<1>4. /\ Account("MAN")' /\ Account("WOMAN")' /\ AnyoneInv' /\ Cubs' /\ Exclusive'
  BY <1>1, <1>3, QuietStep DEF Open
<1>5. N' = N /\ M' = M /\ W' = W
  BY <1>1, GenderKept
<1>6. TypeOK' /\ MainInv'
  BY <1>1, <1>5 DEF IInv, TypeOK, MainInv, queues
<1> QED BY <1>4, <1>6 DEF IInv

LEMMA StepInv == IInv /\ [Next]_vars => IInv'
BY HumanStep, MainStep, StutterStep DEF Next

-----------------------------------------------------------------------------
(***************************************************************************)
(* Theorems                                                                *)
(***************************************************************************)

\* The inductive invariant, of which what follows is a part.
THEOREM Invariance == Spec => []IInv
BY InitInv, StepInv, PTL DEF Spec

\* Types: no queue of locks ever holds two of a gender, and q_cub never more
\* than the N cabins of the command line (lines 45-55).
THEOREM TypeCorrect == Spec => []TypeOK
<1>1. IInv => TypeOK
  BY DEF IInv
<1> QED BY <1>1, Invariance, PTL

\* The messages of q_sync say who is inside, whoever stands between two calls
\* of enter() and leave() (lines 77-115).
THEOREM Tokens == Spec => []TokensMatch
<1>1. IInv => TokensMatch
  <2> SUFFICES ASSUME IInv PROVE TokensMatch
    OBVIOUS
  <2>1. \A g \in Gender : /\ sync[g] + Size(g, Hand) = Size(g, Holder)
                          /\ Size(g, Room) = 0 <=> In(g, Room) = {}
    BY GroupNobody, NobodyGroup DEF IInv, Account, Gender
  <2>2. sync["ANYONE"] = IF Open /\ Size("MAN", Room) = 0 /\ Size("WOMAN", Room) = 0
                         THEN 1 ELSE 0
    BY DEF IInv, AnyoneInv
  <2>3. sync["ANYONE"] = IF Open /\ \A g \in Gender : In(g, Room) = {} THEN 1 ELSE 0
    BY <2>1, <2>2 DEF Gender
  <2> QED BY <2>1, <2>3 DEF TokensMatch, Size, Hand, Holder, Open
<1> QED BY <1>1, Invariance, PTL

\* Nobody in the room with anybody of the other kind.
Alone == \A x, y \in Human : human[x] \in Room /\ human[y] \in Room
                              => gender(x) = gender(y)

LEMMA AloneInside == IInv => Alone
<1> SUFFICES ASSUME IInv, NEW x \in Human, NEW y \in Human,
                    human[x] \in Room, human[y] \in Room, gender(x) # gender(y)
             PROVE  FALSE
  BY DEF Alone
<1>1. x \in In(gender(x), Room) /\ y \in In(gender(y), Room)
  BY DEF In
<1>2. Size(gender(x), Room) >= 1 /\ Size(gender(y), Room) >= 1
  BY <1>1, GroupMember
<1>3. \/ gender(x) = "MAN" /\ gender(y) = "WOMAN"
      \/ gender(x) = "WOMAN" /\ gender(y) = "MAN"
  BY DEF gender
<1> QED BY <1>2, <1>3 DEF IInv, Exclusive

\* A cabin can be taken only when there is one.
LEMMA CabinFree == ASSUME IInv, cub > 0, main \notin Setup
                   PROVE  B!Cardinality(B!InCabin) < N
<1> DEFINE A == In("MAN", {"cabin"})
           D == In("WOMAN", {"cabin"})
<1>1. /\ IsFiniteSet(A) /\ IsFiniteSet(D)
      /\ Size("MAN", {"cabin"}) \in Nat /\ Size("WOMAN", {"cabin"}) \in Nat
  BY GroupFinite
<1>2. \A h \in Human : Place(human[h]) = "cabin" <=> human[h] = "cabin"
  BY DEF Place
<1>3. B!InCabin = A \cup D
  <2>1. \A h \in Human : gender(h) = "MAN" \/ gender(h) = "WOMAN"
    BY DEF gender
  <2>2. \A h : h \in B!InCabin <=> h \in Human /\ human[h] = "cabin"
    BY <1>2 DEF B!InCabin
  <2>3. \A h : h \in A \cup D <=> h \in Human /\ human[h] = "cabin"
    BY <2>1 DEF In
  <2> QED BY <2>2, <2>3
<1>4. A \cap D = {}
  BY DEF In
<1>5. cub + Size("MAN", {"cabin"}) + Size("WOMAN", {"cabin"}) = Cabins /\ cub \in Nat
  BY DEF IInv, Cubs, TypeOK
<1>6. N \in Int /\ Cabins \in Nat
  BY ArgTypes DEF IInv, TypeOK
<1>7. Size("MAN", {"cabin"}) = Cardinality(A) /\ Size("WOMAN", {"cabin"}) = Cardinality(D)
  BY DEF Size
<1> HIDE DEF A, D
<1>8. Cardinality(A \cup D) = Cardinality(A) + Cardinality(D)
  <2>1. Cardinality(A \cup D) = Cardinality(A) + Cardinality(D) - Cardinality(A \cap D)
    BY <1>1, FS_Union
  <2>2. Cardinality(A \cap D) = 0
    BY <1>4, FS_EmptySet
  <2> QED BY <1>1, <1>7, <2>1, <2>2
<1>9. Cardinality(A \cup D) < Cabins
  BY <1>1, <1>5, <1>6, <1>7, <1>8
<1>10. Cabins = N
  BY <1>1, <1>5, <1>6 DEF Cabins
<1>11. B!Cardinality(B!InCabin) = Cardinality(A \cup D)
  BY <1>3 DEF B!Cardinality, Cardinality
<1> QED BY <1>9, <1>10, <1>11

\* The queues implement the bath (the comment at lines 78-80): who comes in meets
\* nobody of the other kind, and no more than N are in the cabins.
THEOREM Refinement == Spec => BathSpec
<1>1. Init => B!Init
  BY DEF Init, B!Init, Place, Room
<1>2. IInv' => Alone'
  BY AloneInside, PTL
<1>3. ASSUME IInv, IInv', Next PROVE [B!Next]_(B!bvars)
  <2> DEFINE at == [h \in Human |-> Place(human[h])]
             Men == {h \in Human : gender(h) = "MAN"}
  <2>1. ASSUME argv' = argv PROVE Men' = Men /\ N' = N
    BY <2>1, GenderKept
  <2>2. ASSUME argv' = argv, at' = at PROVE UNCHANGED B!bvars
    BY <2>1, <2>2 DEF B!bvars
  <2>3. CASE MainNext
    <3>1. argv' = argv
      BY <2>3 DEF MainNext, CheckArgc, SendCub, SendLocks, Fork, SendAnyone, Wait, Remove,
                  MainGo
    <3>2. CASE human' = human
      <4>1. at' = at
        BY <3>2
      <4> QED BY <2>2, <3>1, <4>1
    <3>3. CASE Fork
      <4>1. PICK start \in {"enter", "unborn"} :
               /\ main = "fork" /\ human' = [human EXCEPT ![i] = start]
               /\ human \in [Human -> Places]
        BY <1>3, <3>3 DEF Fork, MainGo, IInv, TypeOK, Places
      <4>2. \A h \in Human : h = i => human[h] = "unborn"
        <5>1. \A h \in Human : h \in Int
          BY ShowerAssumption DEF Human
        <5> QED BY <1>3, <4>1, <5>1 DEF IInv, MainInv
      <4>3. \A h \in Human : Place(human'[h]) = Place(human[h])
        BY <4>1, <4>2 DEF Place, Room
      <4>4. at' = at
        BY <4>3
      <4> QED BY <2>2, <3>1, <4>4
    <3> QED
      BY <2>3, <3>2, <3>3
      DEF MainNext, CheckArgc, SendCub, SendLocks, SendAnyone, Wait, Remove
  <2>4. ASSUME NEW h \in Human, HumanNext(h) PROVE [B!Next]_(B!bvars)
    <3>1. PICK from, to \in Places, ds, da, dl, dc \in {-1, 0, 1} :
             Moved(h, from, to, ds, da, dl, dc)
      BY <1>3, <2>4, HumanMoves DEF IInv
    <3>2. /\ human[h] = from /\ human' = [human EXCEPT ![h] = to] /\ argv' = argv
          /\ Row(from, to, ds, da, dl, dc) /\ human \in [Human -> Places]
          /\ \A x : gender(x)' = gender(x)
      BY <1>3, <3>1, GenderKept DEF Moved, Jump, IInv, TypeOK, Places
    <3>3. at[h] = Place(from) /\ at' = [at EXCEPT ![h] = Place(to)]
      BY <3>2
    <3>4. Men' = Men /\ N' = N
      BY <2>1, <3>2
    <3>5. B!Move(h, Place(from), Place(to))
      BY <3>3, <3>4 DEF B!Move
    <3>6. CASE from = "sync"
      <4>1. Place(from) = "out" /\ Place(to) = "in" /\ to \in Room
        BY <3>2, <3>6 DEF Row, Place, Room
      <4>2. \A x \in B!Inside : x \in Men <=> h \in Men
        <5> SUFFICES ASSUME NEW x \in B!Inside PROVE gender(x) = gender(h)
          BY DEF B!Inside
        <5>1. x \in Human /\ human[x] \in Room
          BY DEF B!Inside, Place, Room
        <5>2. human'[x] \in Room /\ human'[h] \in Room
          BY <3>2, <4>1, <5>1
        <5> QED BY <1>2, <1>3, <3>2, <5>1, <5>2 DEF Alone
      <4>3. B!Enter(h)
        BY <3>5, <4>1, <4>2 DEF B!Enter
      <4> QED BY <4>3 DEF B!Next
    <3>7. CASE from = "proceed"
      <4>1. Place(from) = "in" /\ Place(to) = "cabin" /\ dc = -1
        BY <3>2, <3>7 DEF Row, Place, Room
      <4>2. cub > 0
        BY <1>3, <3>1, <4>1 DEF Moved, Effect, IInv, TypeOK
      <4>3. main \notin Setup
        BY <1>3, <3>2, <3>7 DEF IInv, MainInv
      <4>4. B!TakeCabin(h)
        BY <1>3, <3>5, <4>1, <4>2, <4>3, CabinFree DEF B!TakeCabin
      <4> QED BY <4>4 DEF B!Next
    <3>8. CASE from = "cabin"
      <4>1. Place(from) = "cabin" /\ Place(to) = "washed"
        BY <3>2, <3>8 DEF Row, Place, Room
      <4> QED BY <3>5, <4>1 DEF B!Next, B!FreeCabin
    <3>9. CASE from \in {"again", "anyone"}
      <4>1. Place(from) = "washed" /\ Place(to) = "out"
        BY <3>2, <3>9 DEF Row, Place, Room
      <4> QED BY <3>5, <4>1 DEF B!Next, B!Leave
    <3>10. CASE from \notin {"sync", "proceed", "cabin", "again", "anyone"}
      <4>1. Place(to) = Place(from)
        BY <3>2, <3>10 DEF Row, Place, Room
      <4>2. at' = at
        BY <3>3, <4>1
      <4> QED BY <2>2, <3>2, <4>2
    <3> QED BY <3>6, <3>7, <3>8, <3>9, <3>10
  <2> QED BY <1>3, <2>3, <2>4 DEF Next
<1>4. UNCHANGED vars => UNCHANGED B!bvars
  <2> SUFFICES ASSUME UNCHANGED vars PROVE UNCHANGED B!bvars
    OBVIOUS
  <2>1. argv' = argv /\ human' = human
    BY DEF vars
  <2>2. N' = N /\ \A h : gender(h)' = gender(h)
    BY <2>1, GenderKept
  <2> QED BY <2>1, <2>2 DEF B!bvars
<1>5. IInv /\ IInv' /\ [Next]_vars => [B!Next]_(B!bvars)
  BY <1>3, <1>4
<1> QED BY <1>1, <1>5, Invariance, PTL DEF Spec, BathSpec, B!Spec

\* wait() has returned i children, or there are none left.
ReapInv == /\ reaped \subseteq Exited
           /\ ~Open => reaped = {}
           /\ main = "wait" => Born = reaped \/ (Cardinality(reaped) = i /\ IsFiniteSet(reaped))
           /\ RemovedAfterAll

LEMMA ReapStep == ASSUME IInv, ReapInv, [Next]_vars PROVE ReapInv'
<1>1. CASE UNCHANGED vars
  BY <1>1 DEF ReapInv, vars, Exited, Born, Open, RemovedAfterAll
<1>2. ASSUME NEW h \in Human, HumanNext(h) PROVE ReapInv'
  <2>1. PICK from, to \in Places, ds, da, dl, dc \in {-1, 0, 1} :
           Moved(h, from, to, ds, da, dl, dc)
    BY <1>2, HumanMoves DEF IInv
  <2>2. /\ human[h] = from /\ human' = [human EXCEPT ![h] = to]
        /\ UNCHANGED <<main, i, reaped>> /\ human \in [Human -> Places]
        /\ Row(from, to, ds, da, dl, dc)
    BY <2>1 DEF Moved, Jump, IInv, TypeOK, Places
  <2>3. from # "unborn" /\ to # "unborn" /\ from # "exited"
    BY <2>2 DEF Row
  <2>4. Born' = Born /\ Exited \subseteq Exited'
    BY <2>2, <2>3 DEF Born, Exited
  <2> QED BY <2>2, <2>4 DEF ReapInv, Open, RemovedAfterAll
<1>3. CASE /\ main \notin {"wait", "removed"} /\ main' \notin {"wait", "removed"}
           /\ UNCHANGED reaped
  BY <1>3 DEF ReapInv, Open, RemovedAfterAll
<1>4. CASE SendAnyone
  <2>1. main = "fork" /\ main' = "wait" /\ i' = 0 /\ UNCHANGED <<human, reaped>>
    BY <1>4 DEF SendAnyone, MainGo
  <2>2. reaped = {}
    BY <2>1 DEF ReapInv, Open
  <2>3. Cardinality(reaped') = 0 /\ IsFiniteSet(reaped')
    BY <2>1, <2>2, FS_EmptySet
  <2> QED BY <2>1, <2>2, <2>3 DEF ReapInv, Open, RemovedAfterAll
<1>5. CASE Wait
  <2>1. main = "wait" /\ main' = "wait" /\ i' = i + 1 /\ UNCHANGED human /\ i \in Nat
    BY <1>5 DEF Wait, MainGo, IInv, TypeOK
  <2>2. Exited' = Exited /\ Born' = Born
    BY <2>1 DEF Exited, Born
  <2>3. CASE Born = reaped /\ UNCHANGED reaped
    BY <2>1, <2>2, <2>3 DEF ReapInv, Open, RemovedAfterAll
  <2>4. ASSUME NEW h \in Exited \ reaped, reaped' = reaped \cup {h} PROVE ReapInv'
    <3>1. Born # reaped
      BY <2>4 DEF Born, Exited
    <3>2. Cardinality(reaped) = i /\ IsFiniteSet(reaped)
      BY <2>1, <3>1 DEF ReapInv
    <3>3. Cardinality(reaped') = i' /\ IsFiniteSet(reaped')
      BY <2>1, <2>4, <3>2, FS_AddElement
    <3> QED BY <2>1, <2>2, <2>4, <3>3 DEF ReapInv, Open, RemovedAfterAll
  <2> QED BY <1>5, <2>3, <2>4 DEF Wait
<1>6. CASE Remove
  <2>1. /\ main = "wait" /\ main' = "removed" /\ i >= M + W /\ UNCHANGED <<human, reaped>>
        /\ i \in Nat
    BY <1>6 DEF Remove, MainGo, IInv, TypeOK
  <2>2. Exited' = Exited /\ Born' = Born
    BY <2>1 DEF Exited, Born
  <2>3. Born \subseteq Exited
    <3>1. CASE Born = reaped
      BY <3>1 DEF ReapInv
    <3>2. CASE Cardinality(reaped) = i /\ IsFiniteSet(reaped)
      <4>1. M \in Int /\ W \in Int
        BY ArgTypes DEF IInv, TypeOK
      <4>2. Born \subseteq 0 .. M + W - 1
        <5> SUFFICES ASSUME NEW h \in Born PROVE h \in 0 .. M + W - 1
          OBVIOUS
        <5>1. h \in Human /\ human[h] # "unborn"
          BY DEF Born
        <5>2. h \in Nat
          BY <5>1, ShowerAssumption DEF Human
        <5>3. ~(h >= M + W)
          BY <5>1 DEF IInv, MainInv
        <5> QED BY <4>1, <5>2, <5>3
      <4>3. CASE M + W >= 0
        <5>1. /\ IsFiniteSet(0 .. M + W - 1)
              /\ Cardinality(0 .. M + W - 1) = M + W
          <6> DEFINE last == M + W - 1
          <6>1. last \in Int /\ 0 \in Int
            BY <4>1
          <6>2. /\ IsFiniteSet(0 .. last)
                /\ Cardinality(0 .. last) = IF 0 > last THEN 0 ELSE last - 0 + 1
            <7> HIDE DEF last
            <7> QED BY <6>1, FS_Interval
          <6> QED BY <4>1, <4>3, <6>2
        <5>2. reaped \subseteq Born
          BY DEF ReapInv, Exited, Born
        <5>3. IsFiniteSet(Born) /\ Cardinality(Born) <= M + W
          BY <4>2, <5>1, FS_Subset
        <5>4. Cardinality(reaped) <= Cardinality(Born) /\ Cardinality(Born) \in Nat
          BY <5>2, <5>3, FS_Subset, FS_CardinalityType
        <5>5. Cardinality(reaped) = Cardinality(Born)
          BY <2>1, <3>2, <4>1, <5>3, <5>4
        <5>6. reaped = Born
          BY <5>2, <5>3, <5>5, FS_Subset
        <5> QED BY <3>1, <5>6
      <4>4. CASE ~(M + W >= 0)
        <5>1. Born = {}
          BY <4>1, <4>2, <4>4
        <5> QED BY <5>1
      <4> QED BY <4>3, <4>4
    <3> QED BY <2>1, <3>1, <3>2 DEF ReapInv
  <2> QED BY <2>1, <2>2, <2>3 DEF ReapInv, Open, RemovedAfterAll
<1>7. CASE CheckArgc \/ SendCub \/ SendLocks \/ Fork
  <2>1. /\ main \notin {"wait", "removed"} /\ main' \notin {"wait", "removed"}
        /\ UNCHANGED reaped
    BY <1>7 DEF CheckArgc, SendCub, SendLocks, Fork, MainGo
  <2> QED BY <1>3, <2>1
<1> QED
  BY <1>1, <1>2, <1>4, <1>5, <1>6, <1>7 DEF Next, MainNext

\* main removes the queues (line 70) when no child can use them any more: wait()
\* has returned as many children as were to be born, or there was none left.
THEOREM RemovedLast == Spec => []RemovedAfterAll
<1>1. Init => ReapInv
  BY DEF Init, ReapInv, Open, RemovedAfterAll
<1>2. ReapInv => RemovedAfterAll
  BY DEF ReapInv
<1> QED BY <1>1, <1>2, ReapStep, Invariance, PTL DEF Spec
=============================================================================
