------------------------------- MODULE Shower -------------------------------
(***************************************************************************)
(* src/PLEASE/shower.c: M men and W women, each a process, share a shower  *)
(* room with N cabins by three System V message queues.                    *)
(*   q_sync  ANYONE while the room is empty, else one token of their       *)
(*           gender for each human inside                                  *)
(*   q_lock  LOCK_M and LOCK_W, one of each: the door, men's and women's   *)
(*   q_cub   one CUB for each free cabin                                   *)
(* The messages are empty, so a queue is the number of messages of each    *)
(* type in it.  One action is one msgrcv, msgsnd, fork or wait; a call     *)
(* that has to block is an action that is not enabled.                     *)
(***************************************************************************)
EXTENDS Integers, Sequences, FiniteSets

CONSTANTS Argvs,        \* command lines: sequences of what strtol returns
          MaxHumans,    \* bound: the most humans a command line asks for
          QBYTES        \* messages a queue holds: 16384, msg_qbytes

ASSUME ShowerAssumption ==
  /\ MaxHumans \in Nat /\ QBYTES \in Nat \ {0}
  /\ Argvs \subseteq Seq(Int)
  /\ \A a \in Argvs : Len(a) = 3 => a[2] + a[3] <= MaxHumans

Human == 0 .. MaxHumans - 1
Gender == {"MAN", "WOMAN"}

VARIABLES argv,              \* the command line, fixed
          main,              \* where main() is
          i,                 \* main's loop counters
          human,             \* where each human() is
          sync, cub, lock,   \* q_sync and q_lock by type of message, q_cub
          reaped             \* the children wait() has returned

queues == <<sync, cub, lock>>
vars == <<argv, main, i, human, queues, reaped>>

Arg(n) == IF Len(argv) = 3 THEN argv[n] ELSE 0
N == Arg(1)
M == Arg(2)
W == Arg(3)

gender(h) == IF h < M THEN "MAN" ELSE "WOMAN"
Other(g) == IF g = "MAN" THEN "WOMAN" ELSE "MAN"

-----------------------------------------------------------------------------
(* msgsnd waits for room, msgrcv for a message of a type it asks for.      *)

InSync == sync["ANYONE"] + sync["MAN"] + sync["WOMAN"]

SyncSend(t) == InSync < QBYTES /\ sync' = [sync EXCEPT ![t] = @ + 1]
SyncReceive(t) == sync[t] > 0 /\ sync' = [sync EXCEPT ![t] = @ - 1]
Lock(g) == lock[g] > 0 /\ lock' = [lock EXCEPT ![g] = @ - 1]
Unlock(g) == /\ lock["MAN"] + lock["WOMAN"] < QBYTES
             /\ lock' = [lock EXCEPT ![g] = @ + 1]

-----------------------------------------------------------------------------
(* human(): enter(), proceed(), leave()                                    *)

Go(h, from, to) == /\ human[h] = from
                   /\ human' = [human EXCEPT ![h] = to]
                   /\ UNCHANGED <<argv, main, i, reaped>>

EnterLock(h) == Go(h, "enter", "sync") /\ Lock(gender(h)) /\ UNCHANGED <<sync, cub>>

\* MSG_EXCEPT: the first message that is not of the other gender's type.
EnterSync(h) ==
  /\ UNCHANGED <<cub, lock>>
  /\ \/ SyncReceive(gender(h)) /\ Go(h, "sync", "put_back")
     \/ SyncReceive("ANYONE") /\ Go(h, "sync", "add")

\* A mutant: the token that opened the door is kept.
KeepToken(h) == Go(h, "put_back", "add") /\ UNCHANGED queues

PutBack(h) == /\ Go(h, "put_back", "add") /\ SyncSend(gender(h))
              /\ UNCHANGED <<cub, lock>>
AddToken(h) == /\ Go(h, "add", "unlock") /\ SyncSend(gender(h))
               /\ UNCHANGED <<cub, lock>>
EnterUnlock(h) == /\ Go(h, "unlock", "proceed") /\ Unlock(gender(h))
                  /\ UNCHANGED <<sync, cub>>

TakeCub(h) == /\ Go(h, "proceed", "cabin") /\ cub > 0 /\ cub' = cub - 1
              /\ UNCHANGED <<sync, lock>>
GiveCub(h) == /\ Go(h, "cabin", "leave") /\ cub < QBYTES /\ cub' = cub + 1
              /\ UNCHANGED <<sync, lock>>

LeaveLock(h) == Go(h, "leave", "take") /\ Lock(gender(h)) /\ UNCHANGED <<sync, cub>>
TakeToken(h) == /\ Go(h, "take", "look") /\ SyncReceive(gender(h))
                /\ UNCHANGED <<cub, lock>>

\* A mutant: the last one out is whoever is out first.
NoLook(h) == Go(h, "look", "anyone") /\ UNCHANGED queues

\* IPC_NOWAIT: no second token of the gender means that nobody is left.
Look(h) == /\ UNCHANGED <<cub, lock>>
           /\ \/ SyncReceive(gender(h)) /\ Go(h, "look", "again")
              \/ /\ sync[gender(h)] = 0 /\ UNCHANGED sync
                 /\ Go(h, "look", "anyone")

PutToken(h) == /\ UNCHANGED <<cub, lock>>
               /\ \/ Go(h, "again", "leave_unlock") /\ SyncSend(gender(h))
                  \/ Go(h, "anyone", "leave_unlock") /\ SyncSend("ANYONE")
LeaveUnlock(h) == /\ Go(h, "leave_unlock", "exited") /\ Unlock(gender(h))
                  /\ UNCHANGED <<sync, cub>>

HumanNext(h) == \/ EnterLock(h) \/ EnterSync(h) \/ PutBack(h) \/ AddToken(h)
                \/ EnterUnlock(h) \/ TakeCub(h) \/ GiveCub(h)
                \/ LeaveLock(h) \/ TakeToken(h) \/ Look(h) \/ PutToken(h)
                \/ LeaveUnlock(h)

-----------------------------------------------------------------------------
(* main()                                                                  *)

MainGo(from, to) == main = from /\ main' = to /\ UNCHANGED argv

CheckArgc == /\ \/ Len(argv) = 3 /\ MainGo("args", "cubs")
                \/ Len(argv) # 3 /\ MainGo("args", "usage")
             /\ UNCHANGED <<i, human, queues, reaped>>

\* A mutant: a loop to N inclusive.
SendCubOnceMore == /\ MainGo("cubs", "cubs") /\ i <= N
                   /\ cub < QBYTES /\ cub' = cub + 1 /\ i' = i + 1
                   /\ UNCHANGED <<human, sync, lock, reaped>>

SendCub == /\ MainGo("cubs", "cubs") /\ i < N
           /\ cub < QBYTES /\ cub' = cub + 1 /\ i' = i + 1
           /\ UNCHANGED <<human, sync, lock, reaped>>

\* Lines 51-55, before there is a second process.
SendLocks == /\ MainGo("cubs", "fork") /\ i >= N
             /\ lock' = [g \in Gender |-> 1] /\ i' = 0
             /\ UNCHANGED <<human, sync, cub, reaped>>

\* fork() == -1 is taken for the parent's side: that human is never born.
Fork == /\ MainGo("fork", "fork") /\ i < M + W
        /\ \E start \in {"enter", "unborn"} : human' = [human EXCEPT ![i] = start]
        /\ i' = i + 1
        /\ UNCHANGED <<queues, reaped>>

\* A mutant: nobody opens the room, as in the program's earlier version main.c.
ForgetAnyone == /\ MainGo("fork", "wait") /\ i >= M + W
                /\ i' = 0
                /\ UNCHANGED <<human, queues, reaped>>

SendAnyone == /\ MainGo("fork", "wait") /\ i >= M + W
              /\ SyncSend("ANYONE") /\ i' = 0
              /\ UNCHANGED <<human, cub, lock, reaped>>

Born == {h \in Human : human[h] # "unborn"}
Exited == {h \in Human : human[h] = "exited"}

\* wait(NULL): some child that has exited, or ECHILD at once when none is left.
Wait == /\ MainGo("wait", "wait") /\ i < M + W
        /\ \/ \E h \in Exited \ reaped : reaped' = reaped \cup {h}
           \/ Born = reaped /\ UNCHANGED reaped
        /\ i' = i + 1
        /\ UNCHANGED <<human, queues>>

\* A mutant: waits for the men only.
RemoveAfterMen == /\ MainGo("wait", "removed") /\ i >= M
                  /\ UNCHANGED <<i, human, queues, reaped>>

\* IPC_RMID, three times.
Remove == /\ MainGo("wait", "removed") /\ i >= M + W
          /\ UNCHANGED <<i, human, queues, reaped>>

MainNext == \/ CheckArgc \/ SendCub \/ SendLocks \/ Fork \/ SendAnyone
            \/ Wait \/ Remove

-----------------------------------------------------------------------------
Init == /\ argv \in Argvs
        /\ main = "args" /\ i = 0
        /\ human = [h \in Human |-> "unborn"]
        /\ sync = [t \in Gender \cup {"ANYONE"} |-> 0]
        /\ cub = 0
        /\ lock = [g \in Gender |-> 0]
        /\ reaped = {}

Next == MainNext \/ \E h \in Human : HumanNext(h)

Spec == Init /\ [][Next]_vars

\* Every process keeps running as long as its next call can return.
FairSpec == Spec /\ WF_vars(MainNext) /\ \A h \in Human : WF_vars(HumanNext(h))

-----------------------------------------------------------------------------
(* Properties                                                              *)

\* Types, at most one of each lock, and no more cabins than the N asked for.
TypeOK ==
  /\ argv \in Argvs
  /\ main \in {"args", "usage", "cubs", "fork", "wait", "removed"}
  /\ i \in Nat
  /\ human \in [Human -> {"unborn", "enter", "sync", "put_back", "add", "unlock",
                          "proceed", "cabin", "leave", "take", "look", "again",
                          "anyone", "leave_unlock", "exited"}]
  /\ sync \in [Gender \cup {"ANYONE"} -> Nat]
  /\ cub \in Nat /\ cub <= (IF N > 0 THEN N ELSE 0)
  /\ lock \in [Gender -> 0 .. 1]
  /\ reaped \subseteq Human

In(g, S) == {h \in Human : human[h] \in S /\ gender(h) = g}
Room == {"put_back", "add", "unlock", "proceed", "cabin", "leave", "take", "look",
         "again", "anyone"}

\* The messages of q_sync say who is inside, through every interleaving of
\* enter() and leave(): a token for each human of the gender inside, but for
\* those in a hand (lines 87-93 and 105-112), and ANYONE only while the room,
\* once it is open, is empty.
TokensMatch ==
  /\ \A g \in Gender :
       sync[g] + Cardinality(In(g, {"put_back", "again"}))
         = Cardinality(In(g, {"unlock", "proceed", "cabin", "leave", "take"}))
  /\ sync["ANYONE"] =
       IF main \in {"wait", "removed"} /\ \A g \in Gender : In(g, Room) = {}
       THEN 1 ELSE 0

Place(at) == IF at = "cabin" THEN "cabin"
             ELSE IF at \in {"put_back", "add", "unlock", "proceed"} THEN "in"
             ELSE IF at \in Room THEN "washed"
             ELSE "out"

B == INSTANCE Bath WITH men <- {h \in Human : gender(h) = "MAN"},
                        cabins <- N,
                        place <- [h \in Human |-> Place(human[h])]

\* The queues implement the bath: men and women are never inside together, and
\* no more than N of them in the cabins (the comment at lines 78-80).
BathSpec == B!Spec

\* main removes the queues (line 70) when no child can use them any more.
RemovedAfterAll == main = "removed" => Born \subseteq Exited

\* With a cabin to wash in, and no more men or women than a queue holds tokens,
\* everyone washes and main ends (lines 57-74), whichever forks fail.
EverybodyWashes ==
  (main = "fork" /\ N > 0 /\ M <= QBYTES /\ W <= QBYTES)
     ~> main = "removed" /\ Born = Exited
=============================================================================
