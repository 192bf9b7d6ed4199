---------------------------- MODULE ShowerFirst -----------------------------
(***************************************************************************)
(* src/PLEASE/main.c, the shower before shower.c: the same three queues,   *)
(* but entrance() gives the lock back as a message of type sex, which      *)
(* leave() takes and turns into the key again, leave() keeps its token in  *)
(* synch, and main never sends the first ANYONE.                           *)
(***************************************************************************)
EXTENDS Integers, FiniteSets, Functions

CONSTANTS Argvs,        \* command lines <<W, M, numSpace>>, or <<>>
          MaxHumans,    \* bound: the most humans of a command line
          QBYTES        \* messages a queue holds

Human == 0 .. MaxHumans - 1
Type == {"WOMAN", "MAN", "LOCK_W", "LOCK_M", "CAB", "ANYONE"}

VARIABLES argv,      \* fixed
          main, i,   \* where main is, its loop counters
          human,     \* where each human is
          queue      \* messages in synch, lock and cab, by their type

vars == <<argv, main, i, human, queue>>

W == argv[1]
M == argv[2]
numSpace == argv[3]
sex(h) == IF h < M THEN "MAN" ELSE "WOMAN"
key(h) == IF sex(h) = "WOMAN" THEN "LOCK_W" ELSE "LOCK_M"

Send(q, t) == /\ FoldFunction(+, 0, queue[q]) < QBYTES
              /\ queue' = [queue EXCEPT ![q][t] = @ + 1]
Receive(q, t) == queue[q][t] > 0 /\ queue' = [queue EXCEPT ![q][t] = @ - 1]

-----------------------------------------------------------------------------
(* human(): entrance, bathing, leave                                       *)

Go(h, from, to) == /\ human[h] = from /\ human' = [human EXCEPT ![h] = to]
                   /\ UNCHANGED <<argv, main, i>>

EntranceLock(h) == Go(h, "entrance", "synch") /\ Receive("lock", key(h))

\* MSG_EXCEPT: a token of the same kind, or ANYONE.
EntranceSynch(h) == \/ Go(h, "synch", "put_back") /\ Receive("synch", sex(h))
                    \/ Go(h, "synch", "pass") /\ Receive("synch", "ANYONE")

PutBack(h) == Go(h, "put_back", "pass") /\ Send("synch", sex(h))
CreatePass(h) == Go(h, "pass", "unlock") /\ Send("synch", sex(h))
EntranceUnlock(h) == Go(h, "unlock", "bathing") /\ Send("lock", sex(h))

TakeCab(h) == Go(h, "bathing", "cab") /\ Receive("cab", "CAB")
GiveCab(h) == Go(h, "cab", "leave") /\ Send("cab", "CAB")

LeaveLock(h) == Go(h, "leave", "look") /\ Receive("lock", sex(h))

\* IPC_NOWAIT: what is found is put back, and ANYONE when nothing is.
LeaveLook(h) == \/ Go(h, "look", "same") /\ Receive("synch", sex(h))
                \/ /\ Go(h, "look", "anyone")
                   /\ queue["synch"][sex(h)] = 0 /\ UNCHANGED queue
LeavePut(h) == \/ Go(h, "same", "leave_unlock") /\ Send("synch", sex(h))
               \/ Go(h, "anyone", "leave_unlock") /\ Send("synch", "ANYONE")
LeaveUnlock(h) == Go(h, "leave_unlock", "exited") /\ Send("lock", key(h))

HumanNext(h) == \/ EntranceLock(h) \/ EntranceSynch(h) \/ PutBack(h) \/ CreatePass(h)
                \/ EntranceUnlock(h) \/ TakeCab(h) \/ GiveCab(h) \/ LeaveLock(h)
                \/ LeaveLook(h) \/ LeavePut(h) \/ LeaveUnlock(h)

-----------------------------------------------------------------------------
(* main()                                                                  *)

MainGo(from, to, n) == main = from /\ main' = to /\ i' = n /\ UNCHANGED argv

CheckArgs == /\ UNCHANGED <<human, queue>>
             /\ \/ (argv = <<>> \/ numSpace = 0) /\ MainGo("args", "usage", 0)
                \/ argv # <<>> /\ numSpace # 0 /\ MainGo("args", "cabs", 0)

SendCab == /\ i < numSpace /\ MainGo("cabs", "cabs", i + 1)
           /\ Send("cab", "CAB") /\ UNCHANGED human

\* Lines 127-131, before there is a second process.
SendLocks == /\ i >= numSpace /\ MainGo("cabs", "fork", 0)
             /\ queue' = [queue EXCEPT !["lock"]["LOCK_W"] = 1, !["lock"]["LOCK_M"] = 1]
             /\ UNCHANGED human

\* A fork that fails is not seen.
Fork == /\ i < M + W /\ MainGo("fork", "fork", i + 1)
        /\ \E start \in {"entrance", "unborn"} : human' = [human EXCEPT ![i] = start]
        /\ UNCHANGED queue

ForksDone == i >= M + W /\ MainGo("fork", "wait", 0) /\ UNCHANGED <<human, queue>>

\* A child that has exited, or at once when none is left.
Wait == LET born == {h \in Human : human[h] # "unborn"}
            exited == {h \in Human : human[h] = "exited"} IN
        /\ i < M + W /\ MainGo("wait", "wait", i + 1)
        /\ (i < Cardinality(exited) \/ i >= Cardinality(born))
        /\ UNCHANGED <<human, queue>>

Remove == i >= M + W /\ MainGo("wait", "removed", 0) /\ UNCHANGED <<human, queue>>

MainNext == \/ CheckArgs \/ SendCab \/ SendLocks \/ Fork \/ ForksDone \/ Wait \/ Remove

-----------------------------------------------------------------------------
Init == /\ argv \in Argvs /\ main = "args" /\ i = 0
        /\ human = [h \in Human |-> "unborn"]
        /\ queue = [q \in {"synch", "lock", "cab"} |-> [t \in Type |-> 0]]

Next == MainNext \/ \E h \in Human : HumanNext(h)

\* Every process whose next call can return goes on.
FairSpec == /\ Init /\ [][Next]_vars
            /\ WF_vars(MainNext) /\ \A h \in Human : WF_vars(HumanNext(h))

\* entrance() creates a pass for the kind of whoever stands at the door (the
\* comment at lines 48-50): when there is a cabin and somebody comes,
\* somebody gets in.
FreePass == numSpace > 0 /\ (\E h \in Human : human[h] = "entrance")
              ~> \E h \in Human : human[h] \notin {"unborn", "entrance", "synch"}
=============================================================================
