------------------------------- MODULE Runners ------------------------------
(***************************************************************************)
(* src/runners/main.c: a judge and numRun runners, each a process, run a   *)
(* relay race over one System V message queue.  The type of a message says *)
(* what it is for: READY to the judge, START + k the baton for runner k,   *)
(* FINISH the baton back to the judge.  Nobody reads the text, so the      *)
(* queue is the number of messages of each type in it.  One action is one  *)
(* msgsnd, msgrcv, fork or wait; a call that has to block is an action     *)
(* that is not enabled, and usleep orders nothing.                         *)
(***************************************************************************)
EXTENDS Integers, FiniteSets, Functions

CONSTANTS NumRuns,      \* values of argv[1] to consider
          MaxRun,       \* bound: the longest team
          QMSGS         \* messages of MSGSZ bytes a queue holds: 16384 / 128

ASSUME RunnersAssumption == /\ MaxRun \in Nat /\ QMSGS \in Nat \ {0}
                            /\ NumRuns \subseteq Int
                            /\ \A n \in NumRuns : n <= MaxRun

READY == 1
FINISH == 2
START == 3

Runner == 0 .. MaxRun - 1
Type == READY .. START + MaxRun

VARIABLES numRun,      \* the team's size, fixed
          main,        \* where main() is
          i,           \* main's loop counters
          judge,       \* where judge() is
          heard,       \* judge()'s loop counter
          runner,      \* where each runner() is
          msgs,        \* the queue: how many messages of each type
          reaped       \* how many children wait() has returned

vars == <<numRun, main, i, judge, heard, runner, msgs, reaped>>

Removed == main = "removed"

-----------------------------------------------------------------------------
(* msgsnd waits for room and msgrcv for a message of the type.  Once the   *)
(* queue is removed both fail, and my_assert ends the process.             *)


InQueue == FoldFunction(LAMBDA a, b : a + b, 0, msgs)

send_msg(type) == /\ ~Removed /\ InQueue < QMSGS
                  /\ msgs' = [msgs EXCEPT ![type] = @ + 1]
get_msg(type) == /\ ~Removed /\ msgs[type] > 0
                 /\ msgs' = [msgs EXCEPT ![type] = @ - 1]

-----------------------------------------------------------------------------
(* judge()                                                                 *)

JudgeGo(from, to) == /\ judge = from /\ judge' = to
                     /\ UNCHANGED <<numRun, main, i, runner, reaped>>

\* A mutant: the loop counter is incremented in the body as well.
HearCountsTwice == /\ heard < numRun
                   /\ JudgeGo("hear", "hear") /\ get_msg(READY)
                   /\ heard' = heard + 2

HearReady == /\ heard < numRun
             /\ JudgeGo("hear", "hear") /\ get_msg(READY)
             /\ heard' = heard + 1

\* A mutant: the race starts when the judge pleases.
StartEarly == /\ JudgeGo("hear", "finish") /\ send_msg(START)
              /\ UNCHANGED heard

StartRace == /\ heard >= numRun
             /\ JudgeGo("hear", "finish") /\ send_msg(START)
             /\ UNCHANGED heard

EndRace == JudgeGo("finish", "exited") /\ get_msg(FINISH) /\ UNCHANGED heard

\* my_assert: the call fails because main has removed the queue.
JudgeFails == /\ Removed /\ judge \in {"hear", "finish"}
              /\ JudgeGo(judge, "failed") /\ UNCHANGED <<heard, msgs>>

JudgeNext == HearReady \/ StartRace \/ EndRace \/ JudgeFails

-----------------------------------------------------------------------------
(* runner(r)                                                               *)

RunnerGo(r, from, to) == /\ runner[r] = from
                         /\ runner' = [runner EXCEPT ![r] = to]
                         /\ UNCHANGED <<numRun, main, i, judge, heard, reaped>>

GetReady(r) == RunnerGo(r, "ready", "wait") /\ send_msg(READY)

\* A mutant: the baton is copied, not taken (MSG_COPY).
CopyBaton(r) == RunnerGo(r, "wait", "run") /\ msgs[START + r] > 0 /\ UNCHANGED msgs

TakeBaton(r) == RunnerGo(r, "wait", "run") /\ get_msg(START + r)

\* A mutant: the last runner is taken for one with a successor.
PassOn(r) == RunnerGo(r, "run", "exited") /\ send_msg(START + r + 1)

PassBaton(r) == /\ RunnerGo(r, "run", "exited")
                /\ \/ r # numRun - 1 /\ send_msg(START + r + 1)
                   \/ r = numRun - 1 /\ send_msg(FINISH)

RunnerNext(r) == GetReady(r) \/ TakeBaton(r) \/ PassBaton(r)

-----------------------------------------------------------------------------
(* main()                                                                  *)

MainGo(from, to) == main = from /\ main' = to /\ UNCHANGED <<numRun, heard, msgs>>

Msgget == /\ \/ MainGo("msgget", "fork judge") \/ MainGo("msgget", "failed")
          /\ UNCHANGED <<i, judge, runner, reaped>>

\* fork() == -1 is taken for the parent's side, of the judge and of a runner.
ForkJudge == /\ MainGo("fork judge", "fork")
             /\ judge' \in {"hear", "unborn"}
             /\ UNCHANGED <<i, runner, reaped>>

ForkRunner == /\ MainGo("fork", "fork") /\ i < numRun
              /\ \E start \in {"ready", "unborn"} :
                    runner' = [runner EXCEPT ![i] = start]
              /\ i' = i + 1
              /\ UNCHANGED <<judge, reaped>>

ForksDone == /\ MainGo("fork", "wait") /\ i >= numRun
             /\ i' = 0
             /\ UNCHANGED <<judge, runner, reaped>>

ExitedRunners == {r \in Runner : runner[r] = "exited"}
BornRunners == {r \in Runner : runner[r] # "unborn"}
Ended == Cardinality(ExitedRunners) + (IF judge \in {"exited", "failed"} THEN 1 ELSE 0)
Born == Cardinality(BornRunners) + (IF judge # "unborn" THEN 1 ELSE 0)

\* wait(NULL): a child that has ended, or ECHILD at once when none is left.
Wait == /\ MainGo("wait", "wait") /\ i < numRun + 1
        /\ \/ reaped < Ended /\ reaped' = reaped + 1
           \/ reaped = Born /\ UNCHANGED reaped
        /\ i' = i + 1
        /\ UNCHANGED <<judge, runner>>

\* A mutant: the judge is not waited for.
RemoveBeforeJudge == /\ MainGo("wait", "removed") /\ i >= numRun
                     /\ UNCHANGED <<i, judge, runner, reaped>>

\* IPC_RMID.
Remove == /\ MainGo("wait", "removed") /\ i >= numRun + 1
          /\ UNCHANGED <<i, judge, runner, reaped>>

MainNext == Msgget \/ ForkJudge \/ ForkRunner \/ ForksDone \/ Wait \/ Remove

-----------------------------------------------------------------------------
Init == /\ numRun \in NumRuns
        /\ main = "msgget" /\ i = 0
        /\ judge = "unborn" /\ heard = 0
        /\ runner = [r \in Runner |-> "unborn"]
        /\ msgs = [t \in Type |-> 0]
        /\ reaped = 0

Next == MainNext \/ JudgeNext \/ \E r \in Runner : RunnerNext(r)

Spec == Init /\ [][Next]_vars

\* Every process keeps running as long as its next call can return.
FairSpec == /\ Spec /\ WF_vars(MainNext) /\ WF_vars(JudgeNext)
            /\ \A r \in Runner : WF_vars(RunnerNext(r))

-----------------------------------------------------------------------------
(* Properties                                                              *)

TypeOK == /\ numRun \in NumRuns
          /\ main \in {"msgget", "failed", "fork judge", "fork", "wait", "removed"}
          /\ i \in Nat /\ heard \in Nat /\ reaped \in Nat
          /\ judge \in {"unborn", "hear", "finish", "exited", "failed"}
          /\ runner \in [Runner -> {"unborn", "ready", "wait", "run", "exited"}]
          /\ msgs \in [Type -> Nat]
          /\ heard <= (IF numRun > 0 THEN numRun ELSE 0)

At(at) == {r \in Runner : runner[r] = at}
Batons == {t \in Type : t # READY /\ msgs[t] > 0}

\* From the start of the race to its end there is one baton: in the queue, for
\* one runner or for the judge, or in one runner's hand (lines 76-77, 93-101).
OneBaton ==
  /\ \A t \in Batons : msgs[t] = 1
  /\ judge # "failed" =>
       Cardinality(Batons) + Cardinality(At("run")) = IF judge = "finish" THEN 1 ELSE 0

\* Every READY sent is still in the queue or has been counted by the judge.
Account == msgs[READY] + heard = Cardinality(BornRunners \ At("ready"))

\* Every runner who is ready, and only they, has told the judge, and the judge
\* sends the first one off only when each of the team has been born and has
\* reported (lines 67-76, 88).
EveryoneHeard ==
  /\ Account
  /\ judge \in {"finish", "exited"} =>
       \A r \in Runner : r < numRun => runner[r] \notin {"unborn", "ready"}

Place(at) == IF at = "wait" THEN "ready"
             ELSE IF at = "run" THEN "running"
             ELSE IF at = "exited" THEN "finished" ELSE "home"

Whistle == IF judge \in {"unborn", "hear"} THEN "none"
           ELSE IF judge = "exited" THEN "end" ELSE "start"

R == INSTANCE Race WITH team <- {r \in Runner : r < numRun},
                        place <- [r \in Runner |-> Place(runner[r])],
                        whistle <- Whistle

\* The messages implement the race: it starts when every runner is ready, they
\* run one at a time in the order of their numbers, and the judge sees the end
\* after the last of them.
RaceSpec == R!Spec

\* main removes the queue (line 126) with nobody left to use it and nothing
\* left in it, for every team that is not negative.
RemovedAfterRace ==
  (Removed /\ numRun >= 0) => Ended = Born /\ \A t \in Type : msgs[t] = 0

\* A team of one or more, all of them and the judge born, runs its race and
\* main ends (lines 113-129).
RaceEnds == (main = "wait" /\ numRun > 0 /\ Born = numRun + 1) ~> Removed
=============================================================================
