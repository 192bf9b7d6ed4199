------------------------------ MODULE Signals -------------------------------
(***************************************************************************)
(* src/signals/main.c: a child sends a file to its parent bit by bit,      *)
(* SIGUSR1 for 1 and SIGUSR2 for 0, and each waits for the other's answer  *)
(* in sigsuspend, for a second at most.  SIGUSR1 and SIGUSR2 are blocked   *)
(* outside sigsuspend and do not queue; SIGCHLD and SIGALRM interrupt      *)
(* anywhere.  One action is one kill, wake-up, handler, read or write.     *)
(***************************************************************************)
EXTENDS Integers, SequencesExt

CONSTANTS BITS,       \* bits of a char: 8
          BUFFSIZE,   \* chars of the buffer: 128
          MaxFile,    \* bound: chars of a file
          Builds      \* how MY_ASSERT is expanded, see Opened

ASSUME SignalsAssumption == /\ BITS \in Nat \ {0} /\ BUFFSIZE \in Nat \ {0}
                            /\ MaxFile \in Nat /\ Builds \subseteq BOOLEAN

File == UNION {[1 .. n * BITS -> {0, 1}] : n \in 0 .. MaxFile}    \* by its bits
Kind == {"none", "regular", "directory"}   \* what the argument names

VARIABLES build, kind, file,   \* fixed
          parent, child,    \* where each of them is
          have, pos,        \* what the child has read, and sent, in bits
          bit,              \* of the parent; the child never looks at its own
          symbol,           \* the last bitnum bits of symbol
          buffer,           \* the parent's buffer up to myIndex, by its bits
          out,              \* what the parent has written to stdout
          usr,              \* SIGUSR1 and SIGUSR2 pending at the parent
          ack,              \* SIGUSR1 pending at the child
          sigchld           \* SIGCHLD on its way to the parent

pvars == <<symbol, buffer, out>>
cvars == <<have, pos>>
vars == <<build, kind, file, parent, child, bit, pvars, cvars, usr, ack, sigchld>>

SIGUSR1 == 1       \* named by what their handlers make of bit
SIGUSR2 == 0

ParentWaits == {"ready", "bit"}                \* in the ALARM of line 117, 121
ParentEnds == {"exited", "failed", "alarmed"}
ChildWaits == {"acked", "sent"}                \* in the ALARM of line 83, 97
ChildEnds == {"exited", "failed", "alarmed"}

-----------------------------------------------------------------------------
(* The parent                                                              *)

ParentGo(from, to) == /\ parent = from /\ parent' = to
                      /\ UNCHANGED <<build, kind, file, cvars>>

Fork == /\ UNCHANGED <<bit, pvars, usr, ack, sigchld>>
        /\ \/ ParentGo("fork", "ready") /\ child' = "open"
           \/ ParentGo("fork", "failed") /\ UNCHANGED child

\* sigsuspend returns when the handlers of all that was pending have run.
Wake(from, to) == /\ ParentGo(from, to)
                  /\ usr # {} /\ usr' = {} /\ bit' \in usr
                  /\ UNCHANGED <<child, pvars, ack, sigchld>>

ParentWakes == \/ Wake("ready", IF symbol = <<>> THEN "go" ELSE "store")
               \/ Wake("bit", "store")

\* kill(pid, SIGUSR1): the child stays a zombie, so that this never fails.
Acknowledge == /\ ParentGo("go", "bit") \/ ParentGo("ack", "ready")
               /\ ack' = TRUE
               /\ UNCHANGED <<child, bit, pvars, usr, sigchld>>

\* A mutant: bitnum is not set back at the end of a char.
StoreNoReset == /\ ParentGo("store", "ack")
                /\ symbol' = Append(symbol, bit)
                /\ UNCHANGED <<child, bit, buffer, out, usr, ack, sigchld>>

\* Lines 124-130, up to the first write of WRITE.
Store == /\ \/ /\ Len(symbol) + 1 < BITS
               /\ ParentGo("store", "ack")
               /\ symbol' = Append(symbol, bit) /\ UNCHANGED buffer
            \/ /\ Len(symbol) + 1 = BITS
               /\ symbol' = <<>> /\ buffer' = buffer \o Append(symbol, bit)
               /\ ParentGo("store", IF Len(buffer') = BUFFSIZE * BITS THEN "write" ELSE "ack")
         /\ UNCHANGED <<child, bit, out, usr, ack, sigchld>>

\* WRITE with everything written at once; myIndex is counted down behind it.
Write == /\ ParentGo("write", "shift") /\ out' = out \o buffer
         /\ UNCHANGED <<child, bit, symbol, buffer, usr, ack, sigchld>>

Shift == /\ ParentGo("shift", "ack") /\ buffer' = <<>>
         /\ UNCHANGED <<child, bit, symbol, out, usr, ack, sigchld>>

\* A mutant: without WRITE.
LeaveBuffer == /\ sigchld /\ sigchld' = FALSE /\ parent \notin ParentEnds
               /\ ParentGo(parent, IF bit = 0 THEN "exited" ELSE "failed")
               /\ UNCHANGED <<child, bit, pvars, usr, ack>>

\* The handler of SIGCHLD, wherever the parent is.
ChildHandler == /\ sigchld /\ sigchld' = FALSE /\ parent \notin ParentEnds
                /\ \/ bit = 0 /\ ParentGo(parent, "exited") /\ out' = out \o buffer
                   \/ bit # 0 /\ ParentGo(parent, "failed") /\ UNCHANGED out
                /\ UNCHANGED <<child, bit, symbol, buffer, usr, ack>>

\* A mutant: sigsuspend without alarm.
ParentSleepsOn == parent \in ParentWaits /\ FALSE /\ UNCHANGED vars

\* SIGALRM: its handler is exit.
ParentTimeout == /\ parent \in ParentWaits /\ ParentGo(parent, "alarmed")
                 /\ UNCHANGED <<child, bit, pvars, usr, ack, sigchld>>

ParentNext == \/ Fork \/ ParentWakes \/ Acknowledge \/ Store \/ Write \/ Shift
              \/ ChildHandler

-----------------------------------------------------------------------------
(* The child                                                               *)

ChildGo(from, to) == /\ child = from /\ child' = to
                     /\ sigchld' = (to \in ChildEnds)
                     /\ UNCHANGED <<build, kind, file, parent, bit, pvars>>

\* MY_ASSERT expands its condition to "!fd != -1", which is always true: the
\* child exits even when the file was opened.  A build with parentheses around
\* COND goes on.
Opened == build /\ kind # "none"

Open == /\ ChildGo("open", IF Opened THEN "read" ELSE "failed")
        /\ UNCHANGED <<cvars, usr, ack>>

\* A directory opens, but every read returns -1: the child loops for good.
Read == /\ kind = "regular" /\ UNCHANGED <<pos, usr, ack>>
        /\ \/ /\ have < Len(file) /\ ChildGo("read", "ready")
              /\ have' = IF have + BUFFSIZE * BITS < Len(file)
                         THEN have + BUFFSIZE * BITS ELSE Len(file)
           \/ /\ have = Len(file) /\ ChildGo("read", "last")
              /\ UNCHANGED have

\* kill(ppid, sig): when the parent has ended its number may be gone, and the
\* child exits.
Kill(sig, from, to) == /\ usr' = usr \cup {sig} /\ UNCHANGED <<have, ack>>
                       /\ \/ ChildGo(from, to)
                          \/ parent \in ParentEnds /\ ChildGo(from, "failed")

Ready == /\ pos < have /\ Kill(SIGUSR1, "ready", "acked") /\ UNCHANGED pos

Refill == /\ pos = have /\ ChildGo("ready", "read") /\ UNCHANGED <<cvars, usr, ack>>

\* A mutant: the bits of a char without waiting for the parent in between.
SendOn == /\ child = "send" /\ pos' = pos + 1
          /\ Kill(file[pos + 1], "send", IF pos' % BITS = 0 THEN "sent" ELSE "send")

Send == child = "send" /\ Kill(file[pos + 1], "send", "sent") /\ pos' = pos + 1

ChildWakes == /\ ack /\ ack' = FALSE
              /\ \/ ChildGo("acked", "send")
                 \/ ChildGo("sent", IF pos % BITS = 0 THEN "ready" ELSE "send")
              /\ UNCHANGED <<cvars, usr>>

\* Line 107.
SendEnd == Kill(SIGUSR2, "last", "done") /\ UNCHANGED pos

ExitChild == ChildGo("done", "exited") /\ UNCHANGED <<cvars, usr, ack>>

ChildTimeout == /\ child \in ChildWaits /\ ChildGo(child, "alarmed")
                /\ UNCHANGED <<cvars, usr, ack>>

ChildNext == \/ Open \/ Read \/ Ready \/ Refill \/ Send \/ ChildWakes \/ SendEnd
             \/ ExitChild

-----------------------------------------------------------------------------
Init == /\ build \in Builds /\ kind \in Kind
        /\ file \in IF kind = "regular" THEN File ELSE {<<>>}
        /\ parent = "fork" /\ child = "unborn"
        /\ have = 0 /\ pos = 0 /\ bit = 0
        /\ symbol = <<>> /\ buffer = <<>> /\ out = <<>>
        /\ usr = {} /\ ack = FALSE /\ sigchld = FALSE

Next == ParentNext \/ ChildNext \/ ParentTimeout \/ ChildTimeout

Spec == Init /\ [][Next]_vars

\* The processes run, and alarms go off.
FairSpec == /\ Spec /\ WF_vars(ParentNext) /\ WF_vars(ChildNext)
            /\ WF_vars(ParentTimeout) /\ WF_vars(ChildTimeout)

-----------------------------------------------------------------------------
(* Properties                                                              *)

TypeOK ==
  /\ build \in Builds /\ kind \in Kind /\ file \in File
  /\ parent \in {"fork", "go", "store", "write", "shift", "ack"} \cup ParentWaits \cup ParentEnds
  /\ child \in {"unborn", "open", "read", "ready", "send", "last", "done"}
               \cup ChildWaits \cup ChildEnds
  /\ have \in 0 .. MaxFile * BITS /\ pos \in 0 .. have /\ bit \in {0, 1}
  /\ symbol \in Seq({0, 1}) /\ Len(symbol) < BITS
  /\ buffer \in Seq({0, 1}) /\ Len(buffer) <= BUFFSIZE * BITS
  /\ out \in Seq({0, 1})
  /\ usr \subseteq {SIGUSR1, SIGUSR2} /\ ack \in BOOLEAN /\ sigchld \in BOOLEAN

\* Signals do not queue, and no second one comes before the first is taken
\* (lines 83, 97, 117, 121): what the parent has is the file up to a bit, and
\* at most the bit in flight behind what the child has sent.
InOrder ==
  child # "alarmed" =>
    LET received == (IF parent \in {"shift", "exited"} THEN out ELSE out \o buffer) \o symbol
    IN /\ IsPrefix(received, file)
       /\ parent \notin ParentEnds => Len(received) \in {pos - 1, pos}

\* A child that has sent the whole file: a parent that exits with success has
\* written all of it, and one that fails was interrupted by SIGCHLD with a last
\* bit of 1, before it took the SIGUSR2 of line 107 (lines 61-68).
WholeOrLastBit ==
  child = "exited" => /\ parent = "exited" => out = file
                      /\ parent = "failed" => file # <<>> /\ file[Len(file)] = 1

\* Nobody waits for ever, whoever dies or is late; only a child that reads a
\* directory goes round and round (lines 76-103).
BothEnd == /\ <>(parent \in ParentEnds)
           /\ child = "open" /\ ~(build /\ kind = "directory") ~> child \in ChildEnds
=============================================================================
