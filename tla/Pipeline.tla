------------------------------ MODULE Pipeline ------------------------------
(***************************************************************************)
(* What a command line "a | b | c" promises (src/my_shell/main.c), without *)
(* descriptors: commands that start in order, each with a bounded channel  *)
(* to the next.  A command that copies its input ends when the one before  *)
(* it has ended and everything is read, one that writes is stopped when    *)
(* nobody is left to read, and the next line waits for all of them.        *)
(***************************************************************************)
EXTENDS Naturals, Sequences

CONSTANTS Cmd,        \* positions in a command line, from 0
          Lines,      \* command lines: sequences of kinds of program
          PIPE_SIZE   \* what a channel holds

VARIABLES cmds,       \* the line
          state,      \* of each command
          content     \* of the channel from each command to the next

plvars == <<cmds, state, content>>

First(c) == c = 0
Last(c) == c + 1 = Len(cmds)
InLine(c) == c < Len(cmds)

Become(c, from, to) == /\ state[c] = from
                       /\ state' = [state EXCEPT ![c] = to]
                       /\ UNCHANGED <<cmds, content>>

Init == /\ cmds = <<>>
        /\ state = [c \in Cmd |-> "unborn"]
        /\ content = [c \in Cmd |-> 0]

NewLine == /\ \A c \in Cmd : InLine(c) => state[c] = "ended"
           /\ cmds' \in Lines
           /\ state' = [c \in Cmd |-> "unborn"]
           /\ content' = [c \in Cmd |-> 0]

Start(c) == /\ \A b \in Cmd : b < c => state[b] # "unborn"
            /\ Become(c, "unborn", "running")

\* The program is not there: all the command has to say is so.
Fail(c) == Become(c, "running", "failing")

\* The shell gives up in the middle of a line.
GiveUp == /\ state' = [c \in Cmd |-> IF state[c] = "unborn" THEN "ended" ELSE state[c]]
          /\ UNCHANGED <<cmds, content>>

Put(c) == /\ state[c] \in {"running", "failing"} /\ ~Last(c)
          /\ content[c] < PIPE_SIZE
          /\ content' = [content EXCEPT ![c] = @ + 1]
          /\ UNCHANGED <<cmds, state>>

Get(c) == /\ state[c] = "running" /\ ~First(c)
          /\ content[c - 1] > 0
          /\ content' = [content EXCEPT ![c - 1] = @ - 1]
          /\ UNCHANGED <<cmds, state>>

EndOfInput(c) == First(c) \/ (state[c - 1] = "ended" /\ content[c - 1] = 0)
NobodyReads(c) == ~Last(c) /\ state[c + 1] = "ended"

End(c) == \/ Become(c, "failing", "ended")
          \/ /\ \/ cmds[c + 1] = "echo"
                \/ cmds[c + 1] = "cat" /\ EndOfInput(c)
                \/ NobodyReads(c)
             /\ Become(c, "running", "ended")

\* The last thing a command that writes once does.
PutAndEnd(c) == /\ state[c] = "failing" \/ (state[c] = "running" /\ cmds[c + 1] = "echo")
                /\ ~Last(c) /\ content[c] < PIPE_SIZE
                /\ content' = [content EXCEPT ![c] = @ + 1]
                /\ state' = [state EXCEPT ![c] = "ended"]
                /\ UNCHANGED cmds

Next == \/ NewLine \/ GiveUp
        \/ \E c \in Cmd : /\ InLine(c)
                          /\ \/ Start(c) \/ Fail(c) \/ Put(c) \/ Get(c)
                             \/ End(c) \/ PutAndEnd(c)

Spec == Init /\ [][Next]_plvars
=============================================================================
