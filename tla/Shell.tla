------------------------------- MODULE Shell --------------------------------
(***************************************************************************)
(* run_piped_commands of src/my_shell/main.c: the shell makes a pipe       *)
(* between each command and the next, forks the commands one by one,       *)
(* closes its own ends as it goes and waits for all of them.  One action   *)
(* is one close, pipe, fork, execvp, read, write, exit or wait; a call     *)
(* that has to block is an action that is not enabled.  The programs the   *)
(* commands run are not in the repository: they stand for what a program   *)
(* can do with its input and output.                                       *)
(***************************************************************************)
EXTENDS Integers, Sequences

CONSTANTS MaxCmds,     \* bound: commands in a line; the program's is 25
          MaxLines,    \* bound: lines before exit
          PIPE_SIZE    \* what the kernel buffers in a pipe

ASSUME ShellAssumption == /\ MaxCmds \in Nat \ {0} /\ MaxLines \in Nat
                          /\ PIPE_SIZE \in Nat \ {0}

SEND == 1
RECV == 0

Cmd == 0 .. MaxCmds - 1     \* values of curr_cmd
ShellId == -1
None == -1                  \* no pipe yet, or the terminal

\* echo writes once and ends, cat copies its input until the end of it, yes
\* writes for as long as somebody reads.
Kind == {"echo", "cat", "yes"}
Lines == UNION {[1 .. n -> Kind] : n \in 1 .. MaxCmds}

VARIABLES shell,           \* where the shell is
          lines,           \* lines read so far
          cmds,            \* the commands of the line, by what they do
          curr_cmd,        \* the loop counters of lines 138 and 231
          input_pipe,      \* the pair of descriptors, by the command that
          output_pipe,     \*   writes into the pipe
          fds,             \* the pipe ends each process has open
          proc,            \* where each child is
          pair,            \* its copies of input_pipe and output_pipe
          stdin, stdout,   \* what they are redirected to
          buffered         \* what each pipe holds

svars == <<shell, lines, cmds, curr_cmd, input_pipe, output_pipe>>
cvars == <<proc, pair, stdin, stdout>>
vars == <<svars, fds, cvars, buffered>>

num_cmds == Len(cmds)

Ends(p) == IF p = None THEN {} ELSE {<<p, SEND>>, <<p, RECV>>}
Close(id, p, end) == fds' = [fds EXCEPT ![id] = @ \ {<<p, end>>}]
Held(p, end) == \E id \in DOMAIN fds : <<p, end>> \in fds[id]

-----------------------------------------------------------------------------
(* The shell                                                               *)

ShellGo(from, to) == shell = from /\ shell' = to

\* A call failed and assert_polite exits, or an assertion aborts.
ShellFails(from) == /\ ShellGo(from, "failed")
                    /\ fds' = [fds EXCEPT ![ShellId] = {}]
                    /\ UNCHANGED <<lines, cmds, curr_cmd, input_pipe, output_pipe, cvars,
                                   buffered>>

\* A new line: its pipes and its children are new.
GetLine == /\ ShellGo("prompt", "close_send") /\ lines < MaxLines
           /\ lines' = lines + 1
           /\ cmds' \in Lines
           /\ curr_cmd' = 0 /\ input_pipe' = None /\ output_pipe' = None
           /\ proc' = [c \in Cmd |-> "unborn"]
           /\ pair' = [c \in Cmd |-> <<None, None>>]
           /\ stdin' = [c \in Cmd |-> None] /\ stdout' = [c \in Cmd |-> None]
           /\ buffered' = [c \in Cmd |-> 0]
           /\ UNCHANGED fds

\* "exit", or the end of the input.
ExitShell == /\ ShellGo("prompt", "exited")
             /\ UNCHANGED <<lines, cmds, curr_cmd, input_pipe, output_pipe, fds, cvars,
                            buffered>>

\* A command of six words leaves no room for the NULL in argv, and the assertion
\* reads what is behind it.  The words of a command are ShellWords' matter: here
\* any command may have six.
AssertArgv == curr_cmd < num_cmds /\ ShellFails("close_send")

\* A mutant: a loop to num_cmds inclusive.
LoopOnceMore == /\ curr_cmd <= num_cmds
                /\ ShellGo("close_send", "close_recv")
                /\ Close(ShellId, input_pipe, SEND)
                /\ UNCHANGED <<lines, cmds, curr_cmd, input_pipe, output_pipe, cvars,
                               buffered>>

\* Lines 159-160, at the head of the loop.
CloseInputSend == /\ curr_cmd < num_cmds
                  /\ ShellGo("close_send", "close_recv")
                  /\ Close(ShellId, input_pipe, SEND)
                  /\ UNCHANGED <<lines, cmds, curr_cmd, input_pipe, output_pipe, cvars,
                                 buffered>>

\* A mutant: the new command reads from the pipe of the one before.
KeepInput == /\ ShellGo("close_recv", "pipe")
             /\ Close(ShellId, input_pipe, RECV)
             /\ input_pipe' = IF input_pipe = None THEN output_pipe ELSE input_pipe
             /\ UNCHANGED <<lines, cmds, curr_cmd, output_pipe, cvars, buffered>>

\* Lines 161-165: the output pipe of the last command is the input of this.
CloseInputRecv == /\ ShellGo("close_recv", "pipe")
                  /\ Close(ShellId, input_pipe, RECV)
                  /\ input_pipe' = output_pipe
                  /\ UNCHANGED <<lines, cmds, curr_cmd, output_pipe, cvars, buffered>>

MakePipe == \/ /\ curr_cmd + 1 # num_cmds
               /\ ShellGo("pipe", "fork")
               /\ output_pipe' = curr_cmd
               /\ fds' = [fds EXCEPT ![ShellId] = @ \cup Ends(curr_cmd)]
               /\ UNCHANGED <<lines, cmds, curr_cmd, input_pipe, cvars, buffered>>
            \/ curr_cmd + 1 # num_cmds /\ ShellFails("pipe")
            \/ /\ curr_cmd + 1 = num_cmds
               /\ ShellGo("pipe", "fork")
               /\ UNCHANGED <<lines, cmds, curr_cmd, input_pipe, output_pipe, fds, cvars,
                              buffered>>

Fork == \/ /\ ShellGo("fork", "close_send")
           /\ fds' = [fds EXCEPT ![curr_cmd] = fds[ShellId]]
           /\ proc' = [proc EXCEPT ![curr_cmd] = "stdin"]
           /\ pair' = [pair EXCEPT ![curr_cmd] = <<input_pipe, output_pipe>>]
           /\ curr_cmd' = curr_cmd + 1
           /\ UNCHANGED <<lines, cmds, input_pipe, output_pipe, stdin, stdout, buffered>>
        \/ ShellFails("fork")

\* Lines 226-229, behind the loop.
CloseOutputSend == /\ curr_cmd >= num_cmds
                   /\ ShellGo("close_send", "close_output")
                   /\ Close(ShellId, output_pipe, SEND)
                   /\ UNCHANGED <<lines, cmds, curr_cmd, input_pipe, output_pipe, cvars,
                                  buffered>>

CloseOutputRecv == /\ ShellGo("close_output", "wait")
                   /\ Close(ShellId, output_pipe, RECV)
                   /\ curr_cmd' = 0
                   /\ UNCHANGED <<lines, cmds, input_pipe, output_pipe, cvars, buffered>>

\* A mutant: only for the last command, as if the others must have ended.
WaitForLast == /\ ShellGo("wait", "prompt")
               /\ proc[num_cmds - 1] = "ended"
               /\ UNCHANGED <<lines, cmds, curr_cmd, input_pipe, output_pipe, fds, cvars,
                              buffered>>

\* wait(NULL), num_cmds times: some child that has ended and was not waited for.
Wait == /\ UNCHANGED <<lines, cmds, input_pipe, output_pipe, fds, pair, stdin, stdout,
                       buffered>>
        /\ \/ /\ curr_cmd < num_cmds /\ ShellGo("wait", "wait")
              /\ \E c \in Cmd : /\ proc[c] = "ended"
                                /\ proc' = [proc EXCEPT ![c] = "reaped"]
              /\ curr_cmd' = curr_cmd + 1
           \/ /\ curr_cmd >= num_cmds /\ ShellGo("wait", "prompt")
              /\ UNCHANGED <<proc, curr_cmd>>

ShellNext == \/ GetLine \/ AssertArgv \/ CloseInputSend \/ CloseInputRecv \/ MakePipe \/ Fork
             \/ CloseOutputSend \/ CloseOutputRecv \/ Wait

-----------------------------------------------------------------------------
(* A child: redirections, execvp, and the program                          *)

ChildGo(c, from, to) == /\ proc[c] = from
                        /\ proc' = [proc EXCEPT ![c] = to]
                        /\ UNCHANGED <<svars, pair>>

Exit(c, from) == /\ ChildGo(c, from, "ended")
                 /\ fds' = [fds EXCEPT ![c] = {}]
                 /\ UNCHANGED <<stdin, stdout>>

\* A mutant: the child keeps the sending end of its own input.
KeepSend(c) == /\ ChildGo(c, "stdin", "stdout")
               /\ stdin' = [stdin EXCEPT ![c] = IF c # 0 THEN pair[c][1] ELSE None]
               /\ UNCHANGED <<fds, stdout, buffered>>

\* Lines 180-191; dup2 of a descriptor that is open does not fail.
RedirectStdin(c) ==
  /\ ChildGo(c, "stdin", "stdout")
  /\ IF c # 0
     THEN Close(c, pair[c][1], SEND) /\ stdin' = [stdin EXCEPT ![c] = pair[c][1]]
     ELSE UNCHANGED <<fds, stdin>>
  /\ UNCHANGED <<stdout, buffered>>

RedirectStdout(c) ==
  /\ ChildGo(c, "stdout", "exec")
  /\ IF c + 1 # num_cmds
     THEN Close(c, pair[c][2], RECV) /\ stdout' = [stdout EXCEPT ![c] = pair[c][2]]
     ELSE UNCHANGED <<fds, stdout>>
  /\ UNCHANGED <<stdin, buffered>>

\* execvp becomes the program, or fails and the child writes an error.
Exec(c) == /\ \/ ChildGo(c, "exec", "read") /\ cmds[c + 1] = "cat"
              \/ ChildGo(c, "exec", "write") /\ cmds[c + 1] = "yes"
              \/ ChildGo(c, "exec", "write_last") /\ cmds[c + 1] = "echo"
              \/ ChildGo(c, "exec", "error")
           /\ UNCHANGED <<fds, stdin, stdout, buffered>>

\* The terminal's user ends the input at once.
EndOfInput(c) == stdin[c] # None => buffered[stdin[c]] = 0 /\ ~Held(stdin[c], SEND)

ReadEOF(c) == EndOfInput(c) /\ Exit(c, "read") /\ UNCHANGED buffered

Read(c) == /\ stdin[c] # None /\ buffered[stdin[c]] > 0
           /\ ChildGo(c, "read", "write")
           /\ buffered' = [buffered EXCEPT ![stdin[c]] = @ - 1]
           /\ UNCHANGED <<fds, stdin, stdout>>

\* Nobody has the receiving end open.
SigPipe(c) == /\ stdout[c] # None /\ ~Held(stdout[c], RECV)
              /\ \E from \in {"write", "write_last", "error"} : Exit(c, from)
              /\ UNCHANGED buffered

Deliver(c) == IF stdout[c] = None THEN UNCHANGED buffered
              ELSE /\ Held(stdout[c], RECV) /\ buffered[stdout[c]] < PIPE_SIZE
                   /\ buffered' = [buffered EXCEPT ![stdout[c]] = @ + 1]

Write(c) == /\ Deliver(c)
            /\ \/ /\ \/ ChildGo(c, "write", "read") /\ cmds[c + 1] = "cat"
                     \/ ChildGo(c, "write", "write") /\ cmds[c + 1] = "yes"
                  /\ UNCHANGED <<fds, stdin, stdout>>
               \/ \E from \in {"write_last", "error"} : Exit(c, from)

ChildNext(c) == \/ RedirectStdin(c) \/ RedirectStdout(c) \/ Exec(c)
                \/ Read(c) \/ ReadEOF(c) \/ Write(c) \/ SigPipe(c)

-----------------------------------------------------------------------------
Init == /\ shell = "prompt" /\ lines = 0 /\ cmds = <<>> /\ curr_cmd = 0
        /\ input_pipe = None /\ output_pipe = None
        /\ fds = [id \in Cmd \cup {ShellId} |-> {}]
        /\ proc = [c \in Cmd |-> "unborn"]
        /\ pair = [c \in Cmd |-> <<None, None>>]
        /\ stdin = [c \in Cmd |-> None] /\ stdout = [c \in Cmd |-> None]
        /\ buffered = [c \in Cmd |-> 0]

Next == ShellNext \/ ExitShell \/ \E c \in Cmd : ChildNext(c)

Spec == Init /\ [][Next]_vars

\* Every process keeps running as long as its next call can return.
FairSpec == Spec /\ WF_vars(ShellNext) /\ \A c \in Cmd : WF_vars(ChildNext(c))

-----------------------------------------------------------------------------
(* Properties                                                              *)

TypeOK ==
  /\ shell \in {"prompt", "close_send", "close_recv", "pipe", "fork", "close_output",
                "wait", "exited", "failed"}
  /\ lines \in 0 .. MaxLines /\ cmds \in Lines \cup {<<>>}
  /\ curr_cmd \in 0 .. num_cmds
  /\ input_pipe \in Cmd \cup {None} /\ output_pipe \in Cmd \cup {None}
  /\ fds \in [Cmd \cup {ShellId} -> SUBSET (Cmd \X {SEND, RECV})]
  /\ proc \in [Cmd -> {"unborn", "stdin", "stdout", "exec", "read", "write",
                       "write_last", "error", "ended", "reaped"}]
  /\ pair \in [Cmd -> (Cmd \cup {None}) \X (Cmd \cup {None})]
  /\ stdin \in [Cmd -> Cmd \cup {None}] /\ stdout \in [Cmd -> Cmd \cup {None}]
  /\ buffered \in [Cmd -> 0 .. PIPE_SIZE]

\* The shell has open what input_pipe and output_pipe name and nothing else, so
\* that it never closes a descriptor twice, and none stays open when it waits
\* or reads the next line (lines 159-171, 226-229).
NoStrayEnds ==
  /\ shell \in {"close_send", "fork"} =>
       fds[ShellId] = Ends(input_pipe) \cup Ends(output_pipe)
  /\ shell = "close_recv" =>
       fds[ShellId] = (Ends(input_pipe) \cup Ends(output_pipe)) \ {<<input_pipe, SEND>>}
  /\ shell = "pipe" => fds[ShellId] = Ends(input_pipe)
  /\ shell = "close_output" => fds[ShellId] = Ends(output_pipe) \ {<<output_pipe, SEND>>}
  /\ shell \in {"prompt", "wait", "exited", "failed"} => fds[ShellId] = {}

State(c) == IF proc[c] = "error" THEN "failing"
            ELSE IF proc[c] \in {"ended", "reaped"} THEN "ended"
            ELSE IF proc[c] # "unborn" THEN "running"
            ELSE IF shell = "failed" THEN "ended" ELSE "unborn"

P == INSTANCE Pipeline WITH state <- [c \in Cmd |-> State(c)], content <- buffered

\* The descriptors implement the pipeline: a command meets the end of its input
\* only when the one before has ended and all of it is read, is stopped only
\* when the one behind has ended, and the prompt comes back behind all of them.
PipelineSpec == P!Spec

\* Something behind each endless writer ends by itself.
Finite == \A k \in 1 .. num_cmds :
            cmds[k] = "yes" => \E j \in k + 1 .. num_cmds : cmds[j] = "echo"

\* Whatever is left open would keep a reader waiting for ever: the prompt comes
\* back (line 231) for every line with an end.
PromptReturns == (shell = "wait" /\ Finite) ~> shell = "prompt"
=============================================================================
