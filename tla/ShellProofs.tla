---------------------------- MODULE ShellProofs -----------------------------
(***************************************************************************)
(* The shell has open what its two pairs of descriptors name, and with its *)
(* children implements the pipeline, for lines and pipes of every length.  *)
(***************************************************************************)
EXTENDS Shell, FiniteSetTheorems, TLAPS

(***************************************************************************)
(* The inductive invariant                                                 *)
(***************************************************************************)

\* Which pipes the pairs name: around the loop's head those of the command
\* before last and of the last one, behind it the last pipe of the line.
HeadInv == shell \in {"close_send", "close_recv"} /\ curr_cmd < num_cmds =>
             /\ output_pipe = curr_cmd - 1
             /\ input_pipe = IF curr_cmd = 0 THEN None ELSE curr_cmd - 2
TailInv == /\ shell = "close_recv" => curr_cmd < num_cmds
           /\ shell = "close_send" /\ curr_cmd = num_cmds => input_pipe = output_pipe
BodyInv == shell \in {"pipe", "fork"} =>
             /\ curr_cmd < num_cmds /\ input_pipe = curr_cmd - 1
             /\ output_pipe = IF shell = "fork" /\ curr_cmd + 1 # num_cmds
                              THEN curr_cmd ELSE curr_cmd - 1

IInv == TypeOK /\ NoStrayEnds /\ HeadInv /\ TailInv /\ BodyInv

-----------------------------------------------------------------------------
(***************************************************************************)
(* Lemmas                                                                  *)
(***************************************************************************)

LEMMA LineLength == ASSUME cmds \in Lines \cup {<<>>}
                    PROVE  num_cmds \in 0 .. MaxCmds
<1>1. CASE cmds = <<>>
  BY <1>1, ShellAssumption DEF num_cmds
<1>2. CASE cmds \in Lines
  <2>1. PICK n \in 1 .. MaxCmds : cmds \in [1 .. n -> Kind]
    BY <1>2 DEF Lines
  <2>2. Len(cmds) = n
    <3>1. cmds \in Seq(Kind) /\ DOMAIN cmds = 1 .. n
      BY <2>1
    <3> QED BY <2>1, <3>1
  <2> QED BY <2>1, <2>2 DEF num_cmds
<1> QED BY <1>1, <1>2

LEMMA Names == /\ ShellId \notin Cmd /\ None \notin Cmd /\ None = -1
               /\ \A c \in Cmd : c \in Nat
BY ShellAssumption DEF ShellId, None, Cmd

\* Closing an end leaves fds of its type, and takes the end from one process.
Fds == [Cmd \cup {ShellId} -> SUBSET (Cmd \X {SEND, RECV})]

LEMMA Closing ==
  ASSUME fds \in Fds, NEW id \in Cmd \cup {ShellId}, NEW p, NEW end, Close(id, p, end)
  PROVE  /\ fds' \in Fds /\ fds'[id] = fds[id] \ {<<p, end>>}
         /\ \A other \in (Cmd \cup {ShellId}) \ {id} : fds'[other] = fds[other]
BY DEF Close, Fds

LEMMA InitInv == Init => IInv
<1> SUFFICES ASSUME Init PROVE IInv
  OBVIOUS
<1> USE DEF Init
<1>1. cmds = <<>> /\ num_cmds = 0
  BY DEF num_cmds
<1>2. TypeOK
  <2>1. /\ fds \in Fds /\ proc \in [Cmd -> {"unborn"}] /\ buffered \in [Cmd -> {0}]
        /\ stdin \in [Cmd -> {None}] /\ stdout \in [Cmd -> {None}]
        /\ pair \in [Cmd -> {None} \X {None}]
    BY DEF Fds
  <2>2. 0 \in 0 .. MaxLines /\ 0 \in 0 .. PIPE_SIZE
    BY ShellAssumption
  <2> QED BY <1>1, <2>1, <2>2 DEF TypeOK, Fds
<1>3. NoStrayEnds
  BY DEF NoStrayEnds
<1>4. HeadInv /\ TailInv /\ BodyInv
  BY DEF HeadInv, TailInv, BodyInv
<1> QED BY <1>2, <1>3, <1>4 DEF IInv

-----------------------------------------------------------------------------
(***************************************************************************)
(* Every step preserves the invariant                                      *)
(***************************************************************************)

\* A child opens and closes its own ends only.
LEMMA ChildStep == ASSUME IInv, NEW c \in Cmd, ChildNext(c) PROVE IInv'
<1>1. /\ TypeOK /\ NoStrayEnds /\ HeadInv /\ TailInv /\ BodyInv
  BY DEF IInv
<1>2. /\ fds \in Fds /\ proc \in [Cmd -> {"unborn", "stdin", "stdout", "exec", "read", "write",
                       "write_last", "error", "ended", "reaped"}]
      /\ pair \in [Cmd -> (Cmd \cup {None}) \X (Cmd \cup {None})]
      /\ stdin \in [Cmd -> Cmd \cup {None}] /\ stdout \in [Cmd -> Cmd \cup {None}]
      /\ buffered \in [Cmd -> 0 .. PIPE_SIZE]
  BY <1>1 DEF TypeOK, Fds
<1>3. c # ShellId /\ c \in Cmd \cup {ShellId} /\ ShellId \in Cmd \cup {ShellId}
  BY Names
<1>4. UNCHANGED <<svars, pair>>
  BY DEF ChildNext, RedirectStdin, RedirectStdout, Exec, Read, ReadEOF, Write, SigPipe, Exit,
         ChildGo
<1>5. /\ fds' \in Fds /\ fds'[ShellId] = fds[ShellId]
  <2>1. ASSUME NEW from, Exit(c, from) PROVE fds' \in Fds /\ fds'[ShellId] = fds[ShellId]
    BY <1>2, <1>3, <2>1 DEF Exit, Fds
  <2>2. ASSUME NEW p, NEW end, Close(c, p, end)
        PROVE  fds' \in Fds /\ fds'[ShellId] = fds[ShellId]
    BY <1>2, <1>3, <2>2, Closing
  <2>3. CASE UNCHANGED fds
    BY <1>2, <2>3
  <2> QED BY <2>1, <2>2, <2>3
          DEF ChildNext, RedirectStdin, RedirectStdout, Exec, Read, ReadEOF, Write, SigPipe
<1>6. proc' \in [Cmd -> {"unborn", "stdin", "stdout", "exec", "read", "write",
                         "write_last", "error", "ended", "reaped"}]
  BY <1>2 DEF ChildNext, RedirectStdin, RedirectStdout, Exec, Read, ReadEOF, Write, SigPipe,
              Exit, ChildGo
<1>7. stdin' \in [Cmd -> Cmd \cup {None}] /\ stdout' \in [Cmd -> Cmd \cup {None}]
  <2>1. pair[c][1] \in Cmd \cup {None} /\ pair[c][2] \in Cmd \cup {None}
    BY <1>2
  <2> QED BY <1>2, <2>1 DEF ChildNext, RedirectStdin, RedirectStdout, Exec, Read, ReadEOF,
                            Write, SigPipe, Exit
<1>8. buffered' \in [Cmd -> 0 .. PIPE_SIZE]
  <2>1. CASE UNCHANGED buffered
    BY <1>2, <2>1
  <2>2. CASE Read(c)
    <3>1. stdin[c] \in Cmd /\ buffered[stdin[c]] \in 0 .. PIPE_SIZE
      BY <1>2, <2>2 DEF Read
    <3>2. buffered[stdin[c]] > 0 /\ buffered' = [buffered EXCEPT ![stdin[c]] = @ - 1]
      BY <2>2 DEF Read
    <3>3. buffered[stdin[c]] - 1 \in 0 .. PIPE_SIZE
      BY <3>1, <3>2, ShellAssumption
    <3> QED BY <1>2, <3>1, <3>2, <3>3
  <2>3. CASE Deliver(c) /\ stdout[c] # None
    <3>1. stdout[c] \in Cmd /\ buffered[stdout[c]] \in 0 .. PIPE_SIZE
      BY <1>2, <2>3
    <3>2. /\ buffered[stdout[c]] < PIPE_SIZE
          /\ buffered' = [buffered EXCEPT ![stdout[c]] = @ + 1]
      BY <2>3 DEF Deliver
    <3>3. buffered[stdout[c]] + 1 \in 0 .. PIPE_SIZE
      BY <3>1, <3>2, ShellAssumption
    <3> QED BY <1>2, <3>1, <3>2, <3>3
  <2>4. CASE Deliver(c) /\ stdout[c] = None
    BY <1>2, <2>4 DEF Deliver
  <2> QED BY <2>1, <2>2, <2>3, <2>4
          DEF ChildNext, RedirectStdin, RedirectStdout, Exec, ReadEOF, Write, SigPipe
<1>9. /\ UNCHANGED <<shell, lines, cmds, curr_cmd, input_pipe, output_pipe, pair>>
      /\ num_cmds' = num_cmds
  BY <1>4 DEF svars, num_cmds
<1>10. TypeOK'
  BY <1>1, <1>2, <1>5, <1>6, <1>7, <1>8, <1>9 DEF TypeOK, Fds
<1>11. NoStrayEnds' /\ HeadInv' /\ TailInv' /\ BodyInv'
  BY <1>1, <1>5, <1>9 DEF NoStrayEnds, HeadInv, TailInv, BodyInv
<1> QED BY <1>10, <1>11 DEF IInv

LEMMA StutterStep == ASSUME IInv, UNCHANGED vars PROVE IInv'
<1>1. /\ UNCHANGED <<shell, lines, cmds, curr_cmd, input_pipe, output_pipe, fds, proc, pair,
                     stdin, stdout, buffered>>
      /\ num_cmds' = num_cmds
  BY DEF vars, svars, cvars, num_cmds
<1> QED BY <1>1 DEF IInv, TypeOK, NoStrayEnds, HeadInv, TailInv, BodyInv

\* A step of the shell, with one case for each of its actions.
LEMMA ShellStep == ASSUME IInv, ShellNext PROVE IInv'
<1>1. /\ TypeOK /\ NoStrayEnds /\ HeadInv /\ TailInv /\ BodyInv
  BY DEF IInv
<1>2. /\ fds \in Fds /\ ShellId \in Cmd \cup {ShellId}
      /\ curr_cmd \in 0 .. num_cmds /\ num_cmds \in 0 .. MaxCmds
      /\ num_cmds \in Nat /\ curr_cmd \in Nat
      /\ input_pipe \in Cmd \cup {None} /\ output_pipe \in Cmd \cup {None}
  <2>1. /\ fds \in Fds /\ curr_cmd \in 0 .. num_cmds /\ cmds \in Lines \cup {<<>>}
        /\ input_pipe \in Cmd \cup {None} /\ output_pipe \in Cmd \cup {None}
    BY <1>1 DEF TypeOK, Fds
  <2>2. num_cmds \in 0 .. MaxCmds
    BY <2>1, LineLength
  <2>3. num_cmds \in Nat
    BY <2>2, ShellAssumption
  <2>4. curr_cmd \in Nat
    BY <2>1, <2>3
  <2> QED BY <2>1, <2>2, <2>3, <2>4
<1>3. ASSUME curr_cmd < num_cmds PROVE curr_cmd \in Cmd
  BY <1>2, <1>3, ShellAssumption DEF Cmd
<1>4. ASSUME cmds' = cmds PROVE num_cmds' = num_cmds
  BY <1>4 DEF num_cmds
<1> DEFINE Rest == UNCHANGED <<lines, cmds, proc, pair, stdin, stdout, buffered>>
<1>5. ASSUME Rest, fds' \in Fds, curr_cmd' \in 0 .. num_cmds,
             input_pipe' \in Cmd \cup {None}, output_pipe' \in Cmd \cup {None},
             shell' \in {"prompt", "close_send", "close_recv", "pipe", "fork",
                         "close_output", "wait", "exited", "failed"}
      PROVE  TypeOK'
  BY <1>1, <1>4, <1>5 DEF TypeOK, Fds
<1>6. CASE GetLine
  <2>1. /\ shell = "prompt" /\ shell' = "close_send" /\ lines < MaxLines /\ lines' = lines + 1
        /\ cmds' \in Lines /\ curr_cmd' = 0 /\ input_pipe' = None /\ output_pipe' = None
        /\ proc' = [c \in Cmd |-> "unborn"] /\ pair' = [c \in Cmd |-> <<None, None>>]
        /\ stdin' = [c \in Cmd |-> None] /\ stdout' = [c \in Cmd |-> None]
        /\ buffered' = [c \in Cmd |-> 0] /\ UNCHANGED fds
    BY <1>6 DEF GetLine, ShellGo
  <2>2. num_cmds' \in 0 .. MaxCmds
    <3>1. cmds' \in Lines \cup {<<>>}
      BY <2>1
    <3>2. ASSUME NEW l \in Lines \cup {<<>>} PROVE Len(l) \in 0 .. MaxCmds
      <4>1. CASE l = <<>>
        BY <4>1, ShellAssumption
      <4>2. CASE l \in Lines
        <5>1. PICK n \in 1 .. MaxCmds : l \in [1 .. n -> Kind]
          BY <4>2 DEF Lines
        <5>2. l \in Seq(Kind) /\ DOMAIN l = 1 .. n
          BY <5>1
        <5>3. Len(l) = n
          BY <5>1, <5>2
        <5> QED BY <5>1, <5>3
      <4> QED BY <4>1, <4>2
    <3> QED BY <3>1, <3>2 DEF num_cmds
  <2>3. TypeOK'
    <3>1. lines' \in 0 .. MaxLines /\ 0 \in 0 .. PIPE_SIZE /\ curr_cmd' \in 0 .. num_cmds'
      <4>1. lines \in 0 .. MaxLines
        BY <1>1 DEF TypeOK
      <4>2. lines + 1 \in 0 .. MaxLines
        BY <2>1, <4>1, ShellAssumption
      <4>3. 0 \in 0 .. num_cmds'
        BY <2>2, ShellAssumption
      <4> QED BY <2>1, <4>2, <4>3, ShellAssumption
    <3>2. /\ buffered' \in [Cmd -> 0 .. PIPE_SIZE] /\ stdin' \in [Cmd -> Cmd \cup {None}]
          /\ stdout' \in [Cmd -> Cmd \cup {None}]
          /\ pair' \in [Cmd -> (Cmd \cup {None}) \X (Cmd \cup {None})]
      BY <2>1, <3>1
    <3> QED BY <1>2, <2>1, <3>1, <3>2 DEF TypeOK, Fds
  <2>4. NoStrayEnds'
    BY <1>1, <2>1 DEF NoStrayEnds, Ends
  <2>5. HeadInv' /\ TailInv' /\ BodyInv'
    <3>1. HeadInv'
      BY <2>1 DEF HeadInv, None
    <3>2. TailInv'
      BY <2>1 DEF TailInv
    <3>3. BodyInv'
      BY <2>1 DEF BodyInv
    <3> QED BY <3>1, <3>2, <3>3
  <2> QED BY <2>3, <2>4, <2>5 DEF IInv
<1>7. CASE AssertArgv \/ ShellFails("pipe") \/ ShellFails("fork")
  <2>1. /\ shell' = "failed" /\ fds' = [fds EXCEPT ![ShellId] = {}] /\ Rest
        /\ UNCHANGED <<curr_cmd, input_pipe, output_pipe>>
    BY <1>7 DEF AssertArgv, ShellFails, ShellGo, cvars
  <2>2. fds' \in Fds /\ fds'[ShellId] = {}
    BY <1>2, <2>1 DEF Fds
  <2>3. TypeOK'
    BY <1>2, <1>5, <2>1, <2>2
  <2> QED BY <2>1, <2>2, <2>3 DEF IInv, NoStrayEnds, HeadInv, TailInv, BodyInv
<1>8. CASE CloseInputSend
  <2>1. /\ shell = "close_send" /\ shell' = "close_recv" /\ curr_cmd < num_cmds
        /\ Close(ShellId, input_pipe, SEND) /\ Rest
        /\ UNCHANGED <<curr_cmd, input_pipe, output_pipe>>
    BY <1>8 DEF CloseInputSend, ShellGo, cvars
  <2>2. fds' \in Fds /\ fds'[ShellId] = fds[ShellId] \ {<<input_pipe, SEND>>}
    BY <1>2, <2>1, Closing
  <2>3. TypeOK'
    BY <1>2, <1>5, <2>1, <2>2
  <2>4. NoStrayEnds'
    BY <1>1, <2>1, <2>2 DEF NoStrayEnds, Ends
  <2>5. HeadInv' /\ TailInv' /\ BodyInv'
    BY <1>1, <1>4, <2>1 DEF HeadInv, TailInv, BodyInv
  <2> QED BY <2>3, <2>4, <2>5 DEF IInv
<1>9. CASE CloseInputRecv
  <2>1. /\ shell = "close_recv" /\ shell' = "pipe"
        /\ Close(ShellId, input_pipe, RECV) /\ Rest /\ input_pipe' = output_pipe
        /\ UNCHANGED <<curr_cmd, output_pipe>>
    BY <1>9 DEF CloseInputRecv, ShellGo, cvars
  <2>2. fds' \in Fds /\ fds'[ShellId] = fds[ShellId] \ {<<input_pipe, RECV>>}
    BY <1>2, <2>1, Closing
  <2>3. TypeOK'
    BY <1>2, <1>5, <2>1, <2>2
  <2>4. /\ curr_cmd < num_cmds /\ output_pipe = curr_cmd - 1
        /\ input_pipe = IF curr_cmd = 0 THEN None ELSE curr_cmd - 2
    BY <1>1, <2>1 DEF HeadInv, TailInv
  <2>5. input_pipe # output_pipe \/ (input_pipe = None /\ output_pipe = None)
    BY <1>2, <2>4 DEF None
  <2>6. fds'[ShellId] = Ends(output_pipe)
    <3>1. fds[ShellId] = (Ends(input_pipe) \cup Ends(output_pipe)) \ {<<input_pipe, SEND>>}
      BY <1>1, <2>1 DEF NoStrayEnds
    <3>2. CASE input_pipe = None
      BY <2>2, <2>5, <3>1, <3>2, <1>2, Names DEF Ends
    <3>3. CASE input_pipe # None
      <4>1. \A e \in Ends(output_pipe) : e # <<input_pipe, SEND>> /\ e # <<input_pipe, RECV>>
        BY <2>5, <3>3 DEF Ends
      <4>2. Ends(input_pipe) = {<<input_pipe, SEND>>, <<input_pipe, RECV>>}
        BY <3>3 DEF Ends
      <4> QED BY <2>2, <3>1, <4>1, <4>2
    <3> QED BY <3>2, <3>3
  <2>7. NoStrayEnds'
    BY <2>1, <2>6 DEF NoStrayEnds, Ends
  <2>8. HeadInv' /\ TailInv' /\ BodyInv'
    BY <1>4, <2>1, <2>4 DEF HeadInv, TailInv, BodyInv
  <2> QED BY <2>3, <2>7, <2>8 DEF IInv
<1>10. CASE MakePipe /\ shell' = "fork" /\ curr_cmd + 1 # num_cmds
  <2>1. /\ shell = "pipe" /\ output_pipe' = curr_cmd /\ Rest
        /\ fds' = [fds EXCEPT ![ShellId] = @ \cup Ends(curr_cmd)]
        /\ UNCHANGED <<curr_cmd, input_pipe>>
    BY <1>10 DEF MakePipe, ShellGo, ShellFails, cvars
  <2>2. curr_cmd < num_cmds /\ input_pipe = curr_cmd - 1 /\ curr_cmd \in Cmd
    BY <1>1, <1>3, <2>1 DEF BodyInv
  <2>3. fds[ShellId] = Ends(input_pipe)
    BY <1>1, <2>1 DEF NoStrayEnds
  <2>4. Ends(curr_cmd) \subseteq Cmd \X {SEND, RECV}
    BY <2>2 DEF Ends
  <2>5. fds' \in Fds /\ fds'[ShellId] = Ends(input_pipe) \cup Ends(curr_cmd)
    BY <1>2, <2>1, <2>3, <2>4 DEF Fds
  <2>6. TypeOK'
    BY <1>2, <1>5, <1>10, <2>1, <2>2, <2>5
  <2>7. NoStrayEnds'
    BY <1>10, <2>1, <2>5 DEF NoStrayEnds, Ends
  <2>8. HeadInv' /\ TailInv' /\ BodyInv'
    BY <1>4, <1>10, <2>1, <2>2 DEF HeadInv, TailInv, BodyInv
  <2> QED BY <2>6, <2>7, <2>8 DEF IInv
<1>11. CASE MakePipe /\ shell' = "fork" /\ curr_cmd + 1 = num_cmds
  <2>1. /\ shell = "pipe" /\ Rest /\ UNCHANGED <<fds, curr_cmd, input_pipe, output_pipe>>
    BY <1>11 DEF MakePipe, ShellGo, ShellFails, cvars
  <2>2. /\ curr_cmd < num_cmds /\ input_pipe = curr_cmd - 1 /\ output_pipe = curr_cmd - 1
        /\ fds[ShellId] = Ends(input_pipe)
    BY <1>1, <2>1 DEF BodyInv, NoStrayEnds
  <2>3. TypeOK'
    BY <1>2, <1>5, <1>11, <2>1
  <2>4. NoStrayEnds'
    BY <1>11, <2>1, <2>2 DEF NoStrayEnds, Ends
  <2>5. HeadInv' /\ TailInv' /\ BodyInv'
    BY <1>4, <1>11, <2>1, <2>2 DEF HeadInv, TailInv, BodyInv
  <2> QED BY <2>3, <2>4, <2>5 DEF IInv
<1>12. CASE Fork /\ shell' = "close_send"
  <2>1. /\ shell = "fork" /\ curr_cmd' = curr_cmd + 1
        /\ fds' = [fds EXCEPT ![curr_cmd] = fds[ShellId]]
        /\ proc' = [proc EXCEPT ![curr_cmd] = "stdin"]
        /\ pair' = [pair EXCEPT ![curr_cmd] = <<input_pipe, output_pipe>>]
        /\ UNCHANGED <<lines, cmds, input_pipe, output_pipe, stdin, stdout, buffered>>
    BY <1>12 DEF Fork, ShellGo, ShellFails
  <2>2. /\ curr_cmd < num_cmds /\ input_pipe = curr_cmd - 1
        /\ output_pipe = IF curr_cmd + 1 # num_cmds THEN curr_cmd ELSE curr_cmd - 1
    BY <1>1, <2>1 DEF BodyInv
  <2>3. curr_cmd \in Cmd /\ curr_cmd # ShellId
    BY <1>3, <2>2, Names
  <2>4. fds' \in Fds /\ fds'[ShellId] = fds[ShellId]
    BY <1>2, <2>1, <2>3 DEF Fds
  <2>5. TypeOK'
    <3>1. curr_cmd + 1 \in 0 .. num_cmds /\ num_cmds' = num_cmds
      BY <1>2, <1>4, <2>1, <2>2
    <3>2. proc' \in [Cmd -> {"unborn", "stdin", "stdout", "exec", "read", "write",
                             "write_last", "error", "ended", "reaped"}]
      BY <1>1, <2>1 DEF TypeOK
    <3>3. pair' \in [Cmd -> (Cmd \cup {None}) \X (Cmd \cup {None})]
      BY <1>1, <1>2, <2>1 DEF TypeOK
    <3> QED BY <1>1, <1>12, <2>1, <2>4, <3>1, <3>2, <3>3 DEF TypeOK, Fds
  <2>6. NoStrayEnds'
    BY <1>1, <1>12, <2>1, <2>4 DEF NoStrayEnds, Ends
  <2>7. curr_cmd' \in Nat /\ curr_cmd' # 0 /\ curr_cmd = curr_cmd' - 1
        /\ curr_cmd - 1 = curr_cmd' - 2 /\ num_cmds' = num_cmds
    BY <1>2, <1>4, <2>1
  <2>8. HeadInv'
    BY <1>2, <1>12, <2>1, <2>2, <2>7 DEF HeadInv
  <2>9. TailInv' /\ BodyInv'
    BY <1>2, <1>12, <2>1, <2>2, <2>7 DEF TailInv, BodyInv
  <2> QED BY <2>5, <2>6, <2>8, <2>9 DEF IInv
<1>13. CASE CloseOutputSend
  <2>1. /\ shell = "close_send" /\ shell' = "close_output" /\ curr_cmd >= num_cmds
        /\ Close(ShellId, output_pipe, SEND) /\ Rest
        /\ UNCHANGED <<curr_cmd, input_pipe, output_pipe>>
    BY <1>13 DEF CloseOutputSend, ShellGo, cvars
  <2>2. fds' \in Fds /\ fds'[ShellId] = fds[ShellId] \ {<<output_pipe, SEND>>}
    BY <1>2, <2>1, Closing
  <2>3. TypeOK'
    BY <1>2, <1>5, <2>1, <2>2
  <2>4. input_pipe = output_pipe
    BY <1>1, <1>2, <2>1 DEF TailInv
  <2>5. fds'[ShellId] = Ends(output_pipe) \ {<<output_pipe, SEND>>}
    BY <1>1, <2>1, <2>2, <2>4 DEF NoStrayEnds
  <2>6. NoStrayEnds'
    BY <2>1, <2>5 DEF NoStrayEnds, Ends
  <2> QED BY <2>1, <2>3, <2>6 DEF IInv, HeadInv, TailInv, BodyInv
<1>14. CASE CloseOutputRecv
  <2>1. /\ shell = "close_output" /\ shell' = "wait" /\ curr_cmd' = 0
        /\ Close(ShellId, output_pipe, RECV) /\ Rest
        /\ UNCHANGED <<input_pipe, output_pipe>>
    BY <1>14 DEF CloseOutputRecv, ShellGo, cvars
  <2>2. fds' \in Fds /\ fds'[ShellId] = fds[ShellId] \ {<<output_pipe, RECV>>}
    BY <1>2, <2>1, Closing
  <2>3. TypeOK'
    BY <1>2, <1>5, <2>1, <2>2
  <2>4. fds'[ShellId] = {}
    BY <1>1, <2>1, <2>2 DEF NoStrayEnds, Ends
  <2>5. NoStrayEnds'
    BY <2>1, <2>4 DEF NoStrayEnds
  <2> QED BY <2>1, <2>3, <2>5 DEF IInv, HeadInv, TailInv, BodyInv
<1>15. CASE Wait
  <2>1. /\ shell = "wait" /\ shell' \in {"wait", "prompt"}
        /\ UNCHANGED <<lines, cmds, input_pipe, output_pipe, fds, pair, stdin, stdout,
                       buffered>>
    BY <1>15 DEF Wait, ShellGo
  <2>2. curr_cmd' \in 0 .. num_cmds
    BY <1>2, <1>15 DEF Wait
  <2>3. proc' \in [Cmd -> {"unborn", "stdin", "stdout", "exec", "read", "write",
                           "write_last", "error", "ended", "reaped"}]
    BY <1>1, <1>15 DEF Wait, TypeOK
  <2>4. TypeOK'
    BY <1>1, <1>4, <2>1, <2>2, <2>3 DEF TypeOK
  <2>5. NoStrayEnds'
    BY <1>1, <2>1 DEF NoStrayEnds
  <2> QED BY <2>1, <2>4, <2>5 DEF IInv, HeadInv, TailInv, BodyInv
<1>16. MakePipe => \/ ShellFails("pipe")
                   \/ shell' = "fork" /\ curr_cmd + 1 # num_cmds
                   \/ shell' = "fork" /\ curr_cmd + 1 = num_cmds
  BY DEF MakePipe, ShellGo
<1>17. Fork => ShellFails("fork") \/ shell' = "close_send"
  BY DEF Fork, ShellGo
<1> QED BY <1>6, <1>7, <1>8, <1>9, <1>10, <1>11, <1>12, <1>13, <1>14, <1>15, <1>16, <1>17
        DEF ShellNext

LEMMA ExitStep == ASSUME IInv, ExitShell PROVE IInv'
<1>1. /\ shell = "prompt" /\ shell' = "exited" /\ num_cmds' = num_cmds
      /\ UNCHANGED <<lines, cmds, curr_cmd, input_pipe, output_pipe, fds, proc, pair, stdin,
                     stdout, buffered>>
  BY DEF ExitShell, ShellGo, cvars, num_cmds
<1> QED BY <1>1 DEF IInv, TypeOK, NoStrayEnds, HeadInv, TailInv, BodyInv

LEMMA StepInv == IInv /\ [Next]_vars => IInv'
BY ChildStep, ShellStep, ExitStep, StutterStep DEF Next

-----------------------------------------------------------------------------
(***************************************************************************)
(* Theorems                                                                *)
(***************************************************************************)

\* The invariant: during the loop of lines 138-224 the two pairs name the pipes
\* in front of and behind the command about to be forked.
THEOREM Invariance == Spec => []IInv
BY InitInv, StepInv, PTL DEF Spec

\* Every variable keeps its type; above all no descriptor is a pair nobody made.
THEOREM TypeCorrect == Spec => []TypeOK
<1>1. IInv => TypeOK
  BY DEF IInv
<1> QED BY <1>1, Invariance, PTL

\* The shell has open exactly what its pairs name at every turn of the loop, and
\* nothing when it waits (lines 231-232), prompts or has given up: for lines of
\* any length no descriptor leaks from one command line to the next.
THEOREM EndsClosed == Spec => []NoStrayEnds
<1>1. IInv => NoStrayEnds
  BY DEF IInv
<1> QED BY <1>1, Invariance, PTL

-----------------------------------------------------------------------------
(***************************************************************************)
(* What the children have open                                             *)
(***************************************************************************)

\* Command c reads from the pipe of c - 1 and writes into its own, if it is not
\* the last: what a child has open, and what its redirections have done so far.
Gone == {"unborn", "ended", "reaped"}
Out(c) == IF c + 1 # num_cmds THEN c ELSE None
EndsOf(c) ==
  IF proc[c] \in Gone THEN {}
  ELSE (IF proc[c] = "stdin" THEN Ends(c - 1) ELSE Ends(c - 1) \ {<<c - 1, SEND>>})
       \cup (IF proc[c] \in {"stdin", "stdout"} THEN Ends(Out(c))
             ELSE Ends(Out(c)) \ {<<Out(c), RECV>>})

ChildOK(c) ==
  /\ fds[c] = EndsOf(c)
  /\ proc[c] \in {"stdin", "stdout"} =>
       pair[c][1] = c - 1 /\ (c + 1 # num_cmds => pair[c][2] = c)
  /\ stdin[c] = IF proc[c] \in {"unborn", "stdin"} THEN None ELSE c - 1
  /\ stdout[c] = IF proc[c] \in {"unborn", "stdin", "stdout"} THEN None ELSE Out(c)
  /\ proc[c] = "read" => cmds[c + 1] = "cat"
  /\ proc[c] = "write_last" => cmds[c + 1] = "echo"
ChildInv == \A c \in Cmd : ChildOK(c)

\* The children are born in their order, and the waits collect all of them.
Reaped == {c \in Cmd : proc[c] = "reaped"}
InLoop == shell \in {"close_send", "close_recv", "pipe", "fork"}
LineInv ==
  /\ InLoop \/ shell = "failed" => \A c \in Cmd : proc[c] # "unborn" <=> c < curr_cmd
  /\ shell \in {"close_output", "wait", "prompt", "exited"} =>
       \A c \in Cmd : proc[c] # "unborn" <=> c < num_cmds
  /\ InLoop \/ shell = "close_output" => Reaped = {}
  /\ shell = "wait" => Cardinality(Reaped) = curr_cmd
  /\ shell \in {"prompt", "exited"} => \A c \in Cmd : proc[c] \in {"unborn", "reaped"}

PipeInv == IInv /\ ChildInv /\ LineInv

LEMMA Types ==
  ASSUME IInv
  PROVE  /\ fds \in Fds /\ ShellId \in Cmd \cup {ShellId} /\ ShellId \notin Cmd
         /\ curr_cmd \in 0 .. num_cmds /\ num_cmds \in 0 .. MaxCmds
         /\ num_cmds \in Nat /\ curr_cmd \in Nat /\ cmds \in Lines \cup {<<>>}
         /\ proc \in [Cmd -> {"unborn", "stdin", "stdout", "exec", "read", "write",
                              "write_last", "error", "ended", "reaped"}]
         /\ pair \in [Cmd -> (Cmd \cup {None}) \X (Cmd \cup {None})]
         /\ stdin \in [Cmd -> Cmd \cup {None}] /\ stdout \in [Cmd -> Cmd \cup {None}]
         /\ buffered \in [Cmd -> 0 .. PIPE_SIZE]
         /\ \A c \in Nat : c < num_cmds => c \in Cmd
<1>1. TypeOK
  BY DEF IInv
<1>2. cmds \in Lines \cup {<<>>} /\ curr_cmd \in 0 .. num_cmds
  BY <1>1 DEF TypeOK
<1>3. num_cmds \in 0 .. MaxCmds /\ MaxCmds \in Nat
  BY <1>2, LineLength, ShellAssumption
<1>4. num_cmds \in Nat /\ curr_cmd \in Nat
  BY <1>2, <1>3
<1>5. \A c \in Nat : c < num_cmds => c \in Cmd
  BY <1>3, <1>4 DEF Cmd
<1> QED BY <1>1, <1>2, <1>3, <1>4, <1>5, Names DEF TypeOK, Fds

\* The pipe a command reads from is not the one it writes into.
LEMMA Apart == /\ Ends(None) = {}
               /\ \A c \in Cmd : /\ <<c - 1, SEND>> \notin Ends(Out(c))
                                 /\ <<c, RECV>> \notin Ends(c - 1)
                                 /\ c # 0 => c - 1 \in Cmd
                                 /\ c = 0 => c - 1 = None
                                 /\ c - 1 = None => c = 0
<1>1. Ends(None) = {}
  BY DEF Ends
<1>2. ASSUME NEW c \in Cmd PROVE /\ c \in Int /\ c - 1 # c /\ c # None
                                 /\ c # 0 => c - 1 \in Cmd
                                 /\ c = 0 => c - 1 = None
                                 /\ c - 1 = None => c = 0
  BY <1>2, Names, ShellAssumption DEF Cmd, None
<1>3. ASSUME NEW c \in Cmd PROVE <<c - 1, SEND>> \notin Ends(Out(c)) /\ <<c, RECV>> \notin Ends(c - 1)
  <2>1. \A p, q, end : <<p, end>> \in Ends(q) => p = q
    BY DEF Ends
  <2>2. Out(c) = c \/ Out(c) = None
    BY DEF Out
  <2> QED BY <1>1, <1>2, <2>1, <2>2
<1> QED BY <1>1, <1>2, <1>3

LEMMA InitPipe == Init => PipeInv
<1> SUFFICES ASSUME Init PROVE PipeInv
  OBVIOUS
<1>1. /\ shell = "prompt" /\ num_cmds = 0
      /\ \A c \in Cmd : /\ proc[c] = "unborn" /\ fds[c] = {} /\ stdin[c] = None
                        /\ stdout[c] = None
  BY DEF Init, num_cmds
<1>2. ChildInv
  BY <1>1 DEF ChildInv, ChildOK, EndsOf, Gone
<1>3. LineInv
  BY <1>1, Names DEF LineInv, InLoop
<1> QED BY <1>2, <1>3, InitInv DEF PipeInv

-----------------------------------------------------------------------------
\* A call of a child changes nothing of the shell and of the other children.
LEMMA ChildAlone ==
  ASSUME IInv, NEW c \in Cmd, ChildNext(c)
  PROVE  /\ UNCHANGED <<svars, pair>> /\ num_cmds' = num_cmds
         /\ proc[c] \notin Gone /\ proc'[c] \notin {"unborn", "stdin", "reaped"}
         /\ \A d \in Cmd \ {c} : /\ proc'[d] = proc[d] /\ fds'[d] = fds[d]
                                 /\ stdin'[d] = stdin[d] /\ stdout'[d] = stdout[d]
<1>1. /\ fds \in Fds /\ stdin \in [Cmd -> Cmd \cup {None}] /\ stdout \in [Cmd -> Cmd \cup {None}]
      /\ proc \in [Cmd -> {"unborn", "stdin", "stdout", "exec", "read", "write",
                           "write_last", "error", "ended", "reaped"}]
  BY Types
<1>2. ASSUME NEW from, NEW to, ChildGo(c, from, to)
      PROVE  /\ UNCHANGED <<svars, pair>> /\ proc[c] = from /\ proc'[c] = to
             /\ \A d \in Cmd \ {c} : proc'[d] = proc[d]
  BY <1>1, <1>2 DEF ChildGo
<1>3. ASSUME NEW from, Exit(c, from)
      PROVE  /\ ChildGo(c, from, "ended") /\ UNCHANGED <<stdin, stdout>>
             /\ \A d \in Cmd \ {c} : fds'[d] = fds[d]
  BY <1>1, <1>3 DEF Exit, Fds
<1>4. ASSUME NEW p, NEW end, Close(c, p, end) PROVE \A d \in Cmd \ {c} : fds'[d] = fds[d]
  BY <1>1, <1>4, Closing
<1>5. CASE RedirectStdin(c)
  <2>1. ChildGo(c, "stdin", "stdout") /\ UNCHANGED stdout
    BY <1>5 DEF RedirectStdin
  <2>2. \A d \in Cmd \ {c} : fds'[d] = fds[d] /\ stdin'[d] = stdin[d]
    BY <1>1, <1>4, <1>5 DEF RedirectStdin
  <2> QED BY <1>2, <2>1, <2>2 DEF svars, num_cmds, Gone
<1>6. CASE RedirectStdout(c)
  <2>1. ChildGo(c, "stdout", "exec") /\ UNCHANGED stdin
    BY <1>6 DEF RedirectStdout
  <2>2. \A d \in Cmd \ {c} : fds'[d] = fds[d] /\ stdout'[d] = stdout[d]
    BY <1>1, <1>4, <1>6 DEF RedirectStdout
  <2> QED BY <1>2, <2>1, <2>2 DEF svars, num_cmds, Gone
<1>7. CASE Exec(c) \/ Read(c) \/ (Write(c) /\ UNCHANGED fds)
  <2>1. /\ UNCHANGED <<fds, stdin, stdout>>
        /\ \E from \in {"exec", "read", "write", "write_last", "error"} :
             \E to \in {"read", "write", "write_last", "error", "ended"} : ChildGo(c, from, to)
    BY <1>7 DEF Exec, Read, Write, Exit
  <2> QED BY <1>2, <2>1 DEF svars, num_cmds, Gone
<1>8. CASE \E from \in {"read", "write", "write_last", "error"} : Exit(c, from)
  BY <1>2, <1>3, <1>8 DEF svars, num_cmds, Gone
<1> QED BY <1>5, <1>6, <1>7, <1>8 DEF ChildNext, ReadEOF, SigPipe, Write

\* A child that does not move stays as it is.
LEMMA Same ==
  ASSUME NEW d, ChildOK(d), num_cmds' = num_cmds, UNCHANGED <<cmds, pair>>,
         proc'[d] = proc[d], fds'[d] = fds[d], stdin'[d] = stdin[d], stdout'[d] = stdout[d]
  PROVE  ChildOK(d)'
BY DEF ChildOK, EndsOf, Out

\* Each redirection closes the end that the child has no use for, and from then
\* on a child has its two ends until it ends.
LEMMA ChildMoves == ASSUME PipeInv, NEW c \in Cmd, ChildNext(c) PROVE ChildOK(c)'
<1>1. /\ fds \in Fds /\ stdin \in [Cmd -> Cmd \cup {None}] /\ stdout \in [Cmd -> Cmd \cup {None}]
      /\ c \in Cmd \cup {ShellId}
      /\ proc \in [Cmd -> {"unborn", "stdin", "stdout", "exec", "read", "write",
                           "write_last", "error", "ended", "reaped"}]
  BY Types DEF PipeInv
<1>2. ChildOK(c)
  BY DEF PipeInv, ChildInv
<1>3. UNCHANGED <<cmds, pair>> /\ num_cmds' = num_cmds /\ Out(c)' = Out(c)
  <2>1. UNCHANGED <<svars, pair>> /\ num_cmds' = num_cmds
    BY ChildAlone DEF PipeInv
  <2> QED BY <2>1 DEF svars, Out
<1>4. ASSUME NEW from, NEW to, ChildGo(c, from, to) PROVE proc[c] = from /\ proc'[c] = to
  BY <1>1, <1>4 DEF ChildGo
<1>5. ASSUME NEW p, NEW end, Close(c, p, end) PROVE fds'[c] = fds[c] \ {<<p, end>>}
  BY <1>1, <1>5, Closing
<1>6. CASE RedirectStdin(c)
  <2>1. proc[c] = "stdin" /\ proc'[c] = "stdout" /\ UNCHANGED stdout
    BY <1>4, <1>6 DEF RedirectStdin
  <2>2. /\ fds[c] = Ends(c - 1) \cup Ends(Out(c)) /\ pair[c][1] = c - 1
        /\ stdin[c] = None /\ stdout[c] = None
        /\ c + 1 # num_cmds => pair[c][2] = c
    BY <1>2, <2>1 DEF ChildOK, EndsOf, Gone
  <2>3. fds'[c] = (Ends(c - 1) \ {<<c - 1, SEND>>}) \cup Ends(Out(c)) /\ stdin'[c] = c - 1
    <3>1. CASE c = 0
      <4>1. UNCHANGED <<fds, stdin>> /\ c - 1 = None
        BY <1>6, <3>1, Apart DEF RedirectStdin
      <4>2. Ends(c - 1) = {}
        BY <4>1, Apart
      <4> QED BY <2>2, <4>1, <4>2
    <3>2. CASE c # 0
      <4>1. fds'[c] = fds[c] \ {<<c - 1, SEND>>} /\ stdin'[c] = c - 1
        BY <1>1, <1>5, <1>6, <2>2, <3>2 DEF RedirectStdin
      <4>2. <<c - 1, SEND>> \notin Ends(Out(c))
        BY Apart
      <4> QED BY <2>2, <4>1, <4>2
    <3> QED BY <3>1, <3>2
  <2> QED BY <1>3, <2>1, <2>2, <2>3 DEF ChildOK, EndsOf, Gone
<1>7. CASE RedirectStdout(c)
  <2>1. proc[c] = "stdout" /\ proc'[c] = "exec" /\ UNCHANGED stdin
    BY <1>4, <1>7 DEF RedirectStdout
  <2>2. /\ fds[c] = (Ends(c - 1) \ {<<c - 1, SEND>>}) \cup Ends(Out(c))
        /\ stdin[c] = c - 1 /\ stdout[c] = None
        /\ c + 1 # num_cmds => pair[c][2] = c
    BY <1>2, <2>1 DEF ChildOK, EndsOf, Gone
  <2>3. /\ fds'[c] = (Ends(c - 1) \ {<<c - 1, SEND>>}) \cup (Ends(Out(c)) \ {<<Out(c), RECV>>})
        /\ stdout'[c] = Out(c)
    <3>1. CASE c + 1 = num_cmds
      <4>1. UNCHANGED <<fds, stdout>> /\ Out(c) = None /\ Ends(Out(c)) = {}
        BY <1>7, <3>1, Apart DEF RedirectStdout, Out
      <4> QED BY <2>2, <4>1
    <3>2. CASE c + 1 # num_cmds
      <4>1. fds'[c] = fds[c] \ {<<c, RECV>>} /\ stdout'[c] = c /\ Out(c) = c
        BY <1>1, <1>5, <1>7, <2>2, <3>2 DEF RedirectStdout, Out
      <4>2. <<c, RECV>> \notin Ends(c - 1)
        BY Apart
      <4> QED BY <2>2, <4>1, <4>2
    <3> QED BY <3>1, <3>2
  <2> QED BY <1>3, <2>1, <2>2, <2>3 DEF ChildOK, EndsOf, Gone
<1> DEFINE Program == {"exec", "read", "write", "write_last", "error"}
<1>8. ASSUME proc[c] \in Program, proc'[c] \in Program, UNCHANGED <<fds, stdin, stdout>>,
             proc'[c] = "read" => cmds[c + 1] = "cat",
             proc'[c] = "write_last" => cmds[c + 1] = "echo"
      PROVE  ChildOK(c)'
  BY <1>2, <1>3, <1>8 DEF ChildOK, EndsOf, Gone
<1>9. CASE Exec(c) \/ Read(c) \/ (Write(c) /\ UNCHANGED <<fds, stdin, stdout>>
                                  /\ proc'[c] # "ended")
  <2>1. /\ UNCHANGED <<fds, stdin, stdout>>
        /\ \E from \in Program : \E to \in Program :
             /\ ChildGo(c, from, to)
             /\ to = "read" => cmds[c + 1] = "cat"
             /\ to = "write_last" => cmds[c + 1] = "echo"
    BY <1>4, <1>9 DEF Exec, Read, Write, Exit
  <2> QED BY <1>4, <1>8, <2>1
<1>10. CASE \E from \in Program : Exit(c, from)
  <2>1. /\ proc[c] \in Program /\ proc'[c] = "ended" /\ fds'[c] = {}
        /\ UNCHANGED <<stdin, stdout>>
    BY <1>1, <1>4, <1>10 DEF Exit, Fds
  <2> QED BY <1>2, <1>3, <2>1 DEF ChildOK, EndsOf, Gone
<1>11. ASSUME Write(c), ~ \E from \in Program : Exit(c, from)
       PROVE  UNCHANGED <<fds, stdin, stdout>> /\ proc'[c] # "ended"
  BY <1>4, <1>11 DEF Write
<1> QED BY <1>6, <1>7, <1>9, <1>10, <1>11 DEF ChildNext, ReadEOF, SigPipe

LEMMA ChildPipe == ASSUME PipeInv, NEW c \in Cmd, ChildNext(c) PROVE PipeInv'
<1>1. /\ UNCHANGED <<shell, lines, cmds, curr_cmd, pair>> /\ num_cmds' = num_cmds
      /\ proc[c] \notin Gone /\ proc'[c] \notin {"unborn", "stdin", "reaped"}
      /\ \A d \in Cmd \ {c} : /\ proc'[d] = proc[d] /\ fds'[d] = fds[d]
                              /\ stdin'[d] = stdin[d] /\ stdout'[d] = stdout[d]
  BY ChildAlone DEF PipeInv, svars
<1>2. ChildInv'
  <2>1. \A d \in Cmd \ {c} : ChildOK(d)'
    BY <1>1, Same DEF PipeInv, ChildInv
  <2> QED BY <2>1, ChildMoves DEF ChildInv
<1>3. LineInv'
  <2>1. \A d \in Cmd : proc'[d] # "unborn" <=> proc[d] # "unborn"
    BY <1>1 DEF Gone
  <2>2. Reaped' = Reaped
    BY <1>1 DEF Reaped, Gone
  <2>3. shell \notin {"prompt", "exited"}
    BY <1>1 DEF PipeInv, LineInv, Gone
  <2> QED BY <1>1, <2>1, <2>2, <2>3 DEF PipeInv, LineInv, InLoop
<1>4. IInv'
  BY ChildStep DEF PipeInv
<1> QED BY <1>2, <1>3, <1>4 DEF PipeInv

-----------------------------------------------------------------------------
\* The shell opens and closes its own ends only.
LEMMA ShellCloses ==
  ASSUME PipeInv, UNCHANGED <<cmds, proc, pair, stdin, stdout>>,
         \A c \in Cmd : fds'[c] = fds[c]
  PROVE  ChildInv'
<1>1. num_cmds' = num_cmds
  BY DEF num_cmds
<1> QED BY <1>1, Same DEF PipeInv, ChildInv

\* A new line finds all children of the one before reaped, and nothing open.
LEMMA NewLinePipe == ASSUME PipeInv, GetLine PROVE ChildInv' /\ LineInv'
<1>1. /\ shell = "prompt" /\ shell' = "close_send" /\ curr_cmd' = 0 /\ UNCHANGED fds
      /\ \A c \in Cmd : proc'[c] = "unborn" /\ stdin'[c] = None /\ stdout'[c] = None
  BY DEF GetLine, ShellGo
<1>2. \A c \in Cmd : fds[c] = {}
  BY <1>1 DEF PipeInv, ChildInv, ChildOK, LineInv, EndsOf, Gone
<1>3. ChildInv'
  BY <1>1, <1>2 DEF ChildInv, ChildOK, EndsOf, Gone
<1>4. LineInv'
  <2>1. \A c \in Cmd : ~(c < 0)
    BY Names
  <2> QED BY <1>1, <2>1 DEF LineInv, InLoop, Reaped
<1> QED BY <1>3, <1>4

\* A child is born with what the shell has open: the two ends of the pipe
\* before it and of its own.
LEMMA ForkPipe == ASSUME PipeInv, Fork, shell' = "close_send" PROVE ChildInv' /\ LineInv'
<1>1. /\ shell = "fork" /\ curr_cmd' = curr_cmd + 1
      /\ fds' = [fds EXCEPT ![curr_cmd] = fds[ShellId]]
      /\ proc' = [proc EXCEPT ![curr_cmd] = "stdin"]
      /\ pair' = [pair EXCEPT ![curr_cmd] = <<input_pipe, output_pipe>>]
      /\ UNCHANGED <<cmds, stdin, stdout>> /\ num_cmds' = num_cmds
  BY DEF Fork, ShellGo, ShellFails, num_cmds
<1>2. /\ curr_cmd < num_cmds /\ input_pipe = curr_cmd - 1
      /\ output_pipe = IF curr_cmd + 1 # num_cmds THEN curr_cmd ELSE curr_cmd - 1
      /\ fds[ShellId] = Ends(input_pipe) \cup Ends(output_pipe)
  BY <1>1 DEF PipeInv, IInv, BodyInv, NoStrayEnds
<1>3. /\ curr_cmd \in Cmd /\ fds \in Fds /\ num_cmds \in Nat /\ curr_cmd \in Nat
      /\ proc \in [Cmd -> {"unborn", "stdin", "stdout", "exec", "read", "write",
                           "write_last", "error", "ended", "reaped"}]
      /\ pair \in [Cmd -> (Cmd \cup {None}) \X (Cmd \cup {None})]
  BY <1>2, Types DEF PipeInv
<1>4. /\ proc'[curr_cmd] = "stdin" /\ fds'[curr_cmd] = fds[ShellId]
      /\ pair'[curr_cmd] = <<input_pipe, output_pipe>>
      /\ \A d \in Cmd \ {curr_cmd} : /\ proc'[d] = proc[d] /\ fds'[d] = fds[d]
                                     /\ pair'[d] = pair[d]
  BY <1>1, <1>3 DEF Fds
<1>5. /\ proc[curr_cmd] = "unborn" /\ \A c \in Cmd : proc[c] # "unborn" <=> c < curr_cmd
      /\ Reaped = {}
  BY <1>1, <1>3 DEF PipeInv, LineInv, InLoop
<1>6. ChildInv'
  <2>1. ASSUME NEW d \in Cmd \ {curr_cmd} PROVE ChildOK(d)'
    BY <1>1, <1>4 DEF PipeInv, ChildInv, ChildOK, EndsOf, Out
  <2>2. ASSUME NEW d \in Cmd, d = curr_cmd PROVE ChildOK(d)'
    <3>1. stdin[d] = None /\ stdout[d] = None
      BY <1>5, <2>2 DEF PipeInv, ChildInv, ChildOK
    <3>2. fds'[d] = Ends(d - 1) \cup Ends(IF d + 1 # num_cmds THEN d ELSE None)
      BY <1>2, <1>4, <2>2, Apart
    <3>3. pair'[d][1] = d - 1 /\ (d + 1 # num_cmds => pair'[d][2] = d)
      BY <1>2, <1>4, <2>2
    <3> QED BY <1>1, <1>4, <2>2, <3>1, <3>2, <3>3 DEF ChildOK, EndsOf, Out, Gone
  <2> QED BY <2>1, <2>2 DEF ChildInv
<1>7. LineInv'
  <2>1. \A c \in Cmd : proc'[c] # "unborn" <=> c < curr_cmd'
    <3>1. \A c \in Cmd : c \in Nat
      BY Names
    <3>2. \A c \in Cmd : c < curr_cmd + 1 <=> c < curr_cmd \/ c = curr_cmd
      BY <1>3, <3>1
    <3> QED BY <1>1, <1>4, <1>5, <3>2
  <2>2. Reaped' = {}
    BY <1>4, <1>5 DEF Reaped
  <2> QED BY <2>1, <2>2 DEF LineInv, InLoop
<1> QED BY <1>6, <1>7

\* wait() is called once for each command, so behind the last one all children
\* are reaped.
LEMMA WaitPipe == ASSUME PipeInv, Wait PROVE ChildInv' /\ LineInv'
<1>1. /\ shell = "wait" /\ UNCHANGED <<cmds, fds, pair, stdin, stdout>> /\ num_cmds' = num_cmds
  BY DEF Wait, ShellGo, num_cmds
<1>2. /\ \A c \in Cmd : proc[c] # "unborn" <=> c < num_cmds
      /\ Cardinality(Reaped) = curr_cmd
  BY <1>1 DEF PipeInv, LineInv
<1>3. /\ num_cmds \in Nat /\ curr_cmd \in 0 .. num_cmds
      /\ proc \in [Cmd -> {"unborn", "stdin", "stdout", "exec", "read", "write",
                           "write_last", "error", "ended", "reaped"}]
  BY Types DEF PipeInv
<1>4. /\ IsFiniteSet(0 .. num_cmds - 1) /\ Cardinality(0 .. num_cmds - 1) = num_cmds
      /\ Reaped \in SUBSET (0 .. num_cmds - 1)
  <2>1. Reaped \subseteq 0 .. num_cmds - 1
    <3>1. ASSUME NEW c \in Reaped PROVE c \in Nat /\ c < num_cmds
      BY <1>2, <3>1, Names DEF Reaped
    <3> QED BY <1>3, <3>1
  <2>2. 0 \in Int /\ num_cmds - 1 \in Int
    BY <1>3
  <2>3. IsFiniteSet(0 .. num_cmds - 1)
        /\ Cardinality(0 .. num_cmds - 1) = IF 0 > num_cmds - 1 THEN 0 ELSE num_cmds - 1 - 0 + 1
    BY <2>2, FS_Interval
  <2> QED BY <1>3, <2>1, <2>3
<1>5. ASSUME NEW c \in Cmd, proc[c] = "ended", proc' = [proc EXCEPT ![c] = "reaped"],
             shell' = "wait", curr_cmd' = curr_cmd + 1
      PROVE  ChildInv' /\ LineInv'
  <2>1. proc'[c] = "reaped" /\ \A d \in Cmd \ {c} : proc'[d] = proc[d]
    BY <1>3, <1>5
  <2>2. ChildInv'
    <3>1. ChildOK(c) /\ \A d \in Cmd : ChildOK(d)
      BY DEF PipeInv, ChildInv
    <3>2. \A d \in Cmd \ {c} : ChildOK(d)'
      BY <1>1, <2>1, <3>1 DEF ChildOK, EndsOf, Out
    <3>3. ChildOK(c)'
      BY <1>1, <1>5, <2>1, <3>1 DEF ChildOK, EndsOf, Out, Gone
    <3> QED BY <3>2, <3>3 DEF ChildInv
  <2>3. Reaped' = Reaped \cup {c} /\ c \notin Reaped
    BY <1>5, <2>1 DEF Reaped
  <2>4. IsFiniteSet(Reaped)
    BY <1>4, FS_Subset
  <2>5. Cardinality(Reaped') = curr_cmd + 1
    BY <1>2, <2>3, <2>4, FS_AddElement
  <2>6. \A d \in Cmd : proc'[d] # "unborn" <=> d < num_cmds
    BY <1>2, <1>5, <2>1
  <2> QED BY <1>1, <1>5, <2>2, <2>5, <2>6 DEF LineInv, InLoop
<1>6. ASSUME curr_cmd >= num_cmds, shell' = "prompt", UNCHANGED <<proc, curr_cmd>>
      PROVE  ChildInv' /\ LineInv'
  <2>1. Cardinality(Reaped) = num_cmds
    BY <1>2, <1>3, <1>6
  <2>2. Reaped = 0 .. num_cmds - 1
    BY <1>4, <2>1, FS_Subset
  <2>3. \A c \in Cmd : proc[c] \in {"unborn", "reaped"}
    <3>1. ASSUME NEW c \in Cmd, proc[c] # "unborn" PROVE c \in 0 .. num_cmds - 1
      BY <1>2, <1>3, <3>1, Names
    <3> QED BY <2>2, <3>1 DEF Reaped
  <2> QED BY <1>1, <1>2, <1>6, <2>3, ShellCloses DEF LineInv, InLoop
<1> QED BY <1>5, <1>6 DEF Wait, ShellGo

LEMMA ShellPipe == ASSUME PipeInv, ShellNext \/ ExitShell PROVE PipeInv'
<1>1. IInv'
  BY ShellStep, ExitStep DEF PipeInv
<1>2. /\ fds \in Fds /\ ShellId \in Cmd \cup {ShellId} /\ ShellId \notin Cmd
      /\ curr_cmd \in 0 .. num_cmds /\ num_cmds \in Nat
  BY Types DEF PipeInv
<1> DEFINE Rest == UNCHANGED <<cmds, proc, pair, stdin, stdout>>
<1>3. ASSUME Rest PROVE num_cmds' = num_cmds /\ Reaped' = Reaped
  BY <1>3 DEF num_cmds, Reaped
<1>4. ASSUME NEW p, NEW end, Close(ShellId, p, end) PROVE \A c \in Cmd : fds'[c] = fds[c]
  BY <1>2, <1>4, Closing
<1>5. CASE CloseInputSend \/ CloseInputRecv
  <2>1. /\ InLoop /\ InLoop' /\ shell' # "wait" /\ Rest /\ curr_cmd' = curr_cmd
        /\ \A c \in Cmd : fds'[c] = fds[c]
    BY <1>4, <1>5 DEF CloseInputSend, CloseInputRecv, ShellGo, InLoop, cvars
  <2>2. LineInv'
    BY <1>3, <2>1 DEF PipeInv, LineInv, InLoop
  <2> QED BY <1>1, <2>1, <2>2, ShellCloses DEF PipeInv
<1>6. CASE MakePipe /\ shell' = "fork"
  <2>1. /\ shell = "pipe" /\ Rest /\ curr_cmd' = curr_cmd
        /\ UNCHANGED fds \/ fds' = [fds EXCEPT ![ShellId] = @ \cup Ends(curr_cmd)]
    BY <1>6 DEF MakePipe, ShellGo, ShellFails, cvars
  <2>2. \A c \in Cmd : fds'[c] = fds[c]
    BY <1>2, <2>1 DEF Fds
  <2>3. LineInv'
    BY <1>3, <1>6, <2>1 DEF PipeInv, LineInv, InLoop
  <2> QED BY <1>1, <2>1, <2>2, <2>3, ShellCloses DEF PipeInv
<1>7. CASE AssertArgv \/ ShellFails("pipe") \/ ShellFails("fork")
  <2>1. /\ InLoop /\ shell' = "failed" /\ Rest /\ curr_cmd' = curr_cmd
        /\ fds' = [fds EXCEPT ![ShellId] = {}]
    BY <1>7 DEF AssertArgv, ShellFails, ShellGo, InLoop, cvars
  <2>2. \A c \in Cmd : fds'[c] = fds[c]
    BY <1>2, <2>1 DEF Fds
  <2>3. LineInv'
    BY <1>3, <2>1 DEF PipeInv, LineInv, InLoop
  <2> QED BY <1>1, <2>1, <2>2, <2>3, ShellCloses DEF PipeInv
<1>8. CASE CloseOutputSend
  <2>1. /\ shell = "close_send" /\ shell' = "close_output" /\ Rest /\ curr_cmd >= num_cmds
        /\ \A c \in Cmd : fds'[c] = fds[c]
    BY <1>4, <1>8 DEF CloseOutputSend, ShellGo, cvars
  <2>2. curr_cmd = num_cmds
    BY <1>2, <2>1
  <2>3. LineInv'
    BY <1>3, <2>1, <2>2 DEF PipeInv, LineInv, InLoop
  <2> QED BY <1>1, <2>1, <2>3, ShellCloses DEF PipeInv
<1>9. CASE CloseOutputRecv
  <2>1. /\ shell = "close_output" /\ shell' = "wait" /\ Rest /\ curr_cmd' = 0
        /\ \A c \in Cmd : fds'[c] = fds[c]
    BY <1>4, <1>9 DEF CloseOutputRecv, ShellGo, cvars
  <2>2. Cardinality(Reaped) = 0
    BY <2>1, FS_EmptySet DEF PipeInv, LineInv
  <2>3. LineInv'
    BY <1>3, <2>1, <2>2 DEF PipeInv, LineInv, InLoop
  <2> QED BY <1>1, <2>1, <2>3, ShellCloses DEF PipeInv
<1>10. CASE ExitShell
  <2>1. shell = "prompt" /\ shell' = "exited" /\ Rest /\ UNCHANGED <<fds, curr_cmd>>
    BY <1>10 DEF ExitShell, ShellGo, cvars
  <2>2. LineInv'
    BY <1>3, <2>1 DEF PipeInv, LineInv, InLoop
  <2> QED BY <1>1, <2>1, <2>2, ShellCloses DEF PipeInv
<1>11. MakePipe => ShellFails("pipe") \/ shell' = "fork"
  BY DEF MakePipe, ShellGo
<1>12. Fork => ShellFails("fork") \/ shell' = "close_send"
  BY DEF Fork, ShellGo
<1> QED BY <1>1, <1>5, <1>6, <1>7, <1>8, <1>9, <1>10, <1>11, <1>12, NewLinePipe, ForkPipe,
           WaitPipe DEF ShellNext, PipeInv

LEMMA StepPipe == PipeInv /\ [Next]_vars => PipeInv'
<1> SUFFICES ASSUME PipeInv, [Next]_vars PROVE PipeInv'
  OBVIOUS
<1>1. CASE UNCHANGED vars
  <2>1. /\ UNCHANGED <<shell, cmds, curr_cmd, fds, proc, pair, stdin, stdout>>
        /\ num_cmds' = num_cmds /\ Reaped' = Reaped
    BY <1>1 DEF vars, svars, cvars, num_cmds, Reaped
  <2>2. IInv' /\ ChildInv'
    BY <1>1, <2>1, StutterStep, ShellCloses DEF PipeInv
  <2>3. LineInv'
    BY <2>1 DEF PipeInv, LineInv, InLoop
  <2> QED BY <2>2, <2>3 DEF PipeInv
<1> QED BY <1>1, ChildPipe, ShellPipe DEF Next

-----------------------------------------------------------------------------
(***************************************************************************)
(* The pipeline                                                            *)
(***************************************************************************)

\* Which ends a child has open that has not ended, and so which nobody else
\* can be waiting for.
LEMMA HasEnds ==
  ASSUME PipeInv, NEW c \in Cmd, proc[c] \notin Gone
  PROVE  /\ c + 1 # num_cmds => <<c, SEND>> \in fds[c]
         /\ c # 0 => <<c - 1, RECV>> \in fds[c]
<1>1. ChildOK(c) /\ c - 1 # c /\ (c # 0 => c - 1 # None) /\ c # None /\ SEND # RECV
  BY Names, Apart DEF PipeInv, ChildInv, Cmd, SEND, RECV
<1>2. ASSUME c + 1 # num_cmds PROVE <<c, SEND>> \in fds[c]
  <2>1. Out(c) = c /\ <<c, SEND>> \in Ends(Out(c)) /\ <<c, SEND>> # <<Out(c), RECV>>
    BY <1>1, <1>2 DEF Out, Ends
  <2> QED BY <1>1, <2>1 DEF ChildOK, EndsOf
<1>3. ASSUME c # 0 PROVE <<c - 1, RECV>> \in fds[c]
  <2>1. <<c - 1, RECV>> \in Ends(c - 1) /\ <<c - 1, RECV>> # <<c - 1, SEND>>
    BY <1>1, <1>3 DEF Ends
  <2> QED BY <1>1, <2>1 DEF ChildOK, EndsOf
<1> QED BY <1>2, <1>3

\* The commands of a line are born in their order.
LEMMA Born ==
  ASSUME PipeInv
  PROVE  \/ \A d \in Cmd : proc[d] # "unborn" <=> d < curr_cmd
         \/ \A d \in Cmd : proc[d] # "unborn" <=> d < num_cmds
<1>1. \/ InLoop \/ shell = "failed"
      \/ shell \in {"close_output", "wait", "prompt", "exited"}
  BY DEF PipeInv, IInv, TypeOK, InLoop
<1> QED BY <1>1 DEF PipeInv, LineInv

\* Nobody can write any more: the command before has ended.
LEMMA NoWriter ==
  ASSUME PipeInv, NEW c \in Cmd, proc[c] \notin Gone, c # 0, ~Held(c - 1, SEND)
  PROVE  State(c - 1) = "ended"
<1>1. /\ c - 1 \in Cmd /\ DOMAIN fds = Cmd \cup {ShellId} /\ num_cmds \in Nat /\ c \in Nat
      /\ curr_cmd \in 0 .. num_cmds
  BY Apart, Types, Names DEF PipeInv, Fds
<1>2. proc[c] # "unborn" /\ c < num_cmds /\ proc[c - 1] # "unborn"
  <2>1. \/ \A d \in Cmd : proc[d] # "unborn" <=> d < curr_cmd
        \/ \A d \in Cmd : proc[d] # "unborn" <=> d < num_cmds
    BY Born
  <2> QED BY <1>1, <2>1 DEF Gone
<1>3. c - 1 + 1 # num_cmds
  BY <1>1, <1>2
<1>4. proc[c - 1] \in Gone
  <2>1. \A b \in Cmd : proc[b] \notin Gone /\ b + 1 # num_cmds => <<b, SEND>> \in fds[b]
    BY HasEnds
  <2> QED BY <1>1, <1>3, <2>1 DEF Held
<1> QED BY <1>2, <1>4 DEF State, Gone

\* Nobody can read any more: the command behind has ended, or will never be.
LEMMA NoReader ==
  ASSUME PipeInv, NEW c \in Cmd, proc[c] \notin Gone, c + 1 # num_cmds, ~Held(c, RECV)
  PROVE  State(c + 1) = "ended" /\ c + 1 < num_cmds
<1>1. /\ DOMAIN fds = Cmd \cup {ShellId} /\ num_cmds \in Nat /\ c \in Nat
      /\ curr_cmd \in 0 .. num_cmds /\ \A d \in Nat : d < num_cmds => d \in Cmd
  BY Types, Names DEF PipeInv, Fds
<1>2. c < num_cmds
  <2>1. proc[c] # "unborn"
    BY DEF Gone
  <2>2. c < curr_cmd \/ c < num_cmds
    BY <2>1, Born
  <2> QED BY <1>1, <2>2
<1>3. c + 1 \in Cmd /\ c + 1 # 0 /\ c + 1 < num_cmds /\ c + 1 - 1 = c
  BY <1>1, <1>2
<1>4. proc[c + 1] \in Gone
  <2>1. \A b \in Cmd : proc[b] \notin Gone /\ b # 0 => <<b - 1, RECV>> \in fds[b]
    BY HasEnds
  <2> QED BY <1>1, <1>3, <2>1 DEF Held
<1>5. CASE proc[c + 1] = "unborn" /\ shell # "failed"
  <2>1. InLoop /\ ~(c + 1 < curr_cmd) /\ c < curr_cmd
    <3>1. InLoop
      BY <1>3, <1>5 DEF PipeInv, LineInv, IInv, TypeOK, InLoop
    <3>2. \A d \in Cmd : proc[d] # "unborn" <=> d < curr_cmd
      BY <3>1 DEF PipeInv, LineInv
    <3> QED BY <1>3, <1>5, <3>1, <3>2 DEF Gone
  <2>2. curr_cmd = c + 1 /\ curr_cmd < num_cmds /\ curr_cmd - 1 = c
    BY <1>1, <1>3, <2>1
  <2>3. <<c, RECV>> \in Ends(c) /\ <<c, RECV>> # <<input_pipe, SEND>>
    BY Names DEF Ends, SEND, RECV
  <2>4. <<c, RECV>> \in fds[ShellId]
    <3>1. CASE shell \in {"close_send", "close_recv"}
      BY <2>2, <2>3, <3>1 DEF PipeInv, IInv, HeadInv, NoStrayEnds
    <3>2. CASE shell \in {"pipe", "fork"}
      BY <2>2, <2>3, <3>2 DEF PipeInv, IInv, BodyInv, NoStrayEnds
    <3> QED BY <2>1, <3>1, <3>2 DEF InLoop
  <2> QED BY <1>1, <2>4 DEF Held
<1> QED BY <1>3, <1>4, <1>5 DEF State, Gone

\* A step of the pipeline that only moves one command.
LEMMA Moves ==
  ASSUME NEW c \in Cmd, NEW from, NEW to, State(c) = from, State(c)' = to,
         \A d \in Cmd \ {c} : State(d)' = State(d), UNCHANGED <<cmds, buffered>>
  PROVE  P!Become(c, from, to)
<1> DEFINE bar == [d \in Cmd |-> State(d)]
<1>1. bar[c] = from /\ bar' = [bar EXCEPT ![c] = to]
  OBVIOUS
<1> QED BY <1>1 DEF P!Become

LEMMA Stays ==
  ASSUME \A d \in Cmd : State(d)' = State(d), UNCHANGED <<cmds, buffered>>
  PROVE  UNCHANGED P!plvars
BY DEF P!plvars

\* A child's step is a step of its command: it fails, takes, puts, ends, or the
\* pipeline sees nothing of it.
LEMMA ChildRefines == ASSUME PipeInv, NEW c \in Cmd, ChildNext(c) PROVE [P!Next]_(P!plvars)
<1>1. /\ UNCHANGED <<shell, cmds>>
      /\ proc[c] \notin Gone /\ proc'[c] \notin {"unborn", "stdin", "reaped"}
      /\ \A d \in Cmd \ {c} : proc'[d] = proc[d]
  BY ChildAlone DEF PipeInv, svars
<1>2. /\ \A d \in Cmd \ {c} : State(d)' = State(d)
      /\ State(c) = IF proc[c] = "error" THEN "failing" ELSE "running"
      /\ State(c)' = IF proc'[c] = "error" THEN "failing"
                     ELSE IF proc'[c] = "ended" THEN "ended" ELSE "running"
  BY <1>1 DEF State, Gone
<1>3. /\ num_cmds \in Nat /\ curr_cmd \in 0 .. num_cmds /\ c \in Nat
      /\ proc \in [Cmd -> {"unborn", "stdin", "stdout", "exec", "read", "write",
                           "write_last", "error", "ended", "reaped"}]
  BY Types, Names DEF PipeInv
<1>4. P!InLine(c)
  <2>1. c < curr_cmd \/ c < num_cmds
    BY <1>1, Born DEF Gone
  <2>2. c < num_cmds
    BY <1>3, <2>1
  <2> QED BY <2>2 DEF P!InLine, num_cmds
<1>5. ChildOK(c)
  BY DEF PipeInv, ChildInv
<1>6. ASSUME NEW from, NEW to, ChildGo(c, from, to) PROVE proc[c] = from /\ proc'[c] = to
  BY <1>3, <1>6 DEF ChildGo
<1>7. ASSUME P!Fail(c) \/ P!Put(c) \/ P!Get(c) \/ P!End(c) \/ P!PutAndEnd(c) PROVE P!Next
  BY <1>4, <1>7 DEF P!Next
<1>8. ASSUME UNCHANGED buffered, proc[c] # "error", proc'[c] \notin {"error", "ended"}
      PROVE  UNCHANGED P!plvars
  <2>1. \A d \in Cmd : State(d)' = State(d)
    BY <1>2, <1>8
  <2> QED BY <1>1, <1>8, <2>1, Stays
<1>9. CASE RedirectStdin(c) \/ RedirectStdout(c)
  BY <1>6, <1>8, <1>9 DEF RedirectStdin, RedirectStdout
<1>10. CASE Exec(c)
  <2>1. UNCHANGED buffered /\ proc[c] = "exec" /\ proc'[c] \in {"read", "write", "write_last", "error"}
    BY <1>6, <1>10 DEF Exec
  <2>2. CASE proc'[c] = "error"
    <3>1. P!Become(c, "running", "failing")
      BY <1>1, <1>2, <2>1, <2>2, Moves
    <3> QED BY <1>7, <3>1 DEF P!Fail
  <2> QED BY <1>8, <2>1, <2>2
<1>11. CASE Read(c)
  <2>1. /\ proc[c] = "read" /\ proc'[c] = "write" /\ stdin[c] # None /\ buffered[stdin[c]] > 0
        /\ buffered' = [buffered EXCEPT ![stdin[c]] = @ - 1]
    BY <1>6, <1>11 DEF Read
  <2>2. stdin[c] = c - 1 /\ c # 0
    BY <1>5, <2>1, Apart DEF ChildOK
  <2>3. \A d \in Cmd : State(d)' = State(d)
    BY <1>2, <2>1
  <2>4. P!Get(c)
    BY <1>1, <1>2, <2>1, <2>2, <2>3 DEF P!Get, P!First
  <2> QED BY <1>7, <2>4
<1>12. CASE ReadEOF(c)
  <2>1. /\ proc[c] = "read" /\ proc'[c] = "ended" /\ UNCHANGED buffered
        /\ stdin[c] # None => buffered[stdin[c]] = 0 /\ ~Held(stdin[c], SEND)
    BY <1>6, <1>12 DEF ReadEOF, EndOfInput, Exit
  <2>2. stdin[c] = c - 1 /\ cmds[c + 1] = "cat"
    BY <1>5, <2>1 DEF ChildOK
  <2>3. P!EndOfInput(c)
    <3>1. CASE c = 0
      BY <3>1 DEF P!EndOfInput, P!First
    <3>2. CASE c # 0
      <4>1. c - 1 \in Cmd /\ c - 1 # None
        BY <3>2, Apart
      <4>2. State(c - 1) = "ended" /\ buffered[c - 1] = 0
        BY <1>1, <2>1, <2>2, <3>2, <4>1, NoWriter
      <4> QED BY <4>1, <4>2 DEF P!EndOfInput
    <3> QED BY <3>1, <3>2
  <2>4. P!Become(c, "running", "ended")
    BY <1>1, <1>2, <2>1, Moves
  <2> QED BY <1>7, <2>2, <2>3, <2>4 DEF P!End
<1>13. CASE SigPipe(c)
  <2>1. /\ proc[c] \in {"write", "write_last", "error"} /\ proc'[c] = "ended"
        /\ UNCHANGED buffered /\ stdout[c] # None /\ ~Held(stdout[c], RECV)
    BY <1>6, <1>13 DEF SigPipe, Exit
  <2>2. stdout[c] = c /\ c + 1 # num_cmds
    BY <1>5, <2>1 DEF ChildOK, Out
  <2>3. State(c + 1) = "ended" /\ c + 1 \in Cmd
    BY <1>1, <1>3, <2>1, <2>2, NoReader, Types DEF PipeInv
  <2>4. P!NobodyReads(c)
    BY <2>2, <2>3 DEF P!NobodyReads, P!Last, num_cmds
  <2>5. P!Become(c, IF proc[c] = "error" THEN "failing" ELSE "running", "ended")
    BY <1>1, <1>2, <2>1, Moves
  <2> QED BY <1>7, <2>4, <2>5 DEF P!End
<1>14. CASE Write(c)
  <2>1. \/ /\ proc[c] = "write" /\ proc'[c] \in {"read", "write"}
        \/ /\ proc[c] \in {"write_last", "error"} /\ proc'[c] = "ended"
    BY <1>6, <1>14 DEF Write, Exit
  <2>2. CASE stdout[c] = None
    <3>1. UNCHANGED buffered
      BY <1>14, <2>2 DEF Write, Deliver
    <3>2. CASE proc'[c] # "ended"
      BY <1>8, <2>1, <3>1, <3>2
    <3>3. CASE proc'[c] = "ended"
      <4>1. P!Become(c, IF proc[c] = "error" THEN "failing" ELSE "running", "ended")
        BY <1>1, <1>2, <3>1, <3>3, Moves
      <4>2. proc[c] = "error" \/ cmds[c + 1] = "echo"
        BY <1>5, <2>1, <3>3 DEF ChildOK
      <4> QED BY <1>7, <4>1, <4>2 DEF P!End
    <3> QED BY <3>2, <3>3
  <2>3. CASE stdout[c] # None
    <3>1. stdout[c] = c /\ ~P!Last(c)
      BY <1>5, <2>3 DEF ChildOK, Out, P!Last, num_cmds
    <3>2. buffered[c] < PIPE_SIZE /\ buffered' = [buffered EXCEPT ![c] = @ + 1]
      BY <1>14, <2>3, <3>1 DEF Write, Deliver
    <3>3. CASE proc'[c] # "ended"
      <4>1. State(c) = "running" /\ \A d \in Cmd : State(d)' = State(d)
        BY <1>2, <2>1, <3>3
      <4>2. P!Put(c)
        BY <1>1, <3>1, <3>2, <4>1 DEF P!Put
      <4> QED BY <1>7, <4>2
    <3>4. CASE proc'[c] = "ended"
      <4> DEFINE bar == [d \in Cmd |-> State(d)]
      <4>1. State(c)' = "ended" /\ bar' = [bar EXCEPT ![c] = "ended"]
        BY <1>2, <3>4
      <4>2. bar[c] = "failing" \/ (bar[c] = "running" /\ cmds[c + 1] = "echo")
        BY <1>2, <1>5, <2>1, <3>4 DEF ChildOK
      <4>3. P!PutAndEnd(c)
        BY <1>1, <3>1, <3>2, <4>1, <4>2 DEF P!PutAndEnd
      <4> QED BY <1>7, <4>3
    <3> QED BY <3>3, <3>4
  <2> QED BY <2>2, <2>3
<1> QED BY <1>9, <1>10, <1>11, <1>12, <1>13, <1>14 DEF ChildNext

\* A step of the shell starts a command, gives up, or begins the next line.
LEMMA ShellRefines ==
  ASSUME PipeInv, ShellNext \/ ExitShell PROVE [P!Next]_(P!plvars)
<1> DEFINE bar == [d \in Cmd |-> State(d)]
<1>1. CASE GetLine
  <2>1. /\ shell = "prompt" /\ shell' = "close_send" /\ cmds' \in Lines
        /\ \A c \in Cmd : proc'[c] = "unborn" /\ buffered' = [d \in Cmd |-> 0]
    BY <1>1 DEF GetLine, ShellGo
  <2>2. \A c \in Cmd : State(c)' = "unborn"
    BY <2>1 DEF State
  <2>3. \A c \in Cmd : P!InLine(c) => State(c) = "ended"
    <3>1. ASSUME NEW c \in Cmd, P!InLine(c) PROVE proc[c] = "reaped"
      BY <2>1, <3>1 DEF PipeInv, LineInv, P!InLine, num_cmds
    <3> QED BY <3>1 DEF State
  <2>4. bar' = [c \in Cmd |-> "unborn"] /\ buffered' = [c \in Cmd |-> 0]
    BY <1>1, <2>2 DEF GetLine
  <2>5. P!NewLine
    BY <2>1, <2>3, <2>4 DEF P!NewLine
  <2> QED BY <2>5 DEF P!Next
<1>2. CASE AssertArgv \/ ShellFails("pipe") \/ ShellFails("fork")
  <2>1. /\ shell \in {"close_send", "pipe", "fork"} /\ shell' = "failed" /\ UNCHANGED <<cmds, proc, buffered>>
    BY <1>2 DEF AssertArgv, ShellFails, ShellGo, cvars
  <2>2. \A c \in Cmd : State(c)' = IF State(c) = "unborn" THEN "ended" ELSE State(c)
    BY <2>1 DEF State
  <2>3. P!GiveUp
    BY <2>1, <2>2 DEF P!GiveUp
  <2> QED BY <2>3 DEF P!Next
<1>3. CASE Fork /\ shell' = "close_send"
  <2>1. /\ shell = "fork" /\ UNCHANGED <<cmds, buffered>>
        /\ proc' = [proc EXCEPT ![curr_cmd] = "stdin"]
    BY <1>3 DEF Fork, ShellGo, ShellFails
  <2>2. /\ curr_cmd < num_cmds /\ curr_cmd \in Cmd
        /\ proc \in [Cmd -> {"unborn", "stdin", "stdout", "exec", "read", "write",
                             "write_last", "error", "ended", "reaped"}]
    BY <2>1, Types DEF PipeInv, IInv, BodyInv
  <2>3. \A c \in Cmd : proc[c] # "unborn" <=> c < curr_cmd
    BY <2>1 DEF PipeInv, LineInv, InLoop
  <2>4. PICK k \in Cmd : k = curr_cmd
    BY <2>2
  <2>5. /\ proc[k] = "unborn" /\ proc'[k] = "stdin" /\ \A d \in Cmd \ {k} : proc'[d] = proc[d]
    BY <2>1, <2>2, <2>3, <2>4, Names
  <2>6. /\ State(k) = "unborn" /\ State(k)' = "running"
        /\ \A d \in Cmd \ {k} : State(d)' = State(d)
        /\ \A d \in Cmd : d < k => State(d) # "unborn"
    BY <1>3, <2>1, <2>3, <2>4, <2>5 DEF State
  <2>7. P!Become(k, "unborn", "running")
    BY <2>1, <2>6, Moves
  <2>8. P!Start(k) /\ P!InLine(k)
    BY <2>2, <2>4, <2>6, <2>7 DEF P!Start, P!InLine, num_cmds
  <2> QED BY <2>8 DEF P!Next
<1>4. CASE Wait
  <2>1. /\ shell = "wait" /\ shell' # "failed" /\ UNCHANGED <<cmds, buffered>>
        /\ \/ UNCHANGED proc
           \/ \E c \in Cmd : proc[c] = "ended" /\ proc' = [proc EXCEPT ![c] = "reaped"]
    BY <1>4 DEF Wait, ShellGo
  <2>2. proc \in [Cmd -> {"unborn", "stdin", "stdout", "exec", "read", "write",
                          "write_last", "error", "ended", "reaped"}]
    BY Types DEF PipeInv
  <2>3. \A d \in Cmd : State(d)' = State(d)
    BY <2>1, <2>2 DEF State
  <2> QED BY <2>1, <2>3, Stays
<1>5. CASE \/ CloseInputSend \/ CloseInputRecv \/ (MakePipe /\ shell' = "fork")
           \/ CloseOutputSend \/ CloseOutputRecv \/ ExitShell
  <2>1. /\ shell # "failed" /\ shell' # "failed" /\ UNCHANGED <<cmds, proc, buffered>>
    BY <1>5 DEF CloseInputSend, CloseInputRecv, MakePipe, CloseOutputSend, CloseOutputRecv,
                ExitShell, ShellGo, ShellFails, cvars
  <2>2. \A d \in Cmd : State(d)' = State(d)
    BY <2>1 DEF State
  <2> QED BY <2>1, <2>2, Stays
<1>6. MakePipe => ShellFails("pipe") \/ shell' = "fork"
  BY DEF MakePipe, ShellGo
<1>7. Fork => ShellFails("fork") \/ shell' = "close_send"
  BY DEF Fork, ShellGo
<1> QED BY <1>1, <1>2, <1>3, <1>4, <1>5, <1>6, <1>7 DEF ShellNext

\* The shell implements the pipeline: a command meets the end of its input only
\* when the one before has ended and everything is read, is stopped only when
\* the one behind has ended, and the next line waits for all (lines 138-232).
THEOREM Refinement == Spec => PipelineSpec
<1>1. Init => P!Init
  <2> SUFFICES ASSUME Init PROVE P!Init
    OBVIOUS
  <2>1. /\ cmds = <<>> /\ buffered = [c \in Cmd |-> 0]
        /\ \A c \in Cmd : State(c) = "unborn"
    BY DEF Init, State
  <2> QED BY <2>1 DEF P!Init
<1>2. PipeInv /\ [Next]_vars => [P!Next]_(P!plvars)
  <2> SUFFICES ASSUME PipeInv, [Next]_vars PROVE [P!Next]_(P!plvars)
    OBVIOUS
  <2>1. CASE UNCHANGED vars
    <3>1. UNCHANGED <<shell, cmds, proc, buffered>>
      BY <2>1 DEF vars, svars, cvars
    <3>2. \A d \in Cmd : State(d)' = State(d)
      BY <3>1 DEF State
    <3> QED BY <3>1, <3>2, Stays
  <2> QED BY <2>1, ChildRefines, ShellRefines DEF Next
<1> QED BY <1>1, <1>2, InitPipe, StepPipe, PTL DEF Spec, PipelineSpec, P!Spec
=============================================================================
