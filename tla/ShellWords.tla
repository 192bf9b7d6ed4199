----------------------------- MODULE ShellWords -----------------------------
(***************************************************************************)
(* src/my_shell/main.c: what becomes of a line between the prompt and      *)
(* execvp.  getting_string reads it, parsing_words takes it apart,         *)
(* parsing_commands puts commands together, and run_piped_commands, modelled    *)
(* in Shell, makes an argv of each.  A line is the sequence of its         *)
(* characters, letters, blanks and bars, and a newline.                    *)
(***************************************************************************)
EXTENDS Integers, SequencesExt, FiniteSetsExt

CONSTANTS Letters,
          MaxLine,       \* bound: characters of a line
          ARGS_NUMBER,   \* words of a command: 6
          MAX_CMDS       \* commands of a line: 25

Blank == {" ", "newline"}
Bar == <<"|">>

Lines == BoundedSeq(Letters \cup {" ", "|"}, MaxLine)

VARIABLES place,                 \* where the shell is
          string, add,           \* the line, and where the next word is looked for
          words,                 \* words up to the first empty one
          curr_word, cms,        \* of parsing_commands
          curr_cmd, argv         \* of run_piped_commands

vars == <<place, string, add, words, curr_word, cms, curr_cmd, argv>>

\* sscanf("%s") of a text: the first run of characters that are not blank.
Scan(text) ==
  LET start == {k \in DOMAIN text : text[k] \notin Blank}
      first == Min(start)
      stops == {k \in first .. Len(text) + 1 : k > Len(text) \/ text[k] \in Blank}
      stop == Min(stops)
  IN IF start = {} THEN <<>> ELSE SubSeq(text, first, stop - 1)

-----------------------------------------------------------------------------
\* Lines 35-47 and 83-94.  The line "exit" or an end of input ends the shell.
getting_string ==
  /\ place = "prompt"
  /\ \/ place' = "words" /\ \E line \in Lines : string' = Append(line, "newline")
     \/ place' = "exited" /\ UNCHANGED string
  /\ UNCHANGED <<add, words, curr_word, cms, curr_cmd, argv>>

\* A mutant: one character further.
ParseFurther ==
  LET word == Scan(SubSeq(string, add + 1, Len(string))) IN
  /\ place = "words"
  /\ IF word = <<>> THEN place' = "commands" /\ UNCHANGED <<add, words>>
     ELSE /\ words' = Append(words, word) /\ add' = add + Len(word) + 2
          /\ UNCHANGED place
  /\ UNCHANGED <<string, curr_word, cms, curr_cmd, argv>>

\* One round of line 97.  add goes one character behind a word that began at add.
parsing_words ==
  LET word == Scan(SubSeq(string, add + 1, Len(string))) IN
  /\ place = "words"
  /\ IF word = <<>> THEN place' = "commands" /\ UNCHANGED <<add, words>>
     ELSE /\ words' = Append(words, word) /\ add' = add + Len(word) + 1
          /\ UNCHANGED place
  /\ UNCHANGED <<string, curr_word, cms, curr_cmd, argv>>

\* One round of line 107 and add_item.  Behind the last word str_array has an
\* empty one, and then NULL.  A command of more words writes past arg.args.
parsing_commands ==
  LET stops == {k \in curr_word + 1 .. Len(words) + 1 : k > Len(words) \/ words[k] = Bar}
      stop == Min(stops)
      arg == SubSeq(words, curr_word + 1, stop - 1)
  IN /\ place = "commands"
     /\ IF curr_word > Len(words) THEN place' = "run" /\ UNCHANGED <<curr_word, cms>>
        ELSE IF Len(arg) > ARGS_NUMBER THEN place' = "undefined" /\ UNCHANGED <<curr_word, cms>>
        ELSE /\ curr_word' = stop /\ UNCHANGED place
             /\ cms' = IF Len(cms) < MAX_CMDS THEN Append(cms, arg) ELSE cms
     /\ UNCHANGED <<string, add, words, curr_cmd, argv>>

\* Lines 148-153.  With ARGS_NUMBER words argv is full, and the assert reads
\* whatever is behind it.
BuildArgv ==
  /\ place = "run" /\ curr_cmd < Len(cms)
  /\ LET arg == cms[curr_cmd + 1] IN
     \/ /\ argv' = arg /\ curr_cmd' = curr_cmd + 1 /\ UNCHANGED place
     \/ Len(arg) = ARGS_NUMBER /\ place' = "aborted" /\ UNCHANGED <<argv, curr_cmd>>
  /\ UNCHANGED <<string, add, words, curr_word, cms>>

\* The variables are the loop body's of main.
NextLine == /\ place = "run" /\ curr_cmd = Len(cms) /\ place' = "prompt"
            /\ string' = <<>> /\ add' = 0 /\ words' = <<>> /\ curr_word' = 0
            /\ cms' = <<>> /\ curr_cmd' = 0 /\ argv' = <<>>

Init == /\ place = "prompt" /\ string = <<>> /\ add = 0 /\ words = <<>>
        /\ curr_word = 0 /\ cms = <<>> /\ curr_cmd = 0 /\ argv = <<>>

Next == getting_string \/ parsing_words \/ parsing_commands \/ BuildArgv \/ NextLine

Spec == Init /\ [][Next]_vars

-----------------------------------------------------------------------------
(* Properties                                                              *)

\* What a line says: its words, and its commands between bars.
Starts == SetToSortSeq({k \in DOMAIN string : string[k] \notin Blank
                          /\ (k = 1 \/ string[k - 1] \in Blank)}, <)
WordsOf == [n \in DOMAIN Starts |-> Scan(SubSeq(string, Starts[n], Len(string)))]
Bars == SetToSortSeq({0, Len(WordsOf) + 1} \cup {k \in DOMAIN WordsOf : WordsOf[k] = Bar}, <)
CommandsOf == [c \in 1 .. Len(Bars) - 1 |-> SubSeq(WordsOf, Bars[c] + 1, Bars[c + 1] - 1)]

\* Blanks before the last word beyond one behind each word.
SpareBlanks == Starts[Len(Starts)] - 1
                 - FoldLeft(LAMBDA sum, word : sum + Len(word) + 1, 0, Front(WordsOf))

\* The shell understands a line exactly when it has at most one blank too many:
\* with two, whatever words they stand between, line 100 looks behind the line's last word again.
\* A line understood has its first MAX_CMDS commands run, with the words typed,
\* or meets the end of args (lines 114, 153), and then a command has too
\* many words.
Understood ==
  place \in {"run", "undefined", "aborted"} =>
    LET plain == string = <<"newline">> \/ Starts = <<>> \/ SpareBlanks <= 1
        longest == Max({Len(c) : c \in ToSet(CommandsOf)})
        first == IF Len(CommandsOf) < MAX_CMDS THEN Len(CommandsOf) ELSE MAX_CMDS
    IN /\ words = WordsOf <=> plain
       /\ plain => /\ place = "run" => cms = SubSeq(CommandsOf, 1, first)
                   /\ place = "undefined" <=> longest > ARGS_NUMBER
                   /\ place = "aborted" => longest = ARGS_NUMBER
=============================================================================
