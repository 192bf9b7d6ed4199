---------------------------- MODULE MCListFiles -----------------------------
(* Two small trees, every option and up to two arguments.                    *)
EXTENDS ListFiles

\* Names that occur at two levels, a hidden directory, empty directories; then a link, a socket, a directory that may not be read and a
\* directory with more entries than the buffer holds.
Nested == (<<"f">> :> "file") @@ (<<"d">> :> "dir") @@ (<<"d", "f">> :> "file")
          @@ (<<"d", "e">> :> "dir") @@ (<<"e">> :> "dir")
          @@ (<<".h">> :> "dir") @@ (<<".h", "f">> :> "file")
Special == (<<"l">> :> "link") @@ (<<"s">> :> "socket") @@ (<<"q">> :> "locked")
           @@ (<<"d">> :> "dir") @@ (<<"d", "l">> :> "file") @@ (<<"d", "s">> :> "dir")
           @@ (<<"d", "t">> :> "file") @@ (<<"d", "u">> :> "file")
Trees == {Nested, Special}
\* Two of the second tree; one of the first only where f is looked for in e.
TooLong == {<<"d", "u">>, <<"d", "s">>, <<"e", "f">>}
Called == {"f", "d", "e", ".h", "l", "s", "q", "t", "u", "x", ".", ".."}

Options == [a : BOOLEAN, d : BOOLEAN, l : BOOLEAN, p : BOOLEAN, R : BOOLEAN,
            order : {"name", "stats"}, bad : {FALSE}]
Name1 == {<<"f">>, <<"d">>, <<"l">>, <<"s">>, <<"q">>, <<"e">>, <<"x">>, <<"d", "f">>}
Arguments == {<<>>} \cup {<<x>> : x \in Name1}
             \cup {<<x, y>> : x, y \in Name1}

\* Each option where it matters.
Lines == {c \in [opts : Options, args : Arguments] :
            /\ c.opts.d => ~c.opts.R /\ c.opts.order = "name" /\ ~c.opts.a
            /\ c.opts.R => c.args = <<>> /\ c.opts.order = "name"
            /\ c.opts.p => c.opts.l
            /\ c.args # <<>> => c.opts.a = FALSE}
         \cup {[opts |-> [a |-> FALSE, d |-> FALSE, l |-> FALSE, p |-> FALSE, R |-> FALSE,
                          order |-> "name", bad |-> TRUE], args |-> <<>>]}
=============================================================================
