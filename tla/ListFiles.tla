----------------------------- MODULE ListFiles ------------------------------
(***************************************************************************)
(* src/ls_imp/main.c, an ls with the options a, d, l, p, R and the three   *)
(* orders.  todo is what is left to do, innermost call first: one task is  *)
(* one call that looks at the file system, and between two of them another *)
(* process may remove a file.  A path is the sequence of its names from    *)
(* the working directory on, which is <<>>; the name of an entry or an     *)
(* argument is a path too.  What is printed of a file besides its name     *)
(* (-i, -h, -Q, permissions, times) and the order of a listing are left    *)
(* out.                                                                    *)
(***************************************************************************)
EXTENDS Integers, SequencesExt

CONSTANTS Names,       \* of files, with the two dots
          Systems,     \* file systems: functions from paths to kinds
          CommandLines,\* records opts, args
          DIRBUF,      \* entries that one read of a directory returns
          Long,        \* paths that have no room in path[1024] and next[1024]
          MaxGone      \* bound: files removed meanwhile

Kinds == {"file", "dir", "locked", "link", "socket"}   \* locked: not to be read

VARIABLES fs, opts, args,  \* fixed
          gone,            \* the files removed meanwhile
          todo,            \* tasks
          global_dir,      \* the directory of get_stats
          out,             \* the lines printed
          end              \* "opts", "running", or how the program ended

fixed == <<fs, opts, args>>
vars == <<fixed, gone, todo, global_dir, out, end>>

Dots == {<<".">>, <<"..">>}

\* Files and arguments have a name, which is not one of the dots.
ASSUME ListFilesAssumption ==
  LET Named == {p \in Seq(Names) : p # <<>> /\ <<Last(p)>> \notin Dots}
  IN /\ DIRBUF \in Nat \ {0} /\ MaxGone \in Nat /\ {".", ".."} \subseteq Names
     /\ \A f \in Systems : IsFiniteSet(DOMAIN f) /\ \A p \in DOMAIN f : p \in Named /\ f[p] \in Kinds
     /\ \A c \in CommandLines : c.args \in Seq(Named)
Hidden(name) == name \in Dots \/ Head(name) = ".h"
Exists(p) == LET q == IF p # <<>> /\ <<Last(p)>> \in Dots THEN Front(p) ELSE p
             IN q = <<>> \/ q \in DOMAIN fs \ gone
KindOf(p) == IF p \in DOMAIN fs THEN fs[p] ELSE "dir"    \* of a path that exists
Opens(dir) == Exists(dir) /\ KindOf(dir) = "dir"
Files(dir) == {SubSeq(p, Len(p), Len(p)) : p \in {q \in DOMAIN fs \ gone : Front(q) = dir}}
Entries(dir) == Files(dir) \cup Dots
Visible(name) == opts.a \/ ~Hidden(name)

\* mode & S_IFDIR and mode & S_IFLNK test one bit: it is other kinds' too.
DirBit(p) == Exists(p) /\ KindOf(p) \in {"dir", "locked", "socket"}
LinkBit(p) == KindOf(p) \in {"file", "link", "socket"}

-----------------------------------------------------------------------------
(* Tasks                                                                   *)

Task(do, dir, name) == [do |-> do, dir |-> dir, name |-> name]

\* The task at hand, followed by those it leaves and by what was left before.
Doing(do) == end = "running" /\ todo # <<>> /\ Head(todo).do = do
Dir == Head(todo).dir
Name == Head(todo).name
Then(tasks) == /\ todo' = tasks \o Tail(todo)
               /\ UNCHANGED <<fixed, gone, end>>
Now(do) == Then(<<Task(do, Dir, Name)>>) /\ UNCHANGED <<global_dir, out>>
Skip == Then(<<>>) /\ UNCHANGED <<global_dir, out>>
PrintLine(suffix) == /\ out' = Append(out, [dir |-> Dir, name |-> Name, suffix |-> suffix])
                     /\ Then(<<>>) /\ UNCHANGED global_dir
Stop(how) == end' = how /\ UNCHANGED <<fixed, gone, todo, global_dir, out>>

lstat(path, next) == IF Exists(path) THEN next ELSE Stop("io_error")

\* sprintf does not look at the size of path: it may go well or not.
get_stats(path, next) == (path \in Long /\ Stop("crash")) \/ lstat(path, next)

is_in_dir(dir, name) == Opens(dir) /\ name \in Entries(dir)

\* What readdir may return: any order; which entry is first is what matters.
Orders(dir) == {<<first>> \o SetToSeq(Entries(dir) \ {first}) : first \in Entries(dir)}

-----------------------------------------------------------------------------
(* Actions                                                                 *)

get_opts == end = "opts" /\ opts.bad /\ Stop("usage")

scan_dirs ==
  /\ end = "opts" /\ ~opts.bad /\ end' = "running"
  /\ todo' = IF opts.d
             THEN IF args = <<>> THEN <<Task("show", <<>>, <<".">>)>>
                  ELSE [i \in DOMAIN args |-> Task("show", <<>>, args[i])]
             ELSE IF opts.R THEN <<Task("recurse", <<>>, <<>>)>>
             ELSE IF args = <<>> THEN <<Task("display", <<>>, <<>>)>>
             ELSE [i \in DOMAIN args |-> Task("arg", <<>>, args[i])]
  /\ UNCHANGED <<fixed, gone, global_dir, out>>

\* The first half of is_dir, under whatever global_dir was left.
is_dir_stats == \/ Doing("arg") /\ get_stats(global_dir \o Name, Now("arg_here"))
                \/ Doing("slash") /\ get_stats(global_dir \o Name, Now("slash_here"))

\* Its second half, in the working directory.
is_dir_here == \/ Doing("arg_here") /\ Now(IF DirBit(Name) THEN "heading" ELSE "show")
               \/ Doing("slash_here") /\ PrintLine(IF DirBit(Name) THEN "/" ELSE "")

\* Lines 473-485.
Heading ==
  /\ Doing("heading") /\ UNCHANGED global_dir
  /\ out' = IF Len(args) >= 2
            THEN Append(out, [dir |-> Name, name |-> <<>>, suffix |-> ":"]) ELSE out
  /\ Then(IF is_in_dir(<<>>, Name) THEN <<Task("display", Name, <<>>)>> ELSE <<>>)

\* dir_arr has pointers to names in the buffer of readdir: behind DIRBUF entries
\* it is filled again, and they are the names of later entries.
dir_arr(order) ==
  LET kept == [i \in DOMAIN order |-> order[Len(order) - ((Len(order) - i) % DIRBUF)]]
      shown == SetToSeq({i \in DOMAIN order : Visible(order[i])})
  IN [k \in DOMAIN shown |-> kept[shown[k]]]

display_dir ==
  /\ Doing("display")
  /\ \/ ~Opens(Dir) /\ Stop("crash")       \* readdir(NULL)
     \/ /\ Opens(Dir) /\ global_dir' = Dir /\ UNCHANGED out
        /\ \E order \in Orders(Dir) :
             LET names == dir_arr(order)
                 shows == [k \in DOMAIN names |-> Task("show", Dir, names[k])]
             IN Then(IF opts.order = "stats" /\ Len(names) >= 2
                     THEN <<Task("sort", Dir, <<>>)>> \o shows ELSE shows)

\* cmp_time and cmp_size ask for the stats of every entry.
Sort == /\ Doing("sort")
        /\ LET shows == {t \in ToSet(Tail(todo)) : t.do = "show" /\ t.dir = Dir}
               lost == \E t \in shows : ~Exists(global_dir \o t.name)
           IN \/ (\E t \in shows : global_dir \o t.name \in Long) /\ Stop("crash")
              \/ IF lost THEN Stop("io_error") ELSE Skip

\* A mutant: without looking into the directory first.
StatsUnchecked ==
  /\ Doing("show")
  /\ \/ ~opts.l /\ PrintLine("")
     \/ /\ opts.l /\ global_dir' = Dir
        /\ Then(<<Task("stats", Dir, Name)>>) /\ UNCHANGED out

display_stats ==
  /\ Doing("show")
  /\ \/ ~is_in_dir(Dir, Name) /\ Skip
     \/ is_in_dir(Dir, Name) /\ ~opts.l /\ PrintLine("")
     \/ /\ is_in_dir(Dir, Name) /\ opts.l /\ global_dir' = Dir
        /\ Then(<<Task("stats", Dir, Name)>>) /\ UNCHANGED out

\* Line 256.
print_stats == Doing("stats") /\ get_stats(global_dir \o Name, Now("name"))

\* readlink looks in the working directory.
print_name_or_link ==
  LET link == LinkBit(global_dir \o Name) /\ Exists(Name) /\ KindOf(Name) = "link"
  IN Doing("name") /\ IF link THEN PrintLine("->")
                      ELSE IF opts.p THEN Now("slash") ELSE PrintLine("")

\* A mutant: another readdir at the end of the loop, as display_dir has it.
EverySecond(order) == [k \in 1 .. (Len(order) \div 2) |-> order[2 * k]]

\* The readdir at the head of the loop drops what line 307 has read.
Looped(order) == Tail(order)

recurse_dirs ==
  /\ Doing("recurse")
  /\ \/ ~Opens(Dir) /\ Stop("crash")       \* readdir(NULL)
     \/ /\ Opens(Dir) /\ UNCHANGED global_dir
        /\ out' = Append(out, [dir |-> Dir, name |-> <<>>, suffix |-> ":"])
        /\ \E order \in Orders(Dir) :
             LET names == Looped(order)
             IN Then([k \in DOMAIN names |-> Task("entry", Dir, names[k])])

\* The names that dir had when the program began, and whether one readdir gets
\* them all.
Was(dir) == {SubSeq(p, Len(p), Len(p)) : p \in {q \in DOMAIN fs : Front(q) = dir}}
Fits(dir) == Cardinality(Was(dir)) + 2 <= DIRBUF

\* Lines 311-332, one turn of the loop.  What is removed before the rest of a
\* large directory is read is not met.
Entry ==
  LET next == Task("can_recurse", Dir, Name)
  IN /\ Doing("entry") /\ UNCHANGED global_dir
     /\ \/ Visible(Name) /\ opts.l /\ Then(<<Task("show", Dir, Name), next>>) /\ UNCHANGED out
        \/ /\ Visible(Name) /\ ~opts.l /\ Then(<<next>>)
           /\ out' = Append(out, [dir |-> Dir, name |-> Name, suffix |-> ""])
        \/ ~Visible(Name) /\ Then(<<next>>) /\ UNCHANGED out
        \/ ~Fits(Dir) /\ ~Exists(Dir \o Name) /\ Then(<<>>) /\ UNCHANGED out

can_recurse_dir ==
  /\ Doing("can_recurse")
  /\ LET next == Dir \o Name
         recurses == KindOf(next) \in {"dir", "locked"}
     IN \/ Name \in Dots /\ Skip
        \/ /\ Name \notin Dots
           /\ lstat(next, /\ Then(IF recurses THEN <<Task("recurse", next, <<>>)>> ELSE <<>>)
                          /\ UNCHANGED <<global_dir, out>>)
        \/ /\ Name \notin Dots /\ Exists(next) /\ recurses
           /\ next \in Long /\ Stop("crash")

Done == end = "running" /\ todo = <<>> /\ Stop("success")

\* Another process removes a file or an empty directory.
Removal == /\ end = "running" /\ Cardinality(gone) < MaxGone
           /\ \E p \in DOMAIN fs \ gone : Files(p) = {} /\ gone' = gone \cup {p}
           /\ UNCHANGED <<fixed, todo, global_dir, out, end>>

-----------------------------------------------------------------------------
Init == /\ fs \in Systems
        /\ \E c \in CommandLines : opts = c.opts /\ args = c.args
        /\ gone = {} /\ todo = <<>> /\ global_dir = <<>> /\ out = <<>> /\ end = "opts"

Next == \/ get_opts \/ scan_dirs \/ is_dir_stats \/ is_dir_here \/ Heading \/ display_dir
        \/ Sort \/ display_stats \/ print_stats \/ print_name_or_link \/ recurse_dirs
        \/ Entry \/ can_recurse_dir \/ Done \/ Removal

Spec == Init /\ [][Next]_vars

-----------------------------------------------------------------------------
(* Properties                                                              *)

\* The names that dir is asked to show, and its subdirectories.
Asked(dir) == {name \in Was(dir) \cup Dots : Visible(name)}
Subs(dir) == {name \in Was(dir) : fs[dir \o name] = "dir"}
Args(K) == {a \in ToSet(args) : a \in Was(<<>>) /\ fs[a] \in K}

Shown(dir) == {line.name : line \in {l \in ToSet(out) : l.dir = dir}} \ {<<>>}
Heads(dir) == {name \in Subs(dir) : \E l \in ToSet(out) : l.dir = dir \o name}

\* What is wanted and still there was shown, and nothing that is not wanted.
Right(shown, dir, want) == /\ shown \subseteq want
                           /\ {name \in want : Exists(dir \o name)} \subseteq shown
Displayed(dir) == Fits(dir) => Right(Shown(dir), dir, Asked(dir))

ShownOnce ==
  LET differ == \A i, j \in DOMAIN args : args[i] = args[j] => i = j
  IN differ \/ (opts.R /\ ~opts.d) =>
       \A i, j \in DOMAIN out :
         out[i].dir = out[j].dir /\ out[i].name = out[j].name /\ Fits(out[i].dir) => i = j

AllShown ==
  IF opts.d THEN Right(Shown(<<>>), <<>>, IF args = <<>> THEN {<<".">>} ELSE Args(Kinds))
  ELSE IF opts.R
  THEN /\ \E l \in ToSet(out) : l.dir = <<>>
       /\ \A dir \in {l.dir : l \in ToSet(out)} : \E first \in Was(dir) \cup Dots :
            /\ Right(Shown(dir), dir, Asked(dir) \ {first})
            /\ Right(Heads(dir), dir, Subs(dir) \ {first})
  ELSE IF args = <<>> THEN Displayed(<<>>)
  ELSE /\ Right(Shown(<<>>), <<>>, Args(Kinds \ {"dir"}))
       /\ \A a \in Args({"dir"}) : Displayed(a)

RightMarks ==
  gone = {} /\ opts.l =>
    \A l \in ToSet(out) : l.dir = <<>> /\ l.suffix # ":" =>
      l.suffix = IF KindOf(l.name) = "link" THEN "->"
                 ELSE IF opts.p /\ DirBit(l.name) THEN "/" ELSE ""

\* A listing that ends with success has shown each visible entry of each
\* directory it was asked for, once (or as often as it is named), whatever was removed
\* meanwhile; arguments with a slash and missing ones are passed over, and with -R each directory
\* lacks the one entry that readdir returned first, with everything below it (line 307).  It takes
\* a directory that fits into the buffer of readdir (line 399).  Entries of the working
\* directory have the right marks.
Listed == end = "success" => ShownOnce /\ AllShown /\ RightMarks

\* When the program gives up.  A missing argument, one that is looked for in the directory
\* displayed before it (line 406), or, where stats are asked for, a file removed
\* meanwhile ends the whole listing; a plain one survives removals.  It
\* crashes only on a directory it cannot open, which a socket is taken for, and,
\* where stats are asked for, on a path longer than its buffers (lines 144-145, 329-330).
FailsOnly ==
  LET Walks == ~opts.d /\ opts.R
      Looks == ~opts.d /\ ~opts.R
      Stats == opts.l \/ Walks \/ (Looks /\ (args # <<>> \/ opts.order = "stats"))
      Overlong == \/ \E p \in DOMAIN fs : p \in Long
                  \/ \E dir \in {<<>>} \cup DOMAIN fs :
                       \E name \in Dots \cup ToSet(args) : dir \o name \in Long
      At(K) == \E k \in DOMAIN args : args[k] \in DOMAIN fs /\ fs[args[k]] \in K
  IN /\ end = "io_error" =>
          \/ gone # {} /\ Stats
          \/ Looks /\ \E k \in DOMAIN args : \/ args[k] \notin DOMAIN fs
                                            \/ \E j \in 1 .. k - 1 : args[j] \in DOMAIN fs
                                                                      /\ fs[args[j]] = "dir"
     /\ end = "crash" => \/ Looks /\ At({"locked", "socket"})
                         \/ gone # {} /\ (Walks \/ (Looks /\ At({"dir"})))
                         \/ Walks /\ \E p \in DOMAIN fs : fs[p] = "locked"
                         \/ Stats /\ Overlong
=============================================================================
