--------------------------- MODULE ListFilesProofs ---------------------------
(***************************************************************************)
(* The reasons for which ls gives up are the ones FailsOnly lists, and     *)
(* when it ends with success it has shown what Listed says, for all file   *)
(* systems, options, arguments and buffers, whatever is removed meanwhile. *)
(***************************************************************************)
EXTENDS ListFiles, FiniteSetTheorems, SequenceTheorems, TLAPS

(***************************************************************************)
(* The inductive invariant of FailsOnly                                    *)
(***************************************************************************)

Path == Seq(Names)
Tasks == [do : {"show", "arg", "arg_here", "heading", "display", "sort", "stats", "name",
                "slash", "slash_here", "recurse", "entry", "can_recurse"},
          dir : Path, name : Path]
Walks == ~opts.d /\ opts.R
Looks == ~opts.d /\ ~opts.R
Stats == opts.l \/ Walks \/ (Looks /\ (args # <<>> \/ opts.order = "stats"))

TypeInv == /\ fs \in Systems /\ \E c \in CommandLines : opts = c.opts /\ args = c.args
           /\ todo \in Seq(Tasks) /\ global_dir \in Path

\* What a task is about was in the file system when the program began.
Node(dir) == dir = <<>> \/ dir \in DOMAIN fs
Under(dir, name) == name \in Dots \/ dir \o name \in DOMAIN fs

Marked == {"dir", "locked", "socket"}      \* has the bit of S_IFDIR

TaskOK(t) ==
  /\ Node(t.dir)
  /\ t.do \in {"arg", "arg_here", "heading", "display", "sort"} => Looks
  /\ t.do = "heading" /\ t.name \in DOMAIN fs => fs[t.name] \in Marked
  /\ t.do = "display" /\ t.dir # <<>> => fs[t.dir] \in Marked
  /\ t.do = "sort" => opts.order = "stats"
  /\ t.do \in {"stats", "name", "slash", "slash_here"} => opts.l /\ Under(t.dir, t.name)
  /\ t.do \in {"recurse", "entry", "can_recurse"} => Walks
  /\ t.do = "recurse" /\ t.dir # <<>> => fs[t.dir] \in {"dir", "locked"}
  /\ t.do \in {"entry", "can_recurse"} => Under(t.dir, t.name)

\* The arguments left are at the end of todo: the argument of its i-th task.
Place(i) == Len(args) - (Len(todo) - i)

\* A directory displayed so far: the arguments behind it are still to come.
Passed(dir) == \/ dir = <<>>
               \/ \E j \in DOMAIN args :
                    /\ args[j] = dir /\ dir \in DOMAIN fs /\ fs[dir] = "dir"
                    /\ \A i \in DOMAIN todo : todo[i].do = "arg" => j < Place(i)

PlaceOK(i) ==
  LET t == todo[i]
  IN /\ t.do \in {"arg", "arg_here", "heading"} => Place(i) \in DOMAIN args /\ t.name = args[Place(i)]
     /\ t.do = "display" /\ t.dir # <<>> => Place(i) \in DOMAIN args /\ t.dir = args[Place(i)]
     /\ Looks /\ t.do # "display" => Passed(t.dir)
     /\ i > 1 => t.do \in {"show", "arg", "entry", "can_recurse"}

\* Once it is an argument's turn nothing but arguments is left behind it.
Argument == {"arg", "arg_here", "heading", "display"}
OrderInv == \A i, j \in DOMAIN todo : i < j /\ todo[i].do \in Argument => todo[j].do = "arg"

\* Where the task at hand asks for stats it does so in its own directory.
HeadInv ==
  todo # <<>> =>
    /\ Head(todo).do \in {"stats", "name", "slash", "sort"} => global_dir = Head(todo).dir
    /\ Head(todo).do = "sort" =>
         \A i \in DOMAIN todo : todo[i].do = "show" => Under(todo[i].dir, todo[i].name)

IInv == /\ TypeInv /\ OrderInv /\ HeadInv /\ FailsOnly
        /\ Looks => Passed(global_dir)
        /\ end = "opts" => global_dir = <<>>
        /\ \A i \in DOMAIN todo : TaskOK(todo[i]) /\ PlaceOK(i)

-----------------------------------------------------------------------------
(***************************************************************************)
(* Sequences and paths                                                     *)
(***************************************************************************)

\* The elements of a finite set in some order.
LEMMA SetSeq == ASSUME NEW S, IsFiniteSet(S)
                PROVE  SetToSeq(S) \in [1 .. Cardinality(S) -> S] /\ Cardinality(S) \in Nat
<1>1. Cardinality(S) \in Nat /\ ExistsBijection(1 .. Cardinality(S), S)
  BY FS_CardinalityType
<1>2. \E f \in [1 .. Cardinality(S) -> S] : IsInjective(f)
  BY <1>1 DEF ExistsBijection, Bijection, Injection, IsInjective
<1> QED BY <1>1, <1>2 DEF SetToSeq

\* A name alone is a path.
LEMMA OneName == ASSUME NEW S, NEW s \in S
                 PROVE  /\ <<s>> \in Seq(S) /\ Len(<<s>>) = 1 /\ <<s>>[1] = s
                        /\ \A t \in Seq(S) : Len(t) = 1 /\ t[1] = s => t = <<s>>
<1>1. <<s>> \in Seq(S) /\ Len(<<s>>) = 1 /\ <<s>>[1] = s
  OBVIOUS
<1>2. \A t \in Seq(S) : Len(t) = 1 /\ t[1] = s => t = <<s>>
  <2> SUFFICES ASSUME NEW t \in Seq(S), Len(t) = 1, t[1] = s PROVE t = <<s>>
    OBVIOUS
  <2>1. \A i \in 1 .. Len(t) : t[i] = <<s>>[i]
    BY <1>1
  <2> QED BY <1>1, <2>1, SeqEqual
<1> QED BY <1>1, <1>2

LEMMA Files1 ==
  ASSUME TypeInv
  PROVE  /\ IsFiniteSet(DOMAIN fs)
         /\ \A p \in DOMAIN fs : /\ p \in Path /\ p # <<>> /\ <<Last(p)>> \notin Dots
                                 /\ fs[p] \in Kinds
         /\ Len(args) \in Nat /\ DOMAIN args = 1 .. Len(args)
         /\ \A k \in DOMAIN args : /\ args[k] \in Path /\ args[k] # <<>>
                                   /\ <<Last(args[k])>> \notin Dots
<1> DEFINE Named == {p \in Seq(Names) : p # <<>> /\ <<Last(p)>> \notin Dots}
<1>1. args \in Seq(Named)
  BY ListFilesAssumption DEF TypeInv
<1>2. \A k \in DOMAIN args : args[k] \in Named
  BY <1>1
<1>3. IsFiniteSet(DOMAIN fs) /\ \A p \in DOMAIN fs : p \in Named /\ fs[p] \in Kinds
  BY ListFilesAssumption DEF TypeInv
<1> QED BY <1>1, <1>2, <1>3 DEF Path

\* A path is the directory it is in and the name it has there.
LEMMA SplitPath ==
  ASSUME NEW p \in Path, p # <<>>
  PROVE  /\ Front(p) \in Path /\ SubSeq(p, Len(p), Len(p)) \in Path
         /\ Front(p) \o SubSeq(p, Len(p), Len(p)) = p
         /\ SubSeq(p, Len(p), Len(p)) = <<Last(p)>>
<1>1. Len(p) \in Nat \ {0} /\ p \in Seq(Names)
  BY EmptySeq DEF Path
<1> DEFINE n == Len(p)
<1>2. \A i \in 1 .. n : p[i] \in Names
  BY <1>1
<1>3. SubSeq(p, 1, n - 1) \in Path /\ SubSeq(p, n, n) \in Path
  BY <1>1, <1>2, SubSeqProperties DEF Path
<1>4. SubSeq(p, 1, n - 1) \o SubSeq(p, n - 1 + 1, n) = SubSeq(p, 1, n)
  <2>1. 1 \in 1 .. Len(p) + 1 /\ n - 1 \in 1 - 1 .. Len(p) /\ n \in n - 1 .. Len(p)
    BY <1>1
  <2> QED BY <1>1, <2>1, ConcatAdjacentSubSeq
<1>5. SubSeq(p, 1, n) = p /\ n - 1 + 1 = n
  BY <1>1, SubSeqFull
<1>6. SubSeq(p, n, n) = <<Last(p)>>
  <2>1. /\ SubSeq(p, n, n) \in Seq(Names) /\ Len(SubSeq(p, n, n)) = n - n + 1
        /\ SubSeq(p, n, n)[1] = p[n + 1 - 1]
    BY <1>1, <1>2, SubSeqProperties
  <2>2. n - n + 1 = 1 /\ n + 1 - 1 = n /\ p[n] \in Names
    BY <1>1, <1>2
  <2> QED BY <2>1, <2>2, OneName DEF Last
<1> QED BY <1>3, <1>4, <1>5, <1>6 DEF Front

LEMMA Appended ==
  ASSUME NEW dir \in Path, NEW s \in Names
  PROVE  LET p == dir \o <<s>> IN p # <<>> /\ Front(p) = dir /\ Last(p) = s /\ p \in Path
<1> DEFINE p == dir \o <<s>>
<1>1. dir \in Seq(Names) /\ <<s>> \in Seq(Names) /\ Len(<<s>>) = 1 /\ <<s>>[1] = s
      /\ Len(dir) \in Nat
  <2>1. dir \in Seq(Names) /\ Len(dir) \in Nat
    BY DEF Path
  <2> QED BY <2>1, OneName
<1>2. /\ p \in Seq(Names) /\ Len(p) = Len(dir) + 1 /\ p[Len(dir) + 1] = s
      /\ \A i \in 1 .. Len(dir) : p[i] = dir[i]
  <2> HIDE DEF p
  <2>1. /\ p \in Seq(Names) /\ Len(p) = Len(dir) + Len(<<s>>)
        /\ \A i \in 1 .. Len(dir) + Len(<<s>>) :
             p[i] = IF i <= Len(dir) THEN dir[i] ELSE <<s>>[i - Len(dir)]
    BY <1>1, ConcatProperties DEF p
  <2>2. Len(dir) + 1 - Len(dir) = 1
    BY <1>1
  <2>3. Len(p) = Len(dir) + 1
    BY <1>1, <2>1
  <2>4. \A i \in 1 .. Len(dir) : p[i] = dir[i]
    <3>1. \A i \in 1 .. Len(dir) : i \in 1 .. Len(dir) + Len(<<s>>) /\ i <= Len(dir)
      BY <1>1
    <3> QED BY <2>1, <3>1
  <2>5. p[Len(dir) + 1] = s
    <3>1. Len(dir) + 1 \in 1 .. Len(dir) + Len(<<s>>) /\ ~(Len(dir) + 1 <= Len(dir))
      BY <1>1
    <3> QED BY <1>1, <2>1, <2>2, <3>1
  <2> QED BY <2>1, <2>3, <2>4, <2>5
<1>3. Front(p) = dir
  <2>1. \A i \in 1 .. Len(dir) : p[i] \in Names
    BY <1>1, <1>2
  <2>2. Len(p) - 1 = Len(dir)
    BY <1>1, <1>2
  <2>3. /\ SubSeq(p, 1, Len(dir)) \in Seq(Names) /\ Len(SubSeq(p, 1, Len(dir))) = Len(dir)
        /\ \A i \in 1 .. Len(dir) : SubSeq(p, 1, Len(dir))[i] = p[i]
    <3>1. Len(dir) - 1 + 1 = Len(dir) /\ \A i \in 1 .. Len(dir) : 1 + i - 1 = i
      BY <1>1
    <3> QED BY <1>1, <2>1, SubSeqProperties
  <2>4. SubSeq(p, 1, Len(dir)) = dir
    BY <1>1, <1>2, <2>3, SeqEqual
  <2> QED BY <2>2, <2>4 DEF Front
<1>4. p # <<>>
  BY <1>1, <1>2
<1> QED BY <1>1, <1>2, <1>3, <1>4 DEF Last, Path

LEMMA DotsArePaths == \A name \in Dots : name \in Path /\ \E s \in Names : name = <<s>>
<1>1. "." \in Names /\ ".." \in Names
  BY ListFilesAssumption
<1>2. <<".">> \in Seq(Names) /\ <<"..">> \in Seq(Names)
  BY <1>1, OneName
<1> QED BY <1>1, <1>2 DEF Dots, Path

\* What readdir finds was there when the program began.
LEMMA EntryUnder ==
  ASSUME TypeInv, NEW dir \in Path, NEW name \in Entries(dir)
  PROVE  name \in Path /\ Under(dir, name)
<1>1. CASE name \in Dots
  BY <1>1, DotsArePaths DEF Under
<1>2. CASE name \in Files(dir)
  <2>1. PICK p \in DOMAIN fs : Front(p) = dir /\ name = SubSeq(p, Len(p), Len(p))
    BY <1>2 DEF Files
  <2>2. p \in Path /\ p # <<>>
    BY Files1
  <2> QED BY <2>1, <2>2, SplitPath DEF Under
<1> QED BY <1>1, <1>2 DEF Entries

LEMMA EntriesFinite ==
  ASSUME TypeInv, NEW dir PROVE IsFiniteSet(Entries(dir))
<1> DEFINE Here == {q \in DOMAIN fs \ gone : Front(q) = dir}
           LastOf == [p \in Here |-> SubSeq(p, Len(p), Len(p))]
<1>1. IsFiniteSet(Here)
  BY Files1, FS_Subset
<1>2. IsFiniteSet(Files(dir))
  <2>1. LastOf \in Surjection(Here, Files(dir))
    BY DEF Surjection, Files
  <2> QED BY <1>1, <2>1, FS_Surjection
<1>3. IsFiniteSet(Dots)
  <2>1. Dots = ({} \cup {<<".">>}) \cup {<<"..">>}
    BY DEF Dots
  <2> QED BY <2>1, FS_EmptySet, FS_AddElement
<1> QED BY <1>2, <1>3, FS_Union DEF Entries

\* A lookup of what was there fails only for what was removed.
LEMMA Lookup ==
  ASSUME TypeInv, NEW dir \in Path, NEW name \in Path, Node(dir), Under(dir, name),
         ~Exists(dir \o name)
  PROVE  gone # {}
<1>1. CASE name \in Dots
  <2>1. PICK s \in Names : name = <<s>>
    BY <1>1, DotsArePaths
  <2>2. dir \o name # <<>> /\ Last(dir \o name) = s /\ Front(dir \o name) = dir
    BY <2>1, Appended
  <2> QED BY <1>1, <2>1, <2>2 DEF Exists, Node
<1>2. CASE dir \o name \in DOMAIN fs
  BY <1>2, Files1 DEF Exists
<1> QED BY <1>1, <1>2 DEF Under

LEMMA NodeOpens ==
  ASSUME TypeInv, NEW dir, Node(dir), ~Opens(dir)
  PROVE  dir \in DOMAIN fs /\ (gone # {} \/ fs[dir] # "dir")
<1>1. dir # <<>>
  BY Files1 DEF Opens, Exists, KindOf
<1>2. dir \in DOMAIN fs
  BY <1>1 DEF Node
<1> QED BY <1>2, Files1 DEF Opens, Exists, KindOf

\* What display_dir shows and recurse_dirs walks through are entries.
LEMMA OrderEntries ==
  ASSUME TypeInv, NEW dir, NEW order \in Orders(dir)
  PROVE  /\ order \in Seq(Entries(dir)) /\ order # <<>>
         /\ \E n \in Nat : dir_arr(order) \in [1 .. n -> Entries(dir)]
         /\ \E n \in Nat : Looped(order) \in [1 .. n -> Entries(dir)]
<1>1. PICK first \in Entries(dir) : order = <<first>> \o SetToSeq(Entries(dir) \ {first})
  BY DEF Orders
<1> DEFINE R == SetToSeq(Entries(dir) \ {first})
           L == Len(order)
<1>2. R \in Seq(Entries(dir))
  <2>1. IsFiniteSet(Entries(dir) \ {first})
    BY EntriesFinite, FS_Subset
  <2> HIDE DEF R
  <2>2. PICK n \in Nat : R \in [1 .. n -> Entries(dir)]
    BY <2>1, SetSeq DEF R
  <2> QED BY <2>2
<1>3. order \in Seq(Entries(dir)) /\ order # <<>> /\ L \in Nat \ {0} /\ DOMAIN order = 1 .. L
  <2>1. <<first>> \in Seq(Entries(dir)) /\ Len(<<first>>) = 1
    OBVIOUS
  <2> HIDE DEF R
  <2>2. <<first>> \o R \in Seq(Entries(dir)) /\ Len(<<first>> \o R) = 1 + Len(R) /\ Len(R) \in Nat
    BY <1>2, <2>1, ConcatProperties
  <2>3. order = <<first>> \o R
    BY <1>1 DEF R
  <2> QED BY <2>2, <2>3, EmptySeq
<1>4. \E n \in Nat : Looped(order) \in [1 .. n -> Entries(dir)]
  <2>1. Tail(order) \in Seq(Entries(dir))
    BY <1>3
  <2>2. Len(Tail(order)) \in Nat /\ Tail(order) \in [1 .. Len(Tail(order)) -> Entries(dir)]
    BY <2>1, LenProperties
  <2> QED BY <2>2 DEF Looped
<1>5. \E n \in Nat : dir_arr(order) \in [1 .. n -> Entries(dir)]
  <2> DEFINE kept == [i \in DOMAIN order |-> order[L - ((L - i) % DIRBUF)]]
             S == {i \in DOMAIN order : Visible(order[i])}
             shown == SetToSeq(S)
  <2>1. \A k \in Nat \ {0} : \A x \in Nat : x % k \in 0 .. x
    OBVIOUS
  <2>2. \A i \in 1 .. L : L - i \in Nat /\ \A r \in 0 .. (L - i) : L - r \in 1 .. L
    BY <1>3
  <2>3. \A i \in DOMAIN order : kept[i] \in Entries(dir)
    <3> SUFFICES ASSUME NEW i \in DOMAIN order PROVE kept[i] \in Entries(dir)
      OBVIOUS
    <3>1. (L - i) % DIRBUF \in 0 .. (L - i)
      BY <1>3, <2>1, <2>2, ListFilesAssumption
    <3>2. L - ((L - i) % DIRBUF) \in DOMAIN order
      BY <1>3, <2>2, <3>1
    <3> QED BY <1>3, <3>2
  <2>4. IsFiniteSet(S)
    <3>1. S \subseteq 1 .. L /\ IsFiniteSet(1 .. L)
      BY <1>3, FS_Interval
    <3> QED BY <3>1, FS_Subset
  <2>5. PICK n \in Nat : shown \in [1 .. n -> S]
    BY <2>4, SetSeq
  <2>6. dir_arr(order) = [k \in DOMAIN shown |-> kept[shown[k]]]
    BY DEF dir_arr
  <2> HIDE DEF kept, shown
  <2> QED BY <2>3, <2>5, <2>6
<1> QED BY <1>3, <1>4, <1>5

-----------------------------------------------------------------------------
(***************************************************************************)
(* What a step may leave to do                                             *)
(***************************************************************************)

\* The two reasons of FailsOnly.
IOReason ==
  \/ gone # {} /\ Stats
  \/ Looks /\ \E k \in DOMAIN args : \/ args[k] \notin DOMAIN fs
                                     \/ \E j \in 1 .. k - 1 : args[j] \in DOMAIN fs
                                                               /\ fs[args[j]] = "dir"
Overlong == \/ \E p \in DOMAIN fs : p \in Long
            \/ \E dir \in {<<>>} \cup DOMAIN fs :
                 \E name \in Dots \cup ToSet(args) : dir \o name \in Long
CrashReason ==
  LET At(K) == \E k \in DOMAIN args : args[k] \in DOMAIN fs /\ fs[args[k]] \in K
  IN \/ Looks /\ At({"locked", "socket"})
     \/ gone # {} /\ (Walks \/ (Looks /\ At({"dir"})))
     \/ Walks /\ \E p \in DOMAIN fs : fs[p] = "locked"
     \/ Stats /\ Overlong

\* As Passed, of the tasks that are left behind the one at hand.
Behind(dir) == \/ dir = <<>>
               \/ \E j \in DOMAIN args :
                    /\ args[j] = dir /\ dir \in DOMAIN fs /\ fs[dir] = "dir"
                    /\ \A k \in DOMAIN todo \ {1} : todo[k].do = "arg" => j < Place(k)

\* t may be the i-th of n tasks that replace the one at hand.
Replaces(t, i, n) ==
  /\ TaskOK(t) /\ t.do # "arg"
  /\ i > 1 => t.do \in {"show", "entry", "can_recurse"}
  /\ t.do \in Argument => n = 1 /\ Head(todo).do \in Argument
  /\ t.do \in {"arg_here", "heading"} => Place(1) \in DOMAIN args /\ t.name = args[Place(1)]
  /\ t.do = "display" /\ t.dir # <<>> => Place(1) \in DOMAIN args /\ t.dir = args[Place(1)]
  /\ Looks /\ t.do # "display" => Behind(t.dir)

\* The tasks may replace it, with dir as the directory of get_stats.
MayReplace(tasks, dir) ==
  /\ tasks \in Seq(Tasks) /\ dir \in Path
  /\ \A i \in DOMAIN tasks : Replaces(tasks[i], i, Len(tasks))
  /\ Looks => Behind(dir)
  /\ tasks # <<>> =>
       /\ tasks[1].do \in {"stats", "name", "slash", "sort"} => dir = tasks[1].dir
       /\ tasks[1].do = "sort" =>
            /\ Head(todo).do = "display"
            /\ \A i \in DOMAIN tasks : tasks[i].do = "show" => Under(tasks[i].dir, tasks[i].name)

\* A task left to do is a new one or one that was left, as far from the end.
LEMMA Kept ==
  ASSUME TypeInv, todo # <<>>, NEW tasks \in Seq(Tasks), todo' = tasks \o Tail(todo),
         UNCHANGED fixed
  PROVE  /\ todo' \in Seq(Tasks) /\ Len(tasks) \in Nat /\ DOMAIN tasks = 1 .. Len(tasks)
         /\ \A i \in DOMAIN todo' :
              i \in Nat \ {0}
              /\ \/ /\ i \in DOMAIN tasks /\ todo'[i] = tasks[i]
                    /\ Len(tasks) = 1 => Place(i)' = Place(1)
                 \/ /\ i \notin DOMAIN tasks
                    /\ \E k \in DOMAIN todo \ {1} : /\ i = Len(tasks) + k - 1 /\ todo'[i] = todo[k]
                                                    /\ k \in Nat /\ k > 1 /\ Place(i)' = Place(k)
<1> DEFINE m == Len(tasks)
           n == Len(todo)
           a == Len(args)
<1>1. /\ todo \in Seq(Tasks) /\ n \in Nat \ {0} /\ DOMAIN todo = 1 .. n
      /\ m \in Nat /\ DOMAIN tasks = 1 .. m /\ a \in Nat
  BY Files1, EmptySeq DEF TypeInv
<1>2. /\ Tail(todo) \in Seq(Tasks) /\ Len(Tail(todo)) = n - 1
      /\ \A i \in 1 .. n - 1 : Tail(todo)[i] = todo[i + 1]
  BY <1>1
<1>3. /\ todo' \in Seq(Tasks) /\ Len(todo') = m + (n - 1)
      /\ \A i \in 1 .. m + (n - 1) :
           todo'[i] = IF i <= m THEN tasks[i] ELSE Tail(todo)[i - m]
  BY <1>1, <1>2, ConcatProperties
<1>4. DOMAIN todo' = 1 .. m + (n - 1)
  BY <1>1, <1>3
<1>5. \A i : Place(i)' = a - ((m + (n - 1)) - i) /\ Place(i) = a - (n - i)
  <2>1. Len(todo') = m + (n - 1) /\ args' = args
    BY <1>3 DEF fixed
  <2>2. \A i : Place(i)' = Len(args') - (Len(todo') - i)
    BY DEF Place
  <2>3. \A i : Place(i)' = a - ((m + (n - 1)) - i)
    BY <2>1, <2>2, Zenon
  <2> QED BY <2>3, Zenon DEF Place
<1> SUFFICES ASSUME NEW i \in 1 .. m + (n - 1)
             PROVE  i \in Nat \ {0}
                    /\ \/ /\ i \in DOMAIN tasks /\ todo'[i] = tasks[i]
                          /\ m = 1 => Place(i)' = Place(1)
                       \/ /\ i \notin DOMAIN tasks
                          /\ \E k \in DOMAIN todo \ {1} : /\ i = m + k - 1 /\ todo'[i] = todo[k]
                                                          /\ k \in Nat /\ k > 1 /\ Place(i)' = Place(k)
  BY <1>1, <1>3, <1>4
<1>6. CASE i <= m
  <2>1. m = 1 => a - ((m + (n - 1)) - i) = a - (n - 1)
    BY <1>1, <1>6
  <2>2. i \in DOMAIN tasks /\ todo'[i] = tasks[i]
    BY <1>1, <1>3, <1>6
  <2>3. m = 1 => Place(i)' = Place(1)
    BY <2>1, <1>5
  <2> QED BY <2>2, <2>3
<1>7. CASE ~(i <= m)
  <2> DEFINE k == i - m + 1
  <2>1. k \in 1 .. n /\ k \in Nat /\ k > 1 /\ k # 1 /\ i = m + k - 1 /\ i - m \in 1 .. n - 1
        /\ i - m + 1 = k
    BY <1>1, <1>7
  <2>2. a - ((m + (n - 1)) - i) = a - (n - k)
    BY <1>1, <1>7
  <2>3. todo'[i] = todo[k]
    BY <1>2, <1>3, <1>7, <2>1
  <2>4. Place(i)' = Place(k)
    BY <1>5, <2>2
  <2>5. i \notin DOMAIN tasks
    BY <1>1, <1>7
  <2>6. i \in Nat \ {0} /\ k \in DOMAIN todo \ {1}
    BY <1>1, <2>1
  <2> HIDE DEF k
  <2>7. \E l \in DOMAIN todo \ {1} : /\ i = m + l - 1 /\ todo'[i] = todo[l]
                                     /\ l \in Nat /\ l > 1 /\ Place(i)' = Place(l)
    BY <2>1, <2>3, <2>4, <2>6
  <2> QED BY <2>5, <2>6, <2>7
<1> QED BY <1>6, <1>7

LEMMA Same ==
  ASSUME UNCHANGED fixed
  PROVE  /\ Looks' = Looks /\ Walks' = Walks
         /\ \A t : TaskOK(t) => TaskOK(t)'
BY DEF fixed, Looks, Walks, TaskOK, Node, Under

\* The tasks that are left are still as the invariant has them.
LEMMA Steps ==
  ASSUME IInv, end = "running", todo # <<>>, NEW tasks, NEW dir, MayReplace(tasks, dir),
         Then(tasks), global_dir' = dir
  PROVE  IInv'
<1> DEFINE m == Len(tasks)
           Old(i) == \E k \in DOMAIN todo \ {1} :
                       /\ i = m + k - 1 /\ todo'[i] = todo[k]
                       /\ k \in Nat /\ k > 1 /\ Place(i)' = Place(k)
           New(i) == /\ i \in DOMAIN tasks /\ todo'[i] = tasks[i]
                     /\ m = 1 => Place(i)' = Place(1)
<1>0. /\ todo' = tasks \o Tail(todo) /\ UNCHANGED fixed /\ end' = end
      /\ args' = args /\ fs' = fs /\ opts' = opts
  BY DEF Then, fixed
<1>1. /\ todo' \in Seq(Tasks) /\ m \in Nat /\ DOMAIN tasks = 1 .. m
      /\ \A i \in DOMAIN todo' : i \in Nat \ {0} /\ (New(i) \/ (i \notin DOMAIN tasks /\ Old(i)))
  BY <1>0, Kept DEF IInv, MayReplace
<1>2. /\ Looks' = Looks /\ \A t : TaskOK(t) => TaskOK(t)'
  BY <1>0, Same
<1>3. \A i \in DOMAIN tasks : Replaces(tasks[i], i, m)
  BY DEF MayReplace
<1>4. \A i \in DOMAIN todo' : todo'[i].do = "arg" => Old(i)
  BY <1>1, <1>3 DEF Replaces
<1>5. \A d : Behind(d) => Passed(d)'
  <2> HIDE DEF m
  <2> SUFFICES ASSUME NEW d, Behind(d), d # <<>> PROVE Passed(d)'
    BY DEF Passed
  <2>1. PICK j \in DOMAIN args :
          /\ args[j] = d /\ d \in DOMAIN fs /\ fs[d] = "dir"
          /\ \A k \in DOMAIN todo \ {1} : todo[k].do = "arg" => j < Place(k)
    BY DEF Behind
  <2>2. \A i \in DOMAIN todo' : todo'[i].do = "arg" => j < Place(i)'
    BY <1>4, <2>1
  <2> QED BY <1>0, <2>1, <2>2 DEF Passed
<1>6. \A d : Passed(d) => Behind(d)
  BY DEF Passed, Behind
<1>7. TypeInv'
  BY <1>0, <1>1 DEF IInv, TypeInv, MayReplace
<1>8. ASSUME NEW i \in DOMAIN todo', NEW t, t = todo'[i], TaskOK(t),
             Looks /\ t.do # "display" => Behind(t.dir),
             t.do \in {"arg", "arg_here", "heading"} =>
               Place(i)' \in DOMAIN args /\ t.name = args[Place(i)'],
             t.do = "display" /\ t.dir # <<>> =>
               Place(i)' \in DOMAIN args /\ t.dir = args[Place(i)'],
             i > 1 => t.do \in {"show", "arg", "entry", "can_recurse"}
      PROVE  TaskOK(todo[i])' /\ PlaceOK(i)'
  <2>1. TaskOK(todo[i])'
    BY <1>0, <1>8 DEF TaskOK, Node, Under, Walks, Looks
  <2>2. Looks /\ t.do # "display" => Passed(t.dir)'
    BY <1>5, <1>8
  <2>3. Looks' /\ todo'[i].do # "display" => Passed(todo[i].dir)'
    BY <1>2, <1>8, <2>2 DEF Passed
  <2>4. PlaceOK(i)'
    BY <1>0, <1>8, <2>3 DEF PlaceOK, Passed
  <2> QED BY <2>1, <2>4
<1>9. ASSUME NEW i \in DOMAIN todo' PROVE TaskOK(todo[i])' /\ PlaceOK(i)'
  <2>0. PICK t : t = todo'[i]
    OBVIOUS
  <2>1. CASE New(i)
    <3>1. Replaces(t, i, m) /\ i \in 1 .. m
      BY <1>1, <1>3, <2>0, <2>1
    <3>2. t.do \in Argument => i = 1 /\ Place(i)' = Place(1)
      BY <1>1, <2>1, <3>1 DEF Replaces
    <3> QED BY <1>8, <2>0, <3>1, <3>2 DEF Replaces, Argument
  <2>2. CASE i \notin DOMAIN tasks /\ Old(i)
    <3>1. PICK k \in DOMAIN todo \ {1} : /\ t = todo[k] /\ k > 1 /\ Place(i)' = Place(k)
      BY <2>0, <2>2
    <3>2. TaskOK(t) /\ PlaceOK(k)
      BY <3>1 DEF IInv
    <3> QED BY <1>6, <1>8, <2>0, <3>1, <3>2 DEF PlaceOK
  <2> QED BY <1>1, <2>1, <2>2
<1>10. OrderInv'
  <2> SUFFICES ASSUME NEW i \in DOMAIN todo', NEW j \in DOMAIN todo', i < j,
                      todo'[i].do \in Argument
               PROVE  todo'[j].do = "arg"
    BY DEF OrderInv, Argument
  <2>0. i \in Nat /\ j \in Nat
    BY <1>1
  <2>1. CASE New(i)
    <3>1. m = 1 /\ Head(todo).do \in Argument /\ i = 1
      BY <1>1, <1>3, <2>1 DEF Replaces
    <3>2. PICK k \in DOMAIN todo \ {1} : k \in Nat /\ k > 1 /\ todo'[j] = todo[k]
      BY <1>1, <2>0, <3>1
    <3>3. 1 \in DOMAIN todo /\ todo[1] = Head(todo)
      BY EmptySeq DEF IInv, TypeInv
    <3> QED BY <3>1, <3>2, <3>3 DEF IInv, OrderInv
  <2>2. CASE i \notin DOMAIN tasks /\ Old(i)
    <3>1. PICK k \in DOMAIN todo : k \in Nat /\ i = m + k - 1 /\ todo'[i] = todo[k]
      BY <2>2
    <3>2. j \notin DOMAIN tasks
      BY <1>1, <2>0, <2>2
    <3>3. PICK l \in DOMAIN todo : l \in Nat /\ j = m + l - 1 /\ todo'[j] = todo[l]
      BY <1>1, <3>2
    <3>4. k < l
      BY <1>1, <3>1, <3>3
    <3> QED BY <3>1, <3>3, <3>4 DEF IInv, OrderInv
  <2> QED BY <1>1, <2>1, <2>2
<1>11. HeadInv'
  <2> SUFFICES ASSUME todo' # <<>>
               PROVE  /\ todo'[1].do \in {"stats", "name", "slash", "sort"} => dir = todo'[1].dir
                      /\ todo'[1].do = "sort" =>
                           \A i \in DOMAIN todo' : todo'[i].do = "show" =>
                                                     Under(todo'[i].dir, todo'[i].name)
    BY <1>0, <1>1 DEF HeadInv, Under
  <2>1. 1 \in DOMAIN todo'
    BY <1>1, EmptySeq
  <2>2. CASE New(1)
    <3>1. tasks # <<>> /\ todo'[1] = tasks[1]
      BY <1>1, <2>2, EmptySeq
    <3>2. todo'[1].do \in {"stats", "name", "slash", "sort"} => dir = todo'[1].dir
      BY <3>1 DEF MayReplace
    <3>3. ASSUME todo'[1].do = "sort", NEW i \in DOMAIN todo', todo'[i].do = "show"
          PROVE  Under(todo'[i].dir, todo'[i].name)
      <4>1. Head(todo).do = "display"
        BY <3>1, <3>3 DEF MayReplace
      <4>2. ~Old(i)
        <5>1. 1 \in DOMAIN todo /\ todo[1] = Head(todo)
          BY EmptySeq DEF IInv, TypeInv
        <5> QED BY <3>3, <4>1, <5>1 DEF IInv, OrderInv, Argument
      <4>3. i \in DOMAIN tasks /\ todo'[i] = tasks[i]
        BY <1>1, <4>2
      <4> QED BY <3>1, <3>3, <4>3 DEF MayReplace
    <3> QED BY <3>2, <3>3
  <2>3. CASE Old(1)
    <3>1. todo'[1].do \in {"show", "arg", "entry", "can_recurse"}
      BY <2>3 DEF IInv, PlaceOK
    <3> QED BY <3>1
  <2> QED BY <1>1, <2>1, <2>2, <2>3
<1>12. FailsOnly' /\ end' # "opts"
  BY <1>0 DEF FailsOnly
<1>13. Looks' => Passed(global_dir)'
  <2>1. Looks' => Passed(dir)'
    BY <1>2, <1>5 DEF MayReplace
  <2> QED BY <2>1 DEF Passed
<1> QED BY <1>7, <1>9, <1>10, <1>11, <1>12, <1>13 DEF IInv

\* One task, or none, instead of the one at hand.
LEMMA OneTask ==
  ASSUME IInv, end = "running", todo # <<>>, NEW t \in Tasks, Then(<<t>>), Replaces(t, 1, 1),
         t.do # "sort", global_dir' \in Path, Looks => Behind(global_dir'),
         t.do \in {"stats", "name", "slash"} => global_dir' = t.dir
  PROVE  IInv'
<1> DEFINE one == <<t>>
<1>1. /\ one \in Seq(Tasks) /\ Len(one) = 1 /\ one[1] = t /\ DOMAIN one = {1}
  OBVIOUS
<1>2. PICK dir : dir = global_dir'
  OBVIOUS
<1>3. Then(one)
  OBVIOUS
<1> HIDE DEF one
<1>4. MayReplace(one, dir)
  BY <1>1, <1>2 DEF MayReplace
<1> QED BY <1>2, <1>3, <1>4, Steps

LEMMA NoTask ==
  ASSUME IInv, end = "running", todo # <<>>, Then(<<>>), UNCHANGED global_dir
  PROVE  IInv'
<1> DEFINE none == <<>>
<1>1. none \in Seq(Tasks) /\ DOMAIN none = {} /\ none = <<>>
  OBVIOUS
<1>2. Then(none) /\ global_dir \in Path
  BY DEF IInv, TypeInv
<1> HIDE DEF none
<1>3. Looks => Behind(global_dir)
  BY DEF IInv, Passed, Behind
<1>4. MayReplace(none, global_dir)
  BY <1>1, <1>2, <1>3 DEF MayReplace
<1> QED BY <1>2, <1>4, Steps

\* The program ends, and for a reason.
LEMMA Stops ==
  ASSUME IInv, NEW how, Stop(how), how # "opts", how = "io_error" => IOReason,
         how = "crash" => CrashReason
  PROVE  IInv'
<1>1. UNCHANGED <<fixed, gone, todo, global_dir>> /\ end' = how
  BY DEF Stop
<1>2. /\ fs' = fs /\ opts' = opts /\ args' = args /\ gone' = gone /\ todo' = todo
      /\ global_dir' = global_dir
  BY <1>1 DEF fixed
<1>3. FailsOnly'
  BY <1>1, <1>2 DEF FailsOnly, IOReason, CrashReason, Stats, Overlong, Looks, Walks
<1>4. TypeInv' /\ OrderInv' /\ HeadInv' /\ (Looks => Passed(global_dir))'
  BY <1>2 DEF IInv, TypeInv, OrderInv, Argument, HeadInv, Under, Looks, Passed, Place
<1>5. ASSUME NEW i \in DOMAIN todo' PROVE TaskOK(todo[i])' /\ PlaceOK(i)'
  <2>1. TaskOK(todo[i]) /\ PlaceOK(i)
    BY <1>2 DEF IInv
  <2> QED BY <1>2, <2>1 DEF TaskOK, Node, Under, Walks, Looks, PlaceOK, Place, Passed
<1> QED BY <1>1, <1>3, <1>4, <1>5 DEF IInv

\* What is known of the task at hand.
LEMMA AtHand ==
  ASSUME IInv, NEW do, Doing(do)
  PROVE  /\ end = "running" /\ todo # <<>> /\ Head(todo).do = do
         /\ TypeInv /\ Dir \in Path /\ Name \in Path /\ global_dir \in Path
         /\ TaskOK(Head(todo))
         /\ do \in {"arg", "arg_here", "heading"} => Place(1) \in DOMAIN args /\ Name = args[Place(1)]
         /\ do = "display" /\ Dir # <<>> => Place(1) \in DOMAIN args /\ Dir = args[Place(1)]
         /\ Looks => Behind(global_dir) /\ (do # "display" => Behind(Dir))
         /\ do = "arg" /\ Looks =>
              \/ global_dir = <<>>
              \/ \E j \in DOMAIN args : /\ args[j] = global_dir /\ global_dir \in DOMAIN fs
                                        /\ fs[global_dir] = "dir" /\ j < Place(1)
         /\ do \in {"stats", "name", "slash", "sort"} => global_dir = Dir
<1>1. end = "running" /\ todo # <<>> /\ Head(todo).do = do
  BY DEF Doing
<1>2. todo \in Seq(Tasks) /\ TypeInv /\ global_dir \in Path
  BY DEF IInv, TypeInv
<1>3. 1 \in DOMAIN todo /\ todo[1] = Head(todo) /\ Head(todo) \in Tasks
  BY <1>1, <1>2, EmptySeq
<1>4. Dir \in Path /\ Name \in Path
  BY <1>3 DEF Tasks, Dir, Name
<1>5. TaskOK(Head(todo)) /\ PlaceOK(1) /\ (Looks => Passed(global_dir)) /\ HeadInv
  BY <1>3 DEF IInv
<1>6. \A d : Passed(d) => Behind(d)
  BY DEF Passed, Behind
<1>7. Looks /\ do # "display" => Passed(Dir)
  BY <1>1, <1>3, <1>5 DEF PlaceOK, Dir
<1>8. do = "arg" /\ Looks =>
              \/ global_dir = <<>>
              \/ \E j \in DOMAIN args : /\ args[j] = global_dir /\ global_dir \in DOMAIN fs
                                        /\ fs[global_dir] = "dir" /\ j < Place(1)
  BY <1>1, <1>3, <1>5 DEF Passed
<1>9. /\ do \in {"arg", "arg_here", "heading"} => Place(1) \in DOMAIN args /\ Name = args[Place(1)]
      /\ do = "display" /\ Dir # <<>> => Place(1) \in DOMAIN args /\ Dir = args[Place(1)]
  BY <1>1, <1>3, <1>5 DEF PlaceOK, Dir, Name
<1>10. do \in {"stats", "name", "slash", "sort"} => global_dir = Dir
  BY <1>1, <1>5 DEF HeadInv, Dir
<1> QED BY <1>1, <1>2, <1>4, <1>5, <1>6, <1>7, <1>8, <1>9, <1>10

-----------------------------------------------------------------------------
(***************************************************************************)
(* The actions                                                             *)
(***************************************************************************)

\* The other process removes what the invariant says nothing of while ls runs.
LEMMA RemovalOK == ASSUME IInv, Removal PROVE IInv'
<1>1. /\ fs' = fs /\ opts' = opts /\ args' = args /\ todo' = todo
      /\ global_dir' = global_dir /\ end' = "running"
  BY DEF Removal, fixed
<1>2. TypeInv' /\ OrderInv' /\ HeadInv' /\ (Looks => Passed(global_dir))'
  BY <1>1 DEF IInv, TypeInv, OrderInv, Argument, HeadInv, Under, Looks, Passed, Place
<1>3. ASSUME NEW i \in DOMAIN todo' PROVE TaskOK(todo[i])' /\ PlaceOK(i)'
  <2>1. TaskOK(todo[i]) /\ PlaceOK(i)
    BY <1>1 DEF IInv
  <2> QED BY <1>1, <2>1 DEF TaskOK, Node, Under, Walks, Looks, PlaceOK, Place, Passed
<1> QED BY <1>1, <1>2, <1>3 DEF IInv, FailsOnly

LEMMA UsageOK == ASSUME IInv, get_opts PROVE IInv'
BY Stops DEF get_opts

LEMMA DoneOK == ASSUME IInv, Done PROVE IInv'
BY Stops DEF Done

\* A lookup in its own directory fails for a reason, if a task asks for one
\* with -l or for an order by stats.
LEMMA LookupStops ==
  ASSUME IInv, NEW do, Doing(do), do \in {"stats", "slash"}, ~Exists(global_dir \o Name),
         Stop("io_error")
  PROVE  IInv'
<1>1. /\ TypeInv /\ Dir \in Path /\ Name \in Path /\ global_dir = Dir
      /\ Node(Dir) /\ Under(Dir, Name) /\ opts.l
  BY AtHand DEF TaskOK, Dir, Name
<1>2. gone # {}
  BY <1>1, Lookup
<1> QED BY <1>1, <1>2, Stops DEF IOReason, Stats

\* A path that has no room may crash where stats are asked for.
LEMMA LongStops ==
  ASSUME IInv, NEW dir, NEW name, Node(dir), Under(dir, name) \/ name \in ToSet(args),
         dir \o name \in Long, Stats, Stop("crash")
  PROVE  IInv'
<1>1. Overlong
  <2>1. dir \in {<<>>} \cup DOMAIN fs
    BY DEF Node
  <2>2. dir \o name \in DOMAIN fs \/ name \in Dots \cup ToSet(args)
    BY DEF Under
  <2> QED BY <2>1, <2>2 DEF Overlong
<1> QED BY <1>1, Stops DEF CrashReason

\* So may a lookup in its own directory, and that of an argument.
LEMMA LookupCrashes ==
  ASSUME IInv, NEW do, Doing(do), do \in {"stats", "slash", "arg"}, global_dir \o Name \in Long,
         Stop("crash")
  PROVE  IInv'
<1>1. CASE do # "arg"
  <2>1. Node(Dir) /\ Under(Dir, Name) /\ opts.l /\ global_dir = Dir
    BY <1>1, AtHand DEF TaskOK, Dir, Name
  <2> QED BY <2>1, LongStops DEF Stats
<1>2. CASE do = "arg"
  <2>1. /\ Looks /\ Place(1) \in DOMAIN args /\ Name = args[Place(1)]
        /\ global_dir = <<>> \/ global_dir \in DOMAIN fs
    BY <1>2, AtHand DEF TaskOK
  <2>2. Node(global_dir) /\ Name \in ToSet(args) /\ args # <<>>
    BY <2>1 DEF Node, ToSet
  <2> QED BY <2>1, <2>2, LongStops DEF Stats
<1> QED BY <1>1, <1>2

\* An argument that is not found is missing, removed, or behind a directory.
LEMMA ArgumentStops ==
  ASSUME IInv, Doing("arg"), ~Exists(global_dir \o Name), Stop("io_error")
  PROVE  IInv'
<1>1. /\ TypeInv /\ Name \in Path /\ Place(1) \in DOMAIN args /\ Name = args[Place(1)]
      /\ Looks
      /\ \/ global_dir = <<>>
         \/ \E j \in DOMAIN args : /\ args[j] = global_dir /\ global_dir \in DOMAIN fs
                                   /\ fs[global_dir] = "dir" /\ j < Place(1)
  BY AtHand DEF TaskOK
<1>2. CASE global_dir = <<>>
  <2>1. global_dir \o Name = Name
    BY <1>1, <1>2 DEF Path
  <2>2. Name # <<>> /\ <<Last(Name)>> \notin Dots
    BY <1>1, Files1
  <2>3. Name \notin DOMAIN fs \/ gone # {}
    BY <2>1, <2>2 DEF Exists
  <2>4. args # <<>>
    BY <1>1
  <2>5. IOReason
    BY <1>1, <2>3, <2>4 DEF IOReason, Stats
  <2> QED BY <2>5, Stops
<1>3. CASE \E j \in DOMAIN args : /\ args[j] = global_dir /\ global_dir \in DOMAIN fs
                                   /\ fs[global_dir] = "dir" /\ j < Place(1)
  <2>1. PICK j \in DOMAIN args : args[j] \in DOMAIN fs /\ fs[args[j]] = "dir" /\ j < Place(1)
    BY <1>3
  <2>2. j \in 1 .. Place(1) - 1
    BY <1>1, <2>1, Files1
  <2>3. IOReason
    BY <1>1, <2>1, <2>2 DEF IOReason, Stats
  <2> QED BY <2>3, Stops
<1> QED BY <1>1, <1>2, <1>3

LEMMA StatsOK == ASSUME IInv, is_dir_stats PROVE IInv'
<1>1. CASE Doing("arg") /\ get_stats(global_dir \o Name, Now("arg_here"))
  <2>1. CASE ~Exists(global_dir \o Name)
    BY <1>1, <2>1, ArgumentStops, LookupCrashes DEF get_stats, lstat
  <2>2. CASE Now("arg_here")
    <3> DEFINE t == Task("arg_here", Dir, Name)
    <3>1. /\ TypeInv /\ end = "running" /\ todo # <<>> /\ Head(todo).do = "arg"
          /\ Dir \in Path /\ Name \in Path /\ Node(Dir) /\ Looks /\ Behind(Dir) /\ Behind(global_dir)
          /\ Place(1) \in DOMAIN args /\ Name = args[Place(1)]
      BY <1>1, AtHand DEF TaskOK, Dir
    <3>2. t \in Tasks /\ t.do = "arg_here" /\ t.dir = Dir /\ t.name = Name
      BY <3>1 DEF Task, Tasks
    <3>3. Then(<<t>>) /\ global_dir' = global_dir /\ global_dir \in Path
      BY <2>2, <3>1 DEF Now, TypeInv
    <3> HIDE DEF t
    <3>4. TaskOK(t)
      BY <3>1, <3>2 DEF TaskOK
    <3>5. Replaces(t, 1, 1)
      BY <3>1, <3>2, <3>4 DEF Replaces, Argument
    <3> QED BY <3>1, <3>2, <3>3, <3>5, OneTask
  <2> QED BY <1>1, <2>1, <2>2, LookupCrashes DEF get_stats, lstat
<1>2. CASE Doing("slash") /\ get_stats(global_dir \o Name, Now("slash_here"))
  <2>1. CASE ~Exists(global_dir \o Name)
    BY <1>2, <2>1, LookupStops, LookupCrashes DEF get_stats, lstat
  <2>2. CASE Now("slash_here")
    <3> DEFINE t == Task("slash_here", Dir, Name)
    <3>1. /\ TypeInv /\ end = "running" /\ todo # <<>> /\ Dir \in Path /\ Name \in Path
          /\ Node(Dir) /\ Under(Dir, Name) /\ opts.l /\ (Looks => Behind(Dir) /\ Behind(global_dir))
      BY <1>2, AtHand DEF TaskOK, Dir, Name
    <3>2. t \in Tasks /\ t.do = "slash_here" /\ t.dir = Dir /\ t.name = Name
      BY <3>1 DEF Task, Tasks
    <3>3. Then(<<t>>) /\ global_dir' = global_dir /\ global_dir \in Path
      BY <2>2, <3>1 DEF Now, TypeInv
    <3> HIDE DEF t
    <3>4. TaskOK(t)
      BY <3>1, <3>2 DEF TaskOK
    <3>5. Replaces(t, 1, 1)
      BY <3>1, <3>2, <3>4 DEF Replaces, Argument
    <3> QED BY <3>1, <3>2, <3>3, <3>5, OneTask
  <2> QED BY <1>2, <2>1, <2>2, LookupCrashes DEF get_stats, lstat
<1> QED BY <1>1, <1>2 DEF is_dir_stats

LEMMA HereOK == ASSUME IInv, is_dir_here PROVE IInv'
<1>1. CASE Doing("arg_here") /\ Now(IF DirBit(Name) THEN "heading" ELSE "show")
  <2> DEFINE do == IF DirBit(Name) THEN "heading" ELSE "show"
             t == Task(do, Dir, Name)
  <2>1. /\ TypeInv /\ end = "running" /\ todo # <<>> /\ Head(todo).do = "arg_here"
        /\ Dir \in Path /\ Name \in Path /\ Node(Dir) /\ Looks /\ Behind(Dir) /\ Behind(global_dir)
        /\ Place(1) \in DOMAIN args /\ Name = args[Place(1)]
    BY <1>1, AtHand DEF TaskOK, Dir
  <2>2. t \in Tasks /\ t.do = do /\ t.dir = Dir /\ t.name = Name /\ do \in {"heading", "show"}
    BY <2>1 DEF Task, Tasks
  <2>3. Then(<<t>>) /\ global_dir' = global_dir /\ global_dir \in Path
    BY <1>1, <2>1 DEF Now, TypeInv
  <2>4. do = "heading" /\ Name \in DOMAIN fs => fs[Name] \in Marked
    BY DEF DirBit, KindOf, Marked
  <2> HIDE DEF do, t
  <2>5. TaskOK(t)
    BY <2>1, <2>2, <2>4 DEF TaskOK
  <2>6. Replaces(t, 1, 1)
    BY <2>1, <2>2, <2>5 DEF Replaces, Argument
  <2> QED BY <2>1, <2>2, <2>3, <2>6, OneTask
<1>2. CASE Doing("slash_here") /\ PrintLine(IF DirBit(Name) THEN "/" ELSE "")
  BY <1>2, AtHand, NoTask DEF PrintLine
<1> QED BY <1>1, <1>2 DEF is_dir_here

\* What is_in_dir finds in the working directory is no dot if it is an argument.
LEMMA HeadingOK == ASSUME IInv, Heading PROVE IInv'
<1> DEFINE t == Task("display", Name, <<>>)
<1>1. /\ TypeInv /\ end = "running" /\ todo # <<>> /\ Head(todo).do = "heading"
      /\ Dir \in Path /\ Name \in Path /\ Node(Dir) /\ Looks /\ Behind(Dir) /\ Behind(global_dir)
      /\ Place(1) \in DOMAIN args /\ Name = args[Place(1)]
      /\ Name \in DOMAIN fs => fs[Name] \in Marked
  BY AtHand DEF TaskOK, Dir, Name, Heading
<1>2. CASE ~is_in_dir(<<>>, Name)
  BY <1>1, <1>2, NoTask DEF Heading
<1>3. CASE is_in_dir(<<>>, Name)
  <2>1. <<>> \in Path /\ <<>> \o Name = Name
    BY <1>1, EmptySeq DEF Path
  <2>2. Under(<<>>, Name)
    BY <1>1, <1>3, <2>1, EntryUnder DEF is_in_dir
  <2>3. Name \notin Dots
    <3> SUFFICES ASSUME Name \in Dots PROVE FALSE
      OBVIOUS
    <3>1. PICK s \in Names : Name = <<s>>
      BY DotsArePaths
    <3>2. Last(Name) = s
      BY <2>1, <3>1, Appended
    <3> QED BY <1>1, <3>1, <3>2, Files1
  <2>4. Name \in DOMAIN fs
    BY <2>1, <2>2, <2>3 DEF Under
  <2>5. t \in Tasks /\ t.do = "display" /\ t.dir = Name
    BY <1>1, <2>1 DEF Task, Tasks
  <2>6. Then(<<t>>) /\ global_dir' = global_dir /\ global_dir \in Path
    BY <1>1, <1>3 DEF Heading, TypeInv
  <2> HIDE DEF t
  <2>7. TaskOK(t)
    BY <1>1, <2>4, <2>5 DEF TaskOK, Node
  <2>8. Replaces(t, 1, 1)
    BY <1>1, <2>5, <2>7 DEF Replaces, Argument
  <2> QED BY <1>1, <2>5, <2>6, <2>8, OneTask
<1> QED BY <1>2, <1>3

\* Without -R and -d ls crashes on an argument that it takes for a directory.
LEMMA DisplayStops == ASSUME IInv, Doing("display"), ~Opens(Dir), Stop("crash") PROVE IInv'
<1>1. TypeInv /\ Node(Dir) /\ Looks
  BY AtHand DEF TaskOK, Dir
<1>2. Dir \in DOMAIN fs /\ (gone # {} \/ fs[Dir] # "dir") /\ Dir # <<>>
  BY <1>1, NodeOpens, Files1
<1>3. fs[Dir] \in Marked /\ Place(1) \in DOMAIN args /\ Dir = args[Place(1)]
  BY <1>2, AtHand DEF TaskOK, Dir
<1>4. CrashReason
  BY <1>1, <1>2, <1>3 DEF CrashReason, Marked
<1> QED BY <1>4, Stops

\* What is shown are entries of a directory that no argument left is before.
LEMMA DisplayOK == ASSUME IInv, display_dir PROVE IInv'
<1>1. CASE ~Opens(Dir) /\ Stop("crash")
  BY <1>1, DisplayStops DEF display_dir
<1>2. CASE Opens(Dir) /\ global_dir' = Dir /\ UNCHANGED out
  <2>1. /\ TypeInv /\ end = "running" /\ todo # <<>> /\ Head(todo).do = "display"
        /\ Dir \in Path /\ Node(Dir) /\ Looks
        /\ Dir # <<>> => Place(1) \in DOMAIN args /\ Dir = args[Place(1)]
    BY AtHand DEF TaskOK, Dir, display_dir
  <2>2. PICK order \in Orders(Dir) :
          LET names == dir_arr(order)
              shows == [k \in DOMAIN names |-> Task("show", Dir, names[k])]
          IN Then(IF opts.order = "stats" /\ Len(names) >= 2
                  THEN <<Task("sort", Dir, <<>>)>> \o shows ELSE shows)
    BY <1>2 DEF display_dir
  <2> DEFINE names == dir_arr(order)
             shows == [k \in DOMAIN names |-> Task("show", Dir, names[k])]
             sort == Task("sort", Dir, <<>>)
             both == <<sort>> \o shows
  <2>3. PICK n \in Nat : names \in [1 .. n -> Entries(Dir)]
    BY <2>1, OrderEntries
  <2>4. Behind(Dir)
    <3> SUFFICES ASSUME Dir # <<>> PROVE Behind(Dir)
      BY DEF Behind
    <3>1. Dir \in DOMAIN fs /\ fs[Dir] = "dir"
      BY <1>2, <2>1 DEF Node, Opens, KindOf
    <3>2. \A k \in DOMAIN todo \ {1} : Place(1) < Place(k)
      <4>1. todo \in Seq(Tasks) /\ DOMAIN todo = 1 .. Len(todo) /\ Len(todo) \in Nat /\ Len(args) \in Nat
        BY <2>1, Files1 DEF TypeInv
      <4> QED BY <4>1 DEF Place
    <3> QED BY <2>1, <3>1, <3>2 DEF Behind
  <2> HIDE DEF names
  <2>5. /\ shows \in Seq(Tasks) /\ Len(shows) = n /\ DOMAIN shows = 1 .. n
        /\ \A k \in 1 .. n : /\ shows[k].do = "show" /\ shows[k].dir = Dir
                             /\ Under(shows[k].dir, shows[k].name)
    <3>1. \A k \in 1 .. n : names[k] \in Path /\ Under(Dir, names[k])
      BY <2>1, <2>3, EntryUnder
    <3>2. \A k \in 1 .. n : /\ Task("show", Dir, names[k]) \in Tasks
                            /\ Task("show", Dir, names[k]).do = "show"
                            /\ Task("show", Dir, names[k]).dir = Dir
                            /\ Task("show", Dir, names[k]).name = names[k]
      BY <2>1, <3>1 DEF Task, Tasks
    <3>3. DOMAIN shows = 1 .. n /\ \A k \in 1 .. n : shows[k] = Task("show", Dir, names[k])
      BY <2>3
    <3>4. shows \in [1 .. n -> Tasks]
      BY <2>3, <3>2, <3>3
    <3> HIDE DEF shows
    <3> QED BY <3>1, <3>2, <3>3, <3>4
  <2> HIDE DEF shows
  <2>6. ASSUME NEW t, t.do = "show", t.dir = Dir, NEW i \in Nat, NEW m PROVE Replaces(t, i, m)
    <3>1. TaskOK(t)
      BY <2>1, <2>6 DEF TaskOK
    <3> QED BY <2>4, <2>6, <3>1 DEF Replaces, Argument
  <2>7. CASE Then(shows)
    <3>1. \A i \in DOMAIN shows : Replaces(shows[i], i, Len(shows))
      BY <2>5, <2>6
    <3>2. shows # <<>> => shows[1].do = "show"
      BY <2>5, EmptySeq
    <3>3. MayReplace(shows, Dir)
      BY <2>1, <2>4, <2>5, <3>1, <3>2 DEF MayReplace
    <3> QED BY <1>2, <2>1, <2>7, <3>3, Steps
  <2>8. CASE opts.order = "stats" /\ Then(both)
    <3>1. sort \in Tasks /\ sort.do = "sort" /\ sort.dir = Dir
      <4>1. <<>> \in Path
        BY EmptySeq DEF Path
      <4> QED BY <2>1, <4>1 DEF Task, Tasks
    <3> HIDE DEF sort
    <3>2. /\ both \in Seq(Tasks) /\ Len(both) = 1 + n /\ both[1] = sort /\ DOMAIN both = 1 .. 1 + n
          /\ \A i \in 2 .. 1 + n : both[i] = shows[i - 1] /\ i - 1 \in 1 .. n
      <4> DEFINE one == <<sort>>
      <4>1. one \in Seq(Tasks) /\ Len(one) = 1 /\ one[1] = sort
        BY <3>1
      <4>2. both = one \o shows
        OBVIOUS
      <4> HIDE DEF one, both
      <4>3. /\ both \in Seq(Tasks) /\ Len(both) = 1 + n
            /\ \A i \in 1 .. 1 + n : both[i] = IF i <= 1 THEN one[i] ELSE shows[i - 1]
        <5>1. /\ both \in Seq(Tasks) /\ Len(both) = Len(one) + Len(shows)
              /\ \A i \in 1 .. Len(one) + Len(shows) :
                   both[i] = IF i <= Len(one) THEN one[i] ELSE shows[i - Len(one)]
          BY <2>5, <4>1, <4>2, ConcatProperties, Zenon
        <5> QED BY <2>5, <4>1, <5>1
      <4> QED BY <4>1, <4>3
    <3>3. TaskOK(sort)
      BY <2>1, <2>8, <3>1 DEF TaskOK
    <3>4. Replaces(sort, 1, Len(both))
      BY <2>4, <3>1, <3>3 DEF Replaces, Argument
    <3>5. \A i \in DOMAIN both : Replaces(both[i], i, Len(both))
      <4>1. \A i \in 2 .. 1 + n : Replaces(both[i], i, Len(both))
        BY <2>5, <2>6, <3>2
      <4> QED BY <3>2, <3>4, <4>1
    <3>6. \A i \in DOMAIN both : both[i].do = "show" => Under(both[i].dir, both[i].name)
      <4>1. \A i \in 1 .. 1 + n : i = 1 \/ i \in 2 .. 1 + n
        OBVIOUS
      <4> QED BY <2>5, <3>1, <3>2, <4>1
    <3>7. MayReplace(both, Dir)
      BY <2>1, <2>4, <3>1, <3>2, <3>5, <3>6 DEF MayReplace
    <3> QED BY <1>2, <2>1, <2>8, <3>7, Steps
  <2> QED BY <2>2, <2>7, <2>8 DEF names, shows
<1> QED BY <1>1, <1>2 DEF display_dir

\* The comparison looks each entry up in the directory displayed.
LEMMA SortOK == ASSUME IInv, Sort PROVE IInv'
<1>1. /\ TypeInv /\ end = "running" /\ todo # <<>> /\ Head(todo).do = "sort" /\ Dir \in Path
      /\ Looks /\ opts.order = "stats" /\ global_dir = Dir
  BY AtHand DEF TaskOK, Sort
<1>2. CASE Skip
  BY <1>1, <1>2, NoTask DEF Skip
<1>3. ASSUME NEW t \in ToSet(Tail(todo)), t.do = "show", t.dir = Dir
      PROVE  Node(t.dir) /\ Under(t.dir, t.name) /\ t.dir \in Path /\ t.name \in Path
  <2>1. PICK k \in DOMAIN Tail(todo) : Tail(todo)[k] = t
    BY <1>3 DEF ToSet
  <2>2. todo \in Seq(Tasks) /\ Len(todo) \in Nat \ {0}
    BY <1>1, EmptySeq DEF TypeInv
  <2>3. k + 1 \in DOMAIN todo /\ todo[k + 1] = t /\ t \in Tasks
    BY <2>1, <2>2
  <2>4. TaskOK(t) /\ Under(t.dir, t.name)
    BY <1>1, <1>3, <2>3 DEF IInv, HeadInv
  <2> QED BY <2>3, <2>4 DEF TaskOK, Tasks
<1>4. CASE /\ \E t \in ToSet(Tail(todo)) : t.do = "show" /\ t.dir = Dir /\ ~Exists(global_dir \o t.name)
           /\ Stop("io_error")
  <2>1. PICK t \in ToSet(Tail(todo)) : t.do = "show" /\ t.dir = Dir /\ ~Exists(global_dir \o t.name)
    BY <1>4
  <2>2. gone # {}
    BY <1>1, <1>3, <2>1, Lookup
  <2> QED BY <1>1, <1>4, <2>2, Stops DEF IOReason, Stats
<1>5. CASE /\ \E t \in ToSet(Tail(todo)) : t.do = "show" /\ t.dir = Dir /\ global_dir \o t.name \in Long
           /\ Stop("crash")
  <2>1. PICK t \in ToSet(Tail(todo)) : t.do = "show" /\ t.dir = Dir /\ global_dir \o t.name \in Long
    BY <1>5
  <2>2. Node(Dir) /\ Under(Dir, t.name) /\ Dir \o t.name \in Long
    BY <1>1, <1>3, <2>1
  <2> QED BY <1>1, <1>5, <2>2, LongStops DEF Stats
<1> QED BY <1>2, <1>4, <1>5 DEF Sort

\* get_stats is asked for what was looked up in the directory before.
LEMMA ShowOK == ASSUME IInv, display_stats PROVE IInv'
<1> DEFINE t == Task("stats", Dir, Name)
<1>1. /\ TypeInv /\ end = "running" /\ todo # <<>> /\ Dir \in Path /\ Name \in Path
      /\ Node(Dir) /\ (Looks => Behind(Dir))
  BY AtHand DEF TaskOK, Dir, display_stats
<1>2. CASE Skip \/ PrintLine("")
  BY <1>1, <1>2, NoTask DEF Skip, PrintLine
<1>3. CASE /\ is_in_dir(Dir, Name) /\ opts.l /\ global_dir' = Dir
           /\ Then(<<Task("stats", Dir, Name)>>)
  <2>1. Under(Dir, Name)
    BY <1>1, <1>3, EntryUnder DEF is_in_dir
  <2>2. t \in Tasks /\ t.do = "stats" /\ t.dir = Dir /\ t.name = Name
    BY <1>1 DEF Task, Tasks
  <2>3. Then(<<t>>)
    BY <1>3
  <2> HIDE DEF t
  <2>4. TaskOK(t)
    BY <1>1, <1>3, <2>1, <2>2 DEF TaskOK
  <2>5. Replaces(t, 1, 1)
    BY <1>1, <2>2, <2>4 DEF Replaces, Argument
  <2>6. Looks => Behind(global_dir')
    <3>1. PICK d : d = Dir
      OBVIOUS
    <3> QED BY <1>1, <1>3, <3>1
  <2> QED BY <1>1, <1>3, <2>2, <2>3, <2>5, <2>6, OneTask
<1> QED BY <1>2, <1>3 DEF display_stats

\* The stats asked for, the name is printed.
LEMMA PrintStatsOK == ASSUME IInv, print_stats PROVE IInv'
<1> DEFINE t == Task("name", Dir, Name)
<1>1. /\ TypeInv /\ end = "running" /\ todo # <<>> /\ Dir \in Path /\ Name \in Path
      /\ Node(Dir) /\ Under(Dir, Name) /\ opts.l /\ (Looks => Behind(Dir) /\ Behind(global_dir))
      /\ global_dir = Dir /\ Doing("stats")
  BY AtHand DEF TaskOK, Dir, Name, print_stats
<1>2. CASE ~Exists(global_dir \o Name) /\ Stop("io_error")
  BY <1>1, <1>2, LookupStops
<1>3. CASE global_dir \o Name \in Long /\ Stop("crash")
  BY <1>1, <1>3, LookupCrashes
<1>4. CASE Now("name")
  <2>1. t \in Tasks /\ t.do = "name" /\ t.dir = Dir /\ t.name = Name
    BY <1>1 DEF Task, Tasks
  <2>2. Then(<<t>>) /\ global_dir' = global_dir
    BY <1>4 DEF Now
  <2> HIDE DEF t
  <2>3. TaskOK(t)
    BY <1>1, <2>1 DEF TaskOK
  <2>4. Replaces(t, 1, 1)
    BY <1>1, <2>1, <2>3 DEF Replaces, Argument
  <2> QED BY <1>1, <2>1, <2>2, <2>4, OneTask
<1> QED BY <1>2, <1>3, <1>4 DEF print_stats, get_stats, lstat

LEMMA LinkOK == ASSUME IInv, print_name_or_link PROVE IInv'
<1> DEFINE t == Task("slash", Dir, Name)
<1>1. /\ TypeInv /\ end = "running" /\ todo # <<>> /\ Dir \in Path /\ Name \in Path
      /\ Node(Dir) /\ Under(Dir, Name) /\ opts.l /\ (Looks => Behind(Dir) /\ Behind(global_dir))
      /\ global_dir = Dir
  BY AtHand DEF TaskOK, Dir, Name, print_name_or_link
<1>2. CASE PrintLine("->") \/ PrintLine("")
  BY <1>1, <1>2, NoTask DEF PrintLine
<1>3. CASE Now("slash")
  <2>1. t \in Tasks /\ t.do = "slash" /\ t.dir = Dir /\ t.name = Name
    BY <1>1 DEF Task, Tasks
  <2>2. Then(<<t>>) /\ global_dir' = global_dir
    BY <1>3 DEF Now
  <2> HIDE DEF t
  <2>3. TaskOK(t)
    BY <1>1, <2>1 DEF TaskOK
  <2>4. Replaces(t, 1, 1)
    BY <1>1, <2>1, <2>3 DEF Replaces, Argument
  <2> QED BY <1>1, <2>1, <2>2, <2>4, OneTask
<1> QED BY <1>2, <1>3 DEF print_name_or_link

\* With -R it crashes on a directory removed or not to be read.
LEMMA RecurseOK == ASSUME IInv, recurse_dirs PROVE IInv'
<1>1. /\ TypeInv /\ end = "running" /\ todo # <<>> /\ Dir \in Path /\ Node(Dir)
      /\ Walks /\ ~Looks /\ global_dir \in Path
      /\ Dir # <<>> => fs[Dir] \in {"dir", "locked"}
  BY AtHand DEF TaskOK, Dir, recurse_dirs, Walks, Looks
<1>2. CASE ~Opens(Dir) /\ Stop("crash")
  <2>1. Dir \in DOMAIN fs /\ (gone # {} \/ fs[Dir] # "dir") /\ Dir # <<>>
    BY <1>1, <1>2, NodeOpens, Files1
  <2>2. CrashReason
    BY <1>1, <2>1 DEF CrashReason
  <2> QED BY <1>2, <2>2, Stops
<1>3. CASE /\ Opens(Dir) /\ UNCHANGED global_dir
           /\ \E order \in Orders(Dir) :
                LET names == Looped(order)
                IN Then([k \in DOMAIN names |-> Task("entry", Dir, names[k])])
  <2>1. PICK order \in Orders(Dir) :
          LET names == Looped(order)
          IN Then([k \in DOMAIN names |-> Task("entry", Dir, names[k])])
    BY <1>3
  <2> DEFINE names == Looped(order)
             tasks == [k \in DOMAIN names |-> Task("entry", Dir, names[k])]
  <2>2. PICK n \in Nat : names \in [1 .. n -> Entries(Dir)]
    BY <1>1, OrderEntries
  <2>3. Then(tasks)
    BY <2>1
  <2> HIDE DEF names
  <2>4. \A k \in 1 .. n : names[k] \in Path /\ Under(Dir, names[k])
    BY <1>1, <2>2, EntryUnder
  <2>5. DOMAIN tasks = 1 .. n /\ \A k \in 1 .. n : tasks[k] = Task("entry", Dir, names[k])
    BY <2>2
  <2> HIDE DEF tasks
  <2>6. \A k \in 1 .. n : /\ tasks[k] \in Tasks /\ tasks[k].do = "entry" /\ tasks[k].dir = Dir
                          /\ Under(tasks[k].dir, tasks[k].name)
    BY <1>1, <2>4, <2>5 DEF Task, Tasks
  <2>7. tasks \in Seq(Tasks)
    <3>1. tasks = [k \in 1 .. n |-> Task("entry", Dir, names[k])]
      BY <2>2 DEF tasks
    <3>2. tasks \in [1 .. n -> Tasks]
      BY <2>5, <2>6, <3>1
    <3> QED BY <3>2
  <2>8. \A k \in DOMAIN tasks : Replaces(tasks[k], k, Len(tasks))
    <3>1. \A k \in DOMAIN tasks : TaskOK(tasks[k])
      BY <1>1, <2>5, <2>6 DEF TaskOK
    <3> QED BY <1>1, <2>5, <2>6, <3>1 DEF Replaces, Argument
  <2>9. tasks # <<>> => tasks[1].do = "entry"
    BY <2>5, <2>6, <2>7, EmptySeq
  <2>10. MayReplace(tasks, global_dir)
    BY <1>1, <2>7, <2>8, <2>9 DEF MayReplace
  <2> QED BY <1>1, <1>3, <2>3, <2>10, Steps
<1> QED BY <1>2, <1>3 DEF recurse_dirs

LEMMA EntryOK == ASSUME IInv, Entry PROVE IInv'
<1> DEFINE show == Task("show", Dir, Name)
           next == Task("can_recurse", Dir, Name)
           both == <<show, next>>
<1>1. /\ TypeInv /\ end = "running" /\ todo # <<>> /\ Dir \in Path /\ Name \in Path /\ Node(Dir)
      /\ Under(Dir, Name) /\ Walks /\ ~Looks /\ global_dir \in Path /\ global_dir' = global_dir
  BY AtHand DEF TaskOK, Dir, Name, Entry, Walks, Looks
<1>2. /\ show \in Tasks /\ show.do = "show" /\ show.dir = Dir
      /\ next \in Tasks /\ next.do = "can_recurse" /\ next.dir = Dir /\ next.name = Name
  BY <1>1 DEF Task, Tasks
<1>3. Then(both) \/ Then(<<next>>) \/ Then(<<>>)
  BY DEF Entry
<1> HIDE DEF show, next
<1>4. TaskOK(show) /\ TaskOK(next)
  BY <1>1, <1>2 DEF TaskOK
<1>5. CASE Then(both)
  <2>1. both \in Seq(Tasks) /\ DOMAIN both = {1, 2} /\ both[1] = show /\ both[2] = next
    BY <1>2
  <2>2. Replaces(show, 1, Len(both)) /\ Replaces(next, 2, Len(both))
    BY <1>1, <1>2, <1>4 DEF Replaces, Argument
  <2> HIDE DEF both
  <2>3. \A i \in DOMAIN both : Replaces(both[i], i, Len(both))
    BY <2>1, <2>2
  <2>4. MayReplace(both, global_dir)
    BY <1>1, <1>2, <2>1, <2>3 DEF MayReplace
  <2> QED BY <1>1, <1>5, <2>4, Steps
<1>6. CASE Then(<<next>>)
  <2>1. Replaces(next, 1, 1)
    BY <1>1, <1>2, <1>4 DEF Replaces, Argument
  <2> QED BY <1>1, <1>2, <1>6, <2>1, OneTask
<1>7. CASE Then(<<>>)
  BY <1>1, <1>7, NoTask
<1> QED BY <1>3, <1>5, <1>6, <1>7

LEMMA CanRecurseOK == ASSUME IInv, can_recurse_dir PROVE IInv'
<1> DEFINE t == Task("recurse", Dir \o Name, <<>>)
           walks == /\ global_dir' = global_dir
                    /\ Then(IF KindOf(Dir \o Name) \in {"dir", "locked"} THEN <<t>> ELSE <<>>)
<1>1. /\ TypeInv /\ end = "running" /\ todo # <<>> /\ Dir \in Path /\ Name \in Path /\ Node(Dir)
      /\ Under(Dir, Name) /\ Walks /\ ~Looks /\ global_dir \in Path
  BY AtHand DEF TaskOK, Dir, Name, can_recurse_dir, Walks, Looks
<1>2. CASE Name \in Dots
  BY <1>1, <1>2, NoTask DEF can_recurse_dir, Skip
<1>3. CASE ~Exists(Dir \o Name) /\ Stop("io_error")
  <2>1. gone # {}
    BY <1>1, <1>3, Lookup
  <2> QED BY <1>1, <1>3, <2>1, Stops DEF IOReason, Stats
<1>4. CASE Dir \o Name \in Long /\ Stop("crash")
  BY <1>1, <1>4, LongStops DEF Stats
<1>5. CASE Exists(Dir \o Name) /\ Name \notin Dots /\ walks
  <2>1. /\ global_dir' = global_dir
        /\ Then(IF KindOf(Dir \o Name) \in {"dir", "locked"} THEN <<t>> ELSE <<>>)
    BY <1>5
  <2>2. CASE KindOf(Dir \o Name) \in {"dir", "locked"}
    <3>1. Dir \o Name \in DOMAIN fs /\ fs[Dir \o Name] \in {"dir", "locked"}
      BY <1>1, <1>5, <2>2 DEF Under, KindOf
    <3>2. <<>> \in Path /\ Dir \o Name \in Path /\ Dir \o Name # <<>>
      BY <1>1, <3>1, Files1, EmptySeq DEF Path
    <3>3. t \in Tasks /\ t.do = "recurse" /\ t.dir = Dir \o Name
      BY <3>2 DEF Task, Tasks
    <3>4. Then(<<t>>)
      BY <2>1, <2>2
    <3> HIDE DEF t
    <3>5. TaskOK(t)
      BY <1>1, <3>1, <3>3 DEF TaskOK, Node
    <3>6. Replaces(t, 1, 1)
      BY <1>1, <3>3, <3>5 DEF Replaces, Argument
    <3> QED BY <1>1, <2>1, <3>3, <3>4, <3>6, OneTask
  <2>3. CASE KindOf(Dir \o Name) \notin {"dir", "locked"}
    BY <1>1, <2>1, <2>3, NoTask
  <2> QED BY <2>2, <2>3
<1> QED BY <1>2, <1>3, <1>4, <1>5 DEF can_recurse_dir, lstat

\* The tasks that the program starts with.
LEMMA ScanOK == ASSUME IInv, scan_dirs PROVE IInv'
<1>1. /\ TypeInv /\ global_dir = <<>> /\ end' = "running" /\ global_dir' = <<>> /\ fs' = fs
      /\ opts' = opts /\ args' = args
  BY DEF IInv, scan_dirs, fixed
<1>2. /\ Len(args) \in Nat /\ DOMAIN args = 1 .. Len(args)
      /\ \A k \in DOMAIN args : args[k] \in Path
  BY <1>1, Files1
<1>3. <<>> \in Path /\ <<".">> \in Path
  BY EmptySeq, DotsArePaths DEF Path, Dots
<1>4. ASSUME todo' \in Seq(Tasks),
             \A i \in DOMAIN todo' :
               /\ todo'[i].dir = <<>>
               /\ todo'[i].do \in {"show", "recurse", "display", "arg"}
               /\ todo'[i].do = "recurse" => Walks
               /\ todo'[i].do \in {"display", "arg"} => Looks
               /\ todo'[i].do = "arg" => /\ Len(todo') = Len(args) /\ i \in DOMAIN args
                                         /\ todo'[i].name = args[i]
               /\ \A j \in DOMAIN todo' : j > i => todo'[j].do \in {"show", "arg"}
                                                   /\ todo'[i].do = todo'[j].do
      PROVE  IInv'
  <2>1. TypeInv'
    BY <1>1, <1>4 DEF TypeInv
  <2>2. OrderInv'
    BY <1>4 DEF OrderInv, Argument
  <2>3. HeadInv'
    <3> SUFFICES ASSUME todo' # <<>>
                 PROVE  todo'[1].do \notin {"stats", "name", "slash", "sort"}
      BY <1>4 DEF HeadInv
    <3>1. 1 \in DOMAIN todo'
      BY <1>4, EmptySeq
    <3> QED BY <1>4, <3>1
  <2>4. FailsOnly' /\ end' # "opts" /\ Passed(global_dir)'
    BY <1>1 DEF FailsOnly, Passed
  <2>5. ASSUME NEW i \in DOMAIN todo' PROVE TaskOK(todo[i])' /\ PlaceOK(i)'
    <3>1. TaskOK(todo[i])'
      BY <1>1, <1>4 DEF TaskOK, Node, Walks, Looks
    <3>2. todo'[i].do = "arg" => Place(i)' = i
      <4> SUFFICES ASSUME todo'[i].do = "arg" PROVE Len(args) - (Len(args) - i) = i
        BY <1>1, <1>4 DEF Place
      <4>1. i \in DOMAIN args
        BY <1>4
      <4> QED BY <1>2, <4>1
    <3>3. i > 1 => todo'[i].do \in {"show", "arg"}
      <4>1. 1 \in DOMAIN todo' /\ i \in Nat
        BY <1>4
      <4> QED BY <1>4, <4>1
    <3>4. Passed(todo[i].dir)'
      BY <1>4 DEF Passed
    <3>5. todo'[i].do \in {"arg", "arg_here", "heading"} =>
            Place(i)' \in DOMAIN args /\ todo'[i].name = args[Place(i)']
      <4> SUFFICES ASSUME todo'[i].do = "arg"
                   PROVE  Place(i)' \in DOMAIN args /\ todo'[i].name = args[Place(i)']
        BY <1>4
      <4> QED BY <1>4, <3>2
    <3>6. todo'[i].dir = <<>>
      BY <1>4
    <3>7. PlaceOK(i)'
      BY <1>1, <3>3, <3>4, <3>5, <3>6 DEF PlaceOK, Passed
    <3> QED BY <3>1, <3>7
  <2> QED BY <2>1, <2>2, <2>3, <2>4, <2>5 DEF IInv
<1>5. ASSUME NEW t \in Tasks, todo' = <<t>>, t.dir = <<>>,
             \/ t.do = "show"
             \/ t.do = "recurse" /\ Walks
             \/ t.do = "display" /\ Looks
      PROVE  IInv'
  <2>1. todo' \in Seq(Tasks) /\ DOMAIN todo' = {1} /\ todo'[1] = t
    BY <1>5
  <2> QED BY <1>4, <1>5, <2>1
<1>6. ASSUME NEW do \in {"show", "arg"}, do = "arg" => Looks,
             todo' = [i \in DOMAIN args |-> Task(do, <<>>, args[i])]
      PROVE  IInv'
  <2>1. \A i \in DOMAIN args : /\ Task(do, <<>>, args[i]) \in Tasks
                               /\ Task(do, <<>>, args[i]).do = do
                               /\ Task(do, <<>>, args[i]).dir = <<>>
                               /\ Task(do, <<>>, args[i]).name = args[i]
    BY <1>2, <1>3 DEF Task, Tasks
  <2>2. todo' \in [1 .. Len(args) -> Tasks]
    BY <1>2, <1>6, <2>1
  <2>3. todo' \in Seq(Tasks) /\ Len(todo') = Len(args) /\ DOMAIN todo' = DOMAIN args
    BY <1>2, <2>2
  <2>4. \A i \in DOMAIN todo' : /\ todo'[i].do = do /\ todo'[i].dir = <<>>
                                /\ todo'[i].name = args[i]
    BY <1>6, <2>1, <2>3
  <2> QED BY <1>4, <1>6, <2>3, <2>4
<1>7. CASE opts.d
  <2>1. CASE args = <<>>
    <3>1. todo' = <<Task("show", <<>>, <<".">>)>>
      BY <1>7, <2>1 DEF scan_dirs
    <3> QED BY <1>3, <1>5, <3>1 DEF Task, Tasks
  <2>2. CASE args # <<>>
    BY <1>6, <1>7, <2>2 DEF scan_dirs
  <2> QED BY <2>1, <2>2
<1>8. CASE ~opts.d /\ opts.R
  <2>1. todo' = <<Task("recurse", <<>>, <<>>)>> /\ Walks
    BY <1>8 DEF scan_dirs, Walks
  <2> QED BY <1>3, <1>5, <2>1 DEF Task, Tasks
<1>9. CASE ~opts.d /\ ~opts.R
  <2>1. Looks
    BY <1>9 DEF Looks
  <2>2. CASE args = <<>>
    <3>1. todo' = <<Task("display", <<>>, <<>>)>>
      BY <1>9, <2>2 DEF scan_dirs
    <3> QED BY <1>3, <1>5, <2>1, <3>1 DEF Task, Tasks
  <2>3. CASE args # <<>>
    BY <1>6, <1>9, <2>1, <2>3 DEF scan_dirs
  <2> QED BY <2>2, <2>3
<1> QED BY <1>7, <1>8, <1>9

-----------------------------------------------------------------------------
(***************************************************************************)
(* The theorem                                                             *)
(***************************************************************************)

LEMMA InitOK == Init => IInv
<1> SUFFICES ASSUME Init PROVE IInv
  OBVIOUS
<1>1. todo = <<>> /\ global_dir = <<>> /\ end = "opts" /\ <<>> \in Path /\ todo \in Seq(Tasks)
  BY EmptySeq DEF Init, Path
<1>2. DOMAIN todo = {}
  BY <1>1
<1>3. TypeInv
  BY <1>1 DEF Init, TypeInv
<1>4. OrderInv /\ HeadInv /\ FailsOnly /\ Passed(global_dir)
  BY <1>1, <1>2 DEF OrderInv, HeadInv, FailsOnly, Passed
<1> QED BY <1>1, <1>2, <1>3, <1>4 DEF IInv

LEMMA StutterOK == ASSUME IInv, UNCHANGED vars PROVE IInv'
<1>1. /\ fs' = fs /\ opts' = opts /\ args' = args /\ gone' = gone /\ todo' = todo
      /\ global_dir' = global_dir /\ end' = end
  BY DEF vars, fixed
<1>2. /\ TypeInv' /\ OrderInv' /\ HeadInv' /\ (Looks => Passed(global_dir))' /\ FailsOnly'
  BY <1>1 DEF IInv, TypeInv, OrderInv, Argument, HeadInv, Under, Looks, Passed, Place, FailsOnly
<1>3. ASSUME NEW i \in DOMAIN todo' PROVE TaskOK(todo[i])' /\ PlaceOK(i)'
  <2>1. TaskOK(todo[i]) /\ PlaceOK(i)
    BY <1>1 DEF IInv
  <2> QED BY <1>1, <2>1 DEF TaskOK, Node, Under, Walks, Looks, PlaceOK, Place, Passed
<1> QED BY <1>1, <1>2, <1>3 DEF IInv

\* No step of ls, and no removal in between, leaves the invariant.
LEMMA NextOK == IInv /\ [Next]_vars => IInv'
BY UsageOK, ScanOK, StatsOK, HereOK, HeadingOK, DisplayOK, SortOK, ShowOK, PrintStatsOK, LinkOK,
   RecurseOK, EntryOK, CanRecurseOK, DoneOK, RemovalOK, StutterOK DEF Next

\* ls gives up only for the reasons that FailsOnly lists: with an I/O error (main.c:151, 298)
\* for a missing argument, one behind a directory (main.c:406) or a file removed between the
\* call that read its name and the one that asks for its stats; with a crash for a
\* directory that it cannot open (main.c:307, 371) or a path that has no room (main.c:145, 330).
THEOREM GivesUpForAReason == Spec => []FailsOnly
<1>1. IInv => FailsOnly
  BY DEF IInv
<1> QED BY <1>1, InitOK, NextOK, PTL DEF Spec

-----------------------------------------------------------------------------
(***************************************************************************)
(* The inductive invariant of Listed                                       *)
(***************************************************************************)

LineType == [dir : Path, name : Path, suffix : {"", ":", "/", "->"}]

Shows == {"show", "stats", "name", "slash", "slash_here"}
Showers == Shows \cup {"entry", "arg", "arg_here"}
Walkers == {"entry", "can_recurse", "recurse"}

Todo == ToSet(todo)
Printed == ToSet(out)
Walked == {l.dir : l \in Printed}

\* The directory that a task of -R is about to walk, if it is one.
Key(t) == IF t.do = "recurse" THEN t.dir ELSE t.dir \o t.name

Single(name) == \E s \in Names : name = <<s>>
DirNode(dir) == dir = <<>> \/ (dir \in DOMAIN fs /\ fs[dir] = "dir")

\* Only empty directories are removed, and they stay empty.
Emptied == gone \subseteq DOMAIN fs /\ \A p \in gone : Files(p) = {}

TaskL(t) ==
  /\ t.do \in Shows \cup {"entry"} => DirNode(t.dir) /\ t.name # <<>>
  /\ t.do \in {"entry", "can_recurse"} => Single(t.name)
  /\ t.do \in {"arg", "arg_here", "heading"} => t.dir = <<>>
  /\ opts.d => t.do \in Shows /\ t.dir = <<>>
  /\ t.do = "display" => (t.dir = <<>> <=> args = <<>>)
  /\ t.do \in {"slash", "slash_here"} =>
       opts.p /\ (t.dir = <<>> /\ gone = {} => KindOf(t.name) # "link")

\* No two tasks will print the same, nor what was printed.  What an argument makes ls
\* display is not displayed yet.
Differ == (\A i, j \in DOMAIN args : args[i] = args[j] => i = j) \/ Walks
Alike(x, y) == x.dir = y.dir /\ x.name = y.name /\ Fits(x.dir)
Twice(t, u) == t.do \in Showers /\ u.do \in Showers /\ Alike(t, u)
Unopened(t, lines) ==
  /\ t.do \in {"arg", "arg_here", "heading"} => \A l \in lines : l.dir # t.name
  /\ t.do = "display" => \A l \in lines : l.dir = t.dir => l.name = <<>>
OnceInv ==
  Differ => /\ \A i, j \in DOMAIN todo : Twice(todo[i], todo[j]) => i = j
            /\ \A t \in Todo : t.do \in Showers => \A l \in Printed : ~Alike(t, l)
            /\ \A t \in Todo : Unopened(t, Printed)
            /\ \A i, j \in DOMAIN out : Alike(out[i], out[j]) => i = j

\* With -R no directory is walked twice, and each behind the one it is in.
Rival(t, u) == t.do \in Walkers /\ u.do \in Walkers /\ Key(t) = Key(u)
Follows(t, dirs) ==
  /\ t.do \in Walkers => Key(t) \notin dirs
  /\ t.do \in Shows \cup {"entry", "can_recurse"} => t.dir \in dirs
  /\ t.do = "recurse" => t.dir = <<>> \/ Front(t.dir) \in dirs
WalkInv ==
  Walks => /\ \A i, j \in DOMAIN todo : Rival(todo[i], todo[j]) => i = j
           /\ \A t \in Todo : Follows(t, Walked)
           /\ \A d \in Walked : DirNode(d) /\ (d = <<>> \/ Front(d) \in Walked)

\* The task sees to it that a name of a directory is shown.
Bears(t, dir, name) ==
  \/ t.do \in Shows \cup {"entry"} /\ t.dir = dir /\ t.name = name
  \/ t.do \in {"arg", "arg_here", "heading"} /\ (t.name = dir \/ (dir = <<>> /\ t.name = name))
  \/ t.do = "display" /\ (t.dir = dir \/ (dir = <<>> /\ t.dir = name))

\* It shows nothing of the directory that is not wanted.
Only(t, dir, want) ==
  t.do \in Shows \cup {"entry"} /\ t.dir = dir =>
    \/ t.name \in want
    \/ t.do = "entry" /\ ~Visible(t.name)
    \/ t.do = "show" /\ t.name \notin Entries(dir)

WantInv(dir, want) ==
  /\ Shown(dir) \subseteq want
  /\ \A t \in Todo : Only(t, dir, want)
  /\ \A n \in want : Exists(dir \o n) => n \in Shown(dir) \/ \E t \in Todo : Bears(t, dir, n)

\* The same of its subdirectories.
HeadsInv(dir, first) ==
  /\ \A t \in Todo : t.do \in Walkers => Key(t) # dir \o first
  /\ dir \o first \notin Walked
  /\ \A n \in Subs(dir) \ {first} : Exists(dir \o n) =>
       dir \o n \in Walked \/ \E t \in Todo : t.do \in Walkers /\ Key(t) = dir \o n

\* The directories that are to be shown, and what of each, with the entry that -R drops.
Due == IF opts.d THEN {<<>>}
       ELSE IF opts.R THEN Walked
       ELSE IF args = <<>> THEN {dir \in {<<>>} : Fits(dir)}
       ELSE {<<>>} \cup {dir \in Args({"dir"}) : Fits(dir)}
Want(dir, first) == IF opts.d THEN (IF args = <<>> THEN {<<".">>} ELSE Args(Kinds))
                    ELSE IF opts.R THEN Asked(dir) \ {first}
                    ELSE IF args = <<>> \/ dir # <<>> THEN Asked(dir)
                    ELSE Args(Kinds \ {"dir"})
DirInv(dir, first) == WantInv(dir, Want(dir, first)) /\ (Walks => HeadsInv(dir, first))
RootInv == Walks => \/ <<>> \in Walked
                    \/ \E t \in Todo : t.do = "recurse" /\ t.dir = <<>>
AllInv == RootInv /\ \A dir \in Due : \E first \in Was(dir) \cup Dots : DirInv(dir, first)

LInv == /\ IInv /\ out \in Seq(LineType) /\ Emptied /\ \A t \in Todo : TaskL(t)
        /\ OnceInv /\ WalkInv /\ RightMarks
        /\ end = "opts" => out = <<>> /\ todo = <<>>
        /\ end = "success" => todo = <<>>
        /\ end \in {"running", "success"} => AllInv

-----------------------------------------------------------------------------
(***************************************************************************)
(* Names and listings                                                      *)
(***************************************************************************)

\* Each element of S once.
Lists(names, S) ==
  \E n \in Nat : /\ names \in [1 .. n -> S] /\ DOMAIN names = 1 .. n
                 /\ \A i, j \in 1 .. n : names[i] = names[j] => i = j
                 /\ \A s \in S : \E k \in 1 .. n : names[k] = s

LEMMA SetSeqLists == ASSUME NEW S, IsFiniteSet(S)
                     PROVE  Lists(SetToSeq(S), S) /\ DOMAIN SetToSeq(S) = 1 .. Cardinality(S)
<1> DEFINE n == Cardinality(S)
           f == SetToSeq(S)
<1>1. n \in Nat /\ ExistsBijection(1 .. n, S)
  BY FS_CardinalityType
<1>2. \E g \in [1 .. n -> S] : IsInjective(g)
  BY <1>1 DEF ExistsBijection, Bijection, Injection, IsInjective
<1>3. f \in [1 .. n -> S] /\ IsInjective(f)
  BY <1>2 DEF SetToSeq
<1>4. f \in Injection(1 .. n, S)
  BY <1>3 DEF Injection
<1>5. IsFiniteSet(1 .. n) /\ Cardinality(1 .. n) = n
  BY <1>1, FS_Interval
<1> HIDE DEF f
<1>6. f \in Surjection(1 .. n, S)
  BY <1>4, <1>5, FS_Injection
<1>7. \A s \in S : \E k \in 1 .. n : f[k] = s
  BY <1>6 DEF Surjection
<1>8. \A i, j \in 1 .. n : f[i] = f[j] => i = j
  BY <1>3 DEF IsInjective
<1> QED BY <1>1, <1>3, <1>7, <1>8 DEF Lists, f

\* A name in a directory makes a path of its own.
LEMMA InDir ==
  ASSUME NEW dir \in Path, NEW name, Single(name)
  PROVE  /\ name \in Path /\ name # <<>> /\ dir \o name \in Path /\ dir \o name # <<>>
         /\ Front(dir \o name) = dir /\ <<Last(dir \o name)>> = name
<1>1. PICK s \in Names : name = <<s>>
  BY DEF Single
<1>2. name \in Path /\ name # <<>>
  BY <1>1, OneName, EmptySeq DEF Path
<1> QED BY <1>1, <1>2, Appended

LEMMA KeyInj ==
  ASSUME NEW d1 \in Path, NEW d2 \in Path, NEW n1, NEW n2, Single(n1), Single(n2),
         d1 \o n1 = d2 \o n2
  PROVE  d1 = d2 /\ n1 = n2
<1>1. Front(d1 \o n1) = d1 /\ <<Last(d1 \o n1)>> = n1
  BY InDir
<1>2. Front(d2 \o n2) = d2 /\ <<Last(d2 \o n2)>> = n2
  BY InDir
<1> QED BY <1>1, <1>2

LEMMA DotsSingle == \A name \in Dots : Single(name)
BY DotsArePaths DEF Single

LEMMA InWas ==
  ASSUME TypeInv, NEW dir \in Path, NEW name
  PROVE  /\ name \in Was(dir) <=> Single(name) /\ dir \o name \in DOMAIN fs
         /\ name \in Files(dir) <=> Single(name) /\ dir \o name \in DOMAIN fs \ gone
<1>1. \A p \in DOMAIN fs : /\ p \in Path /\ Front(p) \o SubSeq(p, Len(p), Len(p)) = p
                           /\ Single(SubSeq(p, Len(p), Len(p)))
                           /\ SubSeq(p, Len(p), Len(p)) = <<Last(p)>>
  <2> SUFFICES ASSUME NEW p \in DOMAIN fs
               PROVE  /\ p \in Path /\ Front(p) \o SubSeq(p, Len(p), Len(p)) = p
                      /\ Single(SubSeq(p, Len(p), Len(p)))
                      /\ SubSeq(p, Len(p), Len(p)) = <<Last(p)>>
    OBVIOUS
  <2>1. p \in Path /\ p # <<>>
    BY Files1
  <2>2. Last(p) \in Names
    <3>1. p \in Seq(Names) /\ Len(p) \in Nat \ {0}
      BY <2>1, EmptySeq DEF Path
    <3> QED BY <3>1 DEF Last
  <2> QED BY <2>1, <2>2, SplitPath DEF Single
<1>2. ASSUME Single(name), dir \o name \in DOMAIN fs
      PROVE  LET p == dir \o name IN Front(p) = dir /\ SubSeq(p, Len(p), Len(p)) = name
  <2> DEFINE p == dir \o name
  <2>1. Front(p) = dir /\ <<Last(p)>> = name
    BY <1>2, InDir
  <2>2. SubSeq(p, Len(p), Len(p)) = <<Last(p)>>
    BY <1>1, <1>2
  <2> QED BY <2>1, <2>2
<1> QED BY <1>1, <1>2 DEF Was, Files

\* No path of the file system ends in a dot.
LEMMA NoDot ==
  ASSUME TypeInv, NEW dir \in Path, NEW name \in Dots
  PROVE  dir \o name \notin DOMAIN fs /\ name \notin Was(dir)
<1>1. Single(name) /\ <<Last(dir \o name)>> = name
  BY DotsSingle, InDir
<1> QED BY <1>1, Files1, InWas

\* What it takes for a name to exist: a dot does if its directory does.
LEMMA ExistsIn ==
  ASSUME TypeInv, NEW dir \in Path, NEW name, Single(name)
  PROVE  /\ name \in Dots => (Exists(dir \o name) <=> dir = <<>> \/ dir \in DOMAIN fs \ gone)
         /\ name \notin Dots => (Exists(dir \o name) <=> dir \o name \in DOMAIN fs \ gone)
<1>1. dir \o name # <<>> /\ Front(dir \o name) = dir /\ <<Last(dir \o name)>> = name
  BY InDir
<1> QED BY <1>1 DEF Exists

\* A directory exists as long as something in it does, and then finds it.
LEMMA StillThere ==
  ASSUME TypeInv, Emptied, NEW dir \in Path, DirNode(dir), NEW name \in Was(dir) \cup Dots,
         Exists(dir \o name)
  PROVE  is_in_dir(dir, name)
<1>1. Single(name)
  BY InWas, DotsSingle
<1>2. KindOf(dir) = "dir"
  BY Files1 DEF DirNode, KindOf
<1>3. dir = <<>> \/ dir \in DOMAIN fs \ gone => Opens(dir)
  BY <1>2, Files1 DEF Opens, Exists
<1>4. CASE name \in Dots
  BY <1>1, <1>3, <1>4, ExistsIn DEF is_in_dir, Entries
<1>5. CASE name \notin Dots
  <2>1. dir \o name \in DOMAIN fs \ gone
    BY <1>1, <1>5, ExistsIn
  <2>2. name \in Files(dir)
    BY <1>1, <2>1, InWas
  <2>3. dir \notin gone
    BY <2>2 DEF Emptied
  <2> QED BY <1>3, <2>2, <2>3 DEF is_in_dir, Entries, DirNode
<1> QED BY <1>4, <1>5

\* What a directory finds was in it when the program began, and exists.
LEMMA Found ==
  ASSUME TypeInv, NEW dir \in Path, NEW name \in Entries(dir)
  PROVE  /\ Single(name) /\ name \in Path /\ name # <<>> /\ name \in Was(dir) \cup Dots
         /\ name \notin Dots => dir \o name \in DOMAIN fs \ gone
<1>1. Single(name) /\ (name \in Files(dir) => name \in Was(dir) /\ dir \o name \in DOMAIN fs \ gone)
  BY InWas, DotsSingle DEF Entries
<1> QED BY <1>1, InDir DEF Entries

\* The order that recurse_dirs walks in lacks its first entry.
LEMMA LoopedLists ==
  ASSUME TypeInv, NEW dir, NEW order \in Orders(dir)
  PROVE  \E first \in Entries(dir) : Lists(Looped(order), Entries(dir) \ {first})
<1>1. PICK first \in Entries(dir) : order = <<first>> \o SetToSeq(Entries(dir) \ {first})
  BY DEF Orders
<1> DEFINE S == Entries(dir) \ {first}
           rest == SetToSeq(S)
<1>2. Lists(rest, S)
  <2>1. IsFiniteSet(S)
    BY EntriesFinite, FS_Subset
  <2> QED BY <2>1, SetSeqLists
<1>3. PICK n \in Nat : /\ rest \in [1 .. n -> S] /\ DOMAIN rest = 1 .. n
  BY <1>2 DEF Lists
<1> HIDE DEF rest
<1>4. Tail(<<first>> \o rest) = rest
  <2> DEFINE E == Entries(dir)
             one == <<first>>
  <2>1. rest \in Seq(E) /\ Len(rest) = n
    BY <1>3
  <2>2. one \in Seq(E) /\ Len(one) = 1
    OBVIOUS
  <2> HIDE DEF one, E
  <2>3. /\ one \o rest \in Seq(E) /\ Len(one \o rest) = Len(one) + Len(rest)
        /\ \A i \in 1 .. Len(one) + Len(rest) :
             (one \o rest)[i] = IF i <= Len(one) THEN one[i] ELSE rest[i - Len(one)]
    BY <2>1, <2>2, ConcatProperties, Zenon
  <2>4. /\ Len(one \o rest) = 1 + n /\ one \o rest \in Seq(E)
        /\ \A i \in 1 .. n : (one \o rest)[i + 1] = rest[i]
    BY <2>1, <2>2, <2>3
  <2>5. /\ Tail(one \o rest) \in Seq(E) /\ Len(Tail(one \o rest)) = n
        /\ \A i \in 1 .. n : Tail(one \o rest)[i] = rest[i]
    BY <2>4
  <2>6. Tail(one \o rest) = rest
    BY <2>1, <2>5, SeqEqual
  <2> QED BY <2>6 DEF one
<1> QED BY <1>1, <1>2, <1>4 DEF Looped, rest

\* Of a directory that fits into the buffer display_dir has every visible name once.
LEMMA DisplayLists ==
  ASSUME TypeInv, NEW dir \in Path, NEW order \in Orders(dir), Fits(dir)
  PROVE  Lists(dir_arr(order), {name \in Entries(dir) : Visible(name)})
<1>1. PICK first \in Entries(dir) : order = <<first>> \o SetToSeq(Entries(dir) \ {first})
  BY DEF Orders
<1> DEFINE E == Entries(dir)
           rest == SetToSeq(E \ {first})
           one == <<first>>
           c == Cardinality(E)
<1>2. IsFiniteSet(E) /\ IsFiniteSet(E \ {first}) /\ c \in Nat \ {0} /\ Cardinality(E \ {first}) = c - 1
  BY EntriesFinite, FS_RemoveElement, FS_CardinalityType, FS_EmptySet
<1>3. PICK n \in Nat : /\ rest \in [1 .. n -> E \ {first}] /\ DOMAIN rest = 1 .. n
                       /\ \A i, j \in 1 .. n : rest[i] = rest[j] => i = j
                       /\ \A s \in E \ {first} : \E k \in 1 .. n : rest[k] = s
  BY <1>2, SetSeqLists DEF Lists
<1>4. DOMAIN rest = 1 .. c - 1
  BY <1>2, SetSeqLists
<1>5. n + 1 = c
  BY <1>2, <1>3, <1>4
<1> HIDE DEF rest
<1>6. /\ order \in Seq(E) /\ Len(order) = c /\ DOMAIN order = 1 .. c
      /\ order[1] = first /\ \A i \in 2 .. c : order[i] = rest[i - 1] /\ i - 1 \in 1 .. n
  <2>1. rest \in Seq(E) /\ Len(rest) = n
    BY <1>3
  <2>2. one \in Seq(E) /\ Len(one) = 1 /\ one[1] = first
    OBVIOUS
  <2>3. order = one \o rest
    BY <1>1 DEF rest
  <2> HIDE DEF one, E
  <2>4. /\ order \in Seq(E) /\ Len(order) = Len(one) + Len(rest)
        /\ \A i \in 1 .. Len(one) + Len(rest) :
             order[i] = IF i <= Len(one) THEN one[i] ELSE rest[i - Len(one)]
    BY <2>1, <2>2, <2>3, ConcatProperties, Zenon
  <2> QED BY <1>5, <2>1, <2>2, <2>4
<1>7. \A i, j \in 1 .. c : order[i] = order[j] => i = j
  <2>1. \A i \in 2 .. c : order[i] # first
    BY <1>3, <1>6
  <2>2. \A i, j \in 2 .. c : order[i] = order[j] => i = j
    <3> SUFFICES ASSUME NEW i \in 2 .. c, NEW j \in 2 .. c, order[i] = order[j] PROVE i = j
      OBVIOUS
    <3>1. i - 1 = j - 1
      BY <1>3, <1>6
    <3> QED BY <1>2, <3>1
  <2>3. \A i \in 1 .. c : i = 1 \/ i \in 2 .. c
    BY <1>2
  <2> QED BY <1>6, <2>1, <2>2, <2>3
<1>8. \A s \in E : \E k \in 1 .. c : order[k] = s
  <2>1. \A k \in 1 .. n : k + 1 \in 2 .. c /\ (k + 1) - 1 = k /\ k + 1 \in 1 .. c
    BY <1>5
  <2>2. \A k \in 1 .. n : order[k + 1] = rest[k] /\ k + 1 \in 1 .. c
    <3> TAKE k \in 1 .. n
    <3>1. k + 1 \in 2 .. c /\ (k + 1) - 1 = k /\ k + 1 \in 1 .. c
      BY <2>1
    <3>2. order[k + 1] = rest[(k + 1) - 1]
      BY <1>6, <3>1
    <3> QED BY <3>1, <3>2
  <2> SUFFICES ASSUME NEW s \in E PROVE \E k \in 1 .. c : order[k] = s
    OBVIOUS
  <2>3. CASE s = first
    BY <1>2, <1>6, <2>3
  <2>4. CASE s # first
    BY <1>3, <2>2, <2>4
  <2> QED BY <2>3, <2>4
<1>9. c <= DIRBUF /\ DIRBUF \in Nat \ {0}
  <2>1. IsFiniteSet(Was(dir)) /\ Cardinality(Was(dir)) \in Nat
    <3> DEFINE Here == {q \in DOMAIN fs : Front(q) = dir}
               LastOf == [p \in Here |-> SubSeq(p, Len(p), Len(p))]
    <3>1. IsFiniteSet(Here)
      BY Files1, FS_Subset
    <3>2. LastOf \in Surjection(Here, Was(dir))
      BY DEF Surjection, Was
    <3> HIDE DEF Here, LastOf
    <3>3. IsFiniteSet(Was(dir))
      BY <3>1, <3>2, FS_Surjection
    <3> QED BY <3>3, FS_CardinalityType
  <2>2. /\ IsFiniteSet((Was(dir) \cup {<<".">>}) \cup {<<"..">>})
        /\ Cardinality((Was(dir) \cup {<<".">>}) \cup {<<"..">>}) <= Cardinality(Was(dir)) + 2
    <3>1. /\ IsFiniteSet(Was(dir) \cup {<<".">>})
          /\ Cardinality(Was(dir) \cup {<<".">>}) \in {Cardinality(Was(dir)), Cardinality(Was(dir)) + 1}
      BY <2>1, FS_AddElement
    <3>2. /\ IsFiniteSet((Was(dir) \cup {<<".">>}) \cup {<<"..">>})
          /\ Cardinality((Was(dir) \cup {<<".">>}) \cup {<<"..">>})
               \in {Cardinality(Was(dir) \cup {<<".">>}), Cardinality(Was(dir) \cup {<<".">>}) + 1}
      BY <3>1, FS_AddElement
    <3> QED BY <2>1, <3>1, <3>2
  <2>3. E \subseteq (Was(dir) \cup {<<".">>}) \cup {<<"..">>}
    BY InWas DEF Entries, Dots
  <2>4. c <= Cardinality((Was(dir) \cup {<<".">>}) \cup {<<"..">>})
    BY <2>2, <2>3, FS_Subset
  <2>5. Cardinality((Was(dir) \cup {<<".">>}) \cup {<<"..">>}) \in Nat
    BY <2>2, FS_CardinalityType
  <2>6. DIRBUF \in Nat \ {0} /\ Cardinality(Was(dir)) + 2 <= DIRBUF
    BY ListFilesAssumption DEF Fits
  <2> QED BY <1>2, <2>1, <2>2, <2>4, <2>5, <2>6
<1>10. \A i \in 1 .. c : order[Len(order) - ((Len(order) - i) % DIRBUF)] = order[i]
  <2>1. \A k \in Nat \ {0} : \A x \in 0 .. k - 1 : x % k = x
    OBVIOUS
  <2> SUFFICES ASSUME NEW i \in 1 .. c PROVE c - ((c - i) % DIRBUF) = i
    BY <1>6
  <2>2. c - i \in 0 .. DIRBUF - 1
    BY <1>2, <1>9
  <2>3. (c - i) % DIRBUF = c - i
    BY <1>9, <2>1, <2>2
  <2> QED BY <1>2, <2>3
<1> DEFINE S == {i \in DOMAIN order : Visible(order[i])}
           shown == SetToSeq(S)
           kept == [i \in DOMAIN order |-> order[Len(order) - ((Len(order) - i) % DIRBUF)]]
<1>11. kept = [i \in 1 .. c |-> order[i]]
  BY <1>6, <1>10
<1>12. PICK m \in Nat : /\ shown \in [1 .. m -> S] /\ DOMAIN shown = 1 .. m
                        /\ \A i, j \in 1 .. m : shown[i] = shown[j] => i = j
                        /\ \A s \in S : \E k \in 1 .. m : shown[k] = s
  <2>1. S \subseteq 1 .. c /\ IsFiniteSet(1 .. c)
    BY <1>2, <1>6, FS_Interval
  <2>2. IsFiniteSet(S)
    BY <2>1, FS_Subset
  <2> HIDE DEF S
  <2> QED BY <2>2, SetSeqLists DEF Lists
<1>13. dir_arr(order) = [k \in DOMAIN shown |-> kept[shown[k]]]
  BY DEF dir_arr
<1> HIDE DEF shown, kept
<1>14. S \subseteq 1 .. c /\ \A i \in S : Visible(order[i]) /\ order[i] \in E
  BY <1>6
<1>15. dir_arr(order) = [k \in 1 .. m |-> order[shown[k]]]
  BY <1>11, <1>12, <1>13, <1>14
<1>16. dir_arr(order) \in [1 .. m -> {name \in E : Visible(name)}]
  BY <1>12, <1>14, <1>15
<1>17. \A i, j \in 1 .. m : dir_arr(order)[i] = dir_arr(order)[j] => i = j
  BY <1>7, <1>12, <1>14, <1>15
<1>18. \A name \in {x \in E : Visible(x)} : \E k \in 1 .. m : dir_arr(order)[k] = name
  <2> SUFFICES ASSUME NEW name \in E, Visible(name)
               PROVE  \E k \in 1 .. m : dir_arr(order)[k] = name
    OBVIOUS
  <2>1. PICK i \in 1 .. c : order[i] = name
    BY <1>8
  <2>2. i \in S
    BY <1>6, <2>1
  <2>3. PICK k \in 1 .. m : shown[k] = i
    BY <1>12, <2>2
  <2> QED BY <1>15, <2>1, <2>3
<1> HIDE DEF E
<1> QED BY <1>15, <1>16, <1>17, <1>18 DEF Lists, E

-----------------------------------------------------------------------------
(***************************************************************************)
(* What a step leaves, prints and keeps                                    *)
(***************************************************************************)

\* The tasks behind the one at hand.
Rest == {todo[k] : k \in DOMAIN todo \ {1}}

\* One step of ls: the tasks it leaves and the line that it prints, if any.
Goes(tasks, new) ==
  /\ end = "running" /\ todo # <<>> /\ tasks \in Seq(Tasks) /\ Then(tasks)
  /\ \/ new = {} /\ UNCHANGED out
     \/ \E l \in LineType : new = {l} /\ out' = Append(out, l)

LEMMA Unmoved ==
  ASSUME UNCHANGED fixed, UNCHANGED gone
  PROVE  /\ fs' = fs /\ opts' = opts /\ args' = args /\ (Walks' <=> Walks) /\ (Differ' <=> Differ)
         /\ Emptied' = Emptied
         /\ \A t : TaskL(t) => TaskL(t)'
         /\ \A t, dir, want : Only(t, dir, want) => Only(t, dir, want)'
         /\ \A dir : /\ (Fits(dir) <=> Fits(dir)') /\ Was(dir)' = Was(dir) /\ Subs(dir)' = Subs(dir)
                     /\ (Exists(dir) <=> Exists(dir)') /\ (DirNode(dir) <=> DirNode(dir)')
         /\ \A dir, first : Want(dir, first)' = Want(dir, first)
<1>1. fs' = fs /\ opts' = opts /\ args' = args /\ gone' = gone
  BY DEF fixed
<1>2. \A dir : Was(dir)' = Was(dir) /\ Subs(dir)' = Subs(dir) /\ Files(dir)' = Files(dir)
               /\ Entries(dir)' = Entries(dir)
  BY <1>1 DEF Was, Subs, Files, Entries
<1>3. \A name : (Visible(name) <=> Visible(name)') /\ KindOf(name)' = KindOf(name)
  BY <1>1 DEF Visible, KindOf
<1>4. \A dir : (Fits(dir) <=> Fits(dir)') /\ (Exists(dir) <=> Exists(dir)') /\ (DirNode(dir) <=> DirNode(dir)')
  BY <1>1, <1>2 DEF Fits, Exists, DirNode
<1>5. (Walks' <=> Walks) /\ (Differ' <=> Differ)
  BY <1>1 DEF Differ, Walks
<1>6. Emptied' = Emptied
  BY <1>1, <1>2 DEF Emptied
<1>7. \A t : TaskL(t) => TaskL(t)'
  BY <1>1, <1>3, <1>4 DEF TaskL
<1>8. \A t, dir, want : Only(t, dir, want) => Only(t, dir, want)'
  BY <1>2, <1>3 DEF Only
<1>9. \A dir, first : Want(dir, first)' = Want(dir, first)
  <2>1. \A dir : Asked(dir)' = Asked(dir)
    BY <1>2, <1>3 DEF Asked
  <2>2. \A K : Args(K)' = Args(K)
    BY <1>1 DEF Args, Was
  <2> QED BY <1>1, <2>1, <2>2 DEF Want
<1> QED BY <1>1, <1>2, <1>4, <1>5, <1>6, <1>7, <1>8, <1>9

LEMMA Sets ==
  ASSUME TypeInv, out \in Seq(LineType), NEW tasks, NEW new, Goes(tasks, new)
  PROVE  /\ UNCHANGED fixed /\ UNCHANGED gone /\ end' = "running"
         /\ Head(todo) \in Tasks /\ Todo = {Head(todo)} \cup Rest
         /\ Todo' = ToSet(tasks) \cup Rest
         /\ out' \in Seq(LineType) /\ Printed' = Printed \cup new
<1>1. /\ todo' = tasks \o Tail(todo) /\ UNCHANGED fixed /\ UNCHANGED gone /\ end' = "running"
      /\ todo # <<>> /\ tasks \in Seq(Tasks)
  BY DEF Goes, Then
<1>2. /\ todo \in Seq(Tasks) /\ Len(todo) \in Nat \ {0} /\ DOMAIN todo = 1 .. Len(todo)
      /\ 1 \in DOMAIN todo /\ Head(todo) = todo[1]
  BY <1>1, EmptySeq DEF TypeInv
<1>3. Head(todo) \in Tasks /\ Todo = {Head(todo)} \cup Rest
  BY <1>2 DEF Todo, ToSet, Rest
<1>4. Todo' = ToSet(tasks) \cup Rest
  <2> DEFINE m == Len(tasks)
             n == Len(todo)
  <2>1. /\ todo' \in Seq(Tasks) /\ m \in Nat /\ DOMAIN tasks = 1 .. m
        /\ \A i \in DOMAIN todo' :
             \/ i \in DOMAIN tasks /\ todo'[i] = tasks[i]
             \/ \E k \in DOMAIN todo \ {1} : todo'[i] = todo[k]
    BY <1>1, Kept
  <2>2. /\ Len(todo') = m + (n - 1) /\ DOMAIN todo' = 1 .. m + (n - 1)
        /\ \A i \in 1 .. m : todo'[i] = tasks[i]
        /\ \A k \in 2 .. n : todo'[m + k - 1] = todo[k]
    <3> DEFINE tail == Tail(todo)
    <3>1. /\ tail \in Seq(Tasks) /\ Len(tail) = n - 1 /\ \A k \in 1 .. n - 1 : tail[k] = todo[k + 1]
      BY <1>2
    <3> HIDE DEF tail
    <3>2. /\ todo' \in Seq(Tasks) /\ Len(todo') = Len(tasks) + Len(tail)
          /\ \A i \in 1 .. Len(tasks) + Len(tail) :
               todo'[i] = IF i <= Len(tasks) THEN tasks[i] ELSE tail[i - Len(tasks)]
      BY <1>1, <3>1, ConcatProperties, Zenon DEF tail
    <3>3. ASSUME NEW k \in 2 .. n PROVE todo'[m + k - 1] = todo[k]
      <4> DEFINE i == m + k - 1
      <4>1. i \in 1 .. m + (n - 1) /\ ~(i <= m) /\ i - m = k - 1 /\ k - 1 \in 1 .. n - 1 /\ (k - 1) + 1 = k
        BY <1>2, <2>1
      <4> HIDE DEF i
      <4>2. todo'[i] = tail[k - 1]
        BY <3>1, <3>2, <4>1
      <4>3. tail[k - 1] = todo[(k - 1) + 1]
        BY <3>1, <4>1
      <4> QED BY <4>1, <4>2, <4>3 DEF i
    <3>4. \A i \in 1 .. m : todo'[i] = tasks[i]
      <4>1. \A i \in 1 .. m : i \in 1 .. m + (n - 1) /\ i <= m
        BY <1>2, <2>1
      <4> QED BY <3>1, <3>2, <4>1
    <3>5. Len(todo') = m + (n - 1) /\ DOMAIN todo' = 1 .. m + (n - 1)
      BY <3>1, <3>2
    <3> QED BY <3>3, <3>4, <3>5
  <2>3. \A t \in ToSet(tasks) : \E i \in DOMAIN todo' : todo'[i] = t
    BY <1>2, <2>1, <2>2 DEF ToSet
  <2>4. ASSUME NEW k \in DOMAIN todo \ {1} PROVE \E i \in DOMAIN todo' : todo'[i] = todo[k]
    <3>1. k \in 2 .. n /\ m + k - 1 \in 1 .. m + (n - 1)
      BY <1>2, <2>1
    <3> QED BY <2>2, <3>1
  <2>5. ToSet(todo') \subseteq ToSet(tasks) \cup Rest
    BY <2>1 DEF ToSet, Rest
  <2>6. ToSet(tasks) \cup Rest \subseteq ToSet(todo')
    BY <2>3, <2>4 DEF ToSet, Rest
  <2> QED BY <2>5, <2>6 DEF Todo
<1>5. out' \in Seq(LineType) /\ Printed' = Printed \cup new
  <2>1. CASE new = {} /\ UNCHANGED out
    BY <2>1 DEF Printed
  <2>2. CASE \E l \in LineType : new = {l} /\ out' = Append(out, l)
    <3>1. PICK l \in LineType : new = {l} /\ out' = Append(out, l)
      BY <2>2
    <3>2. /\ out' \in Seq(LineType) /\ Len(out) \in Nat /\ DOMAIN out' = 1 .. Len(out) + 1
          /\ DOMAIN out = 1 .. Len(out)
          /\ out'[Len(out) + 1] = l /\ \A i \in 1 .. Len(out) : out'[i] = out[i]
      BY <3>1, AppendProperties
    <3>3. \A i \in 1 .. Len(out) + 1 : i = Len(out) + 1 \/ i \in 1 .. Len(out)
      BY <3>2
    <3>4. ToSet(out') = ToSet(out) \cup {l}
      BY <3>2, <3>3 DEF ToSet
    <3> QED BY <3>1, <3>2, <3>4 DEF Printed
  <2> QED BY <2>1, <2>2 DEF Goes
<1> QED BY <1>1, <1>3, <1>4, <1>5

\* Two tasks that are left are two new ones, a new and an old one, or two old ones.
LEMMA Pairs ==
  ASSUME TypeInv, NEW tasks, NEW new, Goes(tasks, new),
         NEW i \in DOMAIN todo', NEW j \in DOMAIN todo', i # j,
         NEW t, t = todo'[i], NEW u, u = todo'[j]
  PROVE  \/ \E a, b \in DOMAIN tasks : a # b /\ t = tasks[a] /\ u = tasks[b]
         \/ t \in ToSet(tasks) /\ u \in Rest
         \/ u \in ToSet(tasks) /\ t \in Rest
         \/ \E k, l \in DOMAIN todo : k # l /\ t = todo[k] /\ u = todo[l]
<1>1. /\ Len(tasks) \in Nat
      /\ \A x \in DOMAIN todo' :
           \/ x \in DOMAIN tasks /\ todo'[x] = tasks[x]
           \/ \E k \in DOMAIN todo \ {1} : x = Len(tasks) + k - 1 /\ todo'[x] = todo[k]
  <2>1. tasks \in Seq(Tasks) /\ todo # <<>> /\ todo' = tasks \o Tail(todo) /\ UNCHANGED fixed
    BY DEF Goes, Then
  <2>2. /\ Len(tasks) \in Nat
        /\ \A x \in DOMAIN todo' :
             x \in Nat \ {0}
             /\ \/ /\ x \in DOMAIN tasks /\ todo'[x] = tasks[x]
                   /\ Len(tasks) = 1 => Place(x)' = Place(1)
                \/ /\ x \notin DOMAIN tasks
                   /\ \E k \in DOMAIN todo \ {1} : /\ x = Len(tasks) + k - 1 /\ todo'[x] = todo[k]
                                                   /\ k \in Nat /\ k > 1 /\ Place(x)' = Place(k)
    BY <2>1, Kept
  <2> QED BY <2>2
<1> QED BY <1>1 DEF ToSet, Rest

\* What the tasks that a step leaves and the line it prints must be like, if nothing
\* is to be printed twice.
Once(tasks, new) ==
  /\ \A i, j \in DOMAIN tasks : Twice(tasks[i], tasks[j]) => i = j
  /\ \A t \in ToSet(tasks) : /\ \A r \in Rest : ~Twice(t, r)
                             /\ t.do \in Showers => \A l \in Printed \cup new : ~Alike(t, l)
                             /\ Unopened(t, Printed \cup new)
  /\ \A l \in new : /\ \A r \in Rest : r.do \in Showers => ~Alike(r, l)
                    /\ \A m \in Printed : ~Alike(m, l)
  /\ \A r \in Rest : Unopened(r, new)

LEMMA OnceStep ==
  ASSUME LInv, NEW tasks, NEW new, Goes(tasks, new), Differ => Once(tasks, new)
  PROVE  OnceInv'
<1>1. TypeInv /\ out \in Seq(LineType) /\ OnceInv
  BY DEF LInv, IInv
<1>2. /\ UNCHANGED fixed /\ UNCHANGED gone /\ Todo = {Head(todo)} \cup Rest
      /\ Todo' = ToSet(tasks) \cup Rest /\ Printed' = Printed \cup new
  BY <1>1, Sets
<1>3. (Differ' <=> Differ) /\ \A dir : Fits(dir) <=> Fits(dir)'
  BY <1>2, Unmoved
<1> SUFFICES ASSUME Differ
             PROVE  /\ \A i, j \in DOMAIN todo' : Twice(todo[i], todo[j])' => i = j
                    /\ \A t \in Todo' : t.do \in Showers => \A l \in Printed' : ~Alike(t, l)'
                    /\ \A t \in Todo' : Unopened(t, Printed)'
                    /\ \A i, j \in DOMAIN out' : Alike(out[i], out[j])' => i = j
  BY <1>3 DEF OnceInv
<1>4. \A t, u : (Alike(t, u)' <=> Alike(t, u)) /\ (Alike(t, u) <=> Alike(u, t))
  BY <1>3 DEF Alike
<1>5. \A t, u : Twice(t, u) <=> Twice(u, t)
  BY <1>4 DEF Twice
<1>6. Once(tasks, new)
  OBVIOUS
<1>7. /\ \A i, j \in DOMAIN todo : Twice(todo[i], todo[j]) => i = j
      /\ \A t \in Todo : t.do \in Showers => \A l \in Printed : ~Alike(t, l)
      /\ \A t \in Todo : Unopened(t, Printed)
      /\ \A i, j \in DOMAIN out : Alike(out[i], out[j]) => i = j
  BY <1>1 DEF OnceInv
<1>8. \A i, j \in DOMAIN todo' : Twice(todo[i], todo[j])' => i = j
  <2> SUFFICES ASSUME NEW i \in DOMAIN todo', NEW j \in DOMAIN todo', i # j,
                      NEW t, t = todo'[i], NEW u, u = todo'[j], Twice(t, u)
               PROVE  FALSE
    BY <1>4 DEF Twice, Alike
  <2>1. \/ \E a, b \in DOMAIN tasks : a # b /\ t = tasks[a] /\ u = tasks[b]
        \/ t \in ToSet(tasks) /\ u \in Rest
        \/ u \in ToSet(tasks) /\ t \in Rest
        \/ \E k, l \in DOMAIN todo : k # l /\ t = todo[k] /\ u = todo[l]
    BY <1>1, Pairs
  <2> QED BY <1>5, <1>6, <1>7, <2>1 DEF Once
<1>9. \A t \in Todo' : t.do \in Showers => \A l \in Printed' : ~Alike(t, l)'
  BY <1>2, <1>4, <1>6, <1>7 DEF Once
<1>10. \A t \in Todo' : Unopened(t, Printed)'
  <2>1. \A t \in Todo' : Unopened(t, Printed \cup new)
    BY <1>2, <1>6, <1>7 DEF Once, Unopened
  <2> QED BY <1>2, <2>1 DEF Unopened
<1>11. \A i, j \in DOMAIN out' : Alike(out[i], out[j])' => i = j
  <2>1. CASE UNCHANGED out
    BY <1>4, <1>7, <2>1 DEF Alike
  <2>2. CASE \E l \in LineType : new = {l} /\ out' = Append(out, l)
    <3>1. PICK l \in LineType : new = {l} /\ out' = Append(out, l)
      BY <2>2
    <3>2. /\ out' \in Seq(LineType) /\ Len(out) \in Nat /\ DOMAIN out' = 1 .. Len(out) + 1
          /\ DOMAIN out = 1 .. Len(out)
          /\ out'[Len(out) + 1] = l /\ \A i \in 1 .. Len(out) : out'[i] = out[i]
      BY <1>1, <3>1, AppendProperties
    <3>3. \A i \in 1 .. Len(out) + 1 : i = Len(out) + 1 \/ i \in 1 .. Len(out)
      BY <3>2
    <3>4. \A i \in 1 .. Len(out) : out[i] \in Printed
      BY <3>2 DEF Printed, ToSet
    <3> SUFFICES ASSUME NEW i \in DOMAIN out', NEW j \in DOMAIN out', i # j,
                        NEW x, x = out'[i], NEW y, y = out'[j], Alike(x, y)
                 PROVE  FALSE
      BY <1>4 DEF Alike
    <3> QED BY <1>4, <1>6, <1>7, <3>1, <3>2, <3>3, <3>4 DEF Once
  <2> QED BY <2>1, <2>2 DEF Goes
<1> QED BY <1>8, <1>9, <1>10, <1>11

\* The same of the directories that are walked.
Onward(tasks, new) ==
  LET dirs == Walked \cup {l.dir : l \in new}
  IN /\ \A i, j \in DOMAIN tasks : Rival(tasks[i], tasks[j]) => i = j
     /\ \A t \in ToSet(tasks) : Follows(t, dirs) /\ \A r \in Rest : ~Rival(t, r)
     /\ \A l \in new : /\ \A r \in Rest : r.do \in Walkers => Key(r) # l.dir
                       /\ DirNode(l.dir) /\ (l.dir = <<>> \/ Front(l.dir) \in Walked)

LEMMA WalkStep ==
  ASSUME LInv, NEW tasks, NEW new, Goes(tasks, new), Walks => Onward(tasks, new)
  PROVE  WalkInv'
<1>1. TypeInv /\ out \in Seq(LineType) /\ WalkInv
  BY DEF LInv, IInv
<1>2. /\ UNCHANGED fixed /\ UNCHANGED gone /\ Todo = {Head(todo)} \cup Rest
      /\ Todo' = ToSet(tasks) \cup Rest /\ Printed' = Printed \cup new
  BY <1>1, Sets
<1>3. (Walks' <=> Walks) /\ \A dir : DirNode(dir) <=> DirNode(dir)'
  BY <1>2, Unmoved
<1>4. Walked' = Walked \cup {l.dir : l \in new}
  BY <1>2 DEF Walked
<1> SUFFICES ASSUME Walks
             PROVE  /\ \A i, j \in DOMAIN todo' : Rival(todo[i], todo[j])' => i = j
                    /\ \A t \in Todo' : Follows(t, Walked)'
                    /\ \A d \in Walked' : DirNode(d)' /\ (d = <<>> \/ Front(d) \in Walked')
  BY <1>3 DEF WalkInv
<1>5. Onward(tasks, new)
  OBVIOUS
<1>6. /\ \A i, j \in DOMAIN todo : Rival(todo[i], todo[j]) => i = j
      /\ \A t \in Todo : Follows(t, Walked)
      /\ \A d \in Walked : DirNode(d) /\ (d = <<>> \/ Front(d) \in Walked)
  BY <1>1 DEF WalkInv
<1>7. \A i, j \in DOMAIN todo' : Rival(todo[i], todo[j])' => i = j
  <2> SUFFICES ASSUME NEW i \in DOMAIN todo', NEW j \in DOMAIN todo', i # j,
                      NEW t, t = todo'[i], NEW u, u = todo'[j], Rival(t, u)
               PROVE  FALSE
    BY DEF Rival, Key
  <2>1. \/ \E a, b \in DOMAIN tasks : a # b /\ t = tasks[a] /\ u = tasks[b]
        \/ t \in ToSet(tasks) /\ u \in Rest
        \/ u \in ToSet(tasks) /\ t \in Rest
        \/ \E k, l \in DOMAIN todo : k # l /\ t = todo[k] /\ u = todo[l]
    BY <1>1, Pairs
  <2>2. Rival(u, t)
    BY DEF Rival
  <2> QED BY <1>5, <1>6, <2>1, <2>2 DEF Onward
<1>8. \A t \in Todo' : Follows(t, Walked)'
  <2> DEFINE dirs == Walked \cup {l.dir : l \in new}
  <2>1. \A r \in Rest : Follows(r, dirs)
    <3> SUFFICES ASSUME NEW r \in Rest PROVE Follows(r, dirs)
      OBVIOUS
    <3>1. Follows(r, Walked)
      BY <1>2, <1>6
    <3>2. r.do \in Walkers => Key(r) \notin {l.dir : l \in new}
      BY <1>5 DEF Onward
    <3> QED BY <3>1, <3>2 DEF Follows
  <2>2. \A t \in ToSet(tasks) : Follows(t, dirs)
    BY <1>5 DEF Onward
  <2> QED BY <1>2, <1>4, <2>1, <2>2 DEF Follows
<1>9. \A d \in Walked' : DirNode(d)' /\ (d = <<>> \/ Front(d) \in Walked')
  BY <1>3, <1>4, <1>5, <1>6 DEF Onward
<1> QED BY <1>7, <1>8, <1>9

\* The same of what is shown of a directory.
Keeps(tasks, new, dir, want) ==
  /\ \A l \in new : l.dir = dir => l.name = <<>> \/ l.name \in want
  /\ \A t \in ToSet(tasks) : Only(t, dir, want)
  /\ \A n \in want : Exists(dir \o n) /\ Bears(Head(todo), dir, n) =>
       \/ n # <<>> /\ \E l \in new : l.dir = dir /\ l.name = n
       \/ \E t \in ToSet(tasks) : Bears(t, dir, n)

LEMMA WantStep ==
  ASSUME LInv, NEW tasks, NEW new, Goes(tasks, new), NEW dir, NEW want,
         WantInv(dir, want), Keeps(tasks, new, dir, want)
  PROVE  WantInv(dir, want)'
<1>1. TypeInv /\ out \in Seq(LineType)
  BY DEF LInv, IInv
<1>2. /\ UNCHANGED fixed /\ UNCHANGED gone /\ Todo = {Head(todo)} \cup Rest
      /\ Todo' = ToSet(tasks) \cup Rest /\ Printed' = Printed \cup new
  BY <1>1, Sets
<1>3. /\ \A t : Only(t, dir, want) => Only(t, dir, want)'
      /\ \A p : Exists(p) <=> Exists(p)'
  BY <1>2, Unmoved
<1>4. Shown(dir)' = Shown(dir) \cup ({l.name : l \in {m \in new : m.dir = dir}} \ {<<>>})
  BY <1>2 DEF Shown, Printed
<1>5. Shown(dir)' \subseteq want
  BY <1>4 DEF WantInv, Keeps
<1>6. \A t \in Todo' : Only(t, dir, want)'
  BY <1>2, <1>3 DEF WantInv, Keeps
<1>7. \A n \in want : Exists(dir \o n) => n \in Shown(dir)' \/ \E t \in Todo' : Bears(t, dir, n)
  <2> SUFFICES ASSUME NEW n \in want, Exists(dir \o n), n \notin Shown(dir)'
               PROVE  \E t \in Todo' : Bears(t, dir, n)
    OBVIOUS
  <2>1. PICK t \in Todo : Bears(t, dir, n)
    BY <1>4 DEF WantInv
  <2>2. CASE t \in Rest
    BY <1>2, <2>1, <2>2
  <2>3. CASE t = Head(todo)
    BY <1>2, <1>4, <2>1, <2>3 DEF Keeps
  <2> QED BY <1>2, <2>2, <2>3
<1> QED BY <1>3, <1>5, <1>6, <1>7 DEF WantInv, Bears

\* And of the subdirectories that are walked.
Heeds(tasks, new, dir, first) ==
  /\ \A l \in new : l.dir # dir \o first
  /\ \A t \in ToSet(tasks) : t.do \in Walkers => Key(t) # dir \o first
  /\ \A n \in Subs(dir) \ {first} :
       Exists(dir \o n) /\ Head(todo).do \in Walkers /\ Key(Head(todo)) = dir \o n =>
         \/ \E l \in new : l.dir = dir \o n
         \/ \E t \in ToSet(tasks) : t.do \in Walkers /\ Key(t) = dir \o n

LEMMA HeadsStep ==
  ASSUME LInv, NEW tasks, NEW new, Goes(tasks, new), NEW dir, NEW first,
         HeadsInv(dir, first), Heeds(tasks, new, dir, first)
  PROVE  HeadsInv(dir, first)'
<1>1. TypeInv /\ out \in Seq(LineType)
  BY DEF LInv, IInv
<1>2. /\ UNCHANGED fixed /\ UNCHANGED gone /\ Todo = {Head(todo)} \cup Rest
      /\ Todo' = ToSet(tasks) \cup Rest /\ Printed' = Printed \cup new
  BY <1>1, Sets
<1>3. Subs(dir)' = Subs(dir) /\ \A p : Exists(p) <=> Exists(p)'
  BY <1>2, Unmoved
<1>4. Walked' = Walked \cup {l.dir : l \in new}
  BY <1>2 DEF Walked
<1>5. \A t \in Todo' : t.do \in Walkers => Key(t) # dir \o first
  BY <1>2 DEF HeadsInv, Heeds
<1>6. dir \o first \notin Walked'
  BY <1>4 DEF HeadsInv, Heeds
<1>7. \A n \in Subs(dir) \ {first} : Exists(dir \o n) =>
        dir \o n \in Walked' \/ \E t \in Todo' : t.do \in Walkers /\ Key(t) = dir \o n
  <2> SUFFICES ASSUME NEW n \in Subs(dir) \ {first}, Exists(dir \o n), dir \o n \notin Walked'
               PROVE  \E t \in Todo' : t.do \in Walkers /\ Key(t) = dir \o n
    OBVIOUS
  <2>1. PICK t \in Todo : t.do \in Walkers /\ Key(t) = dir \o n
    BY <1>4 DEF HeadsInv
  <2> QED BY <1>2, <1>4, <2>1 DEF Heeds
<1> QED BY <1>3, <1>5, <1>6, <1>7 DEF HeadsInv, Key, Walkers

\* The mark of a line that was printed with -l.
Mark(l) ==
  gone = {} /\ opts.l => (l.dir = <<>> /\ l.suffix # ":" =>
    l.suffix = IF KindOf(l.name) = "link" THEN "->"
               ELSE IF opts.p /\ DirBit(l.name) THEN "/" ELSE "")

\* A step keeps the invariant if its tasks and its line fit in.
Fit(tasks, new) ==
  /\ \A t \in ToSet(tasks) : TaskL(t)
  /\ \A l \in new : Mark(l)
  /\ Differ => Once(tasks, new)
  /\ Walks => Onward(tasks, new)
  /\ \A dir \in Due : \A first \in Was(dir) \cup Dots : DirInv(dir, first) =>
       Keeps(tasks, new, dir, Want(dir, first)) /\ (Walks => Heeds(tasks, new, dir, first))
  /\ Walks /\ Head(todo).do = "recurse" /\ Head(todo).dir = <<>> => \E l \in new : l.dir = <<>>

LEMMA LStep ==
  ASSUME LInv, IInv', NEW tasks, NEW new, Goes(tasks, new), Fit(tasks, new),
         Walks => \A dir \in {l.dir : l \in new} \ Walked : \E first \in Was(dir) \cup Dots :
                    DirInv(dir, first)'
  PROVE  LInv'
<1>1. TypeInv /\ out \in Seq(LineType) /\ Emptied /\ AllInv /\ RightMarks
      /\ \A t \in Todo : TaskL(t)
  BY DEF LInv, IInv, Goes
<1>2. /\ UNCHANGED fixed /\ UNCHANGED gone /\ Todo = {Head(todo)} \cup Rest
      /\ Todo' = ToSet(tasks) \cup Rest /\ Printed' = Printed \cup new /\ out' \in Seq(LineType)
      /\ end' = "running"
  BY <1>1, Sets
<1>3. /\ fs' = fs /\ opts' = opts /\ args' = args /\ gone' = gone
      /\ (Walks' <=> Walks) /\ Emptied' = Emptied
      /\ \A t : TaskL(t) => TaskL(t)'
      /\ \A dir : (Fits(dir) <=> Fits(dir)') /\ Was(dir)' = Was(dir)
      /\ \A dir, first : Want(dir, first)' = Want(dir, first)
  BY <1>2, Unmoved
<1>4. Walked' = Walked \cup {l.dir : l \in new}
  BY <1>2 DEF Walked
<1>5. OnceInv' /\ WalkInv'
  BY OnceStep, WalkStep DEF Fit
<1>6. \A t \in Todo' : TaskL(t)'
  BY <1>1, <1>2, <1>3 DEF Fit
<1>7. RightMarks'
  <2>1. \A l \in Printed : Mark(l)
    BY <1>1 DEF RightMarks, Mark, Printed
  <2>2. \A l \in Printed' : Mark(l)
    BY <1>2, <2>1 DEF Fit
  <2>3. \A p : KindOf(p)' = KindOf(p) /\ (DirBit(p) <=> DirBit(p)')
    BY <1>3 DEF KindOf, DirBit, Exists
  <2>4. \A l \in Printed' : Mark(l)'
    BY <1>3, <2>2, <2>3 DEF Mark
  <2> QED BY <2>4 DEF RightMarks, Mark, Printed
<1>8. \A dir \in Due : \E first \in Was(dir) \cup Dots : DirInv(dir, first)'
  <2> SUFFICES ASSUME NEW dir \in Due PROVE \E first \in Was(dir) \cup Dots : DirInv(dir, first)'
    OBVIOUS
  <2>1. PICK first \in Was(dir) \cup Dots : DirInv(dir, first)
    BY <1>1 DEF AllInv
  <2>2. Keeps(tasks, new, dir, Want(dir, first)) /\ (Walks => Heeds(tasks, new, dir, first))
    BY <2>1 DEF Fit
  <2>3. PICK want : want = Want(dir, first)
    OBVIOUS
  <2>4. WantInv(dir, want)'
    BY <2>1, <2>2, <2>3, WantStep DEF DirInv
  <2>5. Walks => HeadsInv(dir, first)'
    BY <2>1, <2>2, HeadsStep DEF DirInv
  <2>6. WantInv(dir, Want(dir, first))'
    <3>1. Want(dir, first)' = want
      BY <1>3, <2>3
    <3> QED BY <2>4, <3>1 DEF WantInv
  <2> QED BY <1>3, <2>5, <2>6 DEF DirInv
<1>9. RootInv'
  <2> SUFFICES ASSUME Walks, <<>> \notin Walked' PROVE \E t \in Todo' : t.do = "recurse" /\ t.dir = <<>>
    BY <1>3 DEF RootInv
  <2>1. PICK t \in Todo : t.do = "recurse" /\ t.dir = <<>>
    BY <1>1, <1>4 DEF AllInv, RootInv
  <2>2. t # Head(todo)
    BY <1>4, <2>1 DEF Fit
  <2> QED BY <1>2, <2>1, <2>2
<1>10. AllInv'
  <2>1. CASE Walks
    <3>1. Due' = Due \cup {l.dir : l \in new} /\ Due = Walked
      BY <1>3, <1>4, <2>1 DEF Due, Walks
    <3>2. \A dir \in Due' : \E first \in Was(dir) \cup Dots : DirInv(dir, first)'
      BY <1>8, <2>1, <3>1
    <3> QED BY <1>3, <1>9, <3>2 DEF AllInv
  <2>2. CASE ~Walks
    <3>1. \A K : Args(K)' = Args(K)
      BY <1>3 DEF Args
    <3>2. Due' = Due
      BY <1>3, <2>2, <3>1 DEF Due, Walks
    <3> QED BY <1>3, <1>8, <1>9, <3>2 DEF AllInv
  <2> QED BY <2>1, <2>2
<1> QED BY <1>2, <1>3, <1>5, <1>6, <1>7, <1>10 DEF LInv

\* What is known of the task at hand and of those behind it.
LEMMA Held ==
  ASSUME LInv, NEW do, Doing(do)
  PROVE  /\ TypeInv /\ out \in Seq(LineType) /\ Emptied /\ end = "running" /\ todo # <<>>
         /\ Head(todo).do = do /\ Head(todo).dir = Dir /\ Head(todo).name = Name
         /\ Dir \in Path /\ Name \in Path /\ TaskL(Head(todo)) /\ TaskOK(Head(todo))
         /\ Head(todo) \in Todo /\ Todo = {Head(todo)} \cup Rest
         /\ Differ => /\ \A r \in Rest : ~Twice(Head(todo), r)
                      /\ do \in Showers => \A l \in Printed : ~Alike(Head(todo), l)
                      /\ Unopened(Head(todo), Printed)
         /\ Walks => /\ \A r \in Rest : ~Rival(Head(todo), r) /\ Follows(r, Walked)
                     /\ Follows(Head(todo), Walked)
         /\ \A r \in Rest : /\ TaskL(r) /\ r.do \in {"show", "arg", "entry", "can_recurse"}
                            /\ r \in Tasks /\ (do \in Argument => r.do = "arg")
         /\ \A r \in Rest : r.do = "arg" /\ Differ =>
              /\ r.name # Dir /\ args # <<>> /\ ~Walks
              /\ do \in {"arg", "arg_here", "heading"} => r.name # Name
<1>1. /\ TypeInv /\ out \in Seq(LineType) /\ Emptied /\ end = "running" /\ todo # <<>>
      /\ Head(todo).do = do /\ Head(todo).dir = Dir /\ Head(todo).name = Name /\ IInv
  BY DEF LInv, IInv, Doing, Dir, Name
<1>2. /\ todo \in Seq(Tasks) /\ Len(todo) \in Nat \ {0} /\ DOMAIN todo = 1 .. Len(todo)
      /\ 1 \in DOMAIN todo /\ Head(todo) = todo[1] /\ Head(todo) \in Tasks
  BY <1>1, EmptySeq DEF TypeInv
<1>3. Head(todo) \in Todo /\ Todo = {Head(todo)} \cup Rest
  BY <1>2 DEF Todo, ToSet, Rest
<1>4. Dir \in Path /\ Name \in Path /\ TaskL(Head(todo)) /\ TaskOK(Head(todo)) /\ PlaceOK(1)
  BY <1>1, <1>2, <1>3 DEF LInv, IInv, Tasks
<1>5. Differ => /\ \A r \in Rest : ~Twice(Head(todo), r)
                /\ do \in Showers => \A l \in Printed : ~Alike(Head(todo), l)
                /\ Unopened(Head(todo), Printed)
  BY <1>1, <1>2, <1>3 DEF LInv, OnceInv, Rest
<1>6. Walks => /\ \A r \in Rest : ~Rival(Head(todo), r) /\ Follows(r, Walked)
               /\ Follows(Head(todo), Walked)
  BY <1>1, <1>2, <1>3 DEF LInv, WalkInv, Rest
<1>7. \A k \in DOMAIN todo \ {1} : /\ k > 1 /\ TaskOK(todo[k]) /\ PlaceOK(k) /\ TaskL(todo[k])
                                   /\ todo[k] \in Tasks /\ Place(1) < Place(k)
  <2>1. Len(args) \in Nat
    BY <1>1, Files1
  <2>2. \A k \in DOMAIN todo \ {1} : k > 1 /\ Place(1) < Place(k)
    BY <1>2, <2>1 DEF Place
  <2>3. \A k \in DOMAIN todo \ {1} : todo[k] \in Rest
    BY DEF Rest
  <2> QED BY <1>1, <1>2, <1>3, <2>2, <2>3 DEF LInv, IInv
<1>8. \A r \in Rest : /\ TaskL(r) /\ r.do \in {"show", "arg", "entry", "can_recurse"}
                      /\ r \in Tasks /\ (do \in Argument => r.do = "arg")
  BY <1>1, <1>2, <1>7 DEF Rest, PlaceOK, IInv, OrderInv
<1>9. ASSUME NEW r \in Rest, r.do = "arg", Differ
      PROVE  /\ r.name # Dir /\ args # <<>> /\ ~Walks
             /\ do \in {"arg", "arg_here", "heading"} => r.name # Name
  <2>1. PICK k \in DOMAIN todo \ {1} : r = todo[k]
    BY DEF Rest
  <2>2. /\ Place(k) \in DOMAIN args /\ r.name = args[Place(k)] /\ TaskOK(r) /\ Place(1) < Place(k)
    BY <1>7, <1>9, <2>1 DEF PlaceOK
  <2>3. ~Walks /\ Looks /\ args # <<>> /\ r.name # <<>>
    <3>1. args # <<>> /\ r.name # <<>> /\ Looks
      <4>1. args # <<>>
        BY <2>2
      <4>2. args[Place(k)] # <<>>
        BY <1>1, <2>2, Files1
      <4> QED BY <1>9, <2>2, <4>1, <4>2 DEF TaskOK
    <3> QED BY <3>1 DEF Walks, Looks
  <2>4. \A j \in DOMAIN args : j < Place(k) => args[j] # r.name
    <3>1. \A i, j \in DOMAIN args : args[i] = args[j] => i = j
      BY <1>9, <2>3 DEF Differ
    <3>2. Place(k) \in Int
      BY <1>1, <2>2, Files1
    <3> QED BY <2>2, <3>1, <3>2
  <2>5. do \in {"arg", "arg_here", "heading"} => r.name # Name
    BY <1>1, <1>4, <2>2, <2>4 DEF PlaceOK
  <2>6. r.name # Dir
    <3> SUFFICES ASSUME Dir # <<>> PROVE r.name # Dir
      BY <2>3
    <3>1. CASE do = "display"
      BY <1>1, <1>2, <1>4, <2>2, <2>4, <3>1 DEF PlaceOK
    <3>2. CASE do # "display"
      <4>1. Passed(Dir)
        BY <1>1, <1>2, <1>4, <2>3, <3>2 DEF PlaceOK
      <4> QED BY <1>9, <2>1, <2>4, <4>1 DEF Passed
    <3> QED BY <3>1, <3>2
  <2> QED BY <2>3, <2>5, <2>6
<1> QED BY <1>1, <1>3, <1>4, <1>5, <1>6, <1>8, <1>9

\* Steps that go on with the name of the task at hand, or drop it.
Heirs(tasks, new) ==
  /\ \A t \in ToSet(tasks) :
       /\ TaskL(t) /\ t.do \notin {"arg", "display", "entry"}
       /\ t.do \in Showers \cup {"heading"} =>
            Head(todo).do \in Showers /\ t.dir = Dir /\ t.name = Name
       /\ t.do \in {"arg_here", "heading"} => Head(todo).do \in {"arg", "arg_here"}
       /\ t.do \in Walkers => Head(todo).do \in Walkers /\ Key(t) = Key(Head(todo))
       /\ t.do = "can_recurse" => Head(todo).do = "entry" /\ t.dir = Dir
       /\ t.do = "recurse" => Head(todo).do = "can_recurse"
  /\ \A l \in new : /\ Head(todo).do \in Shows \cup {"entry"} /\ l.dir = Dir /\ l.name = Name
                    /\ Mark(l) /\ \A t \in ToSet(tasks) : t.do \notin Showers
  /\ \A i, j \in DOMAIN tasks :
       \/ tasks[i].do \in Showers /\ tasks[j].do \in Showers
       \/ tasks[i].do \in Walkers /\ tasks[j].do \in Walkers
       => i = j

LEMMA HeirOnce ==
  ASSUME LInv, NEW do, Doing(do), NEW tasks, NEW new, Heirs(tasks, new), Differ
  PROVE  Once(tasks, new)
<1>1. /\ Head(todo).do = do /\ Head(todo).dir = Dir /\ Head(todo).name = Name
      /\ \A r \in Rest : ~Twice(Head(todo), r)
      /\ do \in Showers => \A l \in Printed : ~Alike(Head(todo), l)
      /\ Unopened(Head(todo), Printed)
      /\ \A r \in Rest : r.do \in {"show", "arg", "entry", "can_recurse"}
      /\ \A r \in Rest : r.do = "arg" => r.name # Dir
  BY Held
<1>2. \A i, j \in DOMAIN tasks : Twice(tasks[i], tasks[j]) => i = j
  BY DEF Heirs, Twice
<1>3. \A t \in ToSet(tasks) : t.do \in Showers => \A l \in Printed : ~Alike(t, l)
  BY <1>1 DEF Heirs, Alike
<1>4. \A t \in ToSet(tasks) : \A r \in Rest : ~Twice(t, r)
  BY <1>1 DEF Heirs, Alike, Twice
<1>5. \A t \in ToSet(tasks) : t.do \in Showers => new = {}
  BY DEF Heirs
<1>6. \A t \in ToSet(tasks) : Unopened(t, Printed \cup new)
  <2> SUFFICES ASSUME NEW t \in ToSet(tasks) PROVE Unopened(t, Printed \cup new)
    OBVIOUS
  <2>1. t.do \notin {"arg", "display"}
    BY DEF Heirs
  <2>2. ASSUME t.do \in {"arg_here", "heading"} PROVE new = {} /\ t.name = Name /\ do \in {"arg", "arg_here"}
    BY <1>1, <2>2 DEF Heirs, Shows, Showers
  <2> QED BY <1>1, <2>1, <2>2 DEF Unopened
<1>7. ASSUME NEW l \in new
      PROVE  /\ \A r \in Rest : r.do \in Showers => ~Alike(r, l)
             /\ \A m \in Printed : ~Alike(m, l)
  <2>1. do \in Showers /\ l.dir = Dir /\ l.name = Name
    BY <1>1, <1>7 DEF Heirs, Showers
  <2> QED BY <1>1, <2>1 DEF Alike, Twice
<1>8. \A r \in Rest : Unopened(r, new)
  BY <1>1 DEF Heirs, Unopened
<1> QED BY <1>2, <1>3, <1>4, <1>5, <1>6, <1>7, <1>8 DEF Once

LEMMA HeirWalk ==
  ASSUME LInv, NEW do, Doing(do), NEW tasks, NEW new, Heirs(tasks, new), Walks
  PROVE  Onward(tasks, new)
<1>1. /\ Head(todo).do = do /\ Head(todo).dir = Dir /\ Head(todo).name = Name
      /\ Dir \in Path /\ TaskL(Head(todo)) /\ TaskOK(Head(todo))
      /\ \A r \in Rest : ~Rival(Head(todo), r) /\ Follows(r, Walked)
      /\ Follows(Head(todo), Walked)
  BY Held
<1>2. do \notin {"arg", "arg_here"}
  BY <1>1 DEF TaskOK, Walks, Looks
<1>3. \A l \in new : l.dir = Dir /\ Dir \in Walked
  BY <1>1 DEF Heirs, Follows
<1>4. Walked \cup {l.dir : l \in new} = Walked
  BY <1>3
<1>5. \A i, j \in DOMAIN tasks : Rival(tasks[i], tasks[j]) => i = j
  BY DEF Heirs, Rival
<1>6. \A t \in ToSet(tasks) : \A r \in Rest : ~Rival(t, r)
  BY <1>1 DEF Heirs, Rival
<1>7. ASSUME NEW t \in ToSet(tasks) PROVE Follows(t, Walked)
  <2>1. t.do \in Walkers => Key(t) \notin Walked
    BY <1>1, <1>7 DEF Heirs, Follows
  <2>2. t.do \in Shows \cup {"entry", "can_recurse"} => t.dir \in Walked
    BY <1>1, <1>2, <1>7 DEF Heirs, Follows, Showers
  <2>3. ASSUME t.do = "recurse" PROVE Front(t.dir) \in Walked
    <3>1. do = "can_recurse" /\ t.dir = Dir \o Name
      BY <1>1, <1>7, <2>3 DEF Heirs, Key, Walkers
    <3>2. Single(Name) /\ Dir \in Walked
      BY <1>1, <3>1 DEF TaskL, Follows
    <3> QED BY <1>1, <3>1, <3>2, InDir
  <2> QED BY <2>1, <2>2, <2>3 DEF Follows
<1>8. ASSUME NEW l \in new
      PROVE  /\ \A r \in Rest : r.do \in Walkers => Key(r) # l.dir
             /\ DirNode(l.dir) /\ (l.dir = <<>> \/ Front(l.dir) \in Walked)
  BY <1>1, <1>3 DEF Follows, LInv, WalkInv
<1> QED BY <1>4, <1>5, <1>6, <1>7, <1>8 DEF Onward

LEMMA HeirStep ==
  ASSUME LInv, IInv', NEW do, Doing(do), NEW tasks, NEW new, Goes(tasks, new), Heirs(tasks, new),
         do # "recurse",
         \A dir \in Due : \A first \in Was(dir) \cup Dots : DirInv(dir, first) =>
           Keeps(tasks, new, dir, Want(dir, first)),
         Walks => \A dir \in Due : \A n \in Subs(dir) :
           Exists(dir \o n) /\ do \in Walkers /\ Key(Head(todo)) = dir \o n =>
             \E t \in ToSet(tasks) : t.do \in Walkers
  PROVE  LInv'
<1>1. /\ Head(todo).do = do /\ Head(todo) \in Todo
      /\ Walks => Follows(Head(todo), Walked) /\ do \notin {"arg", "arg_here"}
  BY Held DEF TaskOK, Walks, Looks
<1>2. Walks => \A l \in new : l.dir = Dir /\ Dir \in Walked
  <2>1. Head(todo).dir = Dir
    BY DEF Dir
  <2> QED BY <1>1, <2>1 DEF Heirs, Follows
<1>3. ASSUME NEW dir \in Due, NEW first \in Was(dir) \cup Dots, DirInv(dir, first), Walks
      PROVE  Heeds(tasks, new, dir, first)
  <2>1. HeadsInv(dir, first)
    BY <1>3 DEF DirInv
  <2>2. \A l \in new : l.dir # dir \o first
    BY <1>2, <1>3, <2>1 DEF HeadsInv
  <2>3. \A t \in ToSet(tasks) : t.do \in Walkers => Key(t) # dir \o first
    BY <1>1, <2>1 DEF Heirs, HeadsInv
  <2> QED BY <1>1, <1>3, <2>2, <2>3 DEF Heeds, Heirs
<1>4. Fit(tasks, new)
  BY <1>1, <1>3, HeirOnce, HeirWalk DEF Fit, Heirs
<1>5. Walks => {l.dir : l \in new} \ Walked = {}
  BY <1>2
<1> QED BY <1>4, <1>5, LStep

\* Where the name is shown, or goes on to be, a directory keeps what it wants.
LEMMA PassOn ==
  ASSUME LInv, NEW do \in Shows \cup {"entry"}, Doing(do), NEW tasks, NEW new, Heirs(tasks, new),
         do = "entry" => Visible(Name), do = "show" => is_in_dir(Dir, Name),
         new # {} \/ \E t \in ToSet(tasks) : t.do \in Shows,
         NEW dir, NEW first, DirInv(dir, first)
  PROVE  Keeps(tasks, new, dir, Want(dir, first))
<1>1. /\ Head(todo).do = do /\ Head(todo).dir = Dir /\ Head(todo).name = Name
      /\ Head(todo) \in Todo /\ TaskL(Head(todo))
  BY Held
<1> DEFINE want == Want(dir, first)
<1> HIDE DEF want
<1>2. Only(Head(todo), dir, want)
  BY <1>1 DEF DirInv, WantInv, want
<1>3. Dir = dir => Name \in want
  BY <1>1, <1>2 DEF Only, is_in_dir
<1>4. \A l \in new : l.dir = Dir /\ l.name = Name
  BY DEF Heirs
<1>5. \A t \in ToSet(tasks) : /\ t.do \in Shows => t.dir = Dir /\ t.name = Name
                              /\ t.do # "entry"
  BY DEF Heirs, Showers
<1>6. \A t \in ToSet(tasks) : Only(t, dir, want)
  BY <1>3, <1>5 DEF Only
<1>7. Name # <<>>
  BY <1>1 DEF TaskL
<1>8. ASSUME NEW n \in want, Bears(Head(todo), dir, n)
      PROVE  \/ n # <<>> /\ \E l \in new : l.dir = dir /\ l.name = n
             \/ \E t \in ToSet(tasks) : Bears(t, dir, n)
  <2>1. Dir = dir /\ Name = n
    BY <1>1, <1>8 DEF Bears, Shows
  <2> QED BY <1>4, <1>5, <1>7, <2>1 DEF Bears
<1> QED BY <1>3, <1>4, <1>6, <1>8 DEF Keeps, want

\* A name that nobody wants, or that is gone, is dropped.
LEMMA DropsNone ==
  ASSUME LInv, NEW do, Doing(do), NEW tasks, NEW new, Heirs(tasks, new), new = {},
         \A t \in ToSet(tasks) : t.do \notin Shows,
         NEW dir, NEW first,
         \A n \in Want(dir, first) : Exists(dir \o n) /\ Bears(Head(todo), dir, n) =>
           \E t \in ToSet(tasks) : Bears(t, dir, n)
  PROVE  Keeps(tasks, new, dir, Want(dir, first))
<1>1. \A t \in ToSet(tasks) : t.do # "entry"
  BY DEF Heirs
<1>2. \A t \in ToSet(tasks) : Only(t, dir, Want(dir, first))
  BY <1>1 DEF Only
<1> QED BY <1>2 DEF Keeps

\* The names that a directory wants were in it.
LEMMA WantWas == ASSUME NEW dir \in Due, NEW first
                 PROVE  Want(dir, first) \subseteq Was(dir) \cup Dots
BY DEF Want, Asked, Args, Due, Dots

LEMMA WalkedPaths ==
  ASSUME out \in Seq(LineType) PROVE \A d \in Walked : d \in Path
<1>1. \A l \in Printed : l \in LineType
  BY DEF Printed, ToSet
<1> QED BY <1>1 DEF Walked, LineType

\* No tasks, one, or two.
LEMMA Nothing == <<>> \in Seq(Tasks) /\ ToSet(<<>>) = {} /\ DOMAIN <<>> = {}
<1>1. DOMAIN <<>> = {}
  OBVIOUS
<1>2. <<>> \in Seq(Tasks)
  OBVIOUS
<1> QED BY <1>1, <1>2 DEF ToSet

LEMMA Few ==
  ASSUME NEW t \in Tasks, NEW u \in Tasks
  PROVE  /\ <<t>> \in Seq(Tasks) /\ ToSet(<<t>>) = {t} /\ DOMAIN <<t>> = {1} /\ <<t>>[1] = t
         /\ <<t, u>> \in Seq(Tasks) /\ ToSet(<<t, u>>) = {t, u} /\ DOMAIN <<t, u>> = {1, 2}
         /\ <<t, u>>[1] = t /\ <<t, u>>[2] = u
BY DEF ToSet
\* The name is printed.
LEMMA PrintL ==
  ASSUME LInv, IInv', NEW do \in Shows, Doing(do), do = "show" => is_in_dir(Dir, Name),
         NEW suffix \in {"", "/", "->"}, PrintLine(suffix),
         gone = {} /\ opts.l /\ Dir = <<>> =>
           suffix = IF KindOf(Name) = "link" THEN "->"
                    ELSE IF opts.p /\ DirBit(Name) THEN "/" ELSE ""
  PROVE  LInv'
<1> DEFINE none == <<>>
           l == [dir |-> Dir, name |-> Name, suffix |-> suffix]
<1>1. /\ end = "running" /\ todo # <<>> /\ Dir \in Path /\ Name \in Path
      /\ Head(todo).do = do
  BY Held
<1>2. none \in Seq(Tasks) /\ ToSet(none) = {} /\ DOMAIN none = {}
  BY Nothing
<1>3. l \in LineType /\ l.dir = Dir /\ l.name = Name /\ l.suffix = suffix
  BY <1>1 DEF LineType
<1>4. out' = Append(out, l) /\ Then(none)
  BY DEF PrintLine
<1> HIDE DEF l, none
<1>5. Mark(l)
  BY <1>3 DEF Mark
<1>6. Goes(none, {l})
  BY <1>1, <1>2, <1>3, <1>4 DEF Goes
<1>7. Heirs(none, {l})
  BY <1>1, <1>2, <1>3, <1>5 DEF Heirs
<1>8. \A dir \in Due : \A first \in Was(dir) \cup Dots : DirInv(dir, first) =>
        Keeps(none, {l}, dir, Want(dir, first))
  BY <1>7, PassOn DEF Shows
<1> QED BY <1>6, <1>7, <1>8, HeirStep DEF Walkers, Shows

\* The name is dropped.
LEMMA DropL ==
  ASSUME LInv, IInv', NEW do, Doing(do), do # "recurse", Then(<<>>), UNCHANGED out,
         \A dir \in Due : \A n \in Was(dir) \cup Dots :
           Exists(dir \o n) => ~Bears(Head(todo), dir, n),
         Walks => \A dir \in Due : \A n \in Subs(dir) :
           Exists(dir \o n) /\ do \in Walkers => Key(Head(todo)) # dir \o n
  PROVE  LInv'
<1> DEFINE none == <<>>
<1>1. end = "running" /\ todo # <<>>
  BY Held
<1>2. none \in Seq(Tasks) /\ ToSet(none) = {} /\ DOMAIN none = {} /\ Then(none)
  BY Nothing
<1> HIDE DEF none
<1>3. Goes(none, {})
  BY <1>1, <1>2 DEF Goes
<1>4. Heirs(none, {})
  BY <1>2 DEF Heirs
<1>5. \A dir \in Due : \A first \in Was(dir) \cup Dots : Keeps(none, {}, dir, Want(dir, first))
  <2> SUFFICES ASSUME NEW dir \in Due, NEW first PROVE Keeps(none, {}, dir, Want(dir, first))
    OBVIOUS
  <2>1. \A n \in Want(dir, first) : Exists(dir \o n) => ~Bears(Head(todo), dir, n)
    BY WantWas
  <2> QED BY <1>2, <1>4, <2>1, DropsNone
<1> QED BY <1>3, <1>4, <1>5, HeirStep

\* It goes on to another task.
LEMMA OnL ==
  ASSUME LInv, IInv', NEW do, Doing(do), do # "recurse", NEW t \in Tasks, Then(<<t>>), UNCHANGED out,
         TaskL(t), t.do \notin {"arg", "display", "entry"},
         t.do \in Showers \cup {"heading"} => do \in Showers /\ t.dir = Dir /\ t.name = Name,
         t.do \in {"arg_here", "heading"} => do \in {"arg", "arg_here"},
         t.do \in Walkers => do \in Walkers /\ Key(t) = Key(Head(todo)),
         t.do = "can_recurse" => do = "entry" /\ t.dir = Dir,
         t.do = "recurse" => do = "can_recurse",
         \A dir \in Due : \A first \in Was(dir) \cup Dots : DirInv(dir, first) =>
           /\ Only(t, dir, Want(dir, first))
           /\ \A n \in Want(dir, first) : Exists(dir \o n) /\ Bears(Head(todo), dir, n) =>
                Bears(t, dir, n),
         Walks /\ do \in Walkers => t.do \in Walkers
  PROVE  LInv'
<1> DEFINE one == <<t>>
<1>1. end = "running" /\ todo # <<>> /\ Head(todo).do = do
  BY Held
<1>2. one \in Seq(Tasks) /\ ToSet(one) = {t} /\ DOMAIN one = {1} /\ one[1] = t /\ Then(one)
  BY Few
<1> HIDE DEF one
<1>3. Goes(one, {})
  BY <1>1, <1>2 DEF Goes
<1>4. Heirs(one, {})
  BY <1>1, <1>2 DEF Heirs
<1>5. \A dir \in Due : \A first \in Was(dir) \cup Dots : DirInv(dir, first) =>
        Keeps(one, {}, dir, Want(dir, first))
  BY <1>2 DEF Keeps
<1> QED BY <1>2, <1>3, <1>4, <1>5, HeirStep

\* It goes on being a name to show.
LEMMA OnShow ==
  ASSUME LInv, IInv', NEW do \in Shows, Doing(do), do = "show" => is_in_dir(Dir, Name),
         NEW t \in Tasks, Then(<<t>>), UNCHANGED out,
         TaskL(t), t.do \in Shows, t.dir = Dir, t.name = Name
  PROVE  LInv'
<1> DEFINE one == <<t>>
<1>1. end = "running" /\ todo # <<>> /\ Head(todo).do = do
  BY Held
<1>2. one \in Seq(Tasks) /\ ToSet(one) = {t} /\ DOMAIN one = {1} /\ one[1] = t /\ Then(one)
  BY Few
<1> HIDE DEF one
<1>3. Goes(one, {})
  BY <1>1, <1>2 DEF Goes
<1>4. Heirs(one, {})
  BY <1>1, <1>2 DEF Heirs, Shows, Showers, Walkers
<1>5. \A dir \in Due : \A first \in Was(dir) \cup Dots : DirInv(dir, first) =>
        Keeps(one, {}, dir, Want(dir, first))
  BY <1>2, <1>4, PassOn DEF Shows
<1> QED BY <1>3, <1>4, <1>5, HeirStep DEF Shows, Walkers

\* The program ends, or nothing happens.
LEMMA RestL ==
  ASSUME LInv, IInv', UNCHANGED <<fixed, gone, todo, out>>,
         end' = "opts" => end = "opts",
         end' = "success" => todo = <<>>,
         end' \in {"running", "success"} => end \in {"running", "success"}
  PROVE  LInv'
<1>1. /\ UNCHANGED fixed /\ UNCHANGED gone /\ todo' = todo /\ out' = out /\ gone' = gone
      /\ fs' = fs /\ opts' = opts /\ args' = args
  BY DEF fixed
<1>2. /\ (Walks' <=> Walks) /\ (Differ' <=> Differ) /\ Emptied' = Emptied
      /\ \A t : TaskL(t) => TaskL(t)'
      /\ \A t, dir, want : Only(t, dir, want) => Only(t, dir, want)'
      /\ \A dir : /\ (Fits(dir) <=> Fits(dir)') /\ Was(dir)' = Was(dir) /\ Subs(dir)' = Subs(dir)
                  /\ (Exists(dir) <=> Exists(dir)') /\ (DirNode(dir) <=> DirNode(dir)')
      /\ \A dir, first : Want(dir, first)' = Want(dir, first)
  BY <1>1, Unmoved
<1>3. Todo' = Todo /\ Printed' = Printed /\ Walked' = Walked /\ \A dir : Shown(dir)' = Shown(dir)
  BY <1>1 DEF Todo, Printed, Walked, Shown
<1>4. \A t \in Todo' : TaskL(t)'
  BY <1>2, <1>3 DEF LInv
<1>5. OnceInv'
  <2>1. \A t, u : Alike(t, u)' <=> Alike(t, u)
    BY <1>2 DEF Alike
  <2>2. \A t : Unopened(t, Printed)' <=> Unopened(t, Printed)
    BY <1>3 DEF Unopened
  <2>3. \A i, j \in DOMAIN todo' : Twice(todo[i], todo[j])' <=> Twice(todo[i], todo[j])
    BY <1>1, <1>2 DEF Twice, Alike
  <2>4. \A i, j \in DOMAIN out' : Alike(out[i], out[j])' <=> Alike(out[i], out[j])
    BY <1>1, <1>2 DEF Alike
  <2> QED BY <1>1, <1>2, <1>3, <2>1, <2>2, <2>3, <2>4 DEF LInv, OnceInv
<1>6. WalkInv'
  <2>1. \A i, j \in DOMAIN todo' : Rival(todo[i], todo[j])' <=> Rival(todo[i], todo[j])
    BY <1>1 DEF Rival, Key
  <2>2. \A t : Follows(t, Walked)' <=> Follows(t, Walked)
    BY <1>3 DEF Follows, Key
  <2> QED BY <1>1, <1>2, <1>3, <2>1, <2>2 DEF LInv, WalkInv
<1>7. RightMarks'
  BY <1>1 DEF LInv, RightMarks, KindOf, DirBit, Exists
<1>8. AllInv => AllInv'
  <2> SUFFICES ASSUME AllInv PROVE AllInv'
    OBVIOUS
  <2>1. RootInv'
    BY <1>2, <1>3 DEF AllInv, RootInv
  <2>2. \A dir, want : WantInv(dir, want) => WantInv(dir, want)'
    BY <1>2, <1>3 DEF WantInv, Bears
  <2>3. \A dir, first : HeadsInv(dir, first) => HeadsInv(dir, first)'
    BY <1>2, <1>3 DEF HeadsInv, Key
  <2>4. \A dir, first : DirInv(dir, first) => DirInv(dir, first)'
    <3> SUFFICES ASSUME NEW dir, NEW first, DirInv(dir, first) PROVE DirInv(dir, first)'
      OBVIOUS
    <3>1. PICK want : want = Want(dir, first)
      OBVIOUS
    <3>2. WantInv(dir, want)'
      BY <2>2, <3>1 DEF DirInv
    <3>3. Want(dir, first)' = want
      BY <1>2, <3>1
    <3>4. WantInv(dir, Want(dir, first))'
      BY <3>2, <3>3 DEF WantInv
    <3> QED BY <1>2, <2>3, <3>4 DEF DirInv
  <2>5. Due' = Due
    <3>1. \A K : Args(K)' = Args(K)
      BY <1>1, <1>2 DEF Args
    <3> QED BY <1>1, <1>2, <1>3, <3>1 DEF Due
  <2> QED BY <1>2, <2>1, <2>4, <2>5 DEF AllInv
<1> QED BY <1>1, <1>2, <1>4, <1>5, <1>6, <1>7, <1>8 DEF LInv

LEMMA StopL == ASSUME LInv, IInv', NEW how \in {"usage", "io_error", "crash"}, Stop(how) PROVE LInv'
BY RestL DEF Stop

\* A name not found in its directory is of no file that is still there.
LEMMA ShowL == ASSUME LInv, IInv', display_stats PROVE LInv'
<1>1. /\ Doing("show") /\ TypeInv /\ Emptied /\ Dir \in Path /\ Name \in Path
      /\ Head(todo).do = "show" /\ Head(todo).dir = Dir /\ Head(todo).name = Name
      /\ TaskL(Head(todo))
  <2>1. Doing("show")
    BY DEF display_stats
  <2> QED BY <2>1, Held
<1>2. DirNode(Dir) /\ Name # <<>> /\ (opts.d => Dir = <<>>)
  BY <1>1 DEF TaskL, Shows
<1>3. CASE ~is_in_dir(Dir, Name) /\ Skip
  <2>1. \A dir, n : Bears(Head(todo), dir, n) => dir = Dir /\ n = Name
    BY <1>1 DEF Bears
  <2>2. \A dir, n : n \in Was(dir) \cup Dots /\ Exists(dir \o n) => ~Bears(Head(todo), dir, n)
    BY <1>1, <1>2, <1>3, <2>1, StillThere
  <2> QED BY <1>1, <1>3, <2>2, DropL DEF Skip, Walkers
<1>4. CASE is_in_dir(Dir, Name) /\ ~opts.l /\ PrintLine("")
  BY <1>1, <1>4, PrintL DEF Shows
<1>5. CASE /\ is_in_dir(Dir, Name) /\ opts.l
           /\ Then(<<Task("stats", Dir, Name)>>) /\ UNCHANGED out
  <2> DEFINE t == Task("stats", Dir, Name)
  <2>1. t \in Tasks /\ t.do = "stats" /\ t.dir = Dir /\ t.name = Name /\ Then(<<t>>)
    BY <1>1, <1>5 DEF Task, Tasks
  <2> HIDE DEF t
  <2>2. TaskL(t)
    BY <1>2, <2>1 DEF TaskL, Shows
  <2> QED BY <1>1, <1>5, <2>1, <2>2, OnShow DEF Shows
<1> QED BY <1>3, <1>4, <1>5 DEF display_stats

\* With its stats looked up a name is still to be shown.
LEMMA PrintStatsL == ASSUME LInv, IInv', print_stats PROVE LInv'
<1>1. /\ Doing("stats") /\ Dir \in Path /\ Name \in Path /\ TaskL(Head(todo))
      /\ Head(todo).do = "stats" /\ Head(todo).dir = Dir /\ Head(todo).name = Name
  <2>1. Doing("stats")
    BY DEF print_stats
  <2> QED BY <2>1, Held
<1>2. CASE Stop("io_error") \/ Stop("crash")
  BY <1>2, StopL
<1>3. CASE Now("name")
  <2> DEFINE t == Task("name", Dir, Name)
  <2>1. /\ t \in Tasks /\ t.do = "name" /\ t.dir = Dir /\ t.name = Name
        /\ Then(<<t>>) /\ UNCHANGED out
    BY <1>1, <1>3 DEF Task, Tasks, Now
  <2> HIDE DEF t
  <2>2. TaskL(t)
    BY <1>1, <2>1 DEF TaskL, Shows
  <2> QED BY <1>1, <2>1, <2>2, OnShow DEF Shows
<1> QED BY <1>2, <1>3 DEF print_stats, get_stats, lstat

LEMMA LinkL == ASSUME LInv, IInv', print_name_or_link PROVE LInv'
<1> DEFINE path == global_dir \o Name
           link == LinkBit(path) /\ Exists(Name) /\ KindOf(Name) = "link"
<1>1. /\ Doing("name") /\ TypeInv /\ Dir \in Path /\ Name \in Path
      /\ Head(todo).do = "name" /\ Head(todo).dir = Dir /\ Head(todo).name = Name
      /\ TaskL(Head(todo)) /\ Node(Dir) /\ Under(Dir, Name) /\ global_dir = Dir
  <2>1. Doing("name")
    BY DEF print_name_or_link
  <2> QED BY <2>1, Held, AtHand DEF LInv, TaskOK
<1>2. DirNode(Dir) /\ Name # <<>> /\ (opts.d => Dir = <<>>)
  BY <1>1 DEF TaskL, Shows
<1>3. ASSUME Dir = <<>>, gone = {}
      PROVE  link <=> KindOf(Name) = "link"
  <2>1. path = Name
    BY <1>1, <1>3 DEF Path
  <2>2. Exists(path)
    BY <1>1, <1>3, Lookup
  <2> QED BY <2>1, <2>2 DEF LinkBit
<1>4. CASE link /\ PrintLine("->")
  BY <1>1, <1>3, <1>4, PrintL DEF Shows
<1>5. CASE ~link /\ ~opts.p /\ PrintLine("")
  BY <1>1, <1>3, <1>5, PrintL DEF Shows
<1>6. CASE ~link /\ opts.p /\ Now("slash")
  <2> DEFINE t == Task("slash", Dir, Name)
  <2>1. /\ t \in Tasks /\ t.do = "slash" /\ t.dir = Dir /\ t.name = Name
        /\ Then(<<t>>) /\ UNCHANGED out
    BY <1>1, <1>6 DEF Task, Tasks, Now
  <2> HIDE DEF t
  <2>2. TaskL(t)
    BY <1>2, <1>3, <1>6, <2>1 DEF TaskL, Shows
  <2> QED BY <1>1, <2>1, <2>2, OnShow DEF Shows
<1> HIDE DEF link
<1> QED BY <1>4, <1>5, <1>6 DEF print_name_or_link, link

\* The argument at hand, and what the working directory has of it.
LEMMA ArgName ==
  ASSUME LInv, NEW do \in {"arg", "arg_here", "heading"}, Doing(do)
  PROVE  /\ Looks /\ ~opts.d /\ ~opts.R /\ args # <<>> /\ Dir = <<>> /\ <<>> \o Name = Name
         /\ Name \in ToSet(args) /\ Name # <<>> /\ Name \notin Dots /\ <<>> \in Path
         /\ Exists(Name) <=> Name \in DOMAIN fs \ gone
         /\ Name \in Entries(<<>>) => Name \in Was(<<>>) /\ Name \in DOMAIN fs \ gone
         /\ Name \in Was(<<>>) => Name \in DOMAIN fs
<1>1. /\ TypeInv /\ Dir \in Path /\ Name \in Path /\ Head(todo).do = do /\ Head(todo).dir = Dir
      /\ TaskL(Head(todo)) /\ TaskOK(Head(todo)) /\ IInv
  BY Held DEF LInv
<1>2. Looks /\ ~opts.d /\ ~opts.R /\ Dir = <<>>
  BY <1>1 DEF TaskOK, TaskL, Looks
<1>3. Place(1) \in DOMAIN args /\ Name = args[Place(1)]
  BY <1>1, AtHand
<1>4. Name \in ToSet(args) /\ args # <<>> /\ Name # <<>> /\ <<Last(Name)>> \notin Dots
  <2>1. args[Place(1)] # <<>> /\ <<Last(args[Place(1)])>> \notin Dots
    BY <1>1, <1>3, Files1
  <2>2. args # <<>> /\ Name \in ToSet(args)
    BY <1>3 DEF ToSet
  <2> QED BY <1>3, <2>1, <2>2
<1>5. <<>> \o Name = Name /\ <<>> \in Path
  BY <1>1, EmptySeq DEF Path
<1>6. Name \notin Dots
  <2> SUFFICES ASSUME Name \in Dots PROVE FALSE
    OBVIOUS
  <2>1. Single(Name)
    BY DotsSingle
  <2>2. <<Last(<<>> \o Name)>> = Name
    BY <1>5, <2>1, InDir
  <2> QED BY <1>4, <1>5, <2>2
<1>7. Exists(Name) <=> Name \in DOMAIN fs \ gone
  BY <1>4 DEF Exists
<1>8. Name \in Entries(<<>>) => Name \in Was(<<>>) /\ Name \in DOMAIN fs \ gone
  BY <1>1, <1>5, <1>6, Found
<1>9. Name \in Was(<<>>) => Name \in DOMAIN fs
  BY <1>1, <1>5, InWas
<1> QED BY <1>2, <1>4, <1>5, <1>6, <1>7, <1>8, <1>9

LEMMA StatsL == ASSUME LInv, IInv', is_dir_stats PROVE LInv'
<1>1. CASE Doing("arg") /\ get_stats(global_dir \o Name, Now("arg_here"))
  <2> DEFINE t == Task("arg_here", Dir, Name)
  <2>1. /\ Dir \in Path /\ Name \in Path /\ Dir = <<>> /\ ~opts.d
        /\ Head(todo).do = "arg" /\ Head(todo).dir = Dir /\ Head(todo).name = Name
    BY <1>1, Held, ArgName
  <2>2. CASE Stop("io_error") \/ Stop("crash")
    BY <2>2, StopL
  <2>3. CASE Now("arg_here")
    <3>1. /\ t \in Tasks /\ t.do = "arg_here" /\ t.dir = Dir /\ t.name = Name
          /\ Then(<<t>>) /\ UNCHANGED out
      BY <2>1, <2>3 DEF Task, Tasks, Now
    <3> HIDE DEF t
    <3>2. TaskL(t)
      BY <2>1, <3>1 DEF TaskL, Shows
    <3>3. \A dir, want : Only(t, dir, want)
      BY <3>1 DEF Only, Shows
    <3>4. \A dir, n : Bears(Head(todo), dir, n) => Bears(t, dir, n)
      BY <2>1, <3>1 DEF Bears, Shows
    <3> QED BY <1>1, <3>1, <3>2, <3>3, <3>4, OnL DEF Showers, Walkers
  <2> QED BY <1>1, <2>2, <2>3 DEF get_stats, lstat
<1>2. CASE Doing("slash") /\ get_stats(global_dir \o Name, Now("slash_here"))
  <2> DEFINE t == Task("slash_here", Dir, Name)
  <2>1. /\ Dir \in Path /\ Name \in Path /\ TaskL(Head(todo))
        /\ Head(todo).do = "slash" /\ Head(todo).dir = Dir /\ Head(todo).name = Name
    BY <1>2, Held
  <2>2. CASE Stop("io_error") \/ Stop("crash")
    BY <2>2, StopL
  <2>3. CASE Now("slash_here")
    <3>1. /\ t \in Tasks /\ t.do = "slash_here" /\ t.dir = Dir /\ t.name = Name
          /\ Then(<<t>>) /\ UNCHANGED out
      BY <2>1, <2>3 DEF Task, Tasks, Now
    <3> HIDE DEF t
    <3>2. TaskL(t)
      BY <2>1, <3>1 DEF TaskL, Shows
    <3> QED BY <1>2, <3>1, <3>2, OnShow DEF Shows
  <2> QED BY <1>2, <2>2, <2>3 DEF get_stats, lstat
<1> QED BY <1>1, <1>2 DEF is_dir_stats

\* What is no directory is shown as a file: a directory that is wanted is one as long as
\* there is something in it.
LEMMA HereL == ASSUME LInv, IInv', is_dir_here PROVE LInv'
<1>1. CASE Doing("arg_here") /\ Now(IF DirBit(Name) THEN "heading" ELSE "show")
  <2>1. /\ TypeInv /\ Emptied /\ Dir \in Path /\ Name \in Path
        /\ Head(todo).do = "arg_here" /\ Head(todo).dir = Dir /\ Head(todo).name = Name
    BY <1>1, Held
  <2>2. /\ ~opts.d /\ ~opts.R /\ args # <<>> /\ Dir = <<>> /\ Name \in ToSet(args) /\ Name # <<>>
        /\ Exists(Name) <=> Name \in DOMAIN fs \ gone
        /\ Name \in Entries(<<>>) => Name \in Was(<<>>) /\ Name \in DOMAIN fs \ gone
        /\ Name \in Was(<<>>) => Name \in DOMAIN fs
    BY <1>1, ArgName
  <2>3. CASE DirBit(Name)
    <3> DEFINE t == Task("heading", Dir, Name)
    <3>1. /\ t \in Tasks /\ t.do = "heading" /\ t.dir = Dir /\ t.name = Name
          /\ Then(<<t>>) /\ UNCHANGED out
      BY <1>1, <2>1, <2>3 DEF Task, Tasks, Now
    <3> HIDE DEF t
    <3>2. TaskL(t)
      BY <2>1, <2>2, <3>1 DEF TaskL, Shows
    <3>3. \A dir, want : Only(t, dir, want)
      BY <3>1 DEF Only, Shows
    <3>4. \A dir, n : Bears(Head(todo), dir, n) => Bears(t, dir, n)
      BY <2>1, <3>1 DEF Bears, Shows
    <3> QED BY <1>1, <3>1, <3>2, <3>3, <3>4, OnL DEF Showers, Walkers
  <2>4. CASE ~DirBit(Name)
    <3> DEFINE t == Task("show", Dir, Name)
    <3>1. /\ t \in Tasks /\ t.do = "show" /\ t.dir = Dir /\ t.name = Name
          /\ Then(<<t>>) /\ UNCHANGED out
      BY <1>1, <2>1, <2>4 DEF Task, Tasks, Now
    <3> HIDE DEF t
    <3>2. TaskL(t)
      BY <2>1, <2>2, <3>1 DEF TaskL, Shows, DirNode
    <3>3. ASSUME NEW dir \in Due, NEW first PROVE Only(t, dir, Want(dir, first))
      <4> SUFFICES ASSUME dir = <<>>, Name \in Entries(<<>>) PROVE Name \in Args(Kinds \ {"dir"})
        BY <2>2, <3>1 DEF Only, Want
      <4>1. Name \in Was(<<>>) /\ Name \in DOMAIN fs /\ Exists(Name)
        BY <2>2
      <4>2. fs[Name] \in Kinds \ {"dir"}
        BY <2>1, <2>4, <4>1, Files1 DEF DirBit, KindOf
      <4> QED BY <2>2, <4>1, <4>2 DEF Args
    <3>4. ASSUME NEW dir \in Due, NEW first, NEW n \in Want(dir, first), Exists(dir \o n),
                 Bears(Head(todo), dir, n)
          PROVE  Bears(t, dir, n)
      <4>1. CASE dir = <<>> /\ n = Name
        BY <2>2, <3>1, <4>1 DEF Bears, Shows
      <4>2. CASE dir = Name
        <5>1. Name \in Args({"dir"})
          BY <2>2, <3>4, <4>2 DEF Due
        <5>2. DirNode(Name) /\ Name \in DOMAIN fs /\ fs[Name] = "dir"
          BY <2>2, <5>1 DEF Args, DirNode
        <5>3. n \in Was(Name) \cup Dots
          BY <3>4, <4>2, WantWas
        <5>4. is_in_dir(Name, n)
          BY <2>1, <3>4, <4>2, <5>2, <5>3, StillThere
        <5> QED BY <2>4, <5>4 DEF is_in_dir, Opens, DirBit
      <4> QED BY <2>1, <3>4, <4>1, <4>2 DEF Bears, Shows
    <3> QED BY <1>1, <3>1, <3>2, <3>3, <3>4, OnL DEF Showers, Walkers, Shows
  <2> QED BY <2>3, <2>4
<1>2. CASE Doing("slash_here") /\ PrintLine(IF DirBit(Name) THEN "/" ELSE "")
  <2>1. /\ TaskL(Head(todo)) /\ Head(todo).do = "slash_here"
        /\ Head(todo).dir = Dir /\ Head(todo).name = Name
    BY <1>2, Held
  <2>2. opts.p /\ (Dir = <<>> /\ gone = {} => KindOf(Name) # "link")
    BY <2>1 DEF TaskL
  <2> QED BY <1>2, <2>2, PrintL DEF Shows
<1> QED BY <1>1, <1>2 DEF is_dir_here

\* The order of what is shown is left to the comparison.
LEMMA SortL == ASSUME LInv, IInv', Sort PROVE LInv'
<1>1. Doing("sort") /\ Head(todo).do = "sort"
  BY DEF Sort, Doing
<1>2. CASE Stop("io_error") \/ Stop("crash")
  BY <1>2, StopL
<1>3. CASE Skip
  <2>1. \A dir, n : ~Bears(Head(todo), dir, n)
    BY <1>1 DEF Bears, Shows
  <2> QED BY <1>1, <1>3, <2>1, DropL DEF Skip, Walkers
<1> QED BY <1>2, <1>3 DEF Sort

\* A directory that is still there is found in the working directory.
LEMMA HeadingL == ASSUME LInv, IInv', Heading PROVE LInv'
<1> DEFINE t == Task("display", Name, <<>>)
           l == [dir |-> Name, name |-> <<>>, suffix |-> ":"]
           found == is_in_dir(<<>>, Name)
           tasks == IF found THEN <<t>> ELSE <<>>
           new == IF Len(args) >= 2 THEN {l} ELSE {}
<1>1. /\ Doing("heading") /\ TypeInv /\ Emptied /\ end = "running" /\ todo # <<>> /\ Name \in Path
      /\ Head(todo).do = "heading" /\ Head(todo).dir = Dir /\ Head(todo).name = Name
      /\ Then(tasks) /\ out' = (IF Len(args) >= 2 THEN Append(out, l) ELSE out)
  <2>1. Doing("heading")
    BY DEF Heading
  <2> QED BY <2>1, Held DEF Heading
<1>2. /\ Looks /\ ~opts.d /\ ~opts.R /\ args # <<>> /\ <<>> \o Name = Name /\ <<>> \in Path
      /\ Name \in ToSet(args) /\ Name # <<>>
      /\ Exists(Name) <=> Name \in DOMAIN fs \ gone
  BY <1>1, ArgName
<1>3. /\ Differ => /\ Unopened(Head(todo), Printed)
                   /\ \A r \in Rest : r.name # Name
      /\ \A r \in Rest : TaskL(r) /\ r.do = "arg"
  BY <1>1, Held DEF Argument
<1>4. l \in LineType /\ l.dir = Name /\ l.name = <<>> /\ Mark(l)
  BY <1>1, <1>2 DEF LineType, Mark
<1>5. t \in Tasks /\ t.do = "display" /\ t.dir = Name
  BY <1>1, <1>2 DEF Task, Tasks
<1>6. TaskL(t)
  BY <1>2, <1>5 DEF TaskL, Shows
<1> HIDE DEF l, t
<1>7. /\ tasks \in Seq(Tasks) /\ \A i, j \in DOMAIN tasks : i = j
      /\ \A x \in ToSet(tasks) : x = t
      /\ found => t \in ToSet(tasks)
  <2>1. <<t>> \in Seq(Tasks) /\ ToSet(<<t>>) = {t} /\ DOMAIN <<t>> = {1}
    BY <1>5, Few
  <2>2. <<>> \in Seq(Tasks) /\ ToSet(<<>>) = {} /\ DOMAIN <<>> = {}
    BY Nothing
  <2> QED BY <2>1, <2>2
<1>8. \A x \in new : x = l
  OBVIOUS
<1>9. Goes(tasks, new)
  <2>1. CASE Len(args) >= 2
    BY <1>1, <1>4, <1>7, <2>1 DEF Goes
  <2>2. CASE ~(Len(args) >= 2)
    BY <1>1, <1>7, <2>2 DEF Goes
  <2> QED BY <2>1, <2>2
<1> HIDE DEF tasks, new, found
<1>10. ASSUME Differ PROVE Once(tasks, new)
  <2>1. \A m \in Printed : m.dir # Name
    BY <1>1, <1>3, <1>10 DEF Unopened
  <2>2. Unopened(t, Printed \cup new)
    BY <1>4, <1>5, <1>8, <2>1 DEF Unopened
  <2>3. t.do \notin Showers
    BY <1>5 DEF Showers, Shows
  <2>4. \A r \in Rest : r.dir # Name
    BY <1>2, <1>3 DEF TaskL
  <2>5. \A r \in Rest : Unopened(r, new)
    BY <1>3, <1>4, <1>8, <1>10 DEF Unopened
  <2> QED BY <1>4, <1>7, <1>8, <2>1, <2>2, <2>3, <2>4, <2>5 DEF Once, Twice, Alike
<1>11. ASSUME NEW dir \in Due, NEW first PROVE Keeps(tasks, new, dir, Want(dir, first))
  <2>1. \A m \in new : m.name = <<>>
    BY <1>4, <1>8
  <2>2. \A x \in ToSet(tasks) : Only(x, dir, Want(dir, first))
    BY <1>5, <1>7 DEF Only, Shows
  <2>3. ASSUME NEW n \in Want(dir, first), Exists(dir \o n), Bears(Head(todo), dir, n)
        PROVE  found /\ Bears(t, dir, n)
    <3>1. dir = Name \/ (dir = <<>> /\ n = Name)
      BY <1>1, <2>3 DEF Bears, Shows
    <3>2. n \in Was(dir) \cup Dots
      BY <2>3, <1>11, WantWas
    <3>3. Bears(t, dir, n)
      BY <1>5, <3>1 DEF Bears
    <3>4. Name \in Was(<<>>) /\ Exists(Name)
      <4>1. CASE dir = Name
        <5>1. Name \in Was(<<>>) /\ Name \in DOMAIN fs /\ fs[Name] = "dir"
          <6>1. Name \in Args({"dir"})
            BY <1>2, <1>11, <4>1 DEF Due
          <6>2. Name \in Was(<<>>) /\ fs[Name] = "dir"
            BY <6>1 DEF Args
          <6> QED BY <1>1, <1>2, <6>2, InWas
        <5>2. is_in_dir(Name, n)
          BY <1>1, <2>3, <3>2, <4>1, <5>1, StillThere DEF DirNode
        <5> QED BY <5>1, <5>2 DEF is_in_dir, Opens
      <4>2. CASE dir = <<>> /\ n = Name
        <5>1. Name \in Args(Kinds \ {"dir"})
          BY <1>2, <2>3, <4>2 DEF Want
        <5> QED BY <1>2, <2>3, <4>2, <5>1 DEF Args
      <4> QED BY <3>1, <4>1, <4>2
    <3>5. is_in_dir(<<>>, Name)
      BY <1>1, <1>2, <3>4, StillThere DEF DirNode
    <3> QED BY <3>3, <3>5 DEF found
  <2> QED BY <1>7, <2>1, <2>2, <2>3 DEF Keeps
<1>12. ~Walks
  BY <1>2 DEF Walks
<1>13. Fit(tasks, new)
  BY <1>1, <1>4, <1>6, <1>7, <1>8, <1>10, <1>11, <1>12 DEF Fit
<1> QED BY <1>9, <1>12, <1>13, LStep

\* An entry that is shown, or hidden, goes on to be walked.
LEMMA EntryL == ASSUME LInv, IInv', Entry PROVE LInv'
<1> DEFINE show == Task("show", Dir, Name)
           next == Task("can_recurse", Dir, Name)
           l == [dir |-> Dir, name |-> Name, suffix |-> ""]
           both == <<show, next>>
           one == <<next>>
<1>1. /\ Doing("entry") /\ TypeInv /\ end = "running" /\ todo # <<>> /\ Dir \in Path /\ Name \in Path
      /\ Head(todo).do = "entry" /\ Head(todo).dir = Dir /\ Head(todo).name = Name
      /\ TaskL(Head(todo)) /\ TaskOK(Head(todo))
  <2>1. Doing("entry")
    BY DEF Entry
  <2> QED BY <2>1, Held
<1>2. Walks /\ ~opts.d /\ opts.R /\ DirNode(Dir) /\ Name # <<>> /\ Single(Name)
  BY <1>1 DEF TaskOK, TaskL, Walks
<1>3. /\ show \in Tasks /\ show.do = "show" /\ show.dir = Dir /\ show.name = Name
      /\ next \in Tasks /\ next.do = "can_recurse" /\ next.dir = Dir /\ next.name = Name
      /\ l \in LineType /\ l.dir = Dir /\ l.name = Name
  BY <1>1 DEF Task, Tasks, LineType
<1>4. \/ Visible(Name) /\ Then(both) /\ UNCHANGED out
      \/ Visible(Name) /\ ~opts.l /\ Then(one) /\ out' = Append(out, l)
      \/ ~Visible(Name) /\ Then(one) /\ UNCHANGED out
      \/ ~Exists(Dir \o Name) /\ Then(<<>>) /\ UNCHANGED out
  BY DEF Entry
<1> HIDE DEF show, next, l
<1>5. TaskL(show) /\ TaskL(next)
  BY <1>2, <1>3 DEF TaskL, Shows
<1>6. /\ both \in Seq(Tasks) /\ ToSet(both) = {show, next} /\ DOMAIN both = {1, 2}
      /\ both[1] = show /\ both[2] = next
      /\ one \in Seq(Tasks) /\ ToSet(one) = {next} /\ DOMAIN one = {1} /\ one[1] = next
  BY <1>3, Few
<1>7. Key(next) = Key(Head(todo))
  BY <1>1, <1>3 DEF Key
<1> HIDE DEF both, one
<1>8. Heirs(both, {}) /\ Heirs(one, {}) /\ (~opts.l => Heirs(one, {l}))
  <2>1. Heirs(both, {}) /\ Heirs(one, {})
    BY <1>1, <1>3, <1>5, <1>6, <1>7 DEF Heirs, Shows, Showers, Walkers
  <2>2. ~opts.l => Mark(l)
    BY DEF Mark
  <2>3. ~opts.l => Heirs(one, {l})
    BY <1>1, <1>3, <1>5, <1>6, <1>7, <2>2 DEF Heirs, Shows, Showers, Walkers
  <2> QED BY <2>1, <2>3
<1>9. CASE Visible(Name) /\ Then(both) /\ UNCHANGED out
  <2>1. Goes(both, {})
    BY <1>1, <1>6, <1>9 DEF Goes
  <2>2. \A dir \in Due : \A first \in Was(dir) \cup Dots : DirInv(dir, first) =>
          Keeps(both, {}, dir, Want(dir, first))
    BY <1>1, <1>3, <1>6, <1>8, <1>9, PassOn DEF Shows
  <2> QED BY <1>1, <1>3, <1>6, <1>8, <2>1, <2>2, HeirStep DEF Walkers
<1>10. CASE Visible(Name) /\ ~opts.l /\ Then(one) /\ out' = Append(out, l)
  <2>1. Goes(one, {l})
    BY <1>1, <1>3, <1>6, <1>10 DEF Goes
  <2>2. \A dir \in Due : \A first \in Was(dir) \cup Dots : DirInv(dir, first) =>
          Keeps(one, {l}, dir, Want(dir, first))
    BY <1>1, <1>8, <1>10, PassOn DEF Shows
  <2> QED BY <1>1, <1>3, <1>6, <1>8, <1>10, <2>1, <2>2, HeirStep DEF Walkers
<1>11. CASE ~Visible(Name) /\ Then(one) /\ UNCHANGED out
  <2>1. Goes(one, {})
    BY <1>1, <1>6, <1>11 DEF Goes
  <2>2. ASSUME NEW dir, NEW first PROVE Keeps(one, {}, dir, Want(dir, first))
    <3>1. \A n \in Want(dir, first) : ~Bears(Head(todo), dir, n)
      BY <1>1, <1>2, <1>11 DEF Want, Asked, Bears, Shows
    <3>2. \A t \in ToSet(one) : t.do \notin Shows
      BY <1>3, <1>6 DEF Shows
    <3> QED BY <1>1, <1>8, <3>1, <3>2, DropsNone
  <2> QED BY <1>1, <1>3, <1>6, <1>8, <2>1, <2>2, HeirStep DEF Walkers
<1>12. CASE ~Exists(Dir \o Name) /\ Then(<<>>) /\ UNCHANGED out
  <2>1. \A dir, n : Bears(Head(todo), dir, n) => dir = Dir /\ n = Name
    BY <1>1 DEF Bears
  <2>2. ASSUME NEW dir \in Due, NEW n \in Subs(dir), Exists(dir \o n) PROVE Key(Head(todo)) # dir \o n
    BY <1>1, <1>12, <2>2 DEF Key
  <2> QED BY <1>1, <1>12, <2>1, <2>2, DropL
<1> QED BY <1>4, <1>9, <1>10, <1>11, <1>12

\* What is a directory is walked; a dot is none, and nor is any other kind.
LEMMA CanRecurseL == ASSUME LInv, IInv', can_recurse_dir PROVE LInv'
<1> DEFINE path == Dir \o Name
           t == Task("recurse", path, <<>>)
<1>1. /\ Doing("can_recurse") /\ TypeInv /\ Dir \in Path /\ Name \in Path
      /\ Head(todo).do = "can_recurse" /\ Head(todo).dir = Dir /\ Head(todo).name = Name
      /\ TaskL(Head(todo)) /\ TaskOK(Head(todo)) /\ out \in Seq(LineType)
  <2>1. Doing("can_recurse")
    BY DEF can_recurse_dir
  <2> QED BY <2>1, Held
<1>2. Walks /\ ~opts.d /\ Due = Walked /\ Single(Name)
  BY <1>1 DEF TaskOK, TaskL, Walks, Due
<1>3. \A dir, n : ~Bears(Head(todo), dir, n)
  BY <1>1 DEF Bears, Shows
<1>4. Key(Head(todo)) = path /\ path \in Path
  BY <1>1, <1>2, InDir DEF Key
<1>5. \A dir \in Due : \A n \in Subs(dir) : dir \o n \in DOMAIN fs /\ fs[dir \o n] = "dir"
  <2>1. \A dir \in Due : dir \in Path
    BY <1>1, <1>2, WalkedPaths
  <2> QED BY <1>1, <2>1, InWas DEF Subs
<1> HIDE DEF path
<1>6. CASE Name \in Dots /\ Skip
  <2>1. path \notin DOMAIN fs
    BY <1>1, <1>6, NoDot DEF path
  <2> QED BY <1>1, <1>3, <1>4, <1>5, <1>6, <2>1, DropL DEF Skip
<1>7. CASE Stop("io_error") \/ Stop("crash")
  BY <1>7, StopL
<1>8. CASE KindOf(path) \in {"dir", "locked"} /\ Then(<<t>>) /\ UNCHANGED out
  <2>1. t \in Tasks /\ t.do = "recurse" /\ t.dir = path /\ Then(<<t>>)
    BY <1>4, <1>8, EmptySeq DEF Task, Tasks, Path
  <2> HIDE DEF t
  <2>2. TaskL(t)
    BY <1>2, <2>1 DEF TaskL, Shows
  <2>3. Key(t) = Key(Head(todo)) /\ \A dir, want : Only(t, dir, want)
    BY <1>4, <2>1 DEF Key, Only, Shows
  <2> QED BY <1>1, <1>3, <1>8, <2>1, <2>2, <2>3, OnL DEF Walkers, Showers, Shows
<1>9. CASE KindOf(path) \notin {"dir", "locked"} /\ Then(<<>>) /\ UNCHANGED out
  <2>1. ~(path \in DOMAIN fs /\ fs[path] = "dir")
    BY <1>9 DEF KindOf
  <2> QED BY <1>1, <1>3, <1>4, <1>5, <1>9, <2>1, DropL
<1> QED BY <1>6, <1>7, <1>8, <1>9 DEF can_recurse_dir, lstat, path

\* One more task before some others.
LEMMA Before ==
  ASSUME NEW t \in Tasks, NEW tasks \in Seq(Tasks)
  PROVE  LET both == <<t>> \o tasks
         IN /\ both \in Seq(Tasks) /\ ToSet(both) = {t} \cup ToSet(tasks)
            /\ \A i \in DOMAIN both :
                 \/ i = 1 /\ both[i] = t
                 \/ \E k \in DOMAIN tasks : i = k + 1 /\ both[i] = tasks[k]
<1> DEFINE one == <<t>>
           both == one \o tasks
           n == Len(tasks)
<1>1. one \in Seq(Tasks) /\ Len(one) = 1 /\ one[1] = t /\ n \in Nat /\ DOMAIN tasks = 1 .. n
  OBVIOUS
<1> HIDE DEF one, both
<1>2. /\ both \in Seq(Tasks) /\ Len(both) = Len(one) + Len(tasks)
      /\ \A i \in 1 .. Len(one) + Len(tasks) :
           both[i] = IF i <= Len(one) THEN one[i] ELSE tasks[i - Len(one)]
  BY <1>1, ConcatProperties, Zenon DEF both
<1>3. DOMAIN both = 1 .. 1 + n /\ \A i \in 1 .. 1 + n : both[i] = IF i <= 1 THEN one[i] ELSE tasks[i - 1]
  BY <1>1, <1>2
<1>4. both[1] = t /\ 1 \in DOMAIN both
  BY <1>1, <1>3
<1>5. ASSUME NEW k \in 1 .. n PROVE both[k + 1] = tasks[k] /\ k + 1 \in DOMAIN both
  <2>1. k + 1 \in 1 .. 1 + n /\ ~(k + 1 <= 1) /\ (k + 1) - 1 = k
    BY <1>1
  <2> QED BY <1>3, <2>1
<1>6. \A i \in DOMAIN both : i = 1 \/ (i - 1 \in 1 .. n /\ i = (i - 1) + 1)
  BY <1>1, <1>3
<1>7. \A i \in DOMAIN both :
        \/ i = 1 /\ both[i] = t
        \/ \E k \in DOMAIN tasks : i = k + 1 /\ both[i] = tasks[k]
  BY <1>1, <1>4, <1>5, <1>6
<1>8. ToSet(both) = {t} \cup ToSet(tasks)
  BY <1>1, <1>4, <1>5, <1>7 DEF ToSet
<1> QED BY <1>2, <1>7, <1>8 DEF both, one

\* A directory that fits into the buffer is shown entry by entry, and nothing of it was shown
\* before.
LEMMA DisplayL == ASSUME LInv, IInv', display_dir PROVE LInv'
<1>1. /\ Doing("display") /\ TypeInv /\ Emptied /\ end = "running" /\ todo # <<>> /\ Dir \in Path
      /\ Head(todo).do = "display" /\ Head(todo).dir = Dir
      /\ TaskL(Head(todo)) /\ TaskOK(Head(todo))
      /\ Differ => Unopened(Head(todo), Printed)
      /\ \A r \in Rest : TaskL(r) /\ r.do = "arg" /\ (Differ => args # <<>>)
  <2>1. Doing("display")
    BY DEF display_dir
  <2> QED BY <2>1, Held DEF Argument
<1>2. Looks /\ ~Walks /\ ~opts.d /\ ~opts.R /\ (Dir = <<>> <=> args = <<>>) /\ Node(Dir)
  BY <1>1 DEF TaskOK, TaskL, Looks, Walks
<1>3. CASE Stop("crash")
  BY <1>3, StopL
<1>4. CASE Opens(Dir) /\ UNCHANGED out
  <2>1. PICK order \in Orders(Dir) :
          LET names == dir_arr(order)
              shows == [k \in DOMAIN names |-> Task("show", Dir, names[k])]
          IN Then(IF opts.order = "stats" /\ Len(names) >= 2
                  THEN <<Task("sort", Dir, <<>>)>> \o shows ELSE shows)
    BY <1>4, <1>1 DEF display_dir
  <2> DEFINE names == dir_arr(order)
             shows == [k \in DOMAIN names |-> Task("show", Dir, names[k])]
             sort == Task("sort", Dir, <<>>)
             both == <<sort>> \o shows
  <2>2. PICK n \in Nat : names \in [1 .. n -> Entries(Dir)]
    BY <1>1, OrderEntries
  <2>3. \A name \in Entries(Dir) : /\ name \in Path /\ name # <<>> /\ name \in Was(Dir) \cup Dots
                                   /\ Single(name)
    BY <1>1, Found
  <2>4. /\ shows \in Seq(Tasks) /\ DOMAIN shows = 1 .. n
        /\ \A k \in 1 .. n : /\ shows[k].do = "show" /\ shows[k].dir = Dir
                             /\ shows[k].name = names[k]
    <3>1. names \in [1 .. n -> Path]
      BY <2>2, <2>3
    <3>2. shows = [k \in 1 .. n |-> Task("show", Dir, names[k])]
      BY <3>1
    <3> HIDE DEF names
    <3>3. \A k \in 1 .. n : /\ Task("show", Dir, names[k]) \in Tasks
                            /\ Task("show", Dir, names[k]).do = "show"
                            /\ Task("show", Dir, names[k]).dir = Dir
                            /\ Task("show", Dir, names[k]).name = names[k]
      BY <1>1, <3>1 DEF Task, Tasks
    <3> HIDE DEF shows
    <3>4. shows \in [1 .. n -> Tasks]
      BY <3>2, <3>3
    <3> QED BY <3>2, <3>3, <3>4
  <2>5. ASSUME Fits(Dir)
        PROVE  /\ \A i, j \in 1 .. n : names[i] = names[j] => i = j
               /\ \A k \in 1 .. n : Visible(names[k])
               /\ \A s \in Entries(Dir) : Visible(s) => \E k \in 1 .. n : names[k] = s
    <3>1. Lists(names, {name \in Entries(Dir) : Visible(name)})
      BY <1>1, <2>5, DisplayLists
    <3> HIDE DEF names
    <3> QED BY <2>2, <3>1 DEF Lists
  <2>6. sort \in Tasks /\ sort.do = "sort"
    <3>1. <<>> \in Path
      BY EmptySeq DEF Path
    <3> QED BY <1>1, <3>1 DEF Task, Tasks
  <2> HIDE DEF names, sort
  <2>7. PICK tasks : Then(tasks) /\ (tasks = shows \/ tasks = both)
    BY <2>1 DEF names, sort
  <2> HIDE DEF shows
  <2>8. /\ tasks \in Seq(Tasks)
        /\ \A t \in ToSet(tasks) : t = sort \/ \E k \in 1 .. n : t = shows[k]
        /\ \A k \in 1 .. n : shows[k] \in ToSet(tasks)
        /\ \A i, j \in DOMAIN tasks : i # j =>
             \/ tasks[i] = sort \/ tasks[j] = sort
             \/ \E k, l \in 1 .. n : k # l /\ tasks[i] = shows[k] /\ tasks[j] = shows[l]
    <3>1. CASE tasks = shows
      BY <2>4, <3>1 DEF ToSet
    <3>2. CASE tasks = both
      <4>1. /\ both \in Seq(Tasks) /\ ToSet(both) = {sort} \cup ToSet(shows)
            /\ \A i \in DOMAIN both :
                 \/ i = 1 /\ both[i] = sort
                 \/ \E k \in DOMAIN shows : i = k + 1 /\ both[i] = shows[k]
        BY <2>4, <2>6, Before
      <4> HIDE DEF both
      <4>2. ToSet(shows) = {shows[k] : k \in 1 .. n}
        BY <2>4 DEF ToSet
      <4>3. \A i, j \in DOMAIN both : i # j =>
              \/ both[i] = sort \/ both[j] = sort
              \/ \E k, l \in 1 .. n : k # l /\ both[i] = shows[k] /\ both[j] = shows[l]
        BY <2>4, <4>1
      <4> QED BY <3>2, <4>1, <4>2, <4>3
    <3> QED BY <2>7, <3>1, <3>2
  <2>9. Goes(tasks, {})
    BY <1>1, <1>4, <2>7, <2>8 DEF Goes
  <2>10. DirNode(Dir)
    BY <1>2, <1>4 DEF Opens, KindOf, Node, DirNode
  <2>11. \A k \in 1 .. n : names[k] \in Entries(Dir) /\ names[k] # <<>>
    BY <2>2, <2>3
  <2>12. \A t \in ToSet(tasks) : TaskL(t)
    <3>1. TaskL(sort)
      BY <1>2, <2>6 DEF TaskL, Shows
    <3>2. \A k \in 1 .. n : TaskL(shows[k])
      BY <1>2, <2>4, <2>10, <2>11 DEF TaskL, Shows
    <3> QED BY <2>8, <3>1, <3>2
  <2>13. ASSUME Differ PROVE Once(tasks, {})
    <3>1. sort.do \notin Showers
      BY <2>6 DEF Showers, Shows
    <3>2. \A k, l \in 1 .. n : Twice(shows[k], shows[l]) => k = l
      BY <2>4, <2>5 DEF Twice, Alike
    <3>3. \A i, j \in DOMAIN tasks : Twice(tasks[i], tasks[j]) => i = j
      <4> SUFFICES ASSUME NEW i \in DOMAIN tasks, NEW j \in DOMAIN tasks, i # j
                   PROVE  ~Twice(tasks[i], tasks[j])
        OBVIOUS
      <4> QED BY <2>8, <3>1, <3>2 DEF Twice
    <3>4. \A k \in 1 .. n : \A r \in Rest : ~Alike(shows[k], r)
      BY <1>1, <1>2, <2>4, <2>13 DEF Alike, TaskL
    <3>5. \A k \in 1 .. n : \A l \in Printed : ~Alike(shows[k], l)
      BY <1>1, <2>4, <2>11, <2>13 DEF Alike, Unopened
    <3>6. \A t \in ToSet(tasks) : Unopened(t, Printed \cup {})
      BY <2>4, <2>6, <2>8 DEF Unopened
    <3>7. \A r \in Rest : Unopened(r, {})
      BY DEF Unopened
    <3>8. \A t \in ToSet(tasks) : /\ \A r \in Rest : ~Twice(t, r)
                                  /\ t.do \in Showers => \A l \in Printed \cup {} : ~Alike(t, l)
      BY <2>8, <3>1, <3>4, <3>5 DEF Twice
    <3> QED BY <3>3, <3>6, <3>7, <3>8 DEF Once
  <2>14. ASSUME NEW dir \in Due, NEW first PROVE Keeps(tasks, {}, dir, Want(dir, first))
    <3>1. ASSUME dir = Dir PROVE Fits(Dir) /\ Want(dir, first) = Asked(Dir)
      BY <1>2, <2>14, <3>1 DEF Due, Want
    <3>2. ASSUME NEW k \in 1 .. n PROVE Only(shows[k], dir, Want(dir, first))
      <4> SUFFICES ASSUME dir = Dir PROVE names[k] \in Asked(Dir)
        BY <2>4, <3>1 DEF Only
      <4> QED BY <2>3, <2>5, <2>11, <3>1 DEF Asked
    <3>3. Only(sort, dir, Want(dir, first))
      BY <2>6 DEF Only, Shows
    <3>4. ASSUME NEW s \in Want(dir, first), Exists(dir \o s), Bears(Head(todo), dir, s)
          PROVE  \E t \in ToSet(tasks) : Bears(t, dir, s)
      <4>1. s \in Was(dir) \cup Dots
        BY <2>14, <3>4, WantWas
      <4>2. CASE dir = Dir
        <5>1. is_in_dir(Dir, s)
          BY <1>1, <2>10, <3>4, <4>1, <4>2, StillThere
        <5>2. s \in Entries(Dir) /\ Visible(s)
          BY <3>1, <3>4, <4>2, <5>1 DEF is_in_dir, Asked
        <5>3. PICK k \in 1 .. n : names[k] = s
          BY <2>5, <3>1, <4>2, <5>2
        <5> QED BY <2>4, <2>8, <4>2, <5>3 DEF Bears, Shows
      <4>3. CASE dir = <<>> /\ s = Dir /\ Dir # <<>>
        <5>1. s \in Args(Kinds \ {"dir"})
          BY <1>2, <3>4, <4>3 DEF Want
        <5>2. s \in DOMAIN fs /\ fs[s] # "dir"
          BY <1>2, <4>3, <5>1 DEF Args, Node
        <5> QED BY <1>4, <4>3, <5>2 DEF Opens, KindOf
      <4> QED BY <1>1, <3>4, <4>2, <4>3 DEF Bears, Shows
    <3> QED BY <2>8, <3>2, <3>3, <3>4 DEF Keeps
  <2>15. Fit(tasks, {})
    BY <1>1, <1>2, <2>12, <2>13, <2>14 DEF Fit
  <2> QED BY <1>2, <2>9, <2>15, LStep
<1> QED BY <1>3, <1>4 DEF display_dir

\* A directory is walked for the first time, and so is what is in it.
LEMMA RecurseL == ASSUME LInv, IInv', recurse_dirs PROVE LInv'
<1> DEFINE l == [dir |-> Dir, name |-> <<>>, suffix |-> ":"]
<1>1. /\ Doing("recurse") /\ TypeInv /\ Emptied /\ end = "running" /\ todo # <<>> /\ Dir \in Path
      /\ Head(todo).do = "recurse" /\ Head(todo).dir = Dir /\ Head(todo) \in Todo
      /\ TaskOK(Head(todo)) /\ out \in Seq(LineType)
  <2>1. Doing("recurse")
    BY DEF recurse_dirs
  <2> QED BY <2>1, Held
<1>2. Walks /\ ~opts.d /\ opts.R /\ Node(Dir) /\ Key(Head(todo)) = Dir
  BY <1>1 DEF TaskOK, Walks, Key
<1>3. /\ Dir \notin Walked /\ (Dir = <<>> \/ Front(Dir) \in Walked)
      /\ \A r \in Rest : /\ ~Rival(Head(todo), r) /\ Follows(r, Walked) /\ TaskL(r)
                         /\ r \in Tasks /\ r.do \in {"show", "arg", "entry", "can_recurse"}
                         /\ r.do # "arg"
      /\ \A d \in Walked : DirNode(d) /\ (d = <<>> \/ Front(d) \in Walked)
  <2>1. Differ
    BY <1>2 DEF Differ
  <2>2. Follows(Head(todo), Walked)
    BY <1>1, <1>2, Held
  <2>3. Dir \notin Walked /\ (Dir = <<>> \/ Front(Dir) \in Walked)
    BY <1>1, <1>2, <2>2 DEF Follows, Walkers
  <2>4. \A d \in Walked : DirNode(d) /\ (d = <<>> \/ Front(d) \in Walked)
    BY <1>2 DEF LInv, WalkInv
  <2> QED BY <1>1, <1>2, <2>1, <2>3, <2>4, Held
<1>4. CASE Stop("crash")
  BY <1>4, StopL
<1>5. CASE Opens(Dir) /\ out' = Append(out, l)
  <2>1. PICK order \in Orders(Dir) :
          LET names == Looped(order)
          IN Then([k \in DOMAIN names |-> Task("entry", Dir, names[k])])
    BY <1>1, <1>5 DEF recurse_dirs
  <2> DEFINE names == Looped(order)
             tasks == [k \in DOMAIN names |-> Task("entry", Dir, names[k])]
             new == {l}
  <2>2. PICK first \in Entries(Dir) : Lists(names, Entries(Dir) \ {first})
    BY <1>1, LoopedLists
  <2> HIDE DEF names
  <2>3. PICK n \in Nat : /\ names \in [1 .. n -> Entries(Dir) \ {first}] /\ DOMAIN names = 1 .. n
                         /\ \A i, j \in 1 .. n : names[i] = names[j] => i = j
                         /\ \A s \in Entries(Dir) \ {first} : \E k \in 1 .. n : names[k] = s
    BY <2>2 DEF Lists
  <2>4. \A name \in Entries(Dir) : /\ name \in Path /\ name # <<>> /\ name \in Was(Dir) \cup Dots
                                   /\ Single(name)
    BY <1>1, Found
  <2>5. /\ tasks \in Seq(Tasks) /\ DOMAIN tasks = 1 .. n
        /\ \A k \in 1 .. n : /\ tasks[k].do = "entry" /\ tasks[k].dir = Dir
                             /\ tasks[k].name = names[k]
    <3>1. tasks = [k \in 1 .. n |-> Task("entry", Dir, names[k])]
      BY <2>3
    <3>2. \A k \in 1 .. n : names[k] \in Path
      BY <2>3, <2>4
    <3>3. \A k \in 1 .. n : /\ Task("entry", Dir, names[k]) \in Tasks
                            /\ Task("entry", Dir, names[k]).do = "entry"
                            /\ Task("entry", Dir, names[k]).dir = Dir
                            /\ Task("entry", Dir, names[k]).name = names[k]
      BY <1>1, <3>2 DEF Task, Tasks
    <3> HIDE DEF tasks
    <3>4. tasks \in [1 .. n -> Tasks]
      BY <3>1, <3>3
    <3> QED BY <3>1, <3>3, <3>4
  <2>6. Then(tasks)
    BY <2>1 DEF names
  <2> HIDE DEF tasks
  <2>7. l \in LineType /\ l.dir = Dir /\ l.name = <<>> /\ Mark(l)
    BY <1>1, EmptySeq DEF LineType, Mark, Path
  <2> HIDE DEF l
  <2>8. Goes(tasks, new)
    BY <1>1, <1>5, <2>5, <2>6, <2>7 DEF Goes
  <2>9. /\ ToSet(tasks) = {tasks[k] : k \in 1 .. n}
        /\ \A t \in ToSet(tasks) : /\ t.do = "entry" /\ t.dir = Dir /\ Key(t) = Dir \o t.name
                                   /\ t.name \in Entries(Dir) \ {first} /\ Single(t.name)
                                   /\ t.name # <<>>
        /\ \A s \in Entries(Dir) \ {first} : \E t \in ToSet(tasks) : t.name = s
    <3>1. ToSet(tasks) = {tasks[k] : k \in 1 .. n}
      BY <2>5 DEF ToSet
    <3>2. \A k \in 1 .. n : names[k] \in Entries(Dir) \ {first}
      BY <2>3
    <3>3. \A k \in 1 .. n : /\ tasks[k].do = "entry" /\ tasks[k].dir = Dir
                             /\ tasks[k].name = names[k] /\ Key(tasks[k]) = Dir \o tasks[k].name
                             /\ tasks[k].name \in Entries(Dir) \ {first}
                             /\ Single(tasks[k].name) /\ tasks[k].name # <<>>
      BY <2>4, <2>5, <3>2 DEF Key
    <3>4. ASSUME NEW t \in ToSet(tasks)
          PROVE  /\ t.do = "entry" /\ t.dir = Dir /\ Key(t) = Dir \o t.name
                 /\ t.name \in Entries(Dir) \ {first} /\ Single(t.name) /\ t.name # <<>>
      <4>1. PICK k \in 1 .. n : t = tasks[k]
        BY <3>1
      <4> QED BY <3>3, <4>1
    <3>5. ASSUME NEW s \in Entries(Dir) \ {first} PROVE \E t \in ToSet(tasks) : t.name = s
      <4>1. PICK k \in 1 .. n : names[k] = s
        BY <2>3
      <4> QED BY <3>1, <3>3, <2>5, <4>1
    <3> QED BY <3>1, <3>4, <3>5
  <2>10. DirNode(Dir)
    BY <1>2, <1>5 DEF Opens, KindOf, Node, DirNode
  <2>11. \A t \in ToSet(tasks) : TaskL(t)
    BY <1>2, <2>9, <2>10 DEF TaskL, Shows
  <2>12. \A r \in Rest : /\ r.do \in Showers => r.dir # Dir
                         /\ r.do \in Walkers => /\ Key(r) # Dir /\ r.dir # Dir /\ r.dir \in Path
                                                /\ Single(r.name) /\ Key(r) = r.dir \o r.name
    <3> SUFFICES ASSUME NEW r \in Rest
                 PROVE  /\ r.do \in Showers => r.dir # Dir
                        /\ r.do \in Walkers => /\ Key(r) # Dir /\ r.dir # Dir /\ r.dir \in Path
                                               /\ Single(r.name) /\ Key(r) = r.dir \o r.name
      OBVIOUS
    <3>1. r.do \in {"show", "entry", "can_recurse"} /\ r.dir \in Walked /\ r.dir \in Path
      BY <1>3 DEF Follows, Shows, Tasks
    <3>2. r.dir # Dir
      BY <1>3, <3>1
    <3>3. r.do \in Walkers => Key(r) # Dir
      BY <1>1, <1>2, <1>3 DEF Rival, Walkers
    <3> QED BY <1>3, <3>1, <3>2, <3>3 DEF TaskL, Walkers, Key
  \* Nothing in the directory was walked before, or is what an older task will walk.
  <2>13. ASSUME NEW s, Single(s)
         PROVE  /\ Dir \o s \notin Walked /\ Dir \o s # Dir
                /\ \A r \in Rest : r.do \in Walkers => Key(r) # Dir \o s
                /\ \A t \in ToSet(tasks) : Key(t) = Dir \o s => t.name = s
    <3>1. Front(Dir \o s) = Dir /\ Dir \o s # <<>>
      BY <1>1, <2>13, InDir
    <3>2. Dir \o s \notin Walked /\ Dir \o s # Dir
      BY <1>3, <3>1
    <3>3. \A r \in Rest : r.do \in Walkers => Key(r) # Dir \o s
      BY <1>1, <2>12, <2>13, KeyInj
    <3>4. ASSUME NEW t \in ToSet(tasks), Key(t) = Dir \o s PROVE t.name = s
      <4>1. Dir \o t.name = Dir \o s /\ Single(t.name)
        BY <2>9, <3>4
      <4> QED BY <1>1, <2>13, <4>1, KeyInj
    <3> QED BY <3>2, <3>3, <3>4
  <2>14. Once(tasks, new)
    <3>1. \A i, j \in DOMAIN tasks : Twice(tasks[i], tasks[j]) => i = j
      BY <2>3, <2>5 DEF Twice, Alike
    <3>2. \A m \in Printed : m.dir # Dir
      BY <1>3 DEF Walked
    <3>3. \A t \in ToSet(tasks) : /\ \A r \in Rest : ~Twice(t, r)
                                  /\ \A m \in Printed \cup new : ~Alike(t, m)
                                  /\ Unopened(t, Printed \cup new)
      BY <2>7, <2>9, <2>12, <3>2 DEF Twice, Alike, Unopened
    <3>4. \A r \in Rest : Unopened(r, new) /\ (r.do \in Showers => ~Alike(r, l))
      BY <1>3, <2>7, <2>12 DEF Alike, Unopened
    <3>5. \A m \in Printed : ~Alike(m, l)
      BY <2>7, <3>2 DEF Alike
    <3> QED BY <3>1, <3>3, <3>4, <3>5 DEF Once
  <2>15. Onward(tasks, new)
    <3>1. ASSUME NEW i \in DOMAIN tasks, NEW j \in DOMAIN tasks, Key(tasks[i]) = Key(tasks[j])
          PROVE  i = j
      <4>1. tasks[i] \in ToSet(tasks) /\ tasks[j] \in ToSet(tasks)
        BY DEF ToSet
      <4>2. PICK s : s = tasks[j].name
        OBVIOUS
      <4>3. Single(s) /\ Key(tasks[i]) = Dir \o s
        BY <2>9, <3>1, <4>1, <4>2
      <4>4. tasks[i].name = tasks[j].name
        BY <2>13, <4>1, <4>2, <4>3
      <4> QED BY <2>3, <2>5, <4>4
    <3>2. Walked \cup {m.dir : m \in new} = Walked \cup {Dir}
      BY <2>7
    <3>3. ASSUME NEW t \in ToSet(tasks)
          PROVE  Follows(t, Walked \cup {Dir}) /\ \A r \in Rest : ~Rival(t, r)
      <4>1. PICK s : s = t.name
        OBVIOUS
      <4>2. Single(s) /\ Key(t) = Dir \o s /\ t.do = "entry" /\ t.dir = Dir
        BY <2>9, <4>1
      <4>3. Key(t) \notin Walked /\ Key(t) # Dir /\ \A r \in Rest : r.do \in Walkers => Key(r) # Key(t)
        BY <2>13, <4>2
      <4> QED BY <4>2, <4>3 DEF Follows, Rival
    <3>4. \A m \in new : /\ \A r \in Rest : r.do \in Walkers => Key(r) # m.dir
                         /\ DirNode(m.dir) /\ (m.dir = <<>> \/ Front(m.dir) \in Walked)
      BY <1>3, <2>7, <2>10, <2>12
    <3> QED BY <3>1, <3>2, <3>3, <3>4 DEF Onward, Rival
  <2>16. ASSUME NEW dir \in Due, NEW other \in Was(dir) \cup Dots, DirInv(dir, other)
         PROVE  Keeps(tasks, new, dir, Want(dir, other)) /\ Heeds(tasks, new, dir, other)
    <3>1. dir \in Walked /\ dir # Dir /\ dir \in Path
      BY <1>1, <1>2, <1>3, <2>16, WalkedPaths DEF Due
    <3>2. Single(other)
      BY <1>1, <3>1, InWas, DotsSingle
    <3>3. Keeps(tasks, new, dir, Want(dir, other))
      <4>1. \A t \in ToSet(tasks) : Only(t, dir, Want(dir, other))
        BY <2>9, <3>1 DEF Only
      <4>2. \A s : ~Bears(Head(todo), dir, s)
        BY <1>1 DEF Bears, Shows
      <4> QED BY <2>7, <4>1, <4>2 DEF Keeps
    <3>4. HeadsInv(dir, other)
      BY <1>2, <2>16 DEF DirInv
    <3>5. Dir # dir \o other
      BY <1>1, <1>2, <3>4 DEF HeadsInv, Walkers
    <3>6. ASSUME NEW t \in ToSet(tasks), Key(t) = dir \o other PROVE FALSE
      <4>1. Dir \o t.name = dir \o other /\ Single(t.name)
        BY <2>9, <3>6
      <4>2. Dir = dir
        BY <1>1, <3>1, <3>2, <4>1, KeyInj
      <4> QED BY <3>1, <4>2
    <3> QED BY <1>1, <1>2, <2>7, <3>3, <3>5, <3>6 DEF Heeds
  <2>17. Fit(tasks, new)
    <3>1. /\ Walks /\ Head(todo).do = "recurse" /\ Head(todo).dir = <<>> => \E m \in new : m.dir = <<>>
          /\ \A m \in new : Mark(m)
      BY <1>1, <2>7
    <3> HIDE DEF new
    <3> QED BY <2>11, <2>14, <2>15, <2>16, <3>1 DEF Fit
  <2>a. PICK want : want = Asked(Dir) \ {first}
    OBVIOUS
  <2>18. /\ UNCHANGED fixed /\ UNCHANGED gone
         /\ Todo' = ToSet(tasks) \cup Rest /\ Printed' = Printed \cup new
    BY <1>1, <2>8, Sets
  <2>19. /\ \A t, d, w : Only(t, d, w) => Only(t, d, w)'
         /\ \A d : Was(d)' = Was(d) /\ Subs(d)' = Subs(d) /\ (Exists(d) <=> Exists(d)')
         /\ \A d, f : Want(d, f)' = Want(d, f)
    BY <2>18, Unmoved
  <2>20. ASSUME NEW s \in Was(Dir) \cup Dots, s # first, Exists(Dir \o s)
         PROVE  \E t \in ToSet(tasks) : t.do = "entry" /\ t.dir = Dir /\ t.name = s /\ Key(t) = Dir \o s
    <3>1. is_in_dir(Dir, s)
      BY <1>1, <2>10, <2>20, StillThere
    <3> QED BY <2>9, <2>20, <3>1 DEF is_in_dir
  <2>21. ASSUME NEW d, d = Dir PROVE WantInv(d, want)'
    <3>1. Shown(d)' = {}
      <4>1. \A m \in Printed' : m.dir = Dir => m.name = <<>>
        BY <1>3, <2>7, <2>18 DEF Walked
      <4> QED BY <2>21, <4>1 DEF Shown, Printed
    <3>2. \A t \in Todo' : Only(t, d, want)
      <4>1. \A t \in ToSet(tasks) : Only(t, d, want)
        BY <2>4, <2>9, <2>21, <2>a DEF Only, Asked
      <4>2. \A r \in Rest : Only(r, d, want)
        BY <2>12, <2>21 DEF Only, Showers
      <4> QED BY <2>18, <4>1, <4>2
    <3>3. ASSUME NEW s \in want, Exists(d \o s) PROVE \E t \in Todo' : Bears(t, d, s)
      <4>1. s \in Was(Dir) \cup Dots /\ s # first
        BY <3>3, <2>a DEF Asked
      <4>2. PICK t \in ToSet(tasks) : t.do = "entry" /\ t.dir = Dir /\ t.name = s
        BY <2>20, <2>21, <3>3, <4>1
      <4> QED BY <2>18, <2>21, <4>2 DEF Bears
    <3>4. \A t \in Todo' : Only(t, d, want)'
      BY <2>19, <3>2
    <3>5. \A s \in want : Exists(d \o s)' => \E t \in Todo' : Bears(t, d, s)
      BY <2>19, <3>3
    <3> QED BY <3>1, <3>4, <3>5 DEF WantInv, Bears
  <2>22. ASSUME NEW d, d = Dir PROVE HeadsInv(d, first)'
    <3>1. Single(first)
      BY <2>4
    <3>2. \A t \in Todo' : t.do \in Walkers => Key(t) # d \o first
      BY <2>9, <2>13, <2>18, <2>22, <3>1
    <3>3. d \o first \notin Walked'
      <4>1. Walked' = Walked \cup {Dir}
        BY <2>7, <2>18 DEF Walked
      <4> QED BY <2>13, <2>22, <3>1, <4>1
    <3>4. ASSUME NEW s \in Subs(d) \ {first}, Exists(d \o s)
          PROVE  \E t \in Todo' : t.do \in Walkers /\ Key(t) = d \o s
      <4>1. PICK t \in ToSet(tasks) : t.do = "entry" /\ Key(t) = Dir \o s
        BY <2>20, <2>22, <3>4 DEF Subs
      <4> QED BY <2>18, <2>22, <4>1 DEF Walkers
    <3> QED BY <2>19, <3>2, <3>3, <3>4 DEF HeadsInv, Key, Walkers
  <2>23. ASSUME NEW d, d = Dir PROVE first \in Was(d) \cup Dots /\ DirInv(d, first)'
    <3>1. first \in Was(d) \cup Dots
      BY <2>4, <2>23
    <3>2. Want(d, first)' = want
      BY <1>2, <2>19, <2>23, <2>a DEF Want
    <3>3. WantInv(d, Want(d, first))'
      BY <2>21, <2>23, <3>2 DEF WantInv
    <3> QED BY <2>22, <2>23, <3>1, <3>3 DEF DirInv
  <2>24. \A dir \in {m.dir : m \in new} \ Walked : \E f \in Was(dir) \cup Dots : DirInv(dir, f)'
    BY <2>7, <2>23
  <2> QED BY <2>8, <2>17, <2>24, LStep
<1> QED BY <1>4, <1>5 DEF recurse_dirs

\* What scan_dirs starts with is everything that is asked for.
LEMMA Scanned ==
  ASSUME LInv, scan_dirs
  PROVE  /\ TypeInv /\ Emptied /\ UNCHANGED fixed /\ UNCHANGED gone /\ out' = <<>>
         /\ end' = "running" /\ Printed' = {} /\ Walked' = {} /\ DOMAIN out' = {}
         /\ \A d : Shown(d)' = {}
<1>1. /\ out = <<>> /\ UNCHANGED fixed /\ UNCHANGED gone /\ UNCHANGED out /\ end' = "running"
      /\ TypeInv /\ Emptied
  BY DEF LInv, IInv, scan_dirs
<1>2. out' = <<>> /\ DOMAIN out' = {} /\ ToSet(out') = {}
  BY <1>1, Nothing
<1> QED BY <1>1, <1>2 DEF Printed, Walked, Shown

LEMMA Begins ==
  ASSUME LInv, IInv', scan_dirs,
         \A t \in Todo' : TaskL(t),
         ~Walks /\ Differ =>
           \A i, j \in DOMAIN todo' : todo'[i].name = todo'[j].name => i = j,
         Walks => DOMAIN todo' = {1} /\ todo'[1].do = "recurse" /\ todo'[1].dir = <<>>,
         ~Walks => \A d \in Due : \A f \in Was(d) \cup Dots :
           /\ \A t \in Todo' : Only(t, d, Want(d, f))
           /\ \A n \in Want(d, f) : \E t \in Todo' : Bears(t, d, n)
  PROVE  LInv'
<1>1. /\ TypeInv /\ Emptied /\ UNCHANGED fixed /\ UNCHANGED gone /\ out' = <<>>
      /\ end' = "running" /\ Printed' = {} /\ Walked' = {} /\ DOMAIN out' = {}
      /\ \A d : Shown(d)' = {}
  BY Scanned
<1>2. /\ fs' = fs /\ opts' = opts /\ args' = args
      /\ (Walks' <=> Walks) /\ (Differ' <=> Differ) /\ Emptied' = Emptied
      /\ \A t : TaskL(t) => TaskL(t)'
      /\ \A t, dir, want : Only(t, dir, want) => Only(t, dir, want)'
      /\ \A dir : /\ (Fits(dir) <=> Fits(dir)') /\ Was(dir)' = Was(dir) /\ Subs(dir)' = Subs(dir)
                  /\ (Exists(dir) <=> Exists(dir)') /\ (DirNode(dir) <=> DirNode(dir)')
      /\ \A dir, first : Want(dir, first)' = Want(dir, first)
  BY <1>1, Unmoved
<1>3. OnceInv'
  <2>1. \A t \in Todo' : Unopened(t, Printed)'
    BY <1>1 DEF Unopened
  <2>2. Differ /\ ~Walks => \A i, j \in DOMAIN todo' : Twice(todo[i], todo[j])' => i = j
    BY DEF Twice, Alike
  <2>3. Walks => \A i, j \in DOMAIN todo' : Twice(todo[i], todo[j])' => i = j
    OBVIOUS
  <2> QED BY <1>1, <1>2, <2>1, <2>2, <2>3 DEF OnceInv
<1>4. WalkInv' /\ RootInv'
  <2>1. Walks => \A t \in Todo' : t.do = "recurse" /\ t.dir = <<>>
    BY DEF Todo, ToSet
  <2>2. Walks => \E t \in Todo' : t.do = "recurse" /\ t.dir = <<>>
    BY DEF Todo, ToSet
  <2>3. Walks => \A i, j \in DOMAIN todo' : i = j
    OBVIOUS
  <2>4. Walks => \A t \in Todo' : Follows(t, Walked)'
    BY <1>1, <2>1 DEF Follows, Walkers, Shows
  <2> QED BY <1>1, <1>2, <2>2, <2>3, <2>4 DEF WalkInv, RootInv
<1>5. AllInv'
  <2>1. \A K : Args(K)' = Args(K)
    BY <1>2 DEF Args
  <2>2. IF Walks THEN Due' = {} ELSE Due' = Due
    BY <1>1, <1>2, <2>1 DEF Due, Walks
  <2>3. CASE Walks
    BY <1>4, <2>2, <2>3 DEF AllInv
  <2>4. CASE ~Walks
    <3>1. ASSUME NEW d \in Due PROVE <<".">> \in Was(d)' \cup Dots /\ DirInv(d, <<".">>)'
      <4>1. PICK want : want = Want(d, <<".">>)
        OBVIOUS
      <4>2. <<".">> \in Dots
        BY DEF Dots
      <4>3. \A t \in Todo' : Only(t, d, want)'
        BY <1>2, <2>4, <4>1, <4>2
      <4>4. \A n \in want : \E t \in Todo' : Bears(t, d, n)'
        BY <2>4, <4>1, <4>2 DEF Bears
      <4>5. WantInv(d, want)'
        BY <1>1, <4>3, <4>4 DEF WantInv
      <4>6. Want(d, <<".">>)' = want
        BY <1>2, <4>1
      <4>7. WantInv(d, Want(d, <<".">>))'
        BY <4>5, <4>6 DEF WantInv
      <4> QED BY <1>2, <2>4, <4>2, <4>7 DEF DirInv
    <3> QED BY <1>4, <2>2, <2>4, <3>1 DEF AllInv
  <2> QED BY <2>3, <2>4
<1>6. \A t \in Todo' : TaskL(t)'
  BY <1>2
<1>7. RightMarks' /\ out' \in Seq(LineType)
  <2>1. out' \in Seq(LineType) /\ ToSet(out') = {}
    BY <1>1 DEF Printed
  <2> QED BY <2>1 DEF RightMarks
<1> QED BY <1>1, <1>2, <1>3, <1>4, <1>5, <1>6, <1>7 DEF LInv

\* An argument is a path that does not end in a dot.
LEMMA ArgPath ==
  ASSUME TypeInv, NEW i \in DOMAIN args
  PROVE  /\ args[i] \in Path /\ args[i] # <<>> /\ args[i] \in ToSet(args)
         /\ args[i] \in Entries(<<>>) => args[i] \in Args(Kinds)
<1>1. args[i] \in Path /\ args[i] # <<>> /\ <<Last(args[i])>> \notin Dots /\ args[i] \in ToSet(args)
  BY Files1 DEF ToSet
<1>2. <<>> \o args[i] = args[i] /\ <<>> \in Path
  BY <1>1, EmptySeq DEF Path
<1>3. args[i] \notin Dots
  <2> SUFFICES ASSUME args[i] \in Dots PROVE FALSE
    OBVIOUS
  <2>1. Single(args[i])
    BY DotsSingle
  <2>2. <<Last(<<>> \o args[i])>> = args[i]
    BY <1>2, <2>1, InDir
  <2> QED BY <1>1, <1>2, <2>2
<1>4. ASSUME args[i] \in Entries(<<>>) PROVE args[i] \in Args(Kinds)
  <2>1. args[i] \in Was(<<>>) /\ args[i] \in DOMAIN fs
    BY <1>2, <1>3, <1>4, Found
  <2> QED BY <1>1, <2>1, Files1 DEF Args
<1> QED BY <1>1, <1>4

LEMMA ScanL == ASSUME LInv, IInv', scan_dirs PROVE LInv'
<1>1. /\ TypeInv /\ Emptied /\ UNCHANGED fixed /\ UNCHANGED gone /\ out' = <<>>
      /\ end' = "running" /\ Printed' = {} /\ Walked' = {} /\ DOMAIN out' = {}
  BY Scanned
<1>2. <<>> \in Path /\ <<".">> \in Path /\ DirNode(<<>>) /\ <<".">> # <<>>
  BY EmptySeq, DotsArePaths DEF Path, Dots, DirNode
\* One task.
<1>3. ASSUME NEW t \in Tasks, todo' = <<t>>
      PROVE  Todo' = {t} /\ DOMAIN todo' = {1} /\ todo'[1] = t
  BY <1>3, Few DEF Todo
\* One task for each argument.
<1>4. ASSUME NEW do \in {"show", "arg"}, do = "show" => opts.d, do = "arg" => ~opts.d /\ ~opts.R,
             todo' = [i \in DOMAIN args |-> Task(do, <<>>, args[i])],
             \A d \in Due : \A f \in Was(d) \cup Dots :
               /\ do = "show" => d = <<>> /\ Want(d, f) = Args(Kinds)
               /\ \A n \in Want(d, f) : (n \in ToSet(args) /\ d = <<>>) \/ (d \in ToSet(args) /\ do = "arg")
      PROVE  LInv'
  <2>1. \A i \in DOMAIN args : /\ Task(do, <<>>, args[i]).do = do
                               /\ Task(do, <<>>, args[i]).dir = <<>>
                               /\ Task(do, <<>>, args[i]).name = args[i]
    BY DEF Task
  <2>2. DOMAIN todo' = DOMAIN args /\ \A i \in DOMAIN args : todo'[i] = Task(do, <<>>, args[i])
    BY <1>4
  <2>3. /\ \A t \in Todo' : t.do = do /\ t.dir = <<>> /\ \E i \in DOMAIN args : t.name = args[i]
        /\ \A n \in ToSet(args) : \E t \in Todo' : t.name = n
    BY <2>1, <2>2 DEF Todo, ToSet
  <2>4. ~Walks
    BY <1>4 DEF Walks
  <2>5. Differ => \A i, j \in DOMAIN todo' : todo'[i].name = todo'[j].name => i = j
    BY <2>1, <2>2, <2>4 DEF Differ
  <2>6. \A t \in Todo' : TaskL(t)
    <3> SUFFICES ASSUME NEW t \in Todo' PROVE TaskL(t)
      OBVIOUS
    <3>1. t.name # <<>>
      BY <1>1, <2>3, ArgPath
    <3> QED BY <1>2, <1>4, <2>3, <3>1 DEF TaskL, Shows
  <2>7. ASSUME NEW d \in Due, NEW f \in Was(d) \cup Dots
        PROVE  /\ \A t \in Todo' : Only(t, d, Want(d, f))
               /\ \A n \in Want(d, f) : \E t \in Todo' : Bears(t, d, n)
    <3>1. ASSUME NEW t \in Todo' PROVE Only(t, d, Want(d, f))
      <4>1. do = "arg" => Only(t, d, Want(d, f))
        BY <2>3 DEF Only, Shows
      <4>2. do = "show" => Only(t, d, Want(d, f))
        <5>1. do = "show" => d = <<>> /\ Want(d, f) = Args(Kinds)
          BY <1>4
        <5>2. t.name \in Entries(<<>>) => t.name \in Args(Kinds)
          BY <1>1, <2>3, ArgPath
        <5> QED BY <2>3, <5>1, <5>2 DEF Only
      <4> QED BY <4>1, <4>2
    <3>2. ASSUME NEW n \in Want(d, f) PROVE \E t \in Todo' : Bears(t, d, n)
      <4>1. (n \in ToSet(args) /\ d = <<>>) \/ (d \in ToSet(args) /\ do = "arg")
        BY <1>4
      <4>2. CASE n \in ToSet(args) /\ d = <<>>
        BY <2>3, <4>2 DEF Bears, Shows
      <4>3. CASE d \in ToSet(args) /\ do = "arg"
        BY <2>3, <4>3 DEF Bears
      <4> QED BY <4>1, <4>2, <4>3
    <3> QED BY <3>1, <3>2
  <2> QED BY <2>4, <2>5, <2>6, <2>7, Begins
<1>5. CASE opts.d
  <2>1. CASE args = <<>>
    <3>1. PICK t \in Tasks : t = Task("show", <<>>, <<".">>)
      BY <1>2 DEF Task, Tasks
    <3>2. todo' = <<t>> /\ t.do = "show" /\ t.dir = <<>> /\ t.name = <<".">>
      BY <1>5, <2>1, <3>1 DEF scan_dirs, Task
    <3>3. Todo' = {t} /\ DOMAIN todo' = {1} /\ todo'[1] = t
      BY <1>3, <3>2
    <3>4. ~Walks /\ Due = {<<>>} /\ \A d, f : Want(d, f) = {<<".">>}
      BY <1>5, <2>1 DEF Walks, Due, Want
    <3>5. TaskL(t)
      BY <1>2, <3>2 DEF TaskL, Shows
    <3>6. /\ \A d \in Due : \A f : Only(t, d, Want(d, f))
          /\ \A d \in Due : \A f : \A n \in Want(d, f) : Bears(t, d, n)
      BY <3>2, <3>4 DEF Only, Bears, Shows
    <3> QED BY <3>3, <3>4, <3>5, <3>6, Begins
  <2>2. CASE args # <<>>
    <3>1. todo' = [i \in DOMAIN args |-> Task("show", <<>>, args[i])]
      BY <1>5, <2>2 DEF scan_dirs
    <3>2. Due = {<<>>} /\ \A d, f : Want(d, f) = Args(Kinds)
      BY <1>5, <2>2 DEF Due, Want
    <3>3. Args(Kinds) \subseteq ToSet(args)
      BY DEF Args
    <3> QED BY <1>4, <1>5, <3>1, <3>2, <3>3
  <2> QED BY <2>1, <2>2
<1>6. CASE ~opts.d /\ opts.R
  <2>1. PICK t \in Tasks : t = Task("recurse", <<>>, <<>>)
    BY <1>2 DEF Task, Tasks
  <2>2. todo' = <<t>> /\ t.do = "recurse" /\ t.dir = <<>>
    BY <1>6, <2>1 DEF scan_dirs, Task
  <2>3. Todo' = {t} /\ DOMAIN todo' = {1} /\ todo'[1] = t
    BY <1>3, <2>2
  <2>4. TaskL(t)
    BY <1>6, <2>2 DEF TaskL, Shows
  <2>5. Walks
    BY <1>6 DEF Walks
  <2> QED BY <2>2, <2>3, <2>4, <2>5, Begins
<1>7. CASE ~opts.d /\ ~opts.R
  <2>1. CASE args = <<>>
    <3>1. PICK t \in Tasks : t = Task("display", <<>>, <<>>)
      BY <1>2 DEF Task, Tasks
    <3>2. todo' = <<t>> /\ t.do = "display" /\ t.dir = <<>>
      BY <1>7, <2>1, <3>1 DEF scan_dirs, Task
    <3>3. Todo' = {t} /\ DOMAIN todo' = {1} /\ todo'[1] = t
      BY <1>3, <3>2
    <3>4. ~Walks /\ \A d \in Due : d = <<>>
      BY <1>7, <2>1 DEF Walks, Due
    <3>5. TaskL(t)
      BY <1>7, <2>1, <3>2 DEF TaskL, Shows
    <3>6. /\ \A d, w : Only(t, d, w)
          /\ \A d \in Due : \A n : Bears(t, d, n)
      BY <3>2, <3>4 DEF Only, Bears, Shows
    <3> QED BY <3>3, <3>4, <3>5, <3>6, Begins
  <2>2. CASE args # <<>>
    <3>1. todo' = [i \in DOMAIN args |-> Task("arg", <<>>, args[i])]
      BY <1>7, <2>2 DEF scan_dirs
    <3>2. \A d \in Due : d = <<>> \/ d \in ToSet(args)
      BY <1>7, <2>2 DEF Due, Args
    <3>3. \A f : Want(<<>>, f) \subseteq ToSet(args)
      BY <1>7, <2>2 DEF Want, Args
    <3> QED BY <1>4, <1>7, <3>1, <3>2, <3>3
  <2> QED BY <2>1, <2>2
<1> QED BY <1>5, <1>6, <1>7

\* A file removed in between is wanted no longer.
LEMMA RemovalL == ASSUME LInv, IInv', Removal PROVE LInv'
<1>1. /\ UNCHANGED fixed /\ todo' = todo /\ out' = out /\ end' = end /\ end = "running"
      /\ fs' = fs /\ opts' = opts /\ args' = args /\ TypeInv /\ Emptied
  BY DEF Removal, fixed, LInv, IInv
<1>2. PICK p \in DOMAIN fs \ gone : Files(p) = {} /\ gone' = gone \cup {p}
  BY DEF Removal
<1>3. gone \subseteq gone' /\ gone' # {} /\ gone' \subseteq DOMAIN fs
  BY <1>1, <1>2 DEF Emptied
<1>4. \A dir : /\ Was(dir)' = Was(dir) /\ Subs(dir)' = Subs(dir) /\ Files(dir)' \subseteq Files(dir)
               /\ Entries(dir)' \subseteq Entries(dir) /\ (Exists(dir)' => Exists(dir))
  BY <1>1, <1>3 DEF Was, Subs, Files, Entries, Exists
<1>5. \A name : (Visible(name) <=> Visible(name)') /\ KindOf(name)' = KindOf(name)
  BY <1>1 DEF Visible, KindOf
<1>6. \A dir : (Fits(dir) <=> Fits(dir)') /\ (DirNode(dir) <=> DirNode(dir)')
  BY <1>1, <1>4 DEF Fits, DirNode
<1>7. (Walks' <=> Walks) /\ (Differ' <=> Differ)
  BY <1>1 DEF Differ, Walks
<1>8. \A dir, first : Want(dir, first)' = Want(dir, first)
  <2>1. \A dir : Asked(dir)' = Asked(dir)
    BY <1>4, <1>5 DEF Asked
  <2>2. \A K : Args(K)' = Args(K)
    BY <1>1 DEF Args, Was
  <2> QED BY <1>1, <2>1, <2>2 DEF Want
<1>9. Emptied'
  <2>1. \A q \in gone' : Files(q)' = {}
    BY <1>1, <1>2, <1>4 DEF Emptied
  <2> QED BY <1>1, <1>3, <2>1 DEF Emptied
<1>10. Todo' = Todo /\ Printed' = Printed /\ Walked' = Walked /\ \A dir : Shown(dir)' = Shown(dir)
  BY <1>1 DEF Todo, Printed, Walked, Shown
<1>11. \A t \in Todo' : TaskL(t)'
  <2>1. \A t : TaskL(t) => TaskL(t)'
    BY <1>1, <1>3, <1>6 DEF TaskL
  <2> QED BY <1>10, <2>1 DEF LInv
<1>12. OnceInv'
  <2>1. \A t, u : Alike(t, u)' <=> Alike(t, u)
    BY <1>6 DEF Alike
  <2>2. \A t : Unopened(t, Printed)' <=> Unopened(t, Printed)
    BY <1>10 DEF Unopened
  <2>3. \A i, j \in DOMAIN todo' : Twice(todo[i], todo[j])' <=> Twice(todo[i], todo[j])
    BY <1>1, <1>6 DEF Twice, Alike
  <2>4. \A i, j \in DOMAIN out' : Alike(out[i], out[j])' <=> Alike(out[i], out[j])
    BY <1>1, <1>6 DEF Alike
  <2> QED BY <1>1, <1>7, <1>10, <2>1, <2>2, <2>3, <2>4 DEF LInv, OnceInv
<1>13. WalkInv'
  <2>1. \A i, j \in DOMAIN todo' : Rival(todo[i], todo[j])' <=> Rival(todo[i], todo[j])
    BY <1>1 DEF Rival, Key
  <2>2. \A t : Follows(t, Walked)' <=> Follows(t, Walked)
    BY <1>10 DEF Follows, Key
  <2> QED BY <1>1, <1>6, <1>7, <1>10, <2>1, <2>2 DEF LInv, WalkInv
<1>14. RightMarks'
  BY <1>3 DEF RightMarks
<1>15. AllInv'
  <2>1. AllInv
    BY <1>1 DEF LInv
  <2>2. RootInv'
    BY <1>7, <1>10, <2>1 DEF AllInv, RootInv
  <2>3. \A t, dir, want : Only(t, dir, want) => Only(t, dir, want)'
    BY <1>4, <1>5 DEF Only
  <2>4. \A dir, want : WantInv(dir, want) => WantInv(dir, want)'
    BY <1>4, <1>10, <2>3 DEF WantInv, Bears
  <2>5. \A dir, first : HeadsInv(dir, first) => HeadsInv(dir, first)'
    BY <1>4, <1>10 DEF HeadsInv, Key
  <2>6. \A dir, first : DirInv(dir, first) => DirInv(dir, first)'
    <3> SUFFICES ASSUME NEW dir, NEW first, DirInv(dir, first) PROVE DirInv(dir, first)'
      OBVIOUS
    <3>1. PICK want : want = Want(dir, first)
      OBVIOUS
    <3>2. WantInv(dir, want)'
      BY <2>4, <3>1 DEF DirInv
    <3>3. Want(dir, first)' = want
      BY <1>8, <3>1
    <3>4. WantInv(dir, Want(dir, first))'
      BY <3>2, <3>3 DEF WantInv
    <3> QED BY <1>7, <2>5, <3>4 DEF DirInv
  <2>7. Due' = Due
    <3>1. \A K : Args(K)' = Args(K)
      BY <1>1, <1>4 DEF Args
    <3> QED BY <1>1, <1>6, <1>10, <3>1 DEF Due
  <2> QED BY <1>4, <2>1, <2>2, <2>6, <2>7 DEF AllInv
<1> QED BY <1>1, <1>9, <1>11, <1>12, <1>13, <1>14, <1>15 DEF LInv

LEMMA DoneL == ASSUME LInv, IInv', Done PROVE LInv'
BY RestL DEF Done, Stop

LEMMA StutterL == ASSUME LInv, IInv', UNCHANGED vars PROVE LInv'
<1>1. UNCHANGED <<fixed, gone, todo, out>> /\ end' = end
  BY DEF vars
<1>2. end = "success" => todo = <<>>
  BY DEF LInv
<1> QED BY <1>1, <1>2, RestL

LEMMA LInit == Init => LInv
<1> SUFFICES ASSUME Init PROVE LInv
  OBVIOUS
<1>1. IInv /\ TypeInv
  BY InitOK DEF IInv
<1>2. out = <<>> /\ todo = <<>> /\ gone = {} /\ end = "opts"
  BY DEF Init
<1>3. Todo = {} /\ Printed = {} /\ ToSet(out) = {} /\ DOMAIN out = {} /\ DOMAIN todo = {}
  BY <1>2, Nothing DEF Todo, Printed
<1>4. Emptied /\ out \in Seq(LineType)
  BY <1>2 DEF Emptied
<1> QED BY <1>1, <1>2, <1>3, <1>4 DEF LInv, OnceInv, WalkInv, RightMarks, Walked

\* No step of ls, and no removal in between, leaves the invariant.
LEMMA LNext == LInv /\ [Next]_vars => LInv'
<1> SUFFICES ASSUME LInv, [Next]_vars PROVE LInv'
  OBVIOUS
<1>1. IInv'
  BY NextOK DEF LInv
<1>2. get_opts => LInv'
  BY <1>1, StopL DEF get_opts
<1> QED BY <1>1, <1>2, ScanL, StatsL, HereL, HeadingL, DisplayL, SortL, ShowL, PrintStatsL,
           LinkL, RecurseL, EntryL, CanRecurseL, DoneL, RemovalL, StutterL DEF Next

\* Once nothing is left to do, what is wanted was shown.
LEMMA LImplies == ASSUME LInv PROVE Listed
<1> SUFFICES ASSUME end = "success" PROVE ShownOnce /\ AllShown /\ RightMarks
  BY DEF Listed
<1>1. Todo = {} /\ AllInv /\ TypeInv
  <2>1. todo = <<>>
    BY DEF LInv
  <2> QED BY <2>1, Nothing DEF Todo, LInv, IInv
<1>2. ASSUME NEW dir, NEW want, WantInv(dir, want) PROVE Right(Shown(dir), dir, want)
  BY <1>1, <1>2 DEF WantInv, Right
<1>3. ASSUME NEW dir, NEW first, HeadsInv(dir, first)
      PROVE  Right(Heads(dir), dir, Subs(dir) \ {first})
  <2>1. Heads(dir) = {name \in Subs(dir) : dir \o name \in Walked}
    BY DEF Heads, Walked, Printed
  <2>2. /\ dir \o first \notin Walked
        /\ \A n \in Subs(dir) \ {first} : Exists(dir \o n) => dir \o n \in Walked
    BY <1>1, <1>3 DEF HeadsInv
  <2> QED BY <2>1, <2>2 DEF Right
<1>4. ASSUME NEW dir \in Due
      PROVE  \E first \in Was(dir) \cup Dots :
               /\ Right(Shown(dir), dir, Want(dir, first))
               /\ Walks => Right(Heads(dir), dir, Subs(dir) \ {first})
  <2>1. PICK first \in Was(dir) \cup Dots : DirInv(dir, first)
    BY <1>1 DEF AllInv
  <2> QED BY <1>2, <1>3, <2>1 DEF DirInv
<1>5. ShownOnce
  BY DEF ShownOnce, LInv, OnceInv, Differ, Alike, Walks
<1>6. RightMarks
  BY DEF LInv
<1>7. AllShown
  <2>1. CASE opts.d
    <3>1. \A f : Want(<<>>, f) = IF args = <<>> THEN {<<".">>} ELSE Args(Kinds)
      BY <2>1 DEF Want
    <3>2. <<>> \in Due
      BY <2>1 DEF Due
    <3> QED BY <1>4, <2>1, <3>1, <3>2 DEF AllShown
  <2>2. CASE ~opts.d /\ opts.R
    <3>1. Walks /\ Due = Walked /\ Walked = {l.dir : l \in ToSet(out)}
      BY <2>2 DEF Walks, Due, Walked, Printed
    <3>2. \E l \in ToSet(out) : l.dir = <<>>
      BY <1>1, <3>1 DEF AllInv, RootInv
    <3>3. \A dir, f : Want(dir, f) = Asked(dir) \ {f}
      BY <2>2 DEF Want
    <3> QED BY <1>4, <2>2, <3>1, <3>2, <3>3 DEF AllShown
  <2>3. CASE ~opts.d /\ ~opts.R /\ args = <<>>
    <3>1. Fits(<<>>) => <<>> \in Due
      BY <2>3 DEF Due
    <3>2. \A f : Want(<<>>, f) = Asked(<<>>)
      BY <2>3 DEF Want
    <3> QED BY <1>4, <2>3, <3>1, <3>2 DEF AllShown, Displayed
  <2>4. CASE ~opts.d /\ ~opts.R /\ args # <<>>
    <3>1. <<>> \in Due /\ \A f : Want(<<>>, f) = Args(Kinds \ {"dir"})
      BY <2>4 DEF Due, Want
    <3>2. ASSUME NEW a \in Args({"dir"}) PROVE Displayed(a)
      <4>1. a # <<>>
        <5>1. <<>> \in Path
          BY EmptySeq DEF Path
        <5>2. Single(a)
          BY <1>1, <3>2, <5>1, InWas DEF Args
        <5> QED BY <5>1, <5>2, InDir
      <4>2. /\ Fits(a) => a \in Due
            /\ \A f : Want(a, f) = Asked(a)
        BY <2>4, <3>2, <4>1 DEF Due, Want
      <4> QED BY <1>4, <4>2 DEF Displayed
    <3> QED BY <1>4, <2>4, <3>1, <3>2 DEF AllShown
  <2> QED BY <2>1, <2>2, <2>3, <2>4
<1> QED BY <1>5, <1>6, <1>7

\* A listing that ends with success has shown every visible entry of the directories it was
\* asked for that is still there, and nothing else, each once: display_dir (main.c:368) as long
\* as a directory fits into the buffer of readdir (main.c:399), recurse_dirs (main.c:304) all
\* but the entry that line 307 drops.  So whatever other processes remove meanwhile; if they
\* remove nothing, the files have the right marks (print_name_or_link, main.c:200).
THEOREM ShowsWhatIsAsked == Spec => []Listed
<1>1. LInv => Listed
  BY LImplies
<1> QED BY LInit, LNext, <1>1, PTL DEF Spec
=============================================================================
