# A verification project for MiptStudy_3

The repository is a semester of small C programs about processes, threads, signals and
System V IPC. They do not call each other: each directory is a program of its own with its
own `main`. What they have in common is where their difficulty lies, which is in processes
and threads that meet through semaphores, message queues, a mutex with a condition variable,
pipes or signals. This project models the programs that do something concurrent, checks the
models with TLC and proves the main results with TLAPS for every value of the parameters.

## Inventory

| Program | State it keeps | Operations and interaction | What is hard | What makes it correct | Here |
|---|---|---|---|---|---|
| Cruise ship, `src/boat/boat.c` | a set of 4 semaphores SHIP, LADD, SLEEP, END; loop counters of type `short` | `main` forks `ship` and `npass` times `passanger`, waits for all, removes the set; everyone meets through `semop` | many passengers between ticket, ladder and seat; a ship that takes the ladder back; END that must reach everyone; 16-bit counters | seats and ladder places are never lost or sold twice; nobody on a raised ladder; the ship completes its trips; everyone goes home | `Boat`, `Cruise`, `BoatProofs` |
| Cruise ship, earlier version, `src/boat/main.c` | the same, fewer semaphores | macros `V`/`P` that `return` from their caller on an error | the error path falls into `main`'s fork loop, so that any process may become a second `main`; no wait between boarding and leaving | seats and ladder add up; nobody falls back while the semaphore has room; everyone goes home | `BoatFirst`, `BoatFirstProofs` |
| Pizza monitor, `src/monitor_hoar/main.c` (= `monitor.c`) | a struct under one mutex and one condition variable: the pizza in progress, the queue, two counters | `putElement` (cheeser, two hammers), `checkPizza` (checker), creation, join and free in `main` | lost wake-ups, stale conditions after a wait, a queue that grows | each pizza has one cheese and two hams, is made once and checked once; all threads end | `Pizza`, `PizzaProofs` |
| Shower, `src/PLEASE/shower.c` | 3 message queues: tokens, cabins, locks | `enter`, `proceed`, `leave` of each human process; `main` fills the queues, forks, opens the room, waits, removes | the room's kind is a token that is taken, put back and turned between calls | never men and women together; no more than N in the cabins; everyone washes | `Shower`, `Bath`, `ShowerProofs` |
| Shower, earlier version, `src/PLEASE/main.c` | the same queues | as above, but `main` does not send the first ANYONE | nobody can enter | the comment in `entrance()`: a free pass is created for one kind | `ShowerFirst` |
| Relay race, `src/runners/main.c` | one message queue | `judge`, `runner`s, `main` by `msgsnd`/`msgrcv` with message types as addresses | one queue read by all, forks that fail, removal | one baton, the right order, an end | `Runners`, `Race`, `RunnersProofs` |
| Signal transfer, `src/signals/main.c` | the parent's `bit`, `symbol`, `buffer`; the child's place in the file | parent and child by SIGUSR1/SIGUSR2 and sigsuspend; SIGCHLD and SIGALRM end them | signals that do not queue, a handler that runs anywhere, a partner that is late or dead | every bit arrives in order; success means the whole file; both end | `Signals`, `SignalsProofs` |
| Shared counters, `src/shmget/main.c`, `src/pthreads/main.c`, `src/task_pthread.c` | a counter in shared memory or a global | increments under a semaphore, a mutex, nothing | lost updates, `sleep` in place of a join | no update is lost | not modelled |
| Shell, `src/my_shell/main.c` (`src/copy_home_task.c` unfinished) | the words of a line; two pairs of pipe descriptors; children | parsing; `run_piped_commands` makes pipes, forks, redirects, executes, closes and waits | blanks that shift the parser, full arrays, descriptors that stay open, partial failure, children that end in any order | a line is taken apart as typed; readers meet the end of their input, the prompt comes back behind all children | `ShellWords`, `Shell`, `Pipeline`, `ShellProofs` |
| File sizes, `src/filesizes/main.c` | a pile of inode numbers | recursive walk, `du` with hard links counted once | a fixed pile, inode numbers cut to `int` | each file counted once | not modelled |
| `ls`, `src/ls_imp/main.c` | option flags, `global_dir`, the names of a directory | `scan_dirs` over the arguments, `display_dir`, `recurse_dirs`, each file through `display_stats` | `global_dir` that outlives its directory, pointers into a buffer that is filled again, unchecked calls, files that vanish meanwhile | every entry asked for is shown once; it gives up only for a reason | `ListFiles`, `ListFilesProofs` |
| `ls`, other versions, `src/my_ls`, `src/ls_implementation.c`, `src/testing_folder` | option flags | the same walk with fewer options | | | not modelled |
| Exam tasks, `src/zachet`; pipe and fork exercises (`my_pipe.c`, `task_*.c`, `fork_task.c`, `task_children.c`, `myexec.c`) | | one fork, pipe or signal each | little | | not modelled so far |
| Printers (`my_id`, `my_stat`, `multicat`, `untitled`, ...) | | input and output only | nothing concurrent | | not modelled |
| `src/CarSimulation`, `src/Ship` | | do not compile | | | not modelled: no program |

The places in this code that are hard to test are listed, each at its line, under "hazards"
in `PROJECT.json`; the properties below were chosen from that list.

## Conventions of the models

* One action is one system call that may block or that others may observe (`semop`, `msgsnd`,
  `msgrcv`, `fork`, `wait`), or one stretch of code between two releases of a mutex. What a
  process does between two such calls touches only its own memory.
* A call that has to block is an action that is not enabled. `usleep` orders nothing, because
  a process may be preempted at any point anyway, and is left out, as are the prints.
* A process is a "program counter" in a variable (`pass[p]`, `human[h]`, `runner[r]`, `ship`,
  `judge`, `main`, `th[t]`), named after what it is about to call.
* The kernel objects (semaphore sets, message queues, `wait`) are modelled from how the code
  uses them. A semaphore is a number up to SEMVMX; a message queue is the number of messages
  of each type in it (the messages carry no data that anyone reads), with a capacity; `wait`
  returns a child that has ended, or fails at once when there is none.
* `fork() == -1` is a possible outcome wherever the code does not check it, which is
  everywhere: the child is then never born and the parent goes on.
* Definitions marked "A mutant" are plausible mistakes in the definition that follows them.
  No specification uses them; they exist to confirm that each property can fail.

## Boat: src/boat/boat.c

`argv` is the command line after `strtol`; `npass`, `ship_cap`, `ladd_cap` and `nfloat` are its
casts to `short` (`ToShort` wraps as the cast does), checked as lines 65-89 do. `sem` is the
semaphore set, and `ship`, `pass[p]` and `main` say which `semop` or other call each process is about to
make. A `semop` that fails with ERANGE ends the process that made it (`"failed"`).

`Cruise` is what the four semaphores are for, without semaphores: passengers on the beach,
boarding, aboard, allowed to leave, and leaving, with at most `cap` aboard, at most `ladd` on the
ladder, a ship that departs only with the ladder empty, and nobody who leaves without a
departure. `Boat` implements it (`CruiseSpec`, place for place).

Properties: `SeatAccounting` (SHIP plus the tickets held is the ship's capacity at every
moment, through all interleavings), `LadderAccounting` (LADD plus the people on the ladder is
its width while it is down, and nobody is on it while it is up), `CruiseSpec`,
`RemovedAfterAll` (the set is removed only when no process will use it), `ShipFinishes`,
`LateArrivalsGoHome`, `MainReports` (liveness).

Run `boat`: eight command lines with a short of -5..4, up to four passengers, one to three
seats, ladders narrower and wider than the ship, as many trips as a short can count, a
capacity whose double passes SEMVMX, as many passengers as a short can count, one that wraps
and two that are refused. Three passengers for two seats and one ladder place is the smallest
instance in which someone waits at every semaphore. The width of `short` is a constant, so
that every overflow of the code happens within the bounds.

Runs `boat_leaves_aboard` and `boat_end` are the two statements of the source's comments that
the code does not keep (see Findings).

## Pizza: src/monitor_hoar/main.c

All shared state is behind one mutex, so each stretch from a lock or a wake-up to the next unlock or `pthread_cond_wait`
is one action: `PutElement(t)` for the cooks, `CheckPizza` and `CheckerEnds` for the checker.
`pizza` is the letters put so far, `q` the queue's used slots, `size` the allocated ones. A
thread is `"waiting"` inside `pthread_cond_wait` and `"woken"` until it has the mutex again;
`Spurious(t)` wakes a waiter that nobody signalled. `main` creates four threads (a
`pthread_create` that fails ends the process), joins them and frees the queue. After
`realloc` the added slots are not cleared, so `freeMonitor` may meet anything there: the
model leaves the outcome open (`"freed"` or `"crashed"`).

Properties: `PizzasRight` (one cheese and two hams in every finished pizza, `cheese` and `ham`
agree with the letters, the assert of line 76 never fires), `Counts` (made, queued and checked
stay in step, and the queue always has the slot that is written), `NoLostWakeup` (whoever
sleeps still has something to wait for that someone awake will bring), `AllDone` (what the
program prints: exactly the ordered pizzas, none bad, none half made), `FreeIsSafe` (exactly
when the release of the queue is in danger), `Terminates`.

Run `pizza`: orders of -1 to 4 pizzas with a queue that grows by 2, so it is empty, partly
full, full, grown and partly full again, and grown and full; two spurious wake-ups.

## Shower: src/PLEASE/shower.c

`sync`, `lock` and `cub` are the queues; `human[h]` is the call each human is about to make,
from `"enter"` to `"exited"`. `EnterSync` is the `msgrcv` with MSG_EXCEPT, `Look` the one with
IPC_NOWAIT; the token that `enter` and `leave` hold between two calls is in a hand
(`"put_back"`, `"again"`).

`Bath` is the promise of the comment at lines 78-80: one room, never both kinds, at most N in
the cabins. `Shower` implements it (`BathSpec`).

Properties: `TokensMatch` (q_sync has a token for each human inside but for those in a hand,
and ANYONE exactly when the open room is empty), `BathSpec`, `RemovedAfterAll`,
`EverybodyWashes` (liveness: for N > 0 and no more humans of a kind than a queue has room for,
everyone washes and `main` ends).

Run `shower`: seven command lines with up to four humans and queues of three messages: both
kinds, one cabin and two, more of one kind than the queue has room for (where the program
stops for good, as it would with 16385 men), more cabins than the queue has room for, no
cabin, nobody, and a line that is refused.

## Runners: src/runners/main.c

`msgs[t]` is the number of messages of type t in the one queue. The judge hears READY from
each runner, sends START to the first, and each runner passes the baton to the next by sending
that runner's type; the last sends FINISH. Once `main` has removed the queue a call fails and
`my_assert` ends the process. `Race` is the abstract race: a start when all are ready, one
runner at a time in the order of the numbers, an end after the last. `Runners` implements it
(`RaceSpec`).

Properties: `OneBaton` (from start to end exactly one baton, in the queue or in one hand),
`EveryoneHeard` (each READY sent is in the queue or was counted, and when the judge sends the first runner
off, the whole team was born and has reported), `RemovedAfterRace` (the queue is removed with nobody left to use it and
nothing left in it), `RaceSpec`, `RaceEnds`.

Run `runners`: teams of -1 to 4 and a queue of two messages, so the READYs of a team of three or more block until
the judge reads.

## Shell: src/my_shell/main.c

`run_piped_commands`, once per line. `shell` says which call the shell is about to make,
`input_pipe` and `output_pipe` are the pairs of descriptors, each named by the command that
writes into its pipe, and `fds[id]` is what the kernel counts: which ends of which pipes the
process has open. `AssertArgv` is the assertion of line 153, which may end the shell at the head of the loop when a
command fills `argv` (see `ShellWords`); the words themselves are not in this module, so it may fail for any
command. `fork` copies the shell's ends and the two pairs (`pair[c]`). `proc[c]` is the
call a child is about to make: the two redirections, `execvp`, and then what the program does.
The programs are not in the repository; three kinds stand for them: one that writes once and
ends, one that copies its input to the end, one that writes until nobody reads. `execvp` may
fail, in which case the child writes its message and ends (lines 209-214), and so may `pipe`
and `fork`: the shell then exits at once (`assert_polite`) and leaves its children to
themselves. `dup2` keeps the original descriptor open beside 0 or 1, and both are of the same end of the
same pipe, so `fds` has it once. An empty line is a command of no words, whose `execvp` fails.

`Pipeline` is what a line "a | b | c" means, without descriptors: commands that start in order,
bounded channels between them, an end of input when the command before has ended and
everything is read, a writer that is stopped when the command behind has ended, and a next line
behind all of them. `Shell` implements it (`PipelineSpec`); the refinement holds only because
every process closes every end it does not use, since one copy of a sending end too many would
make "nobody can write any more" differ from "the command before has ended". The shell closes
the input pipe of a command at the head of the next turn of the loop, so in between children
run with the shell's copy still open.

Properties: `NoStrayEnds` (at each place of the loop the shell has open exactly what its two
pairs name, so nothing is closed twice or left for the next line), `PipelineSpec`, and `PromptReturns` (liveness: a line in
which each endless writer has something behind it that ends by itself comes back to the prompt).

Run `shell`: two lines of one to three commands of every kind, each of which may fail at
`execvp`, with pipes of one item. Three commands are the first, a middle and the last one; two lines show
that nothing is left over; one item makes every writer wait for its reader.

## ShellWords: src/my_shell/main.c

What becomes of a line before `Shell` runs it. `getting_string` reads a line, each step of
`parsing_words` is one `sscanf` at `string + add`, each step of `parsing_commands` collects
the words up to a bar and calls `add_item`, and `BuildArgv` is the head of the loop in
`run_piped_commands`. A character is a letter, a blank or a bar. With ARGS_NUMBER words `argv`
is full, so that line 153 reads behind it: the assertion may pass or not (`"aborted"`). A
command of more words is copied past `arg.args` (`"undefined"`).

Property: `Understood`, with the words and commands of a line defined anew from the places
where words begin. `parsing_words` counts one blank behind each word, so every further blank
(before the first word, too) leaves `add` one character behind. One is harmless; from the
second on the lookup behind the last word finds the end of that word again. The line is taken apart
as typed exactly when it has at most one such blank, and then the first MAX_CMDS commands are
run, unless a command fills `args`.

Run `shell_words`: all 21845 lines of up to seven characters, with commands of two words and
two commands. Seven characters are room for a third command, for a third word, and for two blanks
too many in every place. Words and lines longer than their arrays are not modelled.

## Signals: src/signals/main.c

`parent` and `child` say where each process is; `usr` and `ack` are the signals pending at each.
SIGUSR1 and SIGUSR2 are blocked outside `sigsuspend` and do not queue, so what is pending is a
set, and `Wake` runs all handlers of the set, in an order the model leaves open. SIGCHLD is not
blocked: `ChildHandler` is enabled wherever the parent is. `ParentTimeout` and `ChildTimeout` are
SIGALRM, whose handler is `exit`, at any time in a `sigsuspend`; time itself is not modelled. `file`
is the bits of the file, `have` and `pos` what the child has read and sent. `kill` of a parent
that has ended fails or not, depending on whether somebody has waited for it. `Write` and
`Shift` are the two halves of `WRITE`, because SIGCHLD may come between them.

`MY_ASSERT` expands its condition to `!fd != -1`, which is always true: as it stands, the child
always exits behind `open`, and the parent fails or times out. `build` chooses between this
expansion and one with parentheses, so that the protocol is checked and the program as it is, too. In the program as it is,
nothing is ever sent, so the first two properties have their content in the other reading.

Properties: `InOrder` (what the parent has is the file up to a bit, at most one bit behind what the
child has sent, whatever is pending), `WholeOrLastBit` (when the child came to its end, a parent that
exits with success has written the whole file; one that fails was interrupted by SIGCHLD before it took
the last SIGUSR2, with a last bit of 1), `BothEnd` (liveness). `InOrder` leaves out a child that timed out: SIGCHLD
between the halves of `WRITE` then writes the buffer twice. A parent whose child timed out or failed with
`bit` 0 reports success for a part of the file. `BothEnd` leaves out a child that reads a directory: `read`
returns -1 for good and the loop of line 103 goes on.

Run `signals`: every file of up to three chars of two bits, with a buffer of two chars, so that
the buffer is full, refilled, and partly full at the end; a missing file and a directory.

## BoatFirst: src/boat/main.c

The cruise before `boat.c`. A `semop` that fails *returns* from the function its macro stands in,
and so from `ship` or `passenger` into the loop that forked it: the process goes on as `main`, forks
the passengers that come after it, waits, and removes the semaphores under all others, whose
calls then fail in turn. A process is therefore named by the set of loop indices at which it
and its ancestors were forked: `{}` is `main`, `{-1}` the ship, `{i}` passenger `i`, `{i, j}`
passenger `j` forked by passenger `i`. `ShipScript` and `PassScript` are the calls in their order,
`idx` the place in the script or the loop counter, and `Semop` one call, which takes, adds, waits for
zero, or falls back (`FallBack`). The ship's script is its head (lines 77-79), one `Trip` for each trip, and its
tail. `BoatFirstAssumption` says that SHRT_MAX is positive, that 1000000 is at least 0, and that an argument
vector is empty (a line that is refused) or four integers, with no more passengers than the model has names for.

Properties: `Accounting` (until the end is announced SEM_BOAT plus the seats taken is `numShip`, and
SEM_TRAP plus the people on the ladder its width, or 0 while it is up), `Orderly` (with room in
SEM_BOAT for the seats twice and one more for each passenger nobody falls back, and the semaphores
are removed behind everybody), `AllGoHome`
(liveness: once the end is announced at line 74 everybody leaves and `main` ends with success, provided that
`numTrap` + 1000000, cut to a short, is not negative; when it is, the ship asks for places at line 75 that nobody gives,
and `main` never ends). That the ship gets as far as announcing the end is *not* claimed: before, it takes
all places of the ladder in one call, and since the wait of line 115 is commented out passengers may
step on and off forever without all places being free at once. `main`'s counter of line 159 is a short, as in the code;
with SHRT_MAX people it wraps and the loop never ends, which no command line of the run is large enough to do.

Run `boat_first`: sixteen command lines (one of them empty) with a short of -8..7 and 1000000 cut to 4 (in the code,
16960): up to three passengers; one whose ladder wraps at line 75; lines exactly at the bound of `Orderly` and one beyond; a ladder whose
last operation wraps; widths of zero and below; a negative number of people, with which `main` removes the
semaphores under the ship; casts that wrap; a line that is refused.

## ShowerFirst: src/PLEASE/main.c

The shower before `shower.c`, whole: `entrance()` returns the lock as a message of type `sex`, which
`leave()` takes and turns into the key again, and `leave()` puts its own token back. Run `shower_first`
shows that nobody gets past line 56 (see Findings), with a woman, a man and two cabins, and fairness for every
process; the rest of `human()` is modelled but never reached.

## ListFiles: src/ls_imp/main.c

`todo` is what is left to do, a sequence of tasks with the innermost call first: a task is one call
that looks at the file system (`opendir` with its `readdir`s, `lstat`, `readlink`) or one turn of a loop with such calls
(`Entry`), and it leaves the tasks of the loop or function behind it. That makes call stack, loops and recursion one variable. Between
two tasks another process may remove a file (`Removal`). `global_dir` is the variable of the code: set when a
directory is displayed or stats are printed, and used by every later `get_stats`. `dir_arr` are the names that the
pointers of line 399 point to once the directory is read: DIRBUF entries fit into the buffer of `readdir`, and later
ones are read over earlier ones (the model takes all entries for equally long). A large
directory is read in several parts, and a file removed meanwhile may not be met (last disjunct of `Entry`; for `display_dir`,
which prints only what `is_in_dir` still finds, it makes no difference). `Long` are the paths that have no room in
`path[1024]` and `next[1024]` (lines 144-145, 329-330): `sprintf` writes them all the same, after which the program crashes
or goes on. The two looks at a file with -l are two tasks, `lstat` (`print_stats`) and `readlink` (`print_name_or_link`),
between which it may be removed. `Kinds` are those that the bit tests
of lines 167 and 202 confuse, and directories that may not be read. Of the orders in which `readdir` may return entries
the model takes one for each first entry; sorting is modelled only by the stats it asks for. Trees are finite and no
file or argument ends in a dot of its own (`ListFilesAssumption`). Left out: what is
printed of a file besides its name, `.` and `..` as arguments, owners and groups without a name, and link targets
that fill `link_buf[512]`.

Properties: `Listed` is what a successful run has shown. `ShownOnce`: no line twice, of a directory that fits into
the buffer; a file named twice on the command line is shown twice, which is why without -R this is said of arguments that
differ. `AllShown`: of every directory asked for (`Was`, `Asked`, `Args`) only names that it had when the program
began, and all of them that are still there, whatever was removed meanwhile; with -R the directories walked are
those found, and each lacks the entry read first. `RightMarks`: `/` and `->` are right in the working directory, where
lines 161 and 205 look whatever the directory listed, as long as nothing is removed. `FailsOnly` is the complete list of
reasons for an exit with an I/O error and for a crash, paths without room among them; that each reason is needed was confirmed by leaving it out.
Both are proved.

Run `ls`: two trees, with names that occur at two levels, a hidden directory, empty ones, a link, a
socket, an unreadable directory and one with more entries than the buffer; every option, up to two
arguments out of eight (the same one twice as well), one removal, and three paths without room: two of the second tree,
and one that the first tree does not have, but an argument looked for in the wrong directory does.

## Fairness

Each process or thread has weak fairness on the disjunction of its own actions: the operating
system runs every process whose next call can return. Nothing is assumed about which of
several blocked processes a semaphore, queue or mutex wakes, beyond what weak fairness gives:
a process that could go on forever without being chosen. No liveness property relies on strong
fairness. `Spurious` has none. `boat_leaves_aboard` needs no fairness; `boat_end` states
fairness for every process, so its counterexample is not a process that merely stopped; so does
`shower_first`.
In the shell, leaving at the prompt (`ExitShell`) has none: the user decides. In `Signals` the alarms are fair,
because they go off after a second. `ListFiles` and `ShellWords` need none. CHECK_DEADLOCK is FALSE in every run, because each program ends, and some block for good in
the configurations named above.

## What is proved

All proofs are for every value of the constants, under the assumptions the modules name.

* `BoatProofs` (`ShortAssumption`: SHRT_MAX is positive; `ArgvsAssumption`: arguments are integers):
  `TypeCorrect`, `SeatsAccounted`, `LadderAccounted`, `RemovedLast` and `Refinement` (`Spec => CruiseSpec`). The
  inductive invariant adds to these what the ship's place says of SLEEP, END and its loop
  counter (`ShipInv`), in which order things are born (`MainInv`), and that those who
  passed `check_end` in time are no more than the ship has seats (`RidersInv`). The last is what bounds SHIP
  after the ship's last operation has doubled the seats, which the accounts alone do not say.
  `RemovedLast` adds what `main`'s loop of `wait` has collected (`ReapInv`).
* `PizzaProofs` (`PizzaAssumption`): `TypeCorrect`, `PizzasAreRight`, `CountsInStep`,
  `WakeupsKept`, `AllMade`, `FreeingIsSafe`. The invariant is the conjunction of the checked properties with
  `EndInv`: how a thread's end is tied to the counters. The one critical lemma is that the step
  which completes a pizza wakes everybody. `FreeingIsSafe` adds that the allocated size is a multiple of the
  chunk, and no more than a chunk ahead of the queue.
* `ShowerProofs` (`ShowerAssumption`): `TypeCorrect`, `Tokens`, `Refinement`
  (`Spec => BathSpec`), `RemovedLast`. The invariant keeps one account per gender: tokens and
  hands against holders, a lock that is in the queue or with one human, and that whoever is
  about to send ANYONE is the last inside. That the lock is with one human is why the look with
  IPC_NOWAIT is safe although it is two calls. Every call of a human is one row of a table
  (`Row`): where from, where to, and what it adds to each queue. `HumanMoves` shows that
  the actions are the rows, `RowEffect` what a row does to the groups, and `GroupMove` what one
  human's move does to the size of a group. `RemovedLast` adds that `wait` has returned as many
  children as `main` has counted, or that there are none left.
* `RunnersProofs` (`RunnersAssumption`: the queue holds a message, no team is larger than MaxRun): `TypeCorrect`,
  `BatonIsOne`, `AllHeard`, `RemovedLast` and `Refinement` (`Spec => RaceSpec`). `OneBaton` says where the
  baton is but not that nobody else may take it. The invariant therefore ties each message to the one reader it is addressed to
  and says which runners have run once the baton has a number (`RaceInv`), counts the READYs (`Account`), from which follows that the judge starts a whole team (`EveryoneHeard`),
  and says in which order `main` forks (`MainInv`) and what it has waited for (`ReapInv`).
* `SignalsProofs` (`SignalsAssumption`: a char has a bit, the buffer a char): `TypeCorrect`, `BitsInOrder` and
  `WrittenWhole`, for every file, both builds and every order of signals and alarms. The strengthening is the
  hand-shake (`HandShake`): at each pair of places of parent and child it says which signal may be
  pending and which bit the parent has yet to take. `InFile` says that what was written, the buffer and the
  symbol together are the file up to that bit, `BufferInv` and `ChildInv` how full they are where the code looks,
  and `EndInv` how a child that has ended left its parent. `InOrder` is a consequence and not a conjunct: it
  leaves out a child that timed out, about which the hand-shake must still say something.
* `BoatFirstProofs` (`BoatFirstAssumption`): `SailsClear` (`Accounting`) and `NobodyFallsBack` (`Orderly`), for
  all command lines. The difficulty is that a process which falls back becomes another `main`, and
  nothing orderly holds any more. `GenInv` holds whoever falls back; the rest of the invariant
  is claimed only while the run is `Regular`: before there are semaphores, before the end is announced, or with room in
  SEM_BOAT for everybody (`Roomy`). `StaysIrregular` shows that a run which ceased to be regular never
  becomes so again, since SEM_EXIT is never lowered, so the invariant has nothing to say about what the fallen
  processes did. In a regular run only `main` forks (`FamilyInv`, `MainInv`, `WaitInv`),
  and `SemInv` gives the value of every semaphore as a function of how far the ship's script has come
  (`Stage`). After the end is announced the account of seats is an inequality: those who leave give
  one seat each at line 135 and the ship gives its own a second time, which is why `Roomy` asks for twice
  the seats and one more for each passenger.
* `ShellProofs` (`ShellAssumption`): `TypeCorrect` and `EndsClosed`, for lines and pipes of every length. The
  strengthening says which pipes the two pairs name at each place of the loop (`HeadInv`,
  `BodyInv`): those of the commands `curr_cmd - 1` and `curr_cmd`, or one earlier before lines
  164-165 have shifted them; and that behind the loop both name the same pipe (`TailInv`), which is why closing
  `output_pipe` alone leaves nothing open. `Refinement` (`Spec => PipelineSpec`) needs what the children have as
  well: which ends each has open at each of its places (`ChildInv`), and that they are born in order and all
  reaped when the prompt returns (`LineInv`). From these follows that nobody can write into a pipe
  any more exactly when the command before it has ended (`NoWriter`), and nobody can read from it when the command behind it has
  (`NoReader`), which is how the abstract pipeline has it; `ChildRefines` and `ShellRefines` then map each step.
* `ListFilesProofs` (`ListFilesAssumption`): `GivesUpForAReason` (`FailsOnly`), for all trees, options,
  arguments, buffers and removals. The invariant says of each task left what it stems from: its directory and its
  name were in the file system at the start (`TaskOK`), so that a path without room is one of the tree
or of an argument, and that a lookup which fails is the work of a removal
  (`Lookup`) if it is made in the directory of the name. For that `global_dir` has to be the right one (`HeadInv`),
  which it is for stats but not for an argument: there it is a directory displayed before, and so
  one that stands before it on the command line. The arguments left are therefore counted from the end of
  `todo` (`Place`, `Passed`), and behind an argument there are only arguments (`OrderInv`). `Steps` says once
  which tasks may replace the one at hand, and each action is shown to leave such ones.
  `ShowsWhatIsAsked` (`Listed`) has the invariant `LInv`, which balances what was printed (`Printed`) with the tasks left
  (`Todo`). For each directory that is to be shown (`Due`) and what is wanted of it (`Want`), nothing unwanted was or
  will be shown, and a wanted name that is still there was shown or some task will see to it (`Bears`; `WantInv`);
  the same of the subdirectories that -R walks (`HeadsInv`, for one dropped entry). That nothing is shown twice
  (`OnceInv`) takes that no two tasks will print the same and none what was printed, and with -R that no directory is walked
  twice and each behind the one it is in (`WalkInv`): a path splits into directory and name in one way only (`KeyInj`).
  That a name which `is_in_dir` misses is of no file any more (`StillThere`) rests on `Emptied`: what is removed was empty.
  `LStep` says once what the tasks and the line of a step have to do with the task they replace; each action is shown to keep
  to it. `LoopedLists` and `DisplayLists` say what the two loops over `readdir` return: all entries but the first, and, of a
  directory that fits into the buffer, every visible one, each once.

Only model-checked:

* all liveness properties (`ShipFinishes`, `LateArrivalsGoHome`, `MainReports`, `Terminates`,
  `EverybodyWashes`, `RaceEnds`, `PromptReturns`, `BothEnd`, `AllGoHome`), since the prover has no rule for
  fairness and ENABLED;
* `Understood` of `ShellWords`, which says what a fold over the characters of a line computes: induction over data.

## Findings

* `src/boat/boat.c:172`. The comment at line 171 says "wait when all passangers leave ship", but
  the operation *adds* `ship_cap` to SHIP instead of taking it, so it never blocks. The ship
  ends with passengers aboard (`boat_leaves_aboard`).
* `src/boat/boat.c:161`. The comment at line 156 says "signal to passangers that cruise end".
  After END the ship raises SLEEP once more and never lowers it: a passenger who had passed
  `check_end` before and is aboard waits for SLEEP to become 0 forever, and `main` waits for
  that passenger (`boat_end`).
* `src/PLEASE/main.c:56`. The comment at line 48 says "here we should create a free pass for one kind
  of person". `entrance()` first takes a token out of `synch`; tokens are only put there by those
  who have taken one, and `main` never sends the first. Everybody waits at the door forever (`shower_first`).

Met while modelling, and stated as preconditions or bounds of properties: `npass` = 32767
makes `main`'s `short` loop counter wrap and never end; a ship capacity above 16383 makes the
last operation fail with ERANGE; more than 16384 of one gender inside lock the shower;
`numPizzas` < 0 never ends; an order that grows the pizza queue and does not fill it frees
uninitialised slots; a race without runners waits forever. In `src/signals/main.c`
`MY_ASSERT` without parentheses always fires; a directory as argument makes the child loop; a transfer that is
cut off may report success. In `src/boat/main.c` the ship may starve before the ladder. In
`src/ls_imp/main.c` `ls d f` looks for `d/f` and gives up, `-R` drops one entry of every directory, an unreadable
directory ends in `readdir(NULL)`, a directory larger than the buffer of `readdir` is listed with
wrong names, a path without room in `path[1024]` may crash it. In the shell two blanks too many repeat the end of the last word, and a command of six words lets the assertion of
line 153 read behind `argv`.

## Not modelled

Kills from outside (no program handles them; the semaphores have no SEM_UNDO), failures of
`msgget` in the shower (unchecked: nothing synchronises any more), formatting and timing. The programs
marked so in the inventory, with the reason there and in `PROJECT.json`: the shared counters are
one increment each, `filesizes` and the other `ls` versions walk as `ListFiles` does.

## Plan

Every safety property that a run checks is proved but for `Understood`. What is left, in the order of what it is worth:

1. `src/filesizes/main.c`: the walk of `ls -R` with a list of inode numbers, for which `ListFiles` would have to get hard links.
2. The shared counters, as one module with a lock that may be missing.

Every module is written without RECURSIVE operators, one action per call, with its
parameters as constants, so that it can be proved about as well as checked.
