------------------------------- MODULE Pizza --------------------------------
(***************************************************************************)
(* src/monitor_hoar/main.c (monitor.c is the same program): one cheeser    *)
(* and two hammers build pizzas in a monitor, a checker checks them, main  *)
(* creates the threads, joins them and frees the queue.  Everything the    *)
(* threads share is touched between lock and unlock or cond_wait, so one   *)
(* such stretch is one action.                                             *)
(***************************************************************************)
EXTENDS Integers, Sequences

CONSTANTS NumPizzas,     \* values of argv[1] to consider
          QChunk,        \* slots the queue starts with and grows by: 10
          MaxSpurious    \* bound: wakeups nobody asked for

ASSUME PizzaAssumption == /\ NumPizzas \subseteq Int
                          /\ QChunk \in Nat \ {0}
                          /\ MaxSpurious \in Nat

Cook == 0 .. 2        \* ntid[0] is the cheeser, ntid[1] and ntid[2] the hammers
Checker == 3          \* ntid[3]
Thread == 0 .. 3

Letter(t) == IF t = 0 THEN "C" ELSE "H"
Code(l) == IF l = "C" THEN 67 ELSE 72    \* the letter as a char

VARIABLES numPizzas,
          pizza, cheese, ham,    \* mon->p; letter is the length of pizza
          q, size,               \* mon->q: the used slots, and the allocated ones
          countMade, countChecked,
          ans,                   \* the checker's count of bad pizzas
          th,                    \* what each thread is about to do
          created,               \* threads main has created
          process,               \* the process: running, or how it ended
          spurious               \* spurious wakeups so far

pvars == <<pizza, cheese, ham, q, size, countMade>>
mvars == <<created, process>>
vars == <<numPizzas, pvars, countChecked, ans, th, mvars, spurious>>

\* A mutant: room for a third piece of ham.
NoSpaceLate(t) == IF t = 0 THEN cheese = 1 ELSE ham = 3

NoSpace(t) == IF t = 0 THEN cheese = 1 ELSE ham = 2

Ready(t) == process = "running" /\ th[t] \in {"call", "woken"}

\* A mutant: pthread_cond_signal, as in an older build of the program.
SignalOne(f) == IF \E t \in Thread : f[t] = "waiting"
                THEN [f EXCEPT ![CHOOSE t \in Thread : f[t] = "waiting"] = "woken"]
                ELSE f

\* pthread_cond_broadcast: the waiters are to take the lock again.
Broadcast(f) == [t \in Thread |-> IF f[t] = "waiting" THEN "woken" ELSE f[t]]

\* putElement ends: the cook's loop stops when every pizza is made.
Return(f, t, made) == [f EXCEPT ![t] = IF made = numPizzas THEN "done" ELSE "call"]

\* A mutant: the next pizza starts with the last one's ham.
KeepHam == pizza' = <<>> /\ cheese' = 0 /\ UNCHANGED ham

newPizza == pizza' = <<>> /\ cheese' = 0 /\ ham' = 0

\* Lines 71-93.
AddLetter(t) ==
  LET p == Append(pizza, Letter(t))
      c == IF t = 0 THEN cheese + 1 ELSE cheese
      h == IF t = 0 THEN ham ELSE ham + 1
  IN \/ /\ ~(c = 1 /\ h = 2)
        /\ pizza' = p /\ cheese' = c /\ ham' = h
        /\ th' = Return(th, t, countMade)
        /\ UNCHANGED <<q, size, countMade>>
     \/ /\ c = 1 /\ h = 2
        /\ countMade' = countMade + 1
        /\ size' = IF Len(q) >= size THEN size + QChunk ELSE size
        /\ q' = Append(q, p)
        /\ newPizza
        /\ th' = Return(Broadcast(th), t, countMade + 1)

\* A mutant: line 68 left out, so a woken cook adds its letter to a pizza
\* nobody ordered.
PutElementLate(t) ==
  /\ Ready(t)
  /\ \/ /\ countMade >= numPizzas /\ th[t] = "call"
        /\ th' = Return(th, t, countMade)
        /\ UNCHANGED pvars
     \/ /\ countMade < numPizzas \/ th[t] = "woken"
        /\ NoSpace(t)
        /\ th' = [th EXCEPT ![t] = "waiting"]
        /\ UNCHANGED pvars
     \/ /\ countMade < numPizzas \/ th[t] = "woken"
        /\ ~NoSpace(t)
        /\ AddLetter(t)
  /\ UNCHANGED <<numPizzas, countChecked, ans, mvars, spurious>>

\* putElement, from the lock or from the return of cond_wait to the unlock or
\* to cond_wait: both look at countMade and at the space.
PutElement(t) ==
  /\ Ready(t)
  /\ \/ /\ countMade >= numPizzas
        /\ th' = Return(th, t, countMade)
        /\ UNCHANGED pvars
     \/ /\ countMade < numPizzas /\ NoSpace(t)
        /\ th' = [th EXCEPT ![t] = "waiting"]
        /\ UNCHANGED pvars
     \/ /\ countMade < numPizzas /\ ~NoSpace(t)
        /\ AddLetter(t)
  /\ UNCHANGED <<numPizzas, countChecked, ans, mvars, spurious>>

Good(p) == Code(p[1]) + Code(p[2]) + Code(p[3]) = Code("C") + 2 * Code("H")

\* A mutant: the checker does not wait for the pizza.
CheckEarly ==
  /\ Ready(Checker) /\ countChecked < numPizzas
  /\ countChecked' = countChecked + 1
  /\ ans' = ans
  /\ th' = [th EXCEPT ![Checker] = "call"]
  /\ UNCHANGED <<numPizzas, pvars, mvars, spurious>>

\* checkPizza; its caller's loop counter is countChecked.
CheckPizza ==
  /\ Ready(Checker) /\ countChecked < numPizzas
  /\ \/ /\ countMade = countChecked
        /\ th' = [th EXCEPT ![Checker] = "waiting"]
        /\ UNCHANGED <<countChecked, ans>>
     \/ /\ countMade # countChecked
        /\ ans' = ans + IF Good(q[countChecked + 1]) THEN 0 ELSE 1
        /\ countChecked' = countChecked + 1
        /\ th' = [th EXCEPT ![Checker] = "call"]
  /\ UNCHANGED <<numPizzas, pvars, mvars, spurious>>

CheckerEnds == /\ Ready(Checker) /\ countChecked >= numPizzas
               /\ th' = [th EXCEPT ![Checker] = "done"]
               /\ UNCHANGED <<numPizzas, pvars, countChecked, ans, mvars, spurious>>

\* pthread_cond_wait may return without a broadcast.
Spurious(t) == /\ process = "running" /\ th[t] = "waiting" /\ spurious < MaxSpurious
               /\ th' = [th EXCEPT ![t] = "woken"]
               /\ spurious' = spurious + 1
               /\ UNCHANGED <<numPizzas, pvars, countChecked, ans, mvars>>

\* pthread_create, in the order of ntid; when it fails, main returns and the
\* process with every thread of it is gone.
Create == /\ process = "running" /\ created \in Thread
          /\ \/ /\ th' = [th EXCEPT ![created] = "call"]
                /\ created' = created + 1 /\ UNCHANGED process
             \/ process' = "error" /\ UNCHANGED <<th, created>>
          /\ UNCHANGED <<numPizzas, pvars, countChecked, ans, spurious>>

\* A mutant: the queue starts with malloc instead of calloc.
FreeAll == /\ process = "running" /\ created = 4 /\ \A t \in Thread : th[t] = "done"
           /\ \/ process' = "freed"
              \/ Len(q) < size /\ process' = "crashed"
           /\ UNCHANGED <<numPizzas, pvars, countChecked, ans, th, created, spurious>>

\* The joins, and freeMonitor: it frees slots up to the first null one.  calloc
\* cleared the first QChunk; a slot that realloc added and nobody used holds
\* anything, and to free() it is undefined behaviour, at best a crash.
JoinAndFree == /\ process = "running" /\ created = 4 /\ \A t \in Thread : th[t] = "done"
               /\ \/ process' = "freed"
                  \/ size > QChunk /\ Len(q) < size /\ process' = "crashed"
               /\ UNCHANGED <<numPizzas, pvars, countChecked, ans, th, created, spurious>>

Init == /\ numPizzas \in NumPizzas
        /\ pizza = <<>> /\ cheese = 0 /\ ham = 0
        /\ q = <<>> /\ size = QChunk
        /\ countMade = 0 /\ countChecked = 0 /\ ans = 0
        /\ th = [t \in Thread |-> "new"]
        /\ created = 0 /\ process = "running"
        /\ spurious = 0

CookNext(t) == PutElement(t)
CheckerNext == CheckPizza \/ CheckerEnds
MainNext == Create \/ JoinAndFree

Next == \/ MainNext \/ CheckerNext
        \/ \E t \in Cook : CookNext(t)
        \/ \E t \in Thread : Spurious(t)

Spec == Init /\ [][Next]_vars

\* Each thread keeps running, and gets the lock again and again.
FairSpec == /\ Spec
            /\ WF_vars(MainNext) /\ WF_vars(CheckerNext)
            /\ \A t \in Cook : WF_vars(CookNext(t))

-----------------------------------------------------------------------------
(* Properties                                                              *)

OneCheese(p) == \E k \in DOMAIN p : \A j \in DOMAIN p : p[j] = IF j = k THEN "C" ELSE "H"
NoCheese(p) == \A j \in DOMAIN p : p[j] = "H"

TypeOK == /\ numPizzas \in NumPizzas
          /\ pizza \in Seq({"C", "H"}) /\ cheese \in 0 .. 1 /\ ham \in 0 .. 2
          /\ q \in Seq(Seq({"C", "H"})) /\ size \in Nat
          /\ countMade \in Nat /\ countChecked \in Nat /\ ans \in Nat
          /\ th \in [Thread -> {"new", "call", "waiting", "woken", "done"}]
          /\ created \in 0 .. 4
          /\ process \in {"running", "error", "freed", "crashed"}
          /\ spurious \in 0 .. MaxSpurious

\* A cook adds a letter only to a pizza with fewer than three (the assert of
\* line 76), the counters cheese and ham agree with the letters, and every
\* finished pizza has one piece of cheese and two of ham.
PizzasRight ==
  /\ Len(pizza) = cheese + ham /\ Len(pizza) < 3
  /\ IF cheese = 0 THEN NoCheese(pizza) ELSE OneCheese(pizza)
  /\ \A n \in DOMAIN q : Len(q[n]) = 3 /\ OneCheese(q[n])

\* Nobody makes a pizza that was not ordered, none is checked before it is
\* made (lines 63-106), and the queue always has the slot line 87 writes.
Counts == /\ countChecked <= countMade /\ countMade = Len(q)
          /\ Len(q) <= size
          /\ countMade > 0 => countMade <= numPizzas

\* Whoever waits still has something to wait for: a cook for the pizza in
\* progress, the checker for a pizza not yet made (lines 65, 92, 107).
NoLostWakeup ==
  /\ \A t \in Cook : th[t] = "waiting" => NoSpace(t) /\ countMade < numPizzas
  /\ th[Checker] = "waiting" => countMade = countChecked /\ countMade < numPizzas

\* What the program prints and leaves: every pizza ordered is made, checked
\* and good (lines 112, 149), and no half pizza is left over.
AllDone == process \in {"freed", "crashed"} =>
             /\ ans = 0 /\ pizza = <<>>
             /\ countChecked = countMade /\ countMade = (IF numPizzas < 0 THEN 0 ELSE numPizzas)

\* freeMonitor (line 175) meets an uncleared slot only when the queue grew and
\* is not full at the end.
FreeIsSafe == process = "crashed" => numPizzas > QChunk /\ numPizzas % QChunk # 0

\* Whatever order the threads get the lock in, all of them end and main joins
\* them (lines 124-146, 212), for any order of pizzas that is not negative.
Terminates == (created = 4 /\ numPizzas >= 0) ~> process \in {"freed", "crashed"}
=============================================================================
