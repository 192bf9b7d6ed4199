----------------------------- MODULE PizzaProofs ----------------------------
(***************************************************************************)
(* The pizza monitor's invariants, for every order, queue size and number  *)
(* of spurious wakeups.                                                    *)
(***************************************************************************)
EXTENDS Pizza, TLAPS

(***************************************************************************)
(* The inductive invariant                                                 *)
(***************************************************************************)

\* Why AllDone holds: nothing is in progress once all is made, threads end
\* only when their work is done, and the checker has met no bad pizza.
EndInv == /\ countMade >= numPizzas => pizza = <<>>
          /\ \A t \in Cook : th[t] = "done" => countMade = numPizzas
          /\ th[Checker] = "done" => countChecked >= numPizzas
          /\ ans = 0
          /\ process \in {"freed", "crashed"} => \A t \in Thread : th[t] = "done"

IInv == TypeOK /\ PizzasRight /\ Counts /\ NoLostWakeup /\ EndInv

LEMMA InitInv == Init => IInv
<1> SUFFICES ASSUME Init PROVE IInv
  OBVIOUS
<1> USE DEF Init
<1>1. TypeOK
  <2>1. <<>> \in Seq({"C", "H"}) /\ <<>> \in Seq(Seq({"C", "H"}))
    OBVIOUS
  <2> QED BY <2>1, PizzaAssumption DEF TypeOK
<1>2. PizzasRight
  BY DEF PizzasRight, NoCheese
<1>3. Counts
  BY PizzaAssumption DEF Counts
<1>4. NoLostWakeup /\ EndInv
  BY DEF NoLostWakeup, EndInv, Thread, Cook, Checker
<1> QED BY <1>1, <1>2, <1>3, <1>4 DEF IInv

\* A letter put where there is space extends the pizza in progress, or makes
\* it a good one.
LEMMA LetterStep ==
  ASSUME TypeOK, PizzasRight, NEW t \in Cook, ~NoSpace(t)
  PROVE  LET p == Append(pizza, Letter(t))
             c == IF t = 0 THEN cheese + 1 ELSE cheese
             h == IF t = 0 THEN ham ELSE ham + 1
         IN  /\ p \in Seq({"C", "H"}) /\ Len(p) = c + h
             /\ c \in 0 .. 1 /\ h \in 0 .. 2
             /\ IF c = 0 THEN NoCheese(p) ELSE OneCheese(p)
<1> DEFINE p == Append(pizza, Letter(t))
<1>1. /\ pizza \in Seq({"C", "H"}) /\ cheese \in 0 .. 1 /\ ham \in 0 .. 2
      /\ Len(pizza) = cheese + ham
  BY DEF TypeOK, PizzasRight
<1>2. /\ p \in Seq({"C", "H"}) /\ Len(p) = Len(pizza) + 1
      /\ DOMAIN p = 1 .. Len(pizza) + 1 /\ DOMAIN pizza = 1 .. Len(pizza)
      /\ p[Len(pizza) + 1] = Letter(t)
      /\ \A j \in 1 .. Len(pizza) : p[j] = pizza[j]
  BY <1>1 DEF Letter
<1>3. CASE t = 0
  <2>1. cheese = 0 /\ Letter(t) = "C" /\ NoCheese(pizza)
    BY <1>1, <1>3 DEF NoSpace, Letter, PizzasRight
  <2>2. OneCheese(p)
    <3> HIDE DEF p
    <3>1. \A j \in DOMAIN p : p[j] = IF j = Len(pizza) + 1 THEN "C" ELSE "H"
      BY <1>1, <1>2, <2>1 DEF NoCheese
    <3>2. Len(pizza) + 1 \in DOMAIN p
      BY <1>1, <1>2
    <3> QED BY <3>1, <3>2 DEF OneCheese
  <2> HIDE DEF p
  <2> QED BY <1>1, <1>2, <1>3, <2>1, <2>2 DEF p
<1>4. CASE t # 0
  <2>1. ham # 2 /\ Letter(t) = "H"
    BY <1>1, <1>4 DEF NoSpace, Letter
  <2>2. IF cheese = 0 THEN NoCheese(p) ELSE OneCheese(p)
    <3> HIDE DEF p
    <3>1. CASE cheese = 0
      BY <1>1, <1>2, <2>1, <3>1 DEF NoCheese, PizzasRight
    <3>2. CASE cheese # 0
      <4>1. PICK k \in DOMAIN pizza :
              \A j \in DOMAIN pizza : pizza[j] = IF j = k THEN "C" ELSE "H"
        BY <3>2 DEF PizzasRight, OneCheese
      <4>2. \A j \in DOMAIN p : p[j] = IF j = k THEN "C" ELSE "H"
        BY <1>1, <1>2, <2>1, <4>1
      <4> QED BY <1>1, <1>2, <3>2, <4>1, <4>2 DEF OneCheese
    <3> QED BY <3>1, <3>2
  <2> QED BY <1>1, <1>2, <1>4, <2>1, <2>2
<1> QED BY <1>3, <1>4

\* The checker's sum accepts what the cooks make.
LEMMA GoodPizza == ASSUME NEW p \in Seq({"C", "H"}), Len(p) = 3, OneCheese(p)
                   PROVE  Good(p)
<1>1. PICK k \in 1 .. 3 : \A j \in 1 .. 3 : p[j] = IF j = k THEN "C" ELSE "H"
  BY DEF OneCheese
<1>2. k = 1 \/ k = 2 \/ k = 3
  OBVIOUS
<1> QED BY <1>1, <1>2 DEF Good, Code

-----------------------------------------------------------------------------
(***************************************************************************)
(* Every step preserves it                                                 *)
(***************************************************************************)

LEMMA PutElementStep == ASSUME IInv, NEW t \in Cook, PutElement(t) PROVE IInv'
<1> USE DEF IInv
<1>1. /\ UNCHANGED <<numPizzas, countChecked, ans, created, process, spurious>>
      /\ process = "running" /\ th[t] # "done" /\ t \in Thread
      /\ th \in [Thread -> {"new", "call", "waiting", "woken", "done"}]
      /\ numPizzas \in Int /\ countMade \in Nat /\ countChecked \in Nat
  BY PizzaAssumption DEF PutElement, Ready, mvars, Cook, Thread, TypeOK
<1>2. ASSUME UNCHANGED pvars,
             NEW v \in {"waiting", "done", "call"}, th' = [th EXCEPT ![t] = v],
             v = "waiting" => NoSpace(t) /\ countMade < numPizzas,
             v = "done" => countMade = numPizzas
      PROVE  IInv'
  <2>1. UNCHANGED <<pizza, cheese, ham, q, size, countMade>>
    BY <1>2 DEF pvars
  <2>2. TypeOK'
    BY <1>1, <1>2, <2>1 DEF TypeOK
  <2>3. PizzasRight' /\ Counts'
    BY <1>1, <2>1 DEF PizzasRight, Counts, NoCheese, OneCheese
  <2>4. NoLostWakeup'
    BY <1>1, <1>2, <2>1 DEF NoLostWakeup, NoSpace, Cook, Checker
  <2>5. EndInv'
    BY <1>1, <1>2, <2>1 DEF EndInv, Cook, Checker, Thread
  <2> QED BY <2>2, <2>3, <2>4, <2>5
<1>3. CASE countMade >= numPizzas /\ th' = Return(th, t, countMade) /\ UNCHANGED pvars
  BY <1>1, <1>2, <1>3 DEF Return
<1>4. CASE /\ countMade < numPizzas /\ NoSpace(t)
           /\ th' = [th EXCEPT ![t] = "waiting"] /\ UNCHANGED pvars
  BY <1>2, <1>4
<1>5. CASE countMade < numPizzas /\ ~NoSpace(t) /\ AddLetter(t)
  <2> DEFINE p == Append(pizza, Letter(t))
             c == IF t = 0 THEN cheese + 1 ELSE cheese
             h == IF t = 0 THEN ham ELSE ham + 1
  <2>1. /\ p \in Seq({"C", "H"}) /\ Len(p) = c + h
        /\ c \in 0 .. 1 /\ h \in 0 .. 2
        /\ IF c = 0 THEN NoCheese(p) ELSE OneCheese(p)
    BY <1>5, LetterStep
  <2> HIDE DEF p, c, h
  <2>2. CASE /\ ~(c = 1 /\ h = 2)
             /\ pizza' = p /\ cheese' = c /\ ham' = h
             /\ th' = Return(th, t, countMade)
             /\ UNCHANGED <<q, size, countMade>>
    <3>1. th' = [th EXCEPT ![t] = "call"]
      <4>1. countMade # numPizzas
        BY <1>1, <1>5
      <4> QED BY <2>2, <4>1 DEF Return
    <3>2. TypeOK'
      BY <1>1, <2>1, <2>2, <3>1 DEF TypeOK
    <3>3. PizzasRight'
      BY <1>1, <2>1, <2>2 DEF PizzasRight, NoCheese, OneCheese
    <3>4. Counts'
      BY <1>1, <2>2 DEF Counts
    <3>5. NoLostWakeup'
      <4>1. \A s \in Cook : th'[s] = "waiting" => NoSpace(s) /\ th[s] = "waiting"
        BY <1>1, <3>1 DEF NoLostWakeup, Cook
      <4>2. (cheese = 1 => cheese' = 1) /\ (ham = 2 => ham' = 2)
        BY <1>5, <2>2 DEF c, h, NoSpace, TypeOK
      <4> QED BY <1>1, <2>2, <3>1, <4>1, <4>2 DEF NoLostWakeup, NoSpace, Cook, Checker
    <3>6. EndInv'
      BY <1>1, <1>5, <2>2, <3>1 DEF EndInv, Cook, Checker, Thread
    <3> QED BY <3>2, <3>3, <3>4, <3>5, <3>6
  <2>3. CASE /\ c = 1 /\ h = 2
             /\ countMade' = countMade + 1
             /\ size' = IF Len(q) >= size THEN size + QChunk ELSE size
             /\ q' = Append(q, p)
             /\ newPizza
             /\ th' = Return(Broadcast(th), t, countMade + 1)
    <3>1. /\ th' \in [Thread -> {"new", "call", "waiting", "woken", "done"}]
          /\ \A s \in Thread : th'[s] # "waiting"
          /\ \A s \in Thread : s # t /\ th'[s] = "done" => th[s] = "done"
          /\ th'[t] = "done" => countMade' = numPizzas
      BY <1>1, <2>3 DEF Return, Broadcast
    <3>2. /\ q' \in Seq(Seq({"C", "H"})) /\ Len(q') = Len(q) + 1
          /\ q'[Len(q) + 1] = p /\ \A n \in 1 .. Len(q) : q'[n] = q[n]
          /\ q \in Seq(Seq({"C", "H"})) /\ Len(q) = countMade
          /\ size \in Nat /\ Len(q) <= size
      BY <2>1, <2>3 DEF TypeOK, Counts
    <3>3. size' \in Nat /\ Len(q') <= size'
      BY <2>3, <3>2, PizzaAssumption
    <3>4. pizza' = <<>> /\ cheese' = 0 /\ ham' = 0 /\ countMade' \in Nat
      BY <1>1, <2>3 DEF newPizza
    <3>5. TypeOK'
      BY <1>1, <3>1, <3>2, <3>3, <3>4 DEF TypeOK
    <3>6. PizzasRight'
      <4>1. NoCheese(pizza')
        BY <3>4 DEF NoCheese
      <4>2. \A n \in DOMAIN q' : Len(q'[n]) = 3 /\ OneCheese(q'[n])
        <5>1. Len(p) = 3 /\ OneCheese(p)
          BY <2>1, <2>3
        <5>2. DOMAIN q' = 1 .. Len(q) + 1 /\ DOMAIN q = 1 .. Len(q)
          BY <3>2
        <5>3. \A n \in 1 .. Len(q) : Len(q[n]) = 3 /\ OneCheese(q[n])
          BY <5>2 DEF PizzasRight
        <5> QED BY <3>2, <5>1, <5>2, <5>3
      <4> QED BY <3>4, <4>1, <4>2 DEF PizzasRight, NoCheese, OneCheese
    <3>7. Counts'
      BY <1>1, <1>5, <2>3, <3>2, <3>3 DEF Counts
    <3>8. NoLostWakeup'
      BY <3>1 DEF NoLostWakeup, Cook, Checker, Thread
    <3>9. EndInv'
      BY <1>1, <1>5, <2>3, <3>1, <3>4 DEF EndInv, Cook, Checker, Thread
    <3> QED BY <3>5, <3>6, <3>7, <3>8, <3>9
  <2> QED BY <1>5, <2>2, <2>3 DEF AddLetter, p, c, h
<1> QED BY <1>3, <1>4, <1>5 DEF PutElement

\* What the checker takes from the queue is a pizza the cooks finished.
LEMMA CheckPizzaStep == ASSUME IInv, CheckPizza PROVE IInv'
<1> USE DEF IInv
<1>1. /\ UNCHANGED <<numPizzas, pizza, cheese, ham, q, size, countMade,
                     created, process, spurious>>
      /\ process = "running" /\ th[Checker] # "done" /\ countChecked < numPizzas
      /\ th \in [Thread -> {"new", "call", "waiting", "woken", "done"}]
      /\ numPizzas \in Int /\ countMade \in Nat /\ countChecked \in Nat
      /\ q \in Seq(Seq({"C", "H"})) /\ Checker \in Thread
  BY PizzaAssumption DEF CheckPizza, Ready, pvars, mvars, Thread, Checker, TypeOK
<1>2. PizzasRight'
  BY <1>1 DEF PizzasRight, NoCheese, OneCheese
<1>3. CASE /\ countMade = countChecked /\ th' = [th EXCEPT ![Checker] = "waiting"]
           /\ UNCHANGED <<countChecked, ans>>
  <2>1. TypeOK' /\ Counts'
    BY <1>1, <1>3 DEF TypeOK, Counts
  <2>2. NoLostWakeup'
    BY <1>1, <1>3 DEF NoLostWakeup, NoSpace, Cook, Checker
  <2>3. EndInv'
    BY <1>1, <1>3 DEF EndInv, Cook, Checker, Thread
  <2> QED BY <1>2, <2>1, <2>2, <2>3
<1>4. CASE /\ countMade # countChecked
           /\ ans' = ans + IF Good(q[countChecked + 1]) THEN 0 ELSE 1
           /\ countChecked' = countChecked + 1
           /\ th' = [th EXCEPT ![Checker] = "call"]
  <2>1. countChecked + 1 \in 1 .. Len(q) /\ DOMAIN q = 1 .. Len(q)
    BY <1>1, <1>4 DEF Counts
  <2>2. /\ q[countChecked + 1] \in Seq({"C", "H"})
        /\ Len(q[countChecked + 1]) = 3 /\ OneCheese(q[countChecked + 1])
    BY <1>1, <2>1 DEF PizzasRight
  <2>3. Good(q[countChecked + 1])
    BY <2>2, GoodPizza
  <2>4. ans = 0 /\ ans' = 0
    BY <1>4, <2>3 DEF EndInv
  <2>5. TypeOK'
    BY <1>1, <1>4, <2>4 DEF TypeOK
  <2>6. Counts'
    BY <1>1, <1>4, <2>1 DEF Counts
  <2>7. NoLostWakeup'
    BY <1>1, <1>4 DEF NoLostWakeup, NoSpace, Cook, Checker
  <2>8. EndInv'
    BY <1>1, <1>4, <2>4 DEF EndInv, Cook, Checker, Thread
  <2> QED BY <1>2, <2>5, <2>6, <2>7, <2>8
<1> QED BY <1>3, <1>4 DEF CheckPizza

LEMMA CheckerEndsStep == ASSUME IInv, CheckerEnds PROVE IInv'
<1> USE DEF IInv
<1>1. /\ UNCHANGED <<numPizzas, pizza, cheese, ham, q, size, countMade, countChecked,
                     ans, created, process, spurious>>
      /\ process = "running" /\ countChecked >= numPizzas
      /\ th' = [th EXCEPT ![Checker] = "done"]
      /\ th \in [Thread -> {"new", "call", "waiting", "woken", "done"}]
      /\ Checker \in Thread
  BY DEF CheckerEnds, Ready, pvars, mvars, Thread, Checker, TypeOK
<1>2. TypeOK' /\ PizzasRight' /\ Counts'
  BY <1>1 DEF TypeOK, PizzasRight, Counts, NoCheese, OneCheese
<1>3. NoLostWakeup'
  BY <1>1 DEF NoLostWakeup, NoSpace, Cook, Checker
<1>4. EndInv'
  BY <1>1 DEF EndInv, Cook, Checker, Thread
<1> QED BY <1>2, <1>3, <1>4

LEMMA SpuriousStep == ASSUME IInv, NEW t \in Thread, Spurious(t) PROVE IInv'
<1> USE DEF IInv
<1>1. /\ UNCHANGED <<numPizzas, pizza, cheese, ham, q, size, countMade, countChecked,
                     ans, created, process>>
      /\ process = "running" /\ spurious' \in 0 .. MaxSpurious
      /\ th' = [th EXCEPT ![t] = "woken"]
      /\ th \in [Thread -> {"new", "call", "waiting", "woken", "done"}]
  BY PizzaAssumption DEF Spurious, pvars, mvars, TypeOK
<1>2. TypeOK' /\ PizzasRight' /\ Counts'
  BY <1>1 DEF TypeOK, PizzasRight, Counts, NoCheese, OneCheese
<1>3. NoLostWakeup'
  BY <1>1 DEF NoLostWakeup, NoSpace, Cook, Checker
<1>4. EndInv'
  BY <1>1 DEF EndInv, Cook, Checker, Thread
<1> QED BY <1>2, <1>3, <1>4

LEMMA MainStep == ASSUME IInv, MainNext PROVE IInv'
<1> USE DEF IInv
<1>1. /\ UNCHANGED <<numPizzas, pizza, cheese, ham, q, size, countMade, countChecked,
                     ans, spurious>>
      /\ th \in [Thread -> {"new", "call", "waiting", "woken", "done"}]
      /\ process = "running" /\ created \in 0 .. 4
  BY DEF MainNext, Create, JoinAndFree, pvars, mvars, TypeOK
<1>2. PizzasRight' /\ Counts'
  BY <1>1 DEF PizzasRight, Counts, NoCheese, OneCheese
<1>3. CASE Create
  <2>1. /\ created' \in 0 .. 4 /\ process' \in {"running", "error"}
        /\ \/ th' = [th EXCEPT ![created] = "call"]
           \/ UNCHANGED th
    BY <1>1, <1>3 DEF Create, Thread
  <2>2. TypeOK'
    BY <1>1, <2>1 DEF TypeOK
  <2>3. NoLostWakeup'
    <3>1. \A t \in Thread : th'[t] = "waiting" => th[t] = "waiting"
      BY <1>1, <2>1
    <3>2. Cook \subseteq Thread /\ Checker \in Thread
      BY DEF Cook, Thread, Checker
    <3> QED BY <1>1, <3>1, <3>2 DEF NoLostWakeup, NoSpace
  <2>4. EndInv'
    BY <1>1, <2>1 DEF EndInv, Cook, Checker, Thread
  <2> QED BY <1>2, <2>2, <2>3, <2>4
<1>4. CASE JoinAndFree
  <2>1. /\ UNCHANGED <<th, created>> /\ process' \in {"freed", "crashed"}
        /\ \A t \in Thread : th[t] = "done"
    BY <1>4 DEF JoinAndFree
  <2>2. TypeOK' /\ NoLostWakeup' /\ EndInv'
    BY <1>1, <2>1 DEF TypeOK, NoLostWakeup, NoSpace, EndInv
  <2> QED BY <1>2, <2>2
<1> QED BY <1>3, <1>4 DEF MainNext

LEMMA StepInv == IInv /\ [Next]_vars => IInv'
<1> SUFFICES ASSUME IInv, [Next]_vars PROVE IInv'
  OBVIOUS
<1>1. CASE MainNext
  BY <1>1, MainStep
<1>2. CASE CheckerNext
  BY <1>2, CheckPizzaStep, CheckerEndsStep DEF CheckerNext
<1>3. ASSUME NEW t \in Cook, CookNext(t) PROVE IInv'
  BY <1>3, PutElementStep DEF CookNext
<1>4. ASSUME NEW t \in Thread, Spurious(t) PROVE IInv'
  BY <1>4, SpuriousStep
<1>5. CASE UNCHANGED vars
  BY <1>5 DEF vars, pvars, mvars, IInv, TypeOK, PizzasRight, Counts, NoLostWakeup,
              NoSpace, NoCheese, OneCheese, EndInv
<1> QED BY <1>1, <1>2, <1>3, <1>4, <1>5 DEF Next

-----------------------------------------------------------------------------
(***************************************************************************)
(* The theorems                                                            *)
(***************************************************************************)

\* The invariant the others follow from.
THEOREM Invariance == Spec => []IInv
BY InitInv, StepInv, PTL DEF Spec

\* The monitor's variables keep their types (createHoare and every handler).
THEOREM TypeCorrect == Spec => []TypeOK
<1>1. IInv => TypeOK
  BY DEF IInv
<1> QED BY <1>1, Invariance, PTL

\* The assert of line 76 never fires and every finished pizza is one piece of
\* cheese and two of ham.
THEOREM PizzasAreRight == Spec => []PizzasRight
<1>1. IInv => PizzasRight
  BY DEF IInv
<1> QED BY <1>1, Invariance, PTL

\* The two counters, the queue and its capacity stay in step (lines 44-106).
THEOREM CountsInStep == Spec => []Counts
<1>1. IInv => Counts
  BY DEF IInv
<1> QED BY <1>1, Invariance, PTL

\* Nobody sleeps in pthread_cond_wait with nothing left to be woken by.
THEOREM WakeupsKept == Spec => []NoLostWakeup
<1>1. IInv => NoLostWakeup
  BY DEF IInv
<1> QED BY <1>1, Invariance, PTL

\* When main has joined the threads, exactly the pizzas ordered were made and
\* checked, none of them bad.
THEOREM AllMade == Spec => []AllDone
<1>1. IInv => AllDone
  <2> SUFFICES ASSUME IInv, process \in {"freed", "crashed"}
               PROVE  /\ ans = 0 /\ pizza = <<>> /\ countChecked = countMade
                      /\ countMade = IF numPizzas < 0 THEN 0 ELSE numPizzas
    BY DEF AllDone
  <2>1. \A t \in Thread : th[t] = "done"
    BY DEF IInv, EndInv
  <2>2. countMade = numPizzas /\ countChecked >= numPizzas /\ ans = 0
    BY <2>1 DEF IInv, EndInv, Cook, Thread, Checker
  <2>3. countMade \in Nat /\ countChecked \in Nat /\ countChecked <= countMade
    BY DEF IInv, TypeOK, Counts
  <2>4. pizza = <<>>
    BY <2>2, <2>3 DEF IInv, EndInv
  <2> QED BY <2>2, <2>3, <2>4
<1> QED BY <1>1, Invariance, PTL

-----------------------------------------------------------------------------
(***************************************************************************)
(* Freeing the queue                                                       *)
(***************************************************************************)

\* The queue grows by QChunk, and only when it is full, and the process crashes
\* only over slots that nobody used.
GrowInv == /\ \E k \in Nat : /\ size = (k + 1) * QChunk
                             /\ k = 0 \/ k * QChunk < Len(q)
           /\ process = "crashed" => size > QChunk /\ Len(q) < size

\* A number strictly between two neighbouring multiples is none itself.
LEMMA BetweenMultiples ==
  ASSUME NEW c \in Nat \ {0}, NEW k \in Nat, NEW n \in Nat,
         k * c < n, n < (k + 1) * c
  PROVE  n % c # 0
<1> SUFFICES ASSUME n % c = 0 PROVE FALSE
  OBVIOUS
<1> DEFINE m == n \div c
<1>1. m \in Nat /\ n = (c * m) + (n % c)
  OBVIOUS
<1>2. n = c * m
  <2> HIDE DEF m
  <2> QED BY <1>1
<1> HIDE DEF m
<1>3. CASE m <= k
  <2>1. c * m <= c * k
    BY <1>1, <1>3
  <2> QED BY <1>1, <1>2, <2>1
<1>4. CASE m >= k + 1
  <2>1. c * m >= c * (k + 1)
    BY <1>1, <1>4
  <2> QED BY <1>1, <1>2, <2>1
<1> QED BY <1>1, <1>3, <1>4

LEMMA GrowStep == ASSUME IInv, GrowInv, [Next]_vars PROVE GrowInv'
<1> USE DEF GrowInv
<1>1. /\ size \in Nat /\ q \in Seq(Seq({"C", "H"})) /\ pizza \in Seq({"C", "H"})
      /\ Len(q) <= size /\ QChunk \in Nat \ {0}
  BY PizzaAssumption DEF IInv, TypeOK, Counts
<1>2. CASE UNCHANGED <<q, size, process>>
  BY <1>2
<1>3. CASE JoinAndFree
  BY <1>3 DEF JoinAndFree, pvars
<1>4. ASSUME NEW t \in Cook, PutElement(t), ~UNCHANGED <<q, size>>
      PROVE  GrowInv'
  <2>1. /\ process = "running" /\ process' = process
        /\ size' = IF Len(q) >= size THEN size + QChunk ELSE size
        /\ q' = Append(q, Append(pizza, Letter(t)))
    BY <1>4 DEF PutElement, Ready, AddLetter, pvars, mvars
  <2>2. Len(q') = Len(q) + 1 /\ Len(q) \in Nat
    BY <1>1, <2>1
  <2>3. PICK k \in Nat : size = (k + 1) * QChunk /\ (k = 0 \/ k * QChunk < Len(q))
    OBVIOUS
  <2>4. CASE Len(q) < size
    BY <1>1, <2>1, <2>2, <2>3, <2>4
  <2>5. CASE Len(q) >= size
    <3>1. (k + 1) * QChunk < Len(q')
      BY <1>1, <2>2, <2>3, <2>5
    <3>2. size' = (k + 1 + 1) * QChunk /\ k + 1 \in Nat
      <4>1. size' = size + QChunk
        BY <2>1, <2>5
      <4>2. (k + 1 + 1) * QChunk = (k + 1) * QChunk + QChunk /\ k + 1 \in Nat
        BY <1>1, <2>3
      <4> QED BY <2>3, <4>1, <4>2
    <3> QED BY <2>1, <3>1, <3>2
  <2> QED BY <1>1, <2>2, <2>4, <2>5
<1>5. CASE Create \/ CheckerNext \/ \E t \in Thread : Spurious(t)
  BY <1>2, <1>5 DEF Create, CheckerNext, CheckPizza, CheckerEnds, Spurious, Ready, pvars, mvars
<1>6. CASE UNCHANGED vars
  BY <1>2, <1>6 DEF vars, pvars, mvars
<1>7. ASSUME NEW t \in Cook, PutElement(t) PROVE UNCHANGED process
  BY <1>7 DEF PutElement, mvars
<1> QED BY <1>2, <1>3, <1>4, <1>5, <1>6, <1>7 DEF Next, MainNext, CookNext

\* freeMonitor can only crash when the queue grew and its last chunk is not
\* full: for orders that fit the first chunk, or end with a chunk, it is safe.
THEOREM FreeingIsSafe == Spec => []FreeIsSafe
<1>1. Init => GrowInv
  <2> SUFFICES ASSUME Init PROVE GrowInv
    OBVIOUS
  <2>1. size = (0 + 1) * QChunk /\ process = "running"
    BY PizzaAssumption DEF Init
  <2> QED BY <2>1 DEF GrowInv
<1>2. IInv /\ GrowInv => FreeIsSafe
  <2> SUFFICES ASSUME IInv, GrowInv, process = "crashed"
               PROVE  numPizzas > QChunk /\ numPizzas % QChunk # 0
    BY DEF FreeIsSafe
  <2>1. \A t \in Thread : th[t] = "done"
    BY DEF IInv, EndInv
  <2>2. countMade = numPizzas /\ countMade = Len(q) /\ countMade \in Nat
    BY <2>1 DEF IInv, EndInv, TypeOK, Counts, Cook, Thread
  <2>3. PICK k \in Nat : size = (k + 1) * QChunk /\ (k = 0 \/ k * QChunk < Len(q))
    BY DEF GrowInv
  <2>4. size > QChunk /\ Len(q) < size /\ QChunk \in Nat \ {0}
    BY PizzaAssumption DEF GrowInv
  <2>5. k # 0
    BY <2>3, <2>4
  <2>6. k * QChunk < numPizzas /\ numPizzas < (k + 1) * QChunk
    BY <2>2, <2>3, <2>4, <2>5
  <2>7. k * QChunk >= QChunk
    BY <2>3, <2>4, <2>5
  <2>8. k * QChunk \in Nat /\ numPizzas \in Nat
    BY <2>2, <2>3, <2>4
  <2>9. numPizzas % QChunk # 0
    <3>1. QChunk \in Nat \ {0}
      BY <2>4
    <3> QED BY <2>3, <2>6, <2>8, <3>1, BetweenMultiples, Zenon
  <2>10. numPizzas > QChunk
    BY <2>4, <2>6, <2>7, <2>8
  <2> QED BY <2>9, <2>10
<1>3. IInv /\ GrowInv /\ [Next]_vars => GrowInv'
  BY GrowStep
<1> QED BY <1>1, <1>2, <1>3, Invariance, PTL DEF Spec
=============================================================================
