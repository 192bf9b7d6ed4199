---------------------------- MODULE SignalsProofs ----------------------------
(***************************************************************************)
(* The parent has the file up to a bit, and writes it whole or fails, for  *)
(* chars, buffers and files of every size.                                 *)
(***************************************************************************)
EXTENDS Signals, SequenceTheorems, TLAPS

(***************************************************************************)
(* The inductive invariant                                                 *)
(***************************************************************************)

Whole(n) == n % BITS = 0      \* n bits are whole chars

\* The bits the parent has, written or not.
Body == IF parent \in {"shift", "exited"} THEN out ELSE out \o buffer
Received == Body \o symbol

\* What is written and what is buffered are chars, and the buffer has room for
\* one more until WRITE is due.
BufferInv ==
  /\ Whole(Len(out)) /\ Whole(Len(buffer))
  /\ parent \notin {"write", "shift"} \cup ParentEnds => Len(buffer) < BUFFSIZE * BITS

\* The child alone: it sends whole chars of what it has read.
ChildInv ==
  /\ have <= Len(file) /\ Whole(have)
  /\ child \in {"unborn", "open"} => have = 0 /\ pos = 0
  /\ child \in {"read", "ready", "acked", "last", "done", "exited"} => Whole(pos)
  /\ child = "read" => pos = have
  /\ child \in {"last", "done", "exited"} => pos = have /\ have = Len(file)
  /\ child \in {"acked", "send"} => pos < have
  /\ child = "sent" => pos > 0

\* SIGCHLD, and what ends the parent but an alarm, come behind the child's end.
EndInv ==
  /\ sigchld => child \in ChildEnds
  /\ child = "unborn" => parent \in {"fork", "failed"}
  /\ parent \in {"exited", "failed"} => child \in ChildEnds \cup {"unborn"}
  /\ parent = "fork" => child = "unborn" /\ symbol = <<>> /\ buffer = <<>> /\ out = <<>>

\* No signal is on its way to the parent, or one is.
Quiet == usr = {} /\ ~ack
Signalled(sig) == usr = {sig} /\ ~ack

LastBit == IF pos = 0 THEN 0 ELSE file[pos]

\* The parent waits for the next char, or for the next bit of one.
NextChar == parent = "ready" /\ symbol = <<>>
NextBit == \/ parent = "bit" /\ symbol = <<>>
           \/ parent = "ready" /\ symbol # <<>>

\* The parent wakes between two chars and answers.
Woken == \/ parent = "go" /\ symbol = <<>> /\ Quiet
         \/ parent = "bit" /\ symbol = <<>> /\ usr = {} /\ ack

\* The bit in flight: sent, taken, stored, answered.
InFlight == \/ NextBit /\ Signalled(file[pos]) /\ Len(Received) = pos - 1
            \/ parent = "store" /\ Quiet /\ bit = file[pos] /\ Len(Received) = pos - 1
            \/ /\ parent \in {"write", "shift"} /\ symbol = <<>>
               /\ Quiet /\ bit = file[pos] /\ Len(Received) = pos
            \/ parent = "ack" /\ Quiet /\ bit = file[pos] /\ Len(Received) = pos
            \/ parent = "ready" /\ usr = {} /\ ack /\ bit = file[pos] /\ Len(Received) = pos

\* Who waits for whom while both are there: one signal at a time.
HandShake ==
  child # "alarmed" /\ parent \notin ParentEnds =>
    /\ child = "unborn" => Quiet /\ bit = 0
    /\ child \notin {"unborn", "sent"} => Len(Received) = pos
    /\ child \in {"open", "read", "ready", "last", "failed"} => NextChar /\ Quiet /\ bit = LastBit
    /\ child = "acked" => (NextChar /\ Signalled(SIGUSR1)) \/ Woken
    /\ child = "send" => NextBit /\ Quiet
    /\ child = "sent" => InFlight
    /\ child \in {"done", "exited"} => \/ NextChar /\ Signalled(SIGUSR2) /\ bit = LastBit
                                       \/ Woken /\ bit = 0

InFile == child # "alarmed" => IsPrefix(Received, file)

IInv == TypeOK /\ BufferInv /\ ChildInv /\ EndInv /\ HandShake /\ InFile /\ WholeOrLastBit

-----------------------------------------------------------------------------
(***************************************************************************)
(* Lemmas                                                                  *)
(***************************************************************************)

\* Whole chars are the multiples of BITS.
LEMMA Multiples == \A n \in Nat : Whole(n) <=> \E q \in Nat : n = q * BITS
<1>1. \A k \in Nat \ {0} : \A n \in Nat : n = (n \div k) * k + (n % k) /\ n \div k \in Nat
  OBVIOUS
<1>2. \A k \in Nat \ {0} : \A q \in Nat : (q * k) % k = 0
  OBVIOUS
<1>3. BITS \in Nat \ {0}
  BY SignalsAssumption
<1> SUFFICES ASSUME NEW n \in Nat PROVE Whole(n) <=> \E q \in Nat : n = q * BITS
  OBVIOUS
<1>4. ASSUME Whole(n) PROVE \E q \in Nat : n = q * BITS
  <2>1. n = (n \div BITS) * BITS + (n % BITS) /\ n \div BITS \in Nat
    BY <1>1, <1>3
  <2> DEFINE q == n \div BITS
  <2>2. n % BITS = 0
    BY <1>4 DEF Whole
  <2>3. q \in Nat /\ n = q * BITS + 0
    BY <2>1, <2>2
  <2> HIDE DEF q
  <2>4. n = q * BITS
    BY <1>3, <2>3
  <2> QED BY <2>3, <2>4
<1>5. ASSUME NEW q \in Nat, n = q * BITS PROVE Whole(n)
  <2>1. (q * BITS) % BITS = 0
    BY <1>2, <1>3
  <2> QED BY <1>5, <2>1 DEF Whole
<1> QED BY <1>4, <1>5

LEMMA Chars ==
  /\ BITS \in Nat \ {0} /\ Whole(0)
  /\ \A n \in Nat : n * BITS \in Nat /\ Whole(n * BITS)
  /\ \A m, n \in Nat : Whole(m) /\ Whole(n) => Whole(m + n)
  /\ \A m, n \in Nat : Whole(m) /\ n < BITS => (Whole(m + n) <=> n = 0)
  /\ \A m, n \in Nat : Whole(m) /\ m < n * BITS => m + BITS <= n * BITS
  /\ \A m, n \in Nat : m <= n => m * BITS <= n * BITS
<1>1. BITS \in Nat \ {0}
  BY SignalsAssumption
<1>2. Whole(0)
  BY <1>1 DEF Whole
<1>3. \A n \in Nat : n * BITS \in Nat
  BY <1>1
<1>4. \A n \in Nat : Whole(n * BITS)
  BY <1>3, Multiples
<1>5. ASSUME NEW m \in Nat, NEW n \in Nat, Whole(m), Whole(n) PROVE Whole(m + n)
  <2>1. PICK p \in Nat : m = p * BITS
    BY <1>5, Multiples
  <2>2. PICK q \in Nat : n = q * BITS
    BY <1>5, Multiples
  <2>3. m + n = (p + q) * BITS /\ p + q \in Nat
    BY <1>1, <2>1, <2>2
  <2> QED BY <1>5, <2>3, Multiples
<1>6. ASSUME NEW m \in Nat, NEW n \in Nat, m < n PROVE m * BITS + BITS <= n * BITS
  <2>1. PICK d \in Nat : n = m + 1 + d
    <3>1. n - m - 1 \in Nat /\ n = m + 1 + (n - m - 1)
      BY <1>6
    <3> QED BY <3>1
  <2>2. n * BITS = m * BITS + BITS + d * BITS /\ d * BITS \in Nat
    BY <1>1, <2>1
  <2> QED BY <1>1, <2>2
<1>7. ASSUME NEW m \in Nat, NEW n \in Nat, m <= n PROVE m * BITS <= n * BITS
  BY <1>1, <1>6, <1>7
<1>8. ASSUME NEW m \in Nat, NEW n \in Nat, Whole(m), m < n * BITS
      PROVE  m + BITS <= n * BITS
  <2>1. PICK p \in Nat : m = p * BITS
    BY <1>8, Multiples
  <2>2. p < n
    BY <1>1, <1>7, <1>8, <2>1
  <2> QED BY <1>6, <2>1, <2>2
<1>9. ASSUME NEW m \in Nat, NEW n \in Nat, Whole(m), n < BITS
      PROVE  Whole(m + n) <=> n = 0
  <2>1. PICK p \in Nat : m = p * BITS
    BY <1>9, Multiples
  <2>2. ASSUME Whole(m + n) PROVE n = 0
    <3>1. PICK q \in Nat : m + n = q * BITS
      BY <2>2, Multiples
    <3>2. CASE p < q
      <4>1. m + BITS <= m + n
        BY <1>6, <2>1, <3>1, <3>2
      <4> QED BY <1>1, <1>9, <4>1
    <3>3. CASE q <= p
      <4>1. m + n <= m
        BY <1>7, <2>1, <3>1, <3>3
      <4> QED BY <1>1, <1>9, <4>1
    <3> QED BY <3>2, <3>3
  <2>3. n = 0 => m + n = m
    OBVIOUS
  <2> QED BY <1>9, <2>2, <2>3
<1> QED BY <1>1, <1>2, <1>3, <1>4, <1>5, <1>7, <1>8, <1>9

\* A file is a sequence of bits, and of whole chars.
LEMMA FileBits ==
  /\ <<>> \in File
  /\ \A f \in File : /\ f \in Seq({0, 1}) /\ Len(f) \in Nat
                     /\ Len(f) <= MaxFile * BITS /\ Whole(Len(f))
<1>1. MaxFile \in Nat
  BY SignalsAssumption
<1>2. <<>> \in File
  <2>1. 0 \in 0 .. MaxFile /\ 0 * BITS = 0
    BY <1>1, Chars
  <2>2. <<>> \in [1 .. 0 -> {0, 1}]
    OBVIOUS
  <2> QED BY <2>1, <2>2 DEF File
<1>3. ASSUME NEW f \in File
      PROVE  /\ f \in Seq({0, 1}) /\ Len(f) \in Nat
             /\ Len(f) <= MaxFile * BITS /\ Whole(Len(f))
  <2>1. PICK n \in 0 .. MaxFile : f \in [1 .. n * BITS -> {0, 1}]
    BY DEF File
  <2>2. n * BITS \in Nat /\ Whole(n * BITS) /\ n * BITS <= MaxFile * BITS
    BY <1>1, Chars
  <2> DEFINE len == n * BITS
  <2> HIDE DEF len
  <2>3. f \in Seq({0, 1}) /\ Len(f) = len
    BY <2>1, <2>2 DEF len
  <2> QED BY <2>2, <2>3 DEF len
<1> QED BY <1>2, <1>3

\* A prefix, bit by bit.
LEMMA PrefixBits ==
  ASSUME NEW s \in Seq({0, 1}), NEW t \in Seq({0, 1})
  PROVE  IsPrefix(s, t) <=> Len(s) <= Len(t) /\ \A n \in 1 .. Len(s) : s[n] = t[n]
<1>1. Len(s) \in Nat /\ Len(t) \in Nat
  OBVIOUS
<1>2. SubSeq(s, 1, Len(s)) = s
  BY SubSeqFull
<1>3. ASSUME Len(s) <= Len(t)
      PROVE  /\ SubSeq(t, 1, Len(s)) \in Seq({0, 1})
             /\ Len(SubSeq(t, 1, Len(s))) = Len(s)
             /\ \A n \in 1 .. Len(s) : SubSeq(t, 1, Len(s))[n] = t[n]
  BY <1>1, <1>3, SubSeqProperties
<1>4. ASSUME Len(s) <= Len(t), \A n \in 1 .. Len(s) : s[n] = t[n]
      PROVE  s = SubSeq(t, 1, Len(s))
  BY <1>3, <1>4, SeqEqual
<1> QED BY <1>2, <1>3, <1>4 DEF IsPrefix

\* The next bit of the file makes a prefix one longer; the longest is the file.
LEMMA PrefixNext ==
  ASSUME NEW s \in Seq({0, 1}), NEW t \in Seq({0, 1}), IsPrefix(s, t)
  PROVE  /\ Len(s) < Len(t) => IsPrefix(Append(s, t[Len(s) + 1]), t)
         /\ Len(s) = Len(t) => s = t
<1>1. Len(s) <= Len(t) /\ \A n \in 1 .. Len(s) : s[n] = t[n]
  BY PrefixBits
<1>2. ASSUME Len(s) < Len(t) PROVE IsPrefix(Append(s, t[Len(s) + 1]), t)
  <2> DEFINE b == t[Len(s) + 1]
             u == Append(s, b)
  <2>1. b \in {0, 1}
    BY <1>2
  <2>2. /\ u \in Seq({0, 1}) /\ Len(u) = Len(s) + 1 /\ u[Len(s) + 1] = b
        /\ \A n \in 1 .. Len(s) : u[n] = s[n]
    BY <2>1, AppendProperties
  <2>3. \A n \in 1 .. Len(u) : u[n] = t[n]
    <3> HIDE DEF u
    <3> QED BY <1>1, <2>2
  <2>4. IsPrefix(u, t)
    <3> HIDE DEF u
    <3> QED BY <1>2, <2>2, <2>3, PrefixBits
  <2> QED BY <2>4
<1>3. Len(s) = Len(t) => s = t
  BY <1>1, SeqEqual
<1> QED BY <1>2, <1>3

\* What the parent has, by its parts, and how it grows.
LEMMA ReceivedBits ==
  ASSUME TypeOK
  PROVE  /\ Body \in Seq({0, 1}) /\ Received \in Seq({0, 1}) /\ file \in Seq({0, 1})
         /\ Len(Body) \in Nat /\ Len(symbol) \in Nat /\ Len(buffer) \in Nat
         /\ Len(out) \in Nat /\ Len(file) \in Nat /\ Len(Received) = Len(Body) + Len(symbol)
         /\ symbol = <<>> <=> Len(symbol) = 0
         /\ symbol = <<>> => Received = Body
         /\ BufferInv => Whole(Len(Body))
         /\ out \o buffer \in Seq({0, 1}) /\ (out \o buffer) \o <<>> = out \o buffer
         /\ out \o <<>> = out
<1>1. /\ out \in Seq({0, 1}) /\ buffer \in Seq({0, 1}) /\ symbol \in Seq({0, 1})
      /\ file \in Seq({0, 1})
  BY FileBits DEF TypeOK
<1>2. /\ out \o buffer \in Seq({0, 1}) /\ Len(out \o buffer) = Len(out) + Len(buffer)
      /\ out \o <<>> = out /\ (out \o buffer) \o <<>> = out \o buffer
  BY <1>1, ConcatProperties, ConcatEmptySeq
<1>3. Body \in Seq({0, 1})
  BY <1>1, <1>2 DEF Body
<1>4. /\ Received \in Seq({0, 1}) /\ Len(Received) = Len(Body) + Len(symbol)
      /\ symbol = <<>> => Received = Body
  BY <1>1, <1>3, ConcatProperties, ConcatEmptySeq DEF Received
<1>5. Len(out) \in Nat /\ Len(buffer) \in Nat /\ Len(symbol) \in Nat /\ Len(file) \in Nat
      /\ Len(Body) \in Nat
  BY <1>1, <1>3, LenProperties
<1>6. symbol = <<>> <=> Len(symbol) = 0
  BY <1>1, <1>5, EmptySeq
<1>7. ASSUME BufferInv PROVE Whole(Len(Body))
  <2>1. Whole(Len(out)) /\ Whole(Len(buffer))
    BY <1>7 DEF BufferInv
  <2>2. Whole(Len(out) + Len(buffer))
    BY <1>5, <2>1, Chars
  <2> QED BY <1>2, <2>1, <2>2 DEF Body
<1> QED BY <1>1, <1>2, <1>3, <1>4, <1>5, <1>6, <1>7

LEMMA OneBitMore ==
  ASSUME NEW o \in Seq({0, 1}), NEW b \in Seq({0, 1}), NEW s \in Seq({0, 1}), NEW n \in {0, 1}
  PROVE  /\ (o \o b) \o Append(s, n) = Append((o \o b) \o s, n)
         /\ (o \o (b \o Append(s, n))) \o <<>> = Append((o \o b) \o s, n)
<1>1. /\ o \o b \in Seq({0, 1}) /\ (o \o b) \o s \in Seq({0, 1}) /\ <<n>> \in Seq({0, 1})
      /\ b \o Append(s, n) \in Seq({0, 1}) /\ Append(s, n) \in Seq({0, 1})
  BY ConcatProperties, AppendProperties
<1>2. Append(s, n) = s \o <<n>> /\ Append((o \o b) \o s, n) = ((o \o b) \o s) \o <<n>>
  BY <1>1, AppendIsConcat
<1>3. (o \o b) \o (s \o <<n>>) = ((o \o b) \o s) \o <<n>>
  BY <1>1, ConcatAssociative
<1>4. o \o (b \o Append(s, n)) = (o \o b) \o Append(s, n)
  <2> DEFINE e == Append(s, n)
  <2>1. e \in Seq({0, 1})
    BY <1>1
  <2> HIDE DEF e
  <2>2. (o \o b) \o e = o \o (b \o e)
    BY <2>1, ConcatAssociative
  <2> QED BY <2>2 DEF e
<1>5. ((o \o b) \o Append(s, n)) \o <<>> = (o \o b) \o Append(s, n)
  BY <1>1, ConcatProperties, ConcatEmptySeq
<1> QED BY <1>2, <1>3, <1>4, <1>5

-----------------------------------------------------------------------------
(***************************************************************************)
(* The invariant holds initially and is preserved by both processes        *)
(***************************************************************************)

LEMMA InitInv == Init => IInv
<1> SUFFICES ASSUME Init PROVE IInv
  OBVIOUS
<1> USE DEF Init
<1>1. /\ BITS \in Nat \ {0} /\ Whole(0) /\ BUFFSIZE * BITS \in Nat /\ BUFFSIZE * BITS > 0
      /\ MaxFile * BITS \in Nat
  BY SignalsAssumption, Chars
<1>2. file \in File
  BY FileBits
<1>3. Len(<<>>) = 0 /\ <<>> \in Seq({0, 1})
  OBVIOUS
<1>4. TypeOK
  <2>1. Len(buffer) <= BUFFSIZE * BITS /\ Len(symbol) < BITS
    BY <1>1, <1>3
  <2>2. have \in 0 .. MaxFile * BITS /\ pos \in 0 .. have
    BY <1>1
  <2>3. file \in File
    BY <1>2
  <2> QED BY <1>3, <2>1, <2>2, <2>3 DEF TypeOK
<1>5. BufferInv /\ EndInv
  BY <1>1, <1>3 DEF BufferInv, EndInv, ParentEnds, ChildEnds
<1>6. ChildInv
  BY <1>1, <1>2, FileBits DEF ChildInv
<1>7. Received = <<>>
  BY DEF Received, Body
<1>8. HandShake
  BY <1>7 DEF HandShake, Quiet
<1>9. InFile
  <2>1. Len(<<>>) <= Len(file)
    BY <1>2, <1>3, FileBits
  <2> QED BY <1>2, <1>3, <1>7, <2>1, FileBits, PrefixBits DEF InFile
<1>10. WholeOrLastBit
  BY DEF WholeOrLastBit
<1> QED BY <1>4, <1>5, <1>6, <1>8, <1>9, <1>10 DEF IInv

\* The parent's steps leave the child's part alone.
LEMMA ChildKept ==
  ASSUME ChildInv, UNCHANGED <<file, have, pos, child>>
  PROVE  ChildInv' /\ LastBit' = LastBit
BY DEF ChildInv, Whole, LastBit

\* What the parent has does not change, or not in a way that shows.
LEMMA SameBits ==
  ASSUME InFile, UNCHANGED <<file, child>>, Received' = Received
  PROVE  InFile'
BY DEF InFile

LEMMA ForkStep == ASSUME IInv, Fork PROVE IInv'
<1> USE DEF IInv
<1>1. /\ parent = "fork" /\ child = "unborn"
      /\ symbol = <<>> /\ buffer = <<>> /\ out = <<>>
      /\ Quiet /\ bit = 0 /\ have = 0 /\ pos = 0
      /\ UNCHANGED <<build, kind, file, have, pos, bit, symbol, buffer, out, usr, ack, sigchld>>
      /\ \/ parent' = "ready" /\ child' = "open"
         \/ parent' = "failed" /\ child' = "unborn"
  BY DEF Fork, ParentGo, cvars, pvars, EndInv, HandShake, ChildInv, ParentEnds
<1>2. TypeOK'
  BY <1>1 DEF TypeOK, ParentWaits, ParentEnds
<1>3. BufferInv' /\ EndInv'
  BY <1>1 DEF BufferInv, EndInv, ParentEnds, ChildEnds, Whole
<1>4. ChildInv'
  BY <1>1 DEF ChildInv, Whole
<1>5. Received' = Received /\ Received = <<>> /\ Len(<<>>) = 0
  BY <1>1 DEF Received, Body
<1>6. HandShake'
  BY <1>1, <1>5 DEF HandShake, Quiet, NextChar, LastBit, ParentEnds
<1>7. InFile' /\ WholeOrLastBit'
  BY <1>1, <1>5 DEF InFile, WholeOrLastBit
<1> QED BY <1>2, <1>3, <1>4, <1>6, <1>7

LEMMA WakeStep == ASSUME IInv, ParentWakes PROVE IInv'
<1> USE DEF IInv
<1>1. /\ parent \in {"ready", "bit"} /\ usr # {} /\ usr' = {} /\ bit' \in usr
      /\ parent' = IF parent = "ready" /\ symbol = <<>> THEN "go" ELSE "store"
      /\ UNCHANGED <<build, kind, file, have, pos, child, symbol, buffer, out, ack, sigchld>>
  BY DEF ParentWakes, Wake, ParentGo, cvars, pvars
<1>2. TypeOK'
  BY <1>1 DEF TypeOK, ParentWaits, ParentEnds, SIGUSR1, SIGUSR2
<1>3. BufferInv' /\ EndInv'
  BY <1>1 DEF BufferInv, EndInv, ParentEnds, Whole
<1>4. ChildInv' /\ LastBit' = LastBit
  BY <1>1, ChildKept
<1>5. Received' = Received
  BY <1>1 DEF Received, Body
<1>6. HandShake'
  <2> SUFFICES ASSUME child # "alarmed" PROVE HandShake'
    BY <1>1 DEF HandShake
  <2>1. parent \notin ParentEnds /\ child # "unborn"
    BY <1>1 DEF EndInv, ParentEnds
  <2>2. child \in {"acked", "sent", "done", "exited"}
    BY <1>1, <2>1 DEF HandShake, TypeOK, ChildWaits, ChildEnds, Quiet
  <2>3. CASE child = "acked"
    BY <1>1, <1>5, <2>1, <2>3 DEF HandShake, NextChar, Woken, Signalled, Quiet
  <2>4. CASE child = "sent"
    BY <1>1, <1>5, <2>1, <2>4 DEF HandShake, InFlight, NextBit, Signalled, Quiet
  <2>5. CASE child \in {"done", "exited"}
    BY <1>1, <1>5, <2>1, <2>5 DEF HandShake, NextChar, Woken, Signalled, Quiet, SIGUSR2
  <2> QED BY <2>2, <2>3, <2>4, <2>5
<1>7. InFile' /\ WholeOrLastBit'
  BY <1>1, <1>5, SameBits DEF WholeOrLastBit
<1> QED BY <1>2, <1>3, <1>4, <1>6, <1>7

LEMMA AcknowledgeStep == ASSUME IInv, Acknowledge PROVE IInv'
<1> USE DEF IInv
<1>1. /\ parent \in {"go", "ack"} /\ ack'
      /\ parent' = IF parent = "go" THEN "bit" ELSE "ready"
      /\ UNCHANGED <<build, kind, file, have, pos, child, bit, symbol, buffer, out, usr, sigchld>>
  BY DEF Acknowledge, ParentGo, cvars, pvars
<1>2. TypeOK'
  BY <1>1 DEF TypeOK, ParentWaits, ParentEnds, Acknowledge
<1>3. BufferInv' /\ EndInv'
  BY <1>1 DEF BufferInv, EndInv, ParentEnds, Whole
<1>4. ChildInv' /\ LastBit' = LastBit
  BY <1>1, ChildKept
<1>5. Received' = Received
  BY <1>1 DEF Received, Body
<1>6. HandShake'
  <2> SUFFICES ASSUME child # "alarmed" PROVE HandShake'
    BY <1>1 DEF HandShake
  <2>1. parent \notin ParentEnds /\ child # "unborn"
    BY <1>1 DEF EndInv, ParentEnds
  <2>2. child \in {"acked", "sent", "done", "exited"}
    BY <1>1, <2>1 DEF HandShake, TypeOK, ChildWaits, ChildEnds, NextChar, NextBit
  <2>3. CASE child \in {"acked", "done", "exited"}
    BY <1>1, <1>5, <2>1, <2>3 DEF HandShake, NextChar, Woken, Quiet
  <2>4. CASE child = "sent"
    BY <1>1, <1>5, <2>1, <2>4 DEF HandShake, InFlight, NextBit, Quiet
  <2> QED BY <2>2, <2>3, <2>4
<1>7. InFile' /\ WholeOrLastBit'
  BY <1>1, <1>5, SameBits DEF WholeOrLastBit
<1> QED BY <1>2, <1>3, <1>4, <1>6, <1>7

LEMMA StoreStep == ASSUME IInv, Store PROVE IInv'
<1> USE DEF IInv
<1>1. /\ parent = "store" /\ parent' \in {"ack", "write"}
      /\ UNCHANGED <<build, kind, file, have, pos, child, bit, out, usr, ack, sigchld>>
  BY DEF Store, ParentGo, cvars
<1>2. /\ bit \in {0, 1} /\ out \in Seq({0, 1}) /\ buffer \in Seq({0, 1})
      /\ symbol \in Seq({0, 1}) /\ Len(symbol) \in Nat /\ Len(buffer) \in Nat
      /\ Len(symbol) < BITS /\ Len(buffer) < BUFFSIZE * BITS
  BY <1>1, ReceivedBits DEF TypeOK, BufferInv, ParentEnds
<1> DEFINE new == Append(symbol, bit)
<1>3. new \in Seq({0, 1}) /\ Len(new) = Len(symbol) + 1 /\ BITS \in Nat \ {0}
  BY <1>2, AppendProperties, Chars
<1>4. buffer \o new \in Seq({0, 1}) /\ Len(buffer \o new) = Len(buffer) + (Len(symbol) + 1)
  <2> HIDE DEF new
  <2>1. buffer \o new \in Seq({0, 1}) /\ Len(buffer \o new) = Len(buffer) + Len(new)
    BY <1>2, <1>3, ConcatProperties
  <2> QED BY <1>2, <1>3, <2>1
<1>5. Whole(Len(buffer)) /\ Whole(Len(out)) /\ BUFFSIZE \in Nat
  BY SignalsAssumption DEF BufferInv
<1>6. Whole(Len(buffer) + BITS) /\ Len(buffer) + BITS <= BUFFSIZE * BITS
  <2>1. BITS \in Nat /\ Whole(BITS)
    BY <1>3, Chars DEF Whole
  <2> QED BY <1>2, <1>5, <2>1, Chars
<1>7. ASSUME Len(symbol) + 1 < BITS, parent' = "ack", symbol' = new, buffer' = buffer
      PROVE  /\ TypeOK' /\ BufferInv' /\ Received' = Append(Received, bit)
             /\ symbol' = <<>> \/ parent' = "ack"
  <2>1. TypeOK'
    BY <1>1, <1>2, <1>3, <1>7 DEF TypeOK, ParentWaits, ParentEnds
  <2>2. BufferInv'
    BY <1>1, <1>2, <1>7 DEF BufferInv, ParentEnds, Whole
  <2>3. Received' = Append(Received, bit)
    BY <1>1, <1>2, <1>7, OneBitMore DEF Received, Body
  <2> QED BY <1>7, <2>1, <2>2, <2>3
<1>8. ASSUME Len(symbol) + 1 = BITS, symbol' = <<>>, buffer' = buffer \o new,
             parent' = IF Len(buffer') = BUFFSIZE * BITS THEN "write" ELSE "ack"
      PROVE  /\ TypeOK' /\ BufferInv' /\ Received' = Append(Received, bit)
             /\ symbol' = <<>> \/ parent' = "ack"
  <2>1. Len(buffer') = Len(buffer) + BITS /\ buffer' \in Seq({0, 1}) /\ BUFFSIZE * BITS \in Nat
    <3>1. BUFFSIZE * BITS \in Nat
      BY <1>5, Chars
    <3> HIDE DEF new
    <3> QED BY <1>4, <1>8, <3>1
  <2>2. TypeOK'
    <3>1. Len(symbol') < BITS /\ symbol' \in Seq({0, 1})
      BY <1>3, <1>8
    <3>2. Len(buffer') <= BUFFSIZE * BITS
      BY <1>6, <2>1
    <3> QED BY <1>1, <2>1, <3>1, <3>2 DEF TypeOK, ParentWaits, ParentEnds
  <2>3. BufferInv'
    <3>1. parent' # "write" => Len(buffer') < BUFFSIZE * BITS
      <4> DEFINE full == BUFFSIZE * BITS
      <4>1. Len(buffer') <= full /\ full \in Nat /\ Len(buffer') \in Nat
        BY <1>6, <2>1
      <4>2. Len(buffer') = full => parent' = "write"
        BY <1>8
      <4> HIDE DEF full
      <4>3. parent' # "write" => Len(buffer') < full
        BY <4>1, <4>2
      <4> QED BY <4>3 DEF full
    <3> QED BY <1>1, <1>5, <1>6, <2>1, <3>1 DEF BufferInv, Whole
  <2>4. Received' = Append(Received, bit)
    <3>1. Received' = (out \o (buffer \o new)) \o <<>>
      BY <1>1, <1>8 DEF Received, Body
    <3>2. Append(Received, bit) = Append((out \o buffer) \o symbol, bit)
      BY <1>1 DEF Received, Body
    <3> QED BY <1>2, <3>1, <3>2, OneBitMore
  <2> QED BY <1>8, <2>2, <2>3, <2>4
<1>9. /\ TypeOK' /\ BufferInv' /\ Received' = Append(Received, bit)
      /\ symbol' = <<>> \/ parent' = "ack"
  BY <1>7, <1>8 DEF Store, ParentGo
<1>10. EndInv' /\ ChildInv'
  BY <1>1, ChildKept DEF EndInv
<1>11. ASSUME child # "alarmed"
       PROVE  /\ child = "sent" /\ Quiet /\ bit = file[pos]
              /\ Len(Received) = pos - 1 /\ Len(Received) < Len(file)
  <2>1. parent \notin ParentEnds /\ child # "unborn"
    BY <1>1 DEF EndInv, ParentEnds
  <2>2. child = "sent"
    BY <1>1, <1>11, <2>1 DEF HandShake, TypeOK, ChildWaits, ChildEnds, NextChar, NextBit, Woken
  <2>3. Quiet /\ bit = file[pos] /\ Len(Received) = pos - 1
    BY <1>1, <1>11, <2>1, <2>2 DEF HandShake, InFlight, NextBit
  <2>4. pos \in Nat /\ have \in Nat /\ pos <= have /\ have <= Len(file) /\ Len(file) \in Nat
    <3>1. MaxFile * BITS \in Nat
      BY SignalsAssumption, Chars
    <3> QED BY <3>1, ReceivedBits DEF TypeOK, ChildInv
  <2> QED BY <2>2, <2>3, <2>4
<1>12. Len(Received') = Len(Received) + 1 /\ Len(Received) \in Nat
  BY <1>2, <1>9, ReceivedBits, AppendProperties
<1>13. HandShake'
  <2> SUFFICES ASSUME child # "alarmed" PROVE HandShake'
    BY <1>1 DEF HandShake
  <2>1. pos \in Int
    BY DEF TypeOK
  <2>2. Len(Received') = pos
    BY <1>11, <1>12, <2>1
  <2>3. InFlight'
    BY <1>1, <1>9, <1>11, <2>2 DEF InFlight, Quiet
  <2> QED BY <1>1, <1>11, <2>3 DEF HandShake
<1>14. InFile'
  <2> SUFFICES ASSUME child # "alarmed" PROVE IsPrefix(Received, file)'
    BY <1>1 DEF InFile
  <2>1. IsPrefix(Received, file) /\ Received \in Seq({0, 1}) /\ file \in Seq({0, 1})
    BY ReceivedBits DEF InFile
  <2>2. bit = file[Len(Received) + 1]
    <3>1. pos \in Int
      BY DEF TypeOK
    <3>2. Len(Received) + 1 = pos
      BY <1>11, <3>1
    <3> QED BY <1>11, <3>2
  <2>3. IsPrefix(Append(Received, bit), file)
    BY <1>11, <2>1, <2>2, PrefixNext
  <2> QED BY <1>1, <1>9, <2>3
<1>15. WholeOrLastBit'
  BY <1>1 DEF WholeOrLastBit
<1> QED BY <1>9, <1>10, <1>13, <1>14, <1>15

LEMMA WriteStep == ASSUME IInv, Write PROVE IInv'
<1> USE DEF IInv
<1>1. /\ parent = "write" /\ parent' = "shift" /\ out' = out \o buffer
      /\ UNCHANGED <<build, kind, file, have, pos, child, bit, symbol, buffer, usr, ack, sigchld>>
  BY DEF Write, ParentGo, cvars
<1>2. TypeOK'
  BY <1>1, ReceivedBits DEF TypeOK, ParentWaits, ParentEnds
<1>3. Whole(Len(out'))
  BY <1>1, ReceivedBits DEF Body
<1>4. BufferInv' /\ EndInv'
  BY <1>1, <1>3 DEF BufferInv, EndInv, ParentEnds, Whole
<1>5. ChildInv'
  BY <1>1, ChildKept
<1>6. Received' = Received
  BY <1>1 DEF Received, Body
<1>7. HandShake'
  BY <1>1, <1>6 DEF HandShake, ParentEnds, EndInv, NextChar, NextBit, Woken, InFlight, Quiet,
                    TypeOK, ChildWaits, ChildEnds
<1>8. InFile' /\ WholeOrLastBit'
  BY <1>1, <1>6, SameBits DEF WholeOrLastBit
<1> QED BY <1>2, <1>4, <1>5, <1>7, <1>8

LEMMA ShiftStep == ASSUME IInv, Shift PROVE IInv'
<1> USE DEF IInv
<1>1. /\ parent = "shift" /\ parent' = "ack" /\ buffer' = <<>>
      /\ UNCHANGED <<build, kind, file, have, pos, child, bit, symbol, out, usr, ack, sigchld>>
  BY DEF Shift, ParentGo, cvars
<1>2. BUFFSIZE * BITS \in Nat /\ BUFFSIZE * BITS > 0 /\ Whole(0) /\ Len(<<>>) = 0
  BY SignalsAssumption, Chars
<1>3. TypeOK'
  BY <1>1, <1>2 DEF TypeOK, ParentWaits, ParentEnds
<1>4. BufferInv' /\ EndInv'
  BY <1>1, <1>2 DEF BufferInv, EndInv, ParentEnds, Whole
<1>5. ChildInv'
  BY <1>1, ChildKept
<1>6. Received' = Received
  BY <1>1, ReceivedBits DEF Received, Body
<1>7. HandShake'
  BY <1>1, <1>6 DEF HandShake, ParentEnds, EndInv, NextChar, NextBit, Woken, InFlight, Quiet,
                    TypeOK, ChildWaits, ChildEnds
<1>8. InFile' /\ WholeOrLastBit'
  BY <1>1, <1>6, SameBits DEF WholeOrLastBit
<1> QED BY <1>3, <1>4, <1>5, <1>7, <1>8

\* SIGCHLD comes when the child has ended, and then the parent waits, or is on
\* its way to wait, with whole chars in its buffer.
LEMMA ChildHandlerStep == ASSUME IInv, ChildHandler PROVE IInv'
<1> USE DEF IInv
<1>1. /\ parent \notin ParentEnds /\ child \in ChildEnds /\ sigchld' = FALSE
      /\ UNCHANGED <<build, kind, file, have, pos, child, bit, symbol, buffer, usr, ack>>
      /\ \/ bit = 0 /\ parent' = "exited" /\ out' = out \o buffer
         \/ bit # 0 /\ parent' = "failed" /\ out' = out
  BY DEF ChildHandler, ParentGo, cvars, EndInv
<1>2. TypeOK'
  BY <1>1, ReceivedBits DEF TypeOK, ParentWaits, ParentEnds
<1>3. Whole(Len(out'))
  <2>1. CASE parent' = "failed"
    BY <1>1, <2>1 DEF BufferInv
  <2>2. CASE out' = out \o buffer
    <3>1. Len(out \o buffer) = Len(out) + Len(buffer) /\ Len(out) \in Nat /\ Len(buffer) \in Nat
      BY ReceivedBits DEF TypeOK
    <3>2. Whole(Len(out) + Len(buffer))
      BY <3>1, Chars DEF BufferInv
    <3> QED BY <2>2, <3>1, <3>2
  <2> QED BY <1>1, <2>1, <2>2
<1>4. BufferInv' /\ EndInv' /\ HandShake'
  BY <1>1, <1>3 DEF BufferInv, EndInv, HandShake, ParentEnds, ChildEnds, Whole
<1>5. ChildInv'
  BY <1>1, ChildKept
<1>6. ASSUME child # "alarmed"
      PROVE  Received' = Received /\ Len(Received) = pos /\ symbol = <<>>
  <2>1. parent \in {"ready", "go", "bit"} /\ Len(Received) = pos /\ symbol = <<>>
    BY <1>1, <1>6 DEF HandShake, ChildEnds, NextChar, Woken
  <2> QED BY <1>1, <2>1 DEF Received, Body
<1>7. InFile'
  BY <1>1, <1>6, SameBits DEF InFile
<1>8. WholeOrLastBit'
  <2> SUFFICES ASSUME child = "exited"
               PROVE  /\ parent' = "exited" => out' = file
                      /\ parent' = "failed" => file # <<>> /\ file[Len(file)] = 1
    BY <1>1 DEF WholeOrLastBit
  <2>1. /\ Received = file /\ pos = Len(file) /\ file \in Seq({0, 1}) /\ Len(file) \in Nat
    <3>1. pos = Len(file) /\ Len(Received) = pos
      BY <1>6 DEF ChildInv
    <3>2. IsPrefix(Received, file) /\ Received \in Seq({0, 1}) /\ file \in Seq({0, 1})
      BY ReceivedBits DEF InFile
    <3> QED BY <3>1, <3>2, PrefixNext, ReceivedBits
  <2>2. ASSUME parent' = "exited" PROVE out' = file
    <3>1. parent' = "exited" /\ out' = out \o buffer
      BY <1>1, <2>2
    <3>2. parent # "shift" /\ parent # "exited" /\ Received = Body
      BY <1>1, <1>6, ReceivedBits DEF HandShake, ParentEnds, NextChar, Woken
    <3> QED BY <2>1, <3>1, <3>2 DEF Body
  <2>3. ASSUME parent' = "failed" PROVE file # <<>> /\ file[Len(file)] = 1
    <3>1. bit # 0
      BY <1>1, <2>3
    <3>2. bit = LastBit
      BY <1>1, <3>1 DEF HandShake
    <3>3. pos # 0 /\ file[pos] # 0
      BY <3>1, <3>2 DEF LastBit
    <3>4. file[pos] \in {0, 1}
      BY <2>1, <3>3, ElementOfSeq
    <3> QED BY <2>1, <3>3, <3>4
  <2> QED BY <2>2, <2>3
<1> QED BY <1>2, <1>4, <1>5, <1>7, <1>8

LEMMA ParentTimeoutStep == ASSUME IInv, ParentTimeout PROVE IInv'
<1> USE DEF IInv
<1>1. /\ parent \in {"ready", "bit"} /\ parent' = "alarmed"
      /\ UNCHANGED <<build, kind, file, have, pos, child, bit, symbol, buffer, out, usr, ack,
                     sigchld>>
  BY DEF ParentTimeout, ParentGo, ParentWaits, cvars, pvars
<1>2. TypeOK'
  BY <1>1 DEF TypeOK, ParentWaits, ParentEnds
<1>3. BufferInv' /\ EndInv' /\ HandShake'
  BY <1>1 DEF BufferInv, EndInv, HandShake, ParentEnds, Whole
<1>4. ChildInv'
  BY <1>1, ChildKept
<1>5. Received' = Received
  BY <1>1 DEF Received, Body
<1>6. InFile' /\ WholeOrLastBit'
  BY <1>1, <1>5, SameBits DEF WholeOrLastBit
<1> QED BY <1>2, <1>3, <1>4, <1>6

LEMMA ParentStep == ASSUME IInv, ParentNext \/ ParentTimeout PROVE IInv'
BY ForkStep, WakeStep, AcknowledgeStep, StoreStep, WriteStep, ShiftStep, ChildHandlerStep,
   ParentTimeoutStep DEF ParentNext

\* The child's steps leave the parent's part alone; and while the child is
\* there, nothing but an alarm can have ended the parent.
LEMMA ChildFrame ==
  ASSUME IInv, NEW from, NEW to, ChildGo(from, to),
         from \notin ChildEnds \cup {"unborn"}, to # "unborn"
  PROVE  /\ child = from /\ child' = to /\ sigchld' = (to \in ChildEnds)
         /\ UNCHANGED <<build, kind, file, parent, bit, symbol, buffer, out>>
         /\ Received' = Received /\ parent \notin {"fork", "exited", "failed"}
         /\ BufferInv' /\ EndInv' /\ InFile' /\ WholeOrLastBit'
<1> USE DEF IInv
<1>1. /\ child = from /\ child' = to /\ sigchld' = (to \in ChildEnds)
      /\ UNCHANGED <<build, kind, file, parent, bit, symbol, buffer, out>>
  BY DEF ChildGo, pvars
<1>2. Received' = Received /\ parent \notin {"fork", "exited", "failed"}
  BY <1>1 DEF Received, Body, EndInv
<1>3. BufferInv' /\ EndInv'
  BY <1>1, <1>2 DEF BufferInv, EndInv, ParentEnds, Whole
<1>4. InFile'
  BY <1>1, <1>2 DEF InFile, ChildEnds
<1>5. WholeOrLastBit'
  BY <1>1, <1>2 DEF WholeOrLastBit
<1> QED BY <1>1, <1>2, <1>3, <1>4, <1>5

LEMMA Numbers ==
  ASSUME TypeOK, ChildInv
  PROVE  /\ MaxFile * BITS \in Nat /\ have \in Nat /\ pos \in Nat /\ pos <= have
         /\ have <= Len(file) /\ Len(file) \in Nat /\ Len(file) <= MaxFile * BITS
         /\ Whole(Len(file)) /\ \A n \in 1 .. Len(file) : file[n] \in {0, 1}
<1>1. MaxFile * BITS \in Nat
  BY SignalsAssumption, Chars
<1>2. file \in File /\ have \in 0 .. MaxFile * BITS /\ pos \in 0 .. have
  BY DEF TypeOK
<1>3. file \in Seq({0, 1}) /\ Len(file) \in Nat /\ Len(file) <= MaxFile * BITS /\ Whole(Len(file))
  BY <1>2, FileBits
<1>4. have \in Nat /\ pos \in Nat /\ pos <= have
  BY <1>1, <1>2
<1>5. \A n \in 1 .. Len(file) : file[n] \in {0, 1}
  BY <1>3, ElementOfSeq
<1> QED BY <1>1, <1>3, <1>4, <1>5 DEF ChildInv

LEMMA OpenStep == ASSUME IInv, Open PROVE IInv'
<1> USE DEF IInv
<1> DEFINE to == IF Opened THEN "read" ELSE "failed"
<1>1. ChildGo("open", to) /\ UNCHANGED <<have, pos, usr, ack>>
  BY DEF Open, cvars
<1>2. to \in {"read", "failed"}
  OBVIOUS
<1> HIDE DEF to
<1>3. /\ child = "open" /\ child' = to /\ sigchld' = (to \in ChildEnds)
      /\ UNCHANGED <<build, kind, file, parent, bit, symbol, buffer, out>>
      /\ Received' = Received /\ BufferInv' /\ EndInv' /\ InFile' /\ WholeOrLastBit'
  BY <1>1, <1>2, ChildFrame DEF ChildEnds
<1>4. TypeOK'
  BY <1>1, <1>2, <1>3 DEF TypeOK, ChildEnds, ChildWaits
<1>5. ChildInv'
  BY <1>1, <1>2, <1>3, Chars DEF ChildInv, Whole
<1>6. HandShake'
  BY <1>1, <1>2, <1>3 DEF HandShake, NextChar, Quiet, LastBit
<1> QED BY <1>3, <1>4, <1>5, <1>6

LEMMA ReadStep == ASSUME IInv, Read PROVE IInv'
<1> USE DEF IInv
<1>1. PICK to \in {"ready", "last"} :
        /\ ChildGo("read", to) /\ UNCHANGED <<pos, usr, ack>>
        /\ \/ /\ to = "ready" /\ have < Len(file)
              /\ have' = IF have + BUFFSIZE * BITS < Len(file)
                         THEN have + BUFFSIZE * BITS ELSE Len(file)
           \/ to = "last" /\ have = Len(file) /\ have' = have
  BY DEF Read
<1>2. /\ child = "read" /\ child' = to /\ sigchld' = (to \in ChildEnds)
      /\ UNCHANGED <<build, kind, file, parent, bit, symbol, buffer, out>>
      /\ Received' = Received /\ BufferInv' /\ EndInv' /\ InFile' /\ WholeOrLastBit'
  BY <1>1, ChildFrame DEF ChildEnds
<1>3. /\ have \in Nat /\ pos = have /\ Len(file) \in Nat /\ Len(file) <= MaxFile * BITS
      /\ Whole(have) /\ Whole(Len(file)) /\ MaxFile * BITS \in Nat
  BY <1>2, Numbers DEF ChildInv
<1>4. have' \in Nat /\ have <= have' /\ have' <= Len(file) /\ Whole(have')
  <2>1. BUFFSIZE * BITS \in Nat /\ Whole(BUFFSIZE * BITS)
    BY SignalsAssumption, Chars
  <2> DEFINE size == BUFFSIZE * BITS
  <2>2. Whole(have + size)
    BY <1>3, <2>1, Chars
  <2> HIDE DEF size
  <2>3. have' \in {have, have + size, Len(file)} /\ have <= have' /\ have' <= Len(file)
    BY <1>1, <1>3, <2>1 DEF size
  <2> QED BY <1>3, <2>1, <2>2, <2>3 DEF size
<1>5. TypeOK'
  <2>1. have' \in 0 .. MaxFile * BITS /\ pos' \in 0 .. have'
    BY <1>1, <1>3, <1>4
  <2> QED BY <1>1, <1>2, <2>1 DEF TypeOK, ChildEnds, ChildWaits
<1>6. ChildInv'
  BY <1>1, <1>2, <1>3, <1>4 DEF ChildInv, Whole
<1>7. HandShake'
  BY <1>1, <1>2 DEF HandShake, NextChar, Quiet, LastBit
<1> QED BY <1>2, <1>5, <1>6, <1>7

LEMMA RefillStep == ASSUME IInv, Refill PROVE IInv'
<1> USE DEF IInv
<1>1. ChildGo("ready", "read") /\ pos = have /\ UNCHANGED <<have, pos, usr, ack>>
  BY DEF Refill, cvars
<1>2. /\ child = "ready" /\ child' = "read" /\ sigchld' = ("read" \in ChildEnds)
      /\ UNCHANGED <<build, kind, file, parent, bit, symbol, buffer, out>>
      /\ Received' = Received /\ BufferInv' /\ EndInv' /\ InFile' /\ WholeOrLastBit'
  BY <1>1, ChildFrame DEF ChildEnds
<1>3. TypeOK'
  BY <1>1, <1>2 DEF TypeOK, ChildEnds, ChildWaits
<1>4. ChildInv'
  BY <1>1, <1>2 DEF ChildInv, Whole
<1>5. HandShake'
  BY <1>1, <1>2 DEF HandShake, NextChar, Quiet, LastBit
<1> QED BY <1>2, <1>3, <1>4, <1>5

\* A kill reaches the parent, or its number is gone and the child exits.
LEMMA KillStep ==
  ASSUME IInv, NEW sig \in {0, 1}, NEW from, NEW to, Kill(sig, from, to),
         from \notin ChildEnds \cup {"unborn"}, to \in {"acked", "sent", "done"}
  PROVE  /\ child = from /\ child' \in {to, "failed"} /\ sigchld' \in BOOLEAN
         /\ child' = "failed" => parent \in ParentEnds
         /\ UNCHANGED <<build, kind, file, parent, bit, symbol, buffer, out, have, ack>>
         /\ usr' = usr \cup {sig} /\ usr' \subseteq {SIGUSR1, SIGUSR2}
         /\ Received' = Received /\ BufferInv' /\ EndInv' /\ InFile' /\ WholeOrLastBit'
<1>1. PICK next \in {to, "failed"} :
        /\ ChildGo(from, next) /\ usr' = usr \cup {sig} /\ UNCHANGED <<have, ack>>
        /\ next = "failed" => parent \in ParentEnds
  BY DEF Kill
<1>2. next # "unborn"
  BY <1>1
<1>3. /\ child = from /\ child' = next /\ sigchld' = (next \in ChildEnds)
      /\ UNCHANGED <<build, kind, file, parent, bit, symbol, buffer, out>>
      /\ Received' = Received /\ BufferInv' /\ EndInv' /\ InFile' /\ WholeOrLastBit'
  BY <1>1, <1>2, ChildFrame
<1>4. usr' \subseteq {SIGUSR1, SIGUSR2}
  BY <1>1 DEF IInv, TypeOK, SIGUSR1, SIGUSR2
<1> QED BY <1>1, <1>3, <1>4

LEMMA ReadyStep == ASSUME IInv, Ready PROVE IInv'
<1> USE DEF IInv
<1>1. pos < have /\ Kill(SIGUSR1, "ready", "acked") /\ pos' = pos
  BY DEF Ready
<1>2. /\ child = "ready" /\ child' \in {"acked", "failed"} /\ sigchld' \in BOOLEAN
      /\ child' = "failed" => parent \in ParentEnds
      /\ UNCHANGED <<build, kind, file, parent, bit, symbol, buffer, out, have, ack>>
      /\ usr' = usr \cup {SIGUSR1} /\ usr' \subseteq {SIGUSR1, SIGUSR2}
      /\ Received' = Received /\ BufferInv' /\ EndInv' /\ InFile' /\ WholeOrLastBit'
  BY <1>1, KillStep DEF ChildEnds, SIGUSR1
<1>3. TypeOK'
  BY <1>1, <1>2 DEF TypeOK, ChildEnds, ChildWaits
<1>4. ChildInv'
  BY <1>1, <1>2 DEF ChildInv, Whole
<1>5. HandShake'
  BY <1>1, <1>2 DEF HandShake, NextChar, Quiet, Signalled
<1> QED BY <1>2, <1>3, <1>4, <1>5

LEMMA SendStep == ASSUME IInv, Send PROVE IInv'
<1> USE DEF IInv
<1>1. child = "send" /\ Kill(file[pos + 1], "send", "sent") /\ pos' = pos + 1
  BY DEF Send
<1>2. /\ pos \in Nat /\ have \in Nat /\ pos + 1 <= have /\ file[pos + 1] \in {0, 1}
      /\ MaxFile * BITS \in Nat
  <2>1. pos < have
    BY <1>1 DEF ChildInv
  <2>2. pos + 1 \in 1 .. Len(file)
    BY <2>1, Numbers
  <2> QED BY <2>1, <2>2, Numbers
<1>3. /\ child' \in {"sent", "failed"} /\ sigchld' \in BOOLEAN
      /\ child' = "failed" => parent \in ParentEnds
      /\ UNCHANGED <<build, kind, file, parent, bit, symbol, buffer, out, have, ack>>
      /\ usr' = usr \cup {file[pos + 1]} /\ usr' \subseteq {SIGUSR1, SIGUSR2}
      /\ Received' = Received /\ BufferInv' /\ EndInv' /\ InFile' /\ WholeOrLastBit'
  BY <1>1, <1>2, KillStep DEF ChildEnds
<1>4. TypeOK'
  <2>1. pos' \in 0 .. have'
    BY <1>1, <1>2, <1>3
  <2> QED BY <1>1, <1>3, <2>1 DEF TypeOK, ChildEnds, ChildWaits
<1>5. ChildInv'
  <2>1. pos' > 0
    BY <1>1, <1>2
  <2> QED BY <1>3, <2>1 DEF ChildInv, Whole
<1>6. HandShake'
  <2> SUFFICES ASSUME parent \notin ParentEnds PROVE HandShake'
    BY <1>3 DEF HandShake
  <2>1. child' = "sent" /\ NextBit /\ Quiet /\ Len(Received) = pos
    BY <1>1, <1>3 DEF HandShake
  <2>2. Len(Received') = pos' - 1
    BY <1>1, <1>2, <1>3, <2>1
  <2>3. NextBit' /\ Signalled(file[pos])'
    BY <1>1, <1>3, <2>1 DEF NextBit, Quiet, Signalled
  <2> QED BY <2>1, <2>2, <2>3 DEF HandShake, InFlight
<1> QED BY <1>3, <1>4, <1>5, <1>6

\* The parent's answer: the child goes on with the char, or with the next one.
LEMMA ChildWakesStep == ASSUME IInv, ChildWakes PROVE IInv'
<1> USE DEF IInv
<1>1. PICK to \in {"send", "ready"} :
        /\ ack /\ ~ack' /\ ack' \in BOOLEAN /\ UNCHANGED <<have, pos, usr>>
        /\ \/ ChildGo("acked", to) /\ to = "send"
           \/ ChildGo("sent", to) /\ (to = "ready" <=> Whole(pos))
  BY DEF ChildWakes, Whole, cvars
<1>2. /\ \/ child = "acked" /\ to = "send"
         \/ child = "sent" /\ (to = "ready" <=> Whole(pos))
      /\ child' = to /\ sigchld' = (to \in ChildEnds)
      /\ UNCHANGED <<build, kind, file, parent, bit, symbol, buffer, out>>
      /\ Received' = Received /\ BufferInv' /\ EndInv' /\ InFile' /\ WholeOrLastBit'
  BY <1>1, ChildFrame DEF ChildEnds
<1>3. TypeOK'
  BY <1>1, <1>2 DEF TypeOK, ChildEnds, ChildWaits
<1>4. ChildInv'
  <2>1. to = "send" => pos < have
    BY <1>2, Numbers DEF ChildInv
  <2> QED BY <1>1, <1>2, <2>1 DEF ChildInv, Whole
<1>5. HandShake'
  <2> SUFFICES ASSUME parent \notin ParentEnds PROVE HandShake'
    BY <1>2 DEF HandShake
  <2>1. CASE child = "acked"
    BY <1>1, <1>2, <2>1 DEF HandShake, NextChar, NextBit, Woken, Signalled, Quiet
  <2>2. CASE child = "sent"
    <3>1. parent = "ready" /\ usr = {} /\ bit = file[pos] /\ Len(Received) = pos /\ pos > 0
      BY <1>1, <2>2 DEF HandShake, InFlight, Signalled, Quiet, ChildInv
    <3>2. symbol = <<>> <=> Whole(pos)
      <4>1. Len(symbol) < BITS /\ Len(symbol) \in Nat /\ Len(Body) \in Nat /\ Whole(Len(Body))
            /\ pos = Len(Body) + Len(symbol)
        BY <3>1, ReceivedBits DEF TypeOK
      <4>2. Whole(pos) <=> Len(symbol) = 0
        BY <4>1, Chars
      <4> QED BY <4>2, ReceivedBits
    <3>3. bit = LastBit
      BY <3>1, Numbers DEF LastBit
    <3> QED BY <1>1, <1>2, <2>2, <3>1, <3>2, <3>3
        DEF HandShake, NextChar, NextBit, Quiet, LastBit
  <2> QED BY <1>2, <2>1, <2>2
<1> QED BY <1>2, <1>3, <1>4, <1>5

LEMMA SendEndStep == ASSUME IInv, SendEnd PROVE IInv'
<1> USE DEF IInv
<1>1. Kill(SIGUSR2, "last", "done") /\ pos' = pos
  BY DEF SendEnd
<1>2. /\ child = "last" /\ child' \in {"done", "failed"} /\ sigchld' \in BOOLEAN
      /\ child' = "failed" => parent \in ParentEnds
      /\ UNCHANGED <<build, kind, file, parent, bit, symbol, buffer, out, have, ack>>
      /\ usr' = usr \cup {SIGUSR2} /\ usr' \subseteq {SIGUSR1, SIGUSR2}
      /\ Received' = Received /\ BufferInv' /\ EndInv' /\ InFile' /\ WholeOrLastBit'
  BY <1>1, KillStep DEF ChildEnds, SIGUSR2
<1>3. TypeOK'
  BY <1>1, <1>2 DEF TypeOK, ChildEnds, ChildWaits
<1>4. ChildInv'
  BY <1>1, <1>2 DEF ChildInv, Whole
<1>5. HandShake'
  BY <1>1, <1>2 DEF HandShake, NextChar, Quiet, Signalled, LastBit
<1> QED BY <1>2, <1>3, <1>4, <1>5

LEMMA ExitChildStep == ASSUME IInv, ExitChild PROVE IInv'
<1> USE DEF IInv
<1>1. ChildGo("done", "exited") /\ UNCHANGED <<have, pos, usr, ack>>
  BY DEF ExitChild, cvars
<1>2. /\ child = "done" /\ child' = "exited" /\ sigchld' = ("exited" \in ChildEnds)
      /\ UNCHANGED <<build, kind, file, parent, bit, symbol, buffer, out>>
      /\ Received' = Received /\ BufferInv' /\ EndInv' /\ InFile' /\ WholeOrLastBit'
  BY <1>1, ChildFrame DEF ChildEnds
<1>3. TypeOK'
  BY <1>1, <1>2 DEF TypeOK, ChildEnds, ChildWaits
<1>4. ChildInv'
  BY <1>1, <1>2 DEF ChildInv, Whole
<1>5. HandShake'
  BY <1>1, <1>2 DEF HandShake, NextChar, Woken, Quiet, Signalled, LastBit
<1> QED BY <1>2, <1>3, <1>4, <1>5

LEMMA ChildTimeoutStep == ASSUME IInv, ChildTimeout PROVE IInv'
<1> USE DEF IInv
<1>1. /\ child \in {"acked", "sent"} /\ ChildGo(child, "alarmed")
      /\ UNCHANGED <<have, pos, usr, ack>>
  BY DEF ChildTimeout, ChildWaits, cvars
<1>2. /\ child' = "alarmed" /\ sigchld' = ("alarmed" \in ChildEnds)
      /\ UNCHANGED <<build, kind, file, parent, bit, symbol, buffer, out>>
      /\ Received' = Received /\ BufferInv' /\ EndInv' /\ InFile' /\ WholeOrLastBit'
  BY <1>1, ChildFrame DEF ChildEnds
<1>3. TypeOK'
  BY <1>1, <1>2 DEF TypeOK, ChildEnds, ChildWaits
<1>4. ChildInv' /\ HandShake'
  BY <1>1, <1>2 DEF ChildInv, HandShake, Whole
<1> QED BY <1>2, <1>3, <1>4

LEMMA ChildStep == ASSUME IInv, ChildNext \/ ChildTimeout PROVE IInv'
BY OpenStep, ReadStep, ReadyStep, RefillStep, SendStep, ChildWakesStep, SendEndStep,
   ExitChildStep, ChildTimeoutStep DEF ChildNext

LEMMA StepInv == ASSUME IInv, [Next]_vars PROVE IInv'
<1>1. CASE UNCHANGED vars
  <2>1. UNCHANGED <<build, kind, file, parent, child, have, pos, bit, symbol, buffer, out, usr,
                    ack, sigchld>>
    BY <1>1 DEF vars, pvars, cvars
  <2>2. TypeOK' /\ BufferInv' /\ EndInv'
    BY <2>1 DEF IInv, TypeOK, BufferInv, EndInv, Whole
  <2>3. ChildInv' /\ InFile' /\ WholeOrLastBit' /\ LastBit' = LastBit /\ Received' = Received
    BY <2>1, ChildKept, SameBits DEF IInv, WholeOrLastBit, Received, Body
  <2>4. HandShake'
    BY <2>1, <2>3 DEF IInv, HandShake, NextChar, NextBit, Woken, InFlight, Quiet, Signalled
  <2> QED BY <2>2, <2>3, <2>4 DEF IInv
<1> QED BY <1>1, ParentStep, ChildStep DEF Next

\* The hand-shake holds at every step of both processes, signals and alarms.
THEOREM Invariance == Spec => []IInv
BY InitInv, StepInv, PTL DEF Spec

-----------------------------------------------------------------------------
(***************************************************************************)
(* What the transfer keeps                                                 *)
(***************************************************************************)

\* The variables keep their types: the parent's buffer is never longer than
\* BUFFSIZE chars (lines 124-130), and symbol has less than a char.
THEOREM TypeCorrect == Spec => []TypeOK
<1>1. IInv => TypeOK
  BY DEF IInv
<1> QED BY <1>1, Invariance, PTL

\* No bit is lost, doubled or out of order, for files of every length and
\* buffers of every size, though signals do not queue (lines 83, 97, 117, 121).
THEOREM BitsInOrder == Spec => []InOrder
<1>1. IInv => InOrder
  <2> SUFFICES ASSUME IInv, child # "alarmed"
               PROVE  /\ IsPrefix(Received, file)
                      /\ parent \notin ParentEnds => Len(Received) \in {pos - 1, pos}
    BY DEF InOrder, Received, Body
  <2> USE DEF IInv
  <2>1. IsPrefix(Received, file)
    BY DEF InFile
  <2>2. ASSUME parent \notin ParentEnds PROVE Len(Received) \in {pos - 1, pos}
    <3>1. CASE child = "unborn"
      <4>1. parent = "fork" /\ pos = 0 /\ symbol = <<>> /\ buffer = <<>> /\ out = <<>>
        BY <2>2, <3>1 DEF EndInv, ChildInv, ParentEnds
      <4>2. Received = <<>> /\ Len(<<>>) = 0
        BY <4>1 DEF Received, Body
      <4> QED BY <4>1, <4>2
    <3>2. CASE child = "sent"
      BY <2>2, <3>2 DEF HandShake, InFlight
    <3>3. CASE child \notin {"unborn", "sent"}
      BY <2>2, <3>3 DEF HandShake
    <3> QED BY <3>1, <3>2, <3>3
  <2> QED BY <2>1, <2>2
<1> QED BY <1>1, Invariance, PTL

\* A file that was sent whole is written whole by a parent that exits with
\* success, and one that fails took SIGCHLD with a last bit of 1 (lines 61-68).
THEOREM WrittenWhole == Spec => []WholeOrLastBit
<1>1. IInv => WholeOrLastBit
  BY DEF IInv
<1> QED BY <1>1, Invariance, PTL
=============================================================================
