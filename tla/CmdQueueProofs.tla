--------------------------- MODULE CmdQueueProofs ---------------------------
(***************************************************************************)
(* Theorems about the command queue, for every capacity, every number of   *)
(* scenarios and every number of lines.  The ring is seen through Waiting, *)
(* the sequence of the commands in it: a push appends to that sequence and *)
(* a pop takes its head off, through any wrap-around.  The rest of the     *)
(* argument, about order and about who owns a payload, is about sequences  *)
(* only.                                                                   *)
(***************************************************************************)
EXTENDS CmdQueue, FiniteSetTheorems, SequenceTheorems, TLAPS

-----------------------------------------------------------------------------
(* Arithmetic of ring positions.                                           *)

LEMMA ModBelow ==
  ASSUME NEW n \in Nat \ {0}, NEW x \in Nat, x < n
  PROVE  x % n = x
BY SMT

LEMMA ModWrapped ==
  ASSUME NEW n \in Nat \ {0}, NEW x \in Nat, n <= x, x < n + n
  PROVE  x % n = x - n
BY SMT

\* The two cases of every position the ring computes.
LEMMA ModCases ==
  ASSUME NEW n \in Nat \ {0}, NEW x \in Nat, x < n + n
  PROVE  x % n = IF x < n THEN x ELSE x - n
<1>1. CASE x < n
  BY <1>1, ModBelow
<1>2. CASE n <= x
  <2>1. x % n = x - n
    BY <1>2, ModWrapped
  <2>2. ~(x < n)
    BY <1>2
  <2>3. QED BY <2>1, <2>2
<1>3. QED BY <1>1, <1>2

\* The slot of the i-th waiting command, and the slots of two different ones.
\* A position plus an offset, as a position.
LEMMA SlotCases ==
  ASSUME NEW n \in Nat \ {0}, NEW h \in 0..(n - 1), NEW k \in 0..n
  PROVE  (h + k) % n = IF h + k < n THEN h + k ELSE (h + k) - n
<1>1. h + k \in Nat /\ h + k < n + n
  OBVIOUS
<1>2. QED BY <1>1, ModCases

LEMMA SlotInRange ==
  ASSUME NEW n \in Nat \ {0}, NEW h \in 0..(n - 1), NEW k \in 0..n
  PROVE  (h + k) % n \in 0..(n - 1)
<1>1. (h + k) % n = IF h + k < n THEN h + k ELSE (h + k) - n
  BY SlotCases
<1>2. QED BY <1>1

LEMMA SlotsDiffer ==
  ASSUME NEW n \in Nat \ {0}, NEW h \in 0..(n - 1), NEW k \in 0..(n - 1), NEW j \in 0..(n - 1),
         j < k
  PROVE  (h + j) % n # (h + k) % n
<1>0. j \in 0..n /\ k \in 0..n
  OBVIOUS
<1>1. (h + k) % n = IF h + k < n THEN h + k ELSE (h + k) - n
  BY <1>0, SlotCases
<1>2. (h + j) % n = IF h + j < n THEN h + j ELSE (h + j) - n
  BY <1>0, SlotCases
<1>3. QED BY <1>1, <1>2

\* Moving the origin of the ring by one place.
LEMMA NextSlot ==
  ASSUME NEW n \in Nat \ {0}, NEW h \in 0..(n - 1), NEW k \in 0..(n - 1)
  PROVE  /\ (((h + 1) % n) + k) % n = (h + (k + 1)) % n
         /\ (((h + k) % n) + 1) % n = (h + (k + 1)) % n
<1>0. k \in 0..n /\ k + 1 \in 0..n /\ 1 \in 0..n
  OBVIOUS
<1>1. (h + (k + 1)) % n = IF h + (k + 1) < n THEN h + (k + 1) ELSE (h + (k + 1)) - n
  BY <1>0, SlotCases
<1>2. (h + 1) % n = IF h + 1 < n THEN h + 1 ELSE (h + 1) - n
  BY <1>0, SlotCases
<1>3. (h + k) % n = IF h + k < n THEN h + k ELSE (h + k) - n
  BY <1>0, SlotCases
<1>4. (((h + 1) % n) + k) % n = (h + (k + 1)) % n
  <2> DEFINE x == (h + 1) % n
  <2>1. x \in 0..(n - 1)
    BY <1>0, SlotInRange
  <2>2. (x + k) % n = IF x + k < n THEN x + k ELSE (x + k) - n
    BY <1>0, <2>1, SlotCases
  <2>3. QED BY <1>1, <1>2, <2>2
<1>5. (((h + k) % n) + 1) % n = (h + (k + 1)) % n
  <2> DEFINE x == (h + k) % n
  <2>1. x \in 0..(n - 1)
    BY <1>0, SlotInRange
  <2>2. (x + 1) % n = IF x + 1 < n THEN x + 1 ELSE (x + 1) - n
    BY <1>0, <2>1, SlotCases
  <2>3. QED BY <1>1, <1>3, <2>2
<1>6. QED BY <1>4, <1>5

-----------------------------------------------------------------------------
(* The ring as a sequence.                                                 *)

LEMMA WaitingSeq ==
  ASSUME TypeOK
  PROVE  /\ Waiting \in Seq(Cmds) /\ Len(Waiting) = count
         /\ \A i \in 1..count : Waiting[i] = cells[(head + i - 1) % Cap]
<1>1. count \in Nat /\ \A i \in 1..count : Waiting[i] \in Cmds
  BY QueueAssumption DEF TypeOK, RingOK
<1>2. Waiting = [i \in 1..count |-> Waiting[i]]
  BY DEF Waiting
<1>3. Waiting \in [1..count -> Cmds]
  BY <1>1, <1>2
<1>4. Waiting \in Seq(Cmds) /\ Len(Waiting) = count
  BY <1>1, <1>3
<1>5. QED BY <1>4 DEF Waiting

LEMMA WaitingKept ==
  ASSUME UNCHANGED ringVars
  PROVE  Waiting' = Waiting
BY DEF Waiting, ringVars

\* A push into a ring that is not full appends to the sequence.
LEMMA PushAppends ==
  ASSUME TypeOK, NEW c \in Cmds, count < Cap,
         cells' = [cells EXCEPT ![tail] = c], tail' = (tail + 1) % Cap,
         count' = count + 1, head' = head
  PROVE  Waiting' = Append(Waiting, c)
<1>1. Cap \in Nat \ {0} /\ head \in 0..(Cap - 1) /\ count \in 0..(Cap - 1)
      /\ tail = (head + count) % Cap /\ tail \in 0..(Cap - 1)
      /\ cells \in [0..(Cap - 1) -> Cmds \cup {NoCmd}]
  BY QueueAssumption DEF TypeOK, RingOK
<1>2. \A i \in 1..count : cells'[(head + i - 1) % Cap] = cells[(head + i - 1) % Cap]
  <2> TAKE i \in 1..count
  <2>1. i - 1 \in 0..(Cap - 1) /\ i - 1 < count /\ head + i - 1 = head + (i - 1)
    BY <1>1
  <2>2. (head + (i - 1)) % Cap # tail
    BY <1>1, <2>1, SlotsDiffer
  <2>3. QED BY <2>1, <2>2, <1>1
<1>3. cells'[(head + (count + 1) - 1) % Cap] = c
  <2>1. head + (count + 1) - 1 = head + count
    BY <1>1
  <2>2. QED BY <2>1, <1>1
<1>4. Waiting \in Seq(Cmds) /\ Len(Waiting) = count
      /\ \A i \in 1..count : Waiting[i] = cells[(head + i - 1) % Cap]
  BY WaitingSeq
<1>5. Waiting' = [i \in 1..(count + 1) |-> cells'[(head + i - 1) % Cap]]
  BY DEF Waiting
<1>6. \A i \in 1..(count + 1) : Waiting'[i] = cells'[(head + i - 1) % Cap]
  BY <1>5
<1>7. /\ Append(Waiting, c) \in Seq(Cmds)
      /\ Len(Append(Waiting, c)) = count + 1
      /\ \A i \in 1..count : Append(Waiting, c)[i] = Waiting[i]
      /\ Append(Waiting, c)[count + 1] = c
  BY <1>4, AppendProperties
<1>8. \A i \in 1..(count + 1) : Waiting'[i] = Append(Waiting, c)[i]
  <2> TAKE i \in 1..(count + 1)
  <2>1. CASE i = count + 1
    BY <2>1, <1>3, <1>6, <1>7
  <2>2. CASE i # count + 1
    <3>1. i \in 1..count
      BY <2>2, <1>1
    <3>2. QED BY <3>1, <1>2, <1>4, <1>6, <1>7
  <2>3. QED BY <2>1, <2>2
<1>9. Waiting' \in [1..(count + 1) -> Cmds]
  BY <1>5, <1>8, <1>7, LenProperties, ElementOfSeq
<1>10. count + 1 \in Nat /\ Waiting' \in Seq(Cmds) /\ Len(Waiting') = count + 1
  BY <1>1, <1>9
<1>11. QED BY <1>7, <1>8, <1>10, SeqEqual

\* A pop from a ring that is not empty takes the head off the sequence.
LEMMA PopTakesHead ==
  ASSUME TypeOK, count > 0,
         head' = (head + 1) % Cap, count' = count - 1, cells' = cells
  PROVE  /\ Waiting # <<>> /\ cells[head] = Head(Waiting)
         /\ Waiting' = Tail(Waiting)
<1>1. Cap \in Nat \ {0} /\ head \in 0..(Cap - 1) /\ count \in 1..Cap
  BY QueueAssumption DEF TypeOK, RingOK
<1>2. Waiting \in Seq(Cmds) /\ Len(Waiting) = count
      /\ \A i \in 1..count : Waiting[i] = cells[(head + i - 1) % Cap]
  BY WaitingSeq
<1>3. Waiting # <<>> /\ Head(Waiting) = Waiting[1]
  BY <1>1, <1>2
<1>4. (head + 1 - 1) % Cap = head
  <2>1. head + 1 - 1 = head /\ head \in Nat /\ head < Cap
    BY <1>1
  <2>2. head % Cap = head
    BY <1>1, <2>1, ModBelow
  <2>3. QED BY <2>1, <2>2
<1>5. cells[head] = Head(Waiting)
  BY <1>1, <1>2, <1>3, <1>4
<1>6. \A i \in 1..(count - 1) : cells[(head' + i - 1) % Cap] = Waiting[i + 1]
  <2> TAKE i \in 1..(count - 1)
  <2>1. i - 1 \in 0..(Cap - 1) /\ i + 1 \in 1..count /\ (i - 1) + 1 = i
    BY <1>1
  <2>2. (((head + 1) % Cap) + (i - 1)) % Cap = (head + i) % Cap
    BY <1>1, <2>1, NextSlot
  <2>3. Waiting[i + 1] = cells[(head + (i + 1) - 1) % Cap]
    BY <1>2, <2>1
  <2>4. head + (i + 1) - 1 = head + i
    BY <1>1
  <2>5. (head + 1) % Cap \in 0..(Cap - 1)
    BY <1>1, SlotInRange
  <2>6. head' + i - 1 = ((head + 1) % Cap) + (i - 1)
    BY <2>5
  <2>7. QED BY <2>2, <2>3, <2>4, <2>6
<1>7. Waiting' = [i \in 1..(count - 1) |-> cells[(head' + i - 1) % Cap]]
  BY DEF Waiting
<1>8. \A i \in 1..(count - 1) : Waiting'[i] = Waiting[i + 1]
  BY <1>6, <1>7
<1>9. /\ Tail(Waiting) \in Seq(Cmds) /\ Len(Tail(Waiting)) = count - 1
      /\ \A i \in 1..(count - 1) : Tail(Waiting)[i] = Waiting[i + 1]
  BY <1>2, <1>3, HeadTailProperties
<1>10. \A i \in 1..(count - 1) : Waiting[i + 1] \in Cmds
  <2> TAKE i \in 1..(count - 1)
  <2>1. i + 1 \in 1..Len(Waiting)
    BY <1>1, <1>2
  <2>2. QED BY <2>1, <1>2, ElementOfSeq
<1>11. Waiting' \in [1..(count - 1) -> Cmds]
  BY <1>7, <1>8, <1>10
<1>12. count - 1 \in Nat /\ Waiting' \in Seq(Cmds) /\ Len(Waiting') = count - 1
  BY <1>1, <1>11
<1>13. Waiting' = Tail(Waiting)
  BY <1>8, <1>9, <1>12, SeqEqual
<1>14. QED BY <1>3, <1>5, <1>13

-----------------------------------------------------------------------------
(* Type correctness.                                                       *)

LEMMA InitTyped == Init => TypeOK
<1> SUFFICES ASSUME Init PROVE TypeOK
  OBVIOUS
<1>1. RingOK
  <2>1. Cap \in Nat \ {0}
    BY QueueAssumption
  <2>2. (0 + 0) % Cap = 0
    BY <2>1, ModBelow
  <2>3. QED BY <2>1, <2>2 DEF Init, RingOK
<1>2. ThreadsOK
  <2>1. where \in [Producers -> {"off", "read", "push", "done"}]
        /\ \A p \in Producers : where[p] # "push"
    BY DEF Init
  <2>2. read \in [Producers -> 0..Lines]
    BY QueueAssumption DEF Init
  <2>3. freed \in [Cmds -> Nat]
    BY DEF Init
  <2>4. applied \in Seq(Cmds) /\ refused \subseteq Cmds
    BY DEF Init
  <2>5. main = "test" /\ current = NoCmd /\ stop = FALSE
    BY DEF Init
  <2>6. QED BY <2>1, <2>2, <2>3, <2>4, <2>5 DEF ThreadsOK
<1>3. QED BY <1>1, <1>2 DEF TypeOK

LEMMA RingKeptTyped ==
  ASSUME RingOK, UNCHANGED ringVars
  PROVE  RingOK'
BY WaitingKept DEF RingOK, ringVars

LEMMA HeldIsCmd ==
  ASSUME ThreadsOK, NEW p \in Producers, where[p] = "push"
  PROVE  Held(p) \in Cmds
BY QueueAssumption DEF ThreadsOK, Held, Cmds

\* A push keeps the ring typed: PushAppends says what is in it afterwards.
LEMMA PushTyped ==
  ASSUME TypeOK, NEW p \in Producers, Push(p)
  PROVE  TypeOK'
<1>1. Held(p) \in Cmds
  BY HeldIsCmd DEF TypeOK, Push
<1>2. ThreadsOK'
  <2>1. where' \in [Producers -> {"off", "read", "push", "done"}]
        /\ \A q \in Producers : where'[q] = "push" => where[q] = "push"
    BY DEF TypeOK, ThreadsOK, Push
  <2>2. refused' \subseteq Cmds /\ freed' \in [Cmds -> Nat]
    <3>1. CASE Full
      <4> DEFINE h == Held(p)
      <4>1. refused' = refused \cup {h} /\ freed' = [freed EXCEPT ![h] = freed[h] + 1]
        BY <3>1 DEF Push, DropHeld, Free
      <4>2. h \in Cmds /\ refused \subseteq Cmds /\ freed \in [Cmds -> Nat]
        BY <1>1 DEF TypeOK, ThreadsOK
      <4> HIDE DEF h
      <4>3. QED BY <4>1, <4>2
    <3>2. CASE ~Full
      BY <3>2 DEF TypeOK, ThreadsOK, Push
    <3>3. QED BY <3>1, <3>2
  <2>3. UNCHANGED <<read, main, current, stop, applied>>
    BY DEF Push
  <2>4. QED BY <2>1, <2>2, <2>3 DEF TypeOK, ThreadsOK
<1>3. RingOK'
  <2>1. CASE Full
    BY <2>1, RingKeptTyped DEF TypeOK, Push
  <2>2. CASE ~Full
    <3>1. Cap \in Nat \ {0} /\ count \in 0..(Cap - 1) /\ head \in 0..(Cap - 1)
          /\ tail = (head + count) % Cap /\ tail \in 0..(Cap - 1)
          /\ cells \in [0..(Cap - 1) -> Cmds \cup {NoCmd}]
      BY <2>2, QueueAssumption DEF TypeOK, RingOK, Full
    <3>2. cells' = [cells EXCEPT ![tail] = Held(p)] /\ tail' = (tail + 1) % Cap
          /\ count' = count + 1 /\ head' = head
      BY <2>2 DEF Push
    <3>3. tail' = (head' + count') % Cap
      BY <3>1, <3>2, NextSlot
    <3>4. tail' \in 0..(Cap - 1)
      BY <3>1, <3>2, SlotInRange
    <3>5. Waiting \in Seq(Cmds) /\ Len(Waiting) = count
      BY WaitingSeq
    <3>6. Waiting' = Append(Waiting, Held(p))
      <4>1. count < Cap
        BY <3>1
      <4>2. QED BY <4>1, <3>2, <1>1, PushAppends
    <3>7. Waiting' \in Seq(Cmds) /\ Len(Waiting') = count'
      BY <3>2, <3>5, <3>6, <1>1, AppendProperties
    <3>8. \A i \in 1..count' : Waiting'[i] \in Cmds
      BY <3>7, ElementOfSeq
    <3>9. cells' \in [0..(Cap - 1) -> Cmds \cup {NoCmd}]
      BY <3>1, <3>2, <1>1
    <3>10. count' \in 0..Cap /\ head' \in 0..(Cap - 1)
      BY <3>1, <3>2
    <3>11. QED BY <3>3, <3>4, <3>8, <3>9, <3>10 DEF RingOK
  <2>3. QED BY <2>1, <2>2
<1>4. QED BY <1>2, <1>3 DEF TypeOK

\* So does a pop: PopTakesHead.
LEMMA PopTyped ==
  ASSUME TypeOK, Pop
  PROVE  TypeOK'
<1>1. count > 0 /\ head' = (head + 1) % Cap /\ count' = count - 1 /\ cells' = cells
      /\ tail' = tail /\ current' = cells[head]
  BY DEF Pop, TakeHead, HasCommand
<1>2. Waiting # <<>> /\ cells[head] = Head(Waiting) /\ Waiting' = Tail(Waiting)
  BY <1>1, PopTakesHead
<1>3. Waiting \in Seq(Cmds) /\ Len(Waiting) = count
  BY WaitingSeq
<1>4. current' \in Cmds /\ Waiting' \in Seq(Cmds) /\ Len(Waiting') = count'
  BY <1>1, <1>2, <1>3, HeadTailProperties
<1>5. Cap \in Nat \ {0} /\ count \in 1..Cap /\ head \in 0..(Cap - 1)
      /\ tail = (head + count) % Cap
  BY <1>1, QueueAssumption DEF TypeOK, RingOK
<1>6. tail' = (head' + count') % Cap
  <2>1. count - 1 \in 0..(Cap - 1) /\ (count - 1) + 1 = count
    BY <1>5
  <2>2. (((head + 1) % Cap) + (count - 1)) % Cap = (head + count) % Cap
    BY <1>5, <2>1, NextSlot
  <2>3. QED BY <1>1, <1>5, <2>2
<1>7. head' \in 0..(Cap - 1)
  <2>1. 1 \in 0..Cap
    BY <1>5
  <2>2. QED BY <1>1, <1>5, <2>1, SlotInRange
<1>8. \A i \in 1..count' : Waiting'[i] \in Cmds
  BY <1>4, ElementOfSeq
<1>9. RingOK'
  BY <1>1, <1>5, <1>6, <1>7, <1>8 DEF TypeOK, RingOK
<1>10. ThreadsOK'
  BY <1>4 DEF TypeOK, ThreadsOK, Pop
<1>11. QED BY <1>9, <1>10 DEF TypeOK

\* One step per action; only Push and Pop touch the ring.
LEMMA StepTyped ==
  ASSUME TypeOK, [Next]_vars
  PROVE  TypeOK'
<1> USE QueueAssumption
<1>1. ASSUME NEW p \in Producers, ReadLine(p) PROVE TypeOK'
  BY <1>1, RingKeptTyped DEF TypeOK, ThreadsOK, ReadLine
<1>2. ASSUME NEW p \in Producers, Retire(p) PROVE TypeOK'
  BY <1>2, RingKeptTyped DEF TypeOK, ThreadsOK, Retire
<1>3. ASSUME NEW p \in Producers, Push(p) PROVE TypeOK'
  BY <1>3, PushTyped
<1>4. CASE Sigint
  BY <1>4, RingKeptTyped DEF TypeOK, ThreadsOK, Sigint
<1>5. CASE TestStop
  BY <1>5, RingKeptTyped DEF TypeOK, ThreadsOK, TestStop
<1>6. CASE Pop
  BY <1>6, PopTyped
<1>7. CASE NothingToPop
  BY <1>7, RingKeptTyped DEF TypeOK, ThreadsOK, NothingToPop
<1>8. CASE Apply
  BY <1>8, RingKeptTyped DEF TypeOK, ThreadsOK, Apply, Free, Producers
<1>9. CASE UNCHANGED vars
  BY <1>9, RingKeptTyped DEF TypeOK, ThreadsOK, vars, ringVars
<1>10. QED
  BY <1>1, <1>2, <1>3, <1>4, <1>5, <1>6, <1>7, <1>8, <1>9 DEF Next, MainThread, Produce

\* The ring's indices agree and the ring holds only commands, whatever its
\* capacity and however many scenarios run (cmd.c:33-59).
THEOREM QueueTypeCorrect == Spec => []TypeOK
<1>1. Init => TypeOK
  BY InitTyped
<1>2. TypeOK /\ [Next]_vars => TypeOK'
  BY StepTyped
<1>3. QED BY <1>1, <1>2, PTL DEF Spec

-----------------------------------------------------------------------------
(* The refinement.                                                         *)

LEMMA PipeInitial == Init => Pipe!PipeInit
<1> SUFFICES ASSUME Init PROVE Pipe!PipeInit
  OBVIOUS
<1>1. TypeOK
  BY InitTyped
<1>2. Waiting \in Seq(Cmds) /\ Len(Waiting) = 0
  BY <1>1, WaitingSeq DEF Init
<1>3. Waiting = <<>>
  BY <1>2
<1>4. QED BY <1>3 DEF Init, Pipe!PipeInit

\* A push is an Accept of the pipe, or a Refuse when the ring is full.
LEMMA PushIsPipeStep ==
  ASSUME TypeOK, NEW p \in Producers, Push(p)
  PROVE  Pipe!PipeNext
<1>1. Held(p) \in Cmds
  BY HeldIsCmd DEF TypeOK, Push
<1>2. Waiting \in Seq(Cmds) /\ Len(Waiting) = count /\ count \in 0..Cap /\ Cap \in Nat
  BY WaitingSeq, QueueAssumption DEF TypeOK, RingOK
<1>3. CASE Full
  <2>1. Waiting' = Waiting
    BY <1>3, WaitingKept DEF Push
  <2>2. refused' = refused \cup {Held(p)} /\ applied' = applied
    BY <1>3 DEF Push, DropHeld
  <2>3. Pipe!Refuse(Held(p))
    BY <1>2, <1>3, <2>1, <2>2 DEF Pipe!Refuse, Full
  <2>4. QED BY <1>1, <2>3 DEF Pipe!PipeNext
<1>4. CASE ~Full
  <2>1. count < Cap
    BY <1>2, <1>4 DEF Full
  <2>2. cells' = [cells EXCEPT ![tail] = Held(p)] /\ tail' = (tail + 1) % Cap
        /\ count' = count + 1 /\ head' = head
    BY <1>4 DEF Push
  <2>3. Waiting' = Append(Waiting, Held(p))
    BY <1>1, <2>1, <2>2, PushAppends
  <2>4. refused' = refused /\ applied' = applied
    BY <1>4 DEF Push
  <2>5. Pipe!Accept(Held(p))
    BY <1>2, <2>1, <2>3, <2>4 DEF Pipe!Accept
  <2>6. QED BY <1>1, <2>5 DEF Pipe!PipeNext
<1>5. QED BY <1>3, <1>4

LEMMA PopIsPipeStep ==
  ASSUME TypeOK, Pop
  PROVE  Pipe!PipeNext
<1>1. count > 0 /\ head' = (head + 1) % Cap /\ count' = count - 1 /\ cells' = cells
      /\ applied' = Append(applied, cells[head]) /\ refused' = refused
  BY DEF Pop, TakeHead, HasCommand
<1>2. Waiting # <<>> /\ cells[head] = Head(Waiting) /\ Waiting' = Tail(Waiting)
  BY <1>1, PopTakesHead
<1>3. Pipe!ApplyNext
  BY <1>1, <1>2 DEF Pipe!ApplyNext
<1>4. QED BY <1>3 DEF Pipe!PipeNext

LEMMA PipeStep == TypeOK /\ [Next]_vars => [Pipe!PipeNext]_Pipe!pipeVars
<1> SUFFICES ASSUME TypeOK, [Next]_vars
             PROVE  Pipe!PipeNext \/ UNCHANGED <<Waiting, applied, refused>>
  BY DEF Pipe!pipeVars
<1>1. ASSUME NEW p \in Producers, Push(p) PROVE Pipe!PipeNext
  BY <1>1, PushIsPipeStep
<1>2. CASE Pop
  BY <1>2, PopIsPipeStep
<1>3. ASSUME NEW p \in Producers, ReadLine(p) \/ Retire(p)
      PROVE  UNCHANGED <<Waiting, applied, refused>>
  BY <1>3, WaitingKept DEF ReadLine, Retire
<1>4. CASE Sigint \/ TestStop \/ NothingToPop \/ Apply
  BY <1>4, WaitingKept DEF Sigint, TestStop, NothingToPop, Apply
<1>5. CASE UNCHANGED vars
  BY <1>5, WaitingKept DEF vars, ringVars
<1>6. QED BY <1>1, <1>2, <1>3, <1>4, <1>5 DEF Next, MainThread, Produce

\* The ring buffer implements the pipe: whatever the interleaving of producers
\* and through every wrap-around, commands are applied in the order they were
\* accepted, each once, and refused only when Cap others wait (cmd.c:33-59).
THEOREM QueueImplementsPipe == Spec => ImplementsPipe
<1>1. Spec => []TypeOK
  BY QueueTypeCorrect
<1>2. QED BY <1>1, PipeInitial, PipeStep, PTL DEF Spec, ImplementsPipe, Pipe!PipeSpec

-----------------------------------------------------------------------------
(* The order of lines.  LinesInOrder says nothing about the commands that  *)
(* still wait, so it is not inductive; LineOrder relates the two sequences *)
(* and bounds both by the lines their producers have read.                 *)

Earlier(c, d) == c.by = d.by => c.line < d.line

\* The command has been pushed: a producer in front of its push has one line more.
Pushed(c) == c.line <= read[c.by] /\ (where[c.by] = "push" => c.line < read[c.by])

Ascending(s) == \A i, j \in DOMAIN s : i < j => Earlier(s[i], s[j])

LineOrder ==
  /\ Ascending(applied) /\ Ascending(Waiting)
  /\ \A i \in DOMAIN applied, j \in DOMAIN Waiting : Earlier(applied[i], Waiting[j])
  /\ \A i \in DOMAIN applied : Pushed(applied[i])
  /\ \A j \in DOMAIN Waiting : Pushed(Waiting[j])

LEMMA CommandFields ==
  ASSUME NEW c \in Cmds
  PROVE  c.by \in Producers /\ c.line \in 1..Lines /\ c.line \in Nat
BY QueueAssumption DEF Cmds

LEMMA AppendAscending ==
  ASSUME NEW s \in Seq(Cmds), NEW c \in Cmds, Ascending(s),
         \A i \in DOMAIN s : Earlier(s[i], c)
  PROVE  Ascending(Append(s, c))
<1> DEFINE t == Append(s, c)
<1>1. /\ DOMAIN t = 1..(Len(s) + 1) /\ DOMAIN s = 1..Len(s) /\ Len(s) \in Nat
      /\ \A i \in 1..Len(s) : t[i] = s[i]
      /\ t[Len(s) + 1] = c
  BY AppendProperties
<1>2. ASSUME NEW i \in DOMAIN t, NEW j \in DOMAIN t, i < j PROVE Earlier(t[i], t[j])
  <2>1. i \in DOMAIN s
    BY <1>1, <1>2
  <2>2. CASE j = Len(s) + 1
    BY <1>1, <2>1, <2>2
  <2>3. CASE j # Len(s) + 1
    <3>1. j \in DOMAIN s
      BY <1>1, <2>3
    <3>2. QED BY <1>1, <1>2, <2>1, <3>1 DEF Ascending
  <2>4. QED BY <2>2, <2>3
<1>3. QED BY <1>2 DEF Ascending

LEMMA OrderInitial == Init => LineOrder
<1> SUFFICES ASSUME Init PROVE LineOrder
  OBVIOUS
<1>1. Waiting = <<>> /\ applied = <<>>
  BY PipeInitial DEF Pipe!PipeInit
<1>2. QED BY <1>1 DEF LineOrder, Ascending

\* Steps that leave both sequences alone and let Pushed commands be.
LEMMA OrderKept ==
  ASSUME TypeOK, LineOrder, UNCHANGED <<ringVars, applied>>,
         \A c \in Cmds : Pushed(c) => Pushed(c)'
  PROVE  LineOrder'
<1>1. Waiting' = Waiting /\ applied' = applied
  BY WaitingKept
<1>2. \A i \in DOMAIN applied : applied[i] \in Cmds
  BY ElementOfSeq DEF TypeOK, ThreadsOK
<1>3. \A i \in DOMAIN Waiting : Waiting[i] \in Cmds
  BY WaitingSeq, ElementOfSeq
<1>4. QED BY <1>1, <1>2, <1>3 DEF LineOrder, Ascending, Earlier

LEMMA PushKeepsOrder ==
  ASSUME TypeOK, LineOrder, NEW p \in Producers, Push(p)
  PROVE  LineOrder'
<1> DEFINE h == Held(p)
<1>1. h \in Cmds /\ h.by = p /\ h.line = read[p] /\ where[p] = "push"
  BY HeldIsCmd DEF Held, TypeOK, Push
<1>2. read' = read /\ applied' = applied /\ where' = [where EXCEPT ![p] = "read"]
      /\ where \in [Producers -> {"off", "read", "push", "done"}]
      /\ read \in [Producers -> 0..Lines]
  BY DEF Push, TypeOK, ThreadsOK
<1>3. ASSUME NEW c \in Cmds, Pushed(c) PROVE Pushed(c)'
  BY <1>2, <1>3, CommandFields DEF Pushed
<1>4. ASSUME NEW c \in Cmds, Pushed(c) PROVE Earlier(c, h)
  BY <1>1, <1>4 DEF Pushed, Earlier
<1>5. Pushed(h)' /\ h' = h
  <2>1. h' = h
    BY <1>2 DEF Held
  <2>2. h.line <= read'[p] /\ where'[p] = "read"
    BY <1>1, <1>2, QueueAssumption
  <2> HIDE DEF h
  <2>3. Pushed(h)'
    BY <1>1, <2>1, <2>2 DEF Pushed
  <2>4. QED BY <2>1, <2>3
<1>6. CASE Full
  <2>1. UNCHANGED <<ringVars, applied>>
    BY <1>2, <1>6 DEF Push
  <2>2. QED BY <1>3, <2>1, OrderKept
<1>7. CASE ~Full
  <2>1. count < Cap /\ cells' = [cells EXCEPT ![tail] = h] /\ tail' = (tail + 1) % Cap
        /\ count' = count + 1 /\ head' = head
    <3>1. count \in 0..Cap /\ Cap \in Nat
      BY QueueAssumption DEF TypeOK, RingOK
    <3>2. QED BY <1>7, <3>1 DEF Push, Full
  <2>2. Waiting' = Append(Waiting, h)
    BY <1>1, <2>1, PushAppends
  <2>3. Waiting \in Seq(Cmds) /\ Len(Waiting) \in Nat /\ DOMAIN Waiting = 1..Len(Waiting)
        /\ \A i \in DOMAIN Waiting : Waiting[i] \in Cmds
    BY WaitingSeq, ElementOfSeq
  <2>4. \A i \in DOMAIN applied : applied[i] \in Cmds
    BY ElementOfSeq DEF TypeOK, ThreadsOK
  <2>5. /\ DOMAIN Waiting' = 1..(Len(Waiting) + 1)
        /\ \A i \in 1..Len(Waiting) : Waiting'[i] = Waiting[i]
        /\ Waiting'[Len(Waiting) + 1] = h
    BY <1>1, <2>2, <2>3, AppendProperties
  <2>6. \A j \in DOMAIN Waiting' : j \in DOMAIN Waiting \/ j = Len(Waiting) + 1
    BY <2>3, <2>5
  <2> HIDE DEF h
  <2>7. Ascending(Waiting')
    <3>1. \A i \in DOMAIN Waiting : Earlier(Waiting[i], h)
      BY <1>4, <2>3 DEF LineOrder
    <3>2. QED BY <1>1, <2>2, <2>3, <3>1, AppendAscending DEF LineOrder
  <2>8. \A i \in DOMAIN applied, j \in DOMAIN Waiting' : Earlier(applied[i], Waiting'[j])
    BY <1>4, <2>3, <2>4, <2>5, <2>6 DEF LineOrder
  <2>9. \A i \in DOMAIN applied : Pushed(applied[i])'
    BY <1>2, <1>3, <2>4 DEF LineOrder
  <2>10. \A j \in DOMAIN Waiting' : Pushed(Waiting[j])'
    <3>1. ASSUME NEW j \in DOMAIN Waiting' PROVE Pushed(Waiting[j])'
      <4>1. CASE j \in DOMAIN Waiting
        <5>1. Waiting'[j] = Waiting[j] /\ Pushed(Waiting[j])
          BY <2>3, <2>5, <4>1 DEF LineOrder
        <5>2. QED BY <5>1, <1>2, <2>3, <4>1, CommandFields DEF Pushed
      <4>2. CASE j = Len(Waiting) + 1
        <5>1. Waiting'[j] = h /\ h' = h
          BY <1>5, <2>5, <4>2
        <5>2. QED BY <5>1, <1>5 DEF Pushed
      <4>3. QED BY <2>6, <4>1, <4>2
    <3>2. QED BY <3>1
  <2>11. QED BY <1>2, <2>7, <2>8, <2>9, <2>10 DEF LineOrder, Ascending
<1>8. QED BY <1>6, <1>7

\* A pop moves the oldest waiting command to the end of applied: it is later
\* than everything applied before it and earlier than everything that waits.
LEMMA PopKeepsOrder ==
  ASSUME TypeOK, LineOrder, Pop
  PROVE  LineOrder'
<1> DEFINE h == cells[head]
           W == Waiting
<1>1. /\ applied' = Append(applied, h) /\ read' = read /\ where' = where
      /\ count > 0 /\ head' = (head + 1) % Cap /\ count' = count - 1 /\ cells' = cells
  BY DEF Pop, TakeHead, HasCommand
<1>2. W # <<>> /\ h = Head(W) /\ W' = Tail(W)
  BY <1>1, PopTakesHead
<1>3. W \in Seq(Cmds) /\ Len(W) \in Nat /\ DOMAIN W = 1..Len(W)
  BY WaitingSeq
<1>4. Len(W) > 0 /\ h = W[1] /\ 1 \in DOMAIN W /\ h \in Cmds
  <2>1. Len(W) > 0
    BY <1>2, <1>3
  <2>2. QED BY <1>2, <1>3, <2>1, ElementOfSeq
<1>5. /\ DOMAIN W' = 1..(Len(W) - 1)
      /\ \A j \in DOMAIN W' : W'[j] = W[j + 1] /\ j + 1 \in DOMAIN W /\ 1 < j + 1
  <2>1. /\ Tail(W) \in Seq(Cmds) /\ Len(Tail(W)) = Len(W) - 1
        /\ \A j \in 1..(Len(W) - 1) : Tail(W)[j] = W[j + 1]
    BY <1>2, <1>3, HeadTailProperties
  <2>2. QED BY <1>2, <1>3, <1>4, <2>1
<1>6. applied \in Seq(Cmds) /\ Len(applied) \in Nat /\ DOMAIN applied = 1..Len(applied)
      /\ \A i \in DOMAIN applied : applied[i] \in Cmds
  BY ElementOfSeq DEF TypeOK, ThreadsOK
<1>7. /\ DOMAIN applied' = 1..(Len(applied) + 1)
      /\ \A i \in DOMAIN applied : applied'[i] = applied[i]
      /\ applied'[Len(applied) + 1] = h
  BY <1>1, <1>4, <1>6, AppendProperties
<1>8. \A i \in DOMAIN applied' : i \in DOMAIN applied \/ i = Len(applied) + 1
  BY <1>6, <1>7
<1>9. \A i \in DOMAIN W, j \in DOMAIN W : i < j => Earlier(W[i], W[j])
  BY DEF LineOrder, Ascending
<1>10. \A i \in DOMAIN applied, j \in DOMAIN W : Earlier(applied[i], W[j])
  BY DEF LineOrder
<1>11. (\A i \in DOMAIN applied : Pushed(applied[i])) /\ \A j \in DOMAIN W : Pushed(W[j])
  BY DEF LineOrder
<1> HIDE DEF h, W
<1>12. Ascending(applied')
  <2>1. \A i \in DOMAIN applied : Earlier(applied[i], h)
    BY <1>4, <1>10
  <2>2. Ascending(applied)
    BY DEF LineOrder
  <2>3. QED BY <1>1, <1>4, <1>6, <2>1, <2>2, AppendAscending
<1>13. \A i \in DOMAIN W', j \in DOMAIN W' : i < j => Earlier(W'[i], W'[j])
  <2>1. ASSUME NEW i \in DOMAIN W', NEW j \in DOMAIN W', i < j PROVE i + 1 < j + 1
    BY <1>3, <1>5, <2>1
  <2>2. QED BY <1>5, <1>9, <2>1
<1>14. \A i \in DOMAIN applied', j \in DOMAIN W' : Earlier(applied'[i], W'[j])
  <2> TAKE i \in DOMAIN applied', j \in DOMAIN W'
  <2>1. W'[j] = W[j + 1] /\ j + 1 \in DOMAIN W /\ 1 < j + 1
    BY <1>5
  <2>2. CASE i \in DOMAIN applied
    BY <1>7, <1>10, <2>1, <2>2
  <2>3. CASE i = Len(applied) + 1
    BY <1>4, <1>7, <1>9, <2>1, <2>3
  <2>4. QED BY <1>8, <2>2, <2>3
<1>15. \A i \in DOMAIN applied' : Pushed(applied'[i])
  BY <1>4, <1>7, <1>8, <1>11
<1>16. \A j \in DOMAIN W' : Pushed(W'[j])
  BY <1>5, <1>11
<1>17. (\A i \in DOMAIN applied : Pushed(applied[i]))'
  BY <1>1, <1>15 DEF Pushed
<1>18. (\A j \in DOMAIN W : Pushed(W[j]))'
  BY <1>1, <1>16 DEF Pushed
<1>19. QED BY <1>12, <1>13, <1>14, <1>17, <1>18 DEF LineOrder, Ascending, Earlier, W

\* A producer only reads on: what it has pushed stays pushed.
LEMMA PushedKept ==
  ASSUME TypeOK, [Next]_vars, NEW c \in Cmds, Pushed(c)
  PROVE  Pushed(c)'
<1>1. c.by \in Producers /\ c.line \in Nat /\ c.line <= read[c.by]
  BY CommandFields DEF Pushed
<1>2. ASSUME NEW p \in Producers, ReadLine(p) PROVE Pushed(c)'
  <2>1. /\ read' = [read EXCEPT ![p] = read[p] + 1] /\ read \in [Producers -> 0..Lines]
        /\ where[p] = "read" /\ \A q \in Producers : q # p => where'[q] = where[q]
    BY <1>2 DEF ReadLine, TypeOK, ThreadsOK
  <2>2. CASE c.by = p
    <3>1. read'[p] = read[p] + 1 /\ read[p] \in Nat
      BY <2>1, QueueAssumption
    <3>2. c.line < read'[p] /\ c.line <= read'[p]
      BY <1>1, <2>2, <3>1
    <3>3. QED BY <2>2, <3>2 DEF Pushed
  <2>3. CASE c.by # p
    BY <1>1, <2>1, <2>3 DEF Pushed
  <2>4. QED BY <2>2, <2>3
<1>3. ASSUME read' = read, \A q \in Producers : where'[q] = "push" => where[q] = "push"
      PROVE  Pushed(c)'
  BY <1>1, <1>3 DEF Pushed
<1>4. ASSUME NEW p \in Producers, Retire(p) \/ Push(p) PROVE Pushed(c)'
  BY <1>3, <1>4 DEF Retire, Push, TypeOK, ThreadsOK
<1>5. CASE Apply
  BY <1>3, <1>5 DEF Apply, TypeOK, ThreadsOK, Producers
<1>6. CASE Pop \/ Sigint \/ TestStop \/ NothingToPop \/ UNCHANGED vars
  BY <1>3, <1>6 DEF Pop, Sigint, TestStop, NothingToPop, vars
<1>7. QED BY <1>2, <1>4, <1>5, <1>6 DEF Next, MainThread, Produce

LEMMA OrderStep ==
  ASSUME TypeOK, LineOrder, [Next]_vars
  PROVE  LineOrder'
<1>1. ASSUME UNCHANGED <<ringVars, applied>> PROVE LineOrder'
  BY <1>1, PushedKept, OrderKept
<1>2. ASSUME NEW p \in Producers, Push(p) PROVE LineOrder'
  BY <1>2, PushKeepsOrder
<1>3. CASE Pop
  BY <1>3, PopKeepsOrder
<1>4. ASSUME NEW p \in Producers, ReadLine(p) \/ Retire(p) PROVE LineOrder'
  BY <1>1, <1>4 DEF ReadLine, Retire
<1>5. CASE Apply \/ Sigint \/ TestStop \/ NothingToPop \/ UNCHANGED vars
  BY <1>1, <1>5 DEF Apply, Sigint, TestStop, NothingToPop, vars, ringVars
<1>6. QED BY <1>2, <1>3, <1>4, <1>5 DEF Next, MainThread, Produce

\* The lines of stdin, and those of every scenario, are applied in their order,
\* for any number of scenarios and any capacity: a refused command leaves a gap
\* and never a swap.
THEOREM LinesAlwaysInOrder == Spec => []LinesInOrder
<1>1. Init => TypeOK /\ LineOrder
  BY InitTyped, OrderInitial
<1>2. TypeOK /\ LineOrder /\ [Next]_vars => (TypeOK /\ LineOrder)'
  BY StepTyped, OrderStep
<1>3. LineOrder => LinesInOrder
  BY DEF LineOrder, Ascending, Earlier, LinesInOrder
<1>4. QED BY <1>1, <1>2, <1>3, PTL DEF Spec

-----------------------------------------------------------------------------
(* Who owns a payload.  The order of lines keeps the places apart in which *)
(* a command can be; Ownership says where a payload has been freed.        *)

Has(s, c) == \E i \in DOMAIN s : s[i] = c

IsHeld(c)    == where[c.by] = "push" /\ c.line = read[c.by]
IsCurrent(c) == main = "apply" /\ current = c

Freed(c) == c \in refused \/ (Has(applied, c) /\ ~IsCurrent(c))

Ownership ==
  /\ \A c \in Cmds : freed[c] = IF Freed(c) THEN 1 ELSE 0
  /\ \A c \in Cmds : IsCurrent(c) => Has(applied, c)
  /\ \A c \in refused : Pushed(c) /\ ~Has(applied, c) /\ ~Has(Waiting, c)

LEMMA AppendHas ==
  ASSUME NEW s \in Seq(Cmds), NEW c \in Cmds
  PROVE  \A d : Has(Append(s, c), d) <=> Has(s, d) \/ d = c
<1>1. /\ DOMAIN Append(s, c) = 1..(Len(s) + 1) /\ DOMAIN s = 1..Len(s) /\ Len(s) \in Nat
      /\ \A i \in 1..Len(s) : Append(s, c)[i] = s[i]
      /\ Append(s, c)[Len(s) + 1] = c
  BY AppendProperties
<1>2. \A i \in DOMAIN Append(s, c) : i \in DOMAIN s \/ i = Len(s) + 1
  BY <1>1
<1>3. Len(s) + 1 \in DOMAIN Append(s, c) /\ \A i \in DOMAIN s : i \in DOMAIN Append(s, c)
  BY <1>1
<1>4. QED BY <1>1, <1>2, <1>3 DEF Has

LEMMA TailHas ==
  ASSUME NEW s \in Seq(Cmds), s # <<>>, Ascending(s)
  PROVE  /\ Head(s) \in Cmds /\ Has(s, Head(s))
         /\ \A d \in Cmds : Has(Tail(s), d) <=> Has(s, d) /\ d # Head(s)
<1>1. /\ Len(s) \in Nat /\ Len(s) > 0 /\ DOMAIN s = 1..Len(s) /\ 1 \in DOMAIN s
      /\ Head(s) = s[1] /\ \A i \in DOMAIN s : s[i] \in Cmds
  <2>1. Len(s) \in Nat /\ Len(s) # 0 /\ DOMAIN s = 1..Len(s)
    BY EmptySeq
  <2>2. QED BY <2>1, ElementOfSeq
<1>2. DOMAIN Tail(s) = 1..(Len(s) - 1) /\ \A i \in 1..(Len(s) - 1) : Tail(s)[i] = s[i + 1]
  <2>1. /\ Tail(s) \in Seq(Cmds) /\ Len(Tail(s)) = Len(s) - 1
        /\ \A i \in 1..(Len(s) - 1) : Tail(s)[i] = s[i + 1]
    BY HeadTailProperties
  <2>2. QED BY <2>1
<1>3. ASSUME NEW d \in Cmds, Has(Tail(s), d) PROVE Has(s, d) /\ d # Head(s)
  <2>1. PICK i \in DOMAIN Tail(s) : Tail(s)[i] = d
    BY <1>3 DEF Has
  <2>2. i + 1 \in DOMAIN s /\ 1 < i + 1 /\ s[i + 1] = d
    BY <1>1, <1>2, <2>1
  <2>3. Earlier(s[1], d)
    BY <1>1, <2>2 DEF Ascending
  <2>4. d.line \in Nat
    BY CommandFields
  <2>5. d # s[1]
    BY <2>3, <2>4 DEF Earlier
  <2>6. QED BY <1>1, <2>2, <2>5 DEF Has
<1>4. ASSUME NEW d \in Cmds, Has(s, d), d # Head(s) PROVE Has(Tail(s), d)
  <2>1. PICK i \in DOMAIN s : s[i] = d
    BY <1>4 DEF Has
  <2>2. i # 1
    BY <1>1, <1>4, <2>1
  <2>3. i - 1 \in 1..(Len(s) - 1) /\ (i - 1) + 1 = i
    BY <1>1, <2>1, <2>2
  <2>4. Tail(s)[i - 1] = d
    BY <1>2, <2>1, <2>3
  <2>5. QED BY <1>2, <2>3, <2>4 DEF Has
<1>5. QED BY <1>1, <1>3, <1>4 DEF Has

\* A command that is still in its producer's hand is nowhere else, and one that
\* waits has not been applied.
LEMMA PlacesApart ==
  ASSUME TypeOK, LineOrder, NEW c \in Cmds
  PROVE  /\ Has(applied, c) \/ Has(Waiting, c) => Pushed(c)
         /\ Pushed(c) => ~IsHeld(c)
         /\ Has(Waiting, c) => ~Has(applied, c)
<1>1. Has(applied, c) \/ Has(Waiting, c) => Pushed(c)
  BY DEF LineOrder, Has
<1>2. c.line \in Nat
  BY CommandFields
<1>3. Pushed(c) => ~IsHeld(c)
  BY <1>2 DEF Pushed, IsHeld
<1>4. ASSUME Has(Waiting, c), Has(applied, c) PROVE FALSE
  <2>1. Earlier(c, c)
    BY <1>4 DEF Has, LineOrder
  <2>2. QED BY <1>2, <2>1 DEF Earlier
<1>5. QED BY <1>1, <1>3, <1>4

\* The two sequences of a state hold commands only.
LEMMA SequencesTyped ==
  ASSUME TypeOK
  PROVE  Waiting \in Seq(Cmds) /\ applied \in Seq(Cmds)
BY WaitingSeq DEF TypeOK, ThreadsOK

LEMMA OwnershipInitial == Init => Ownership
<1> SUFFICES ASSUME Init PROVE Ownership
  OBVIOUS
<1>1. applied = <<>> /\ refused = {} /\ main = "test" /\ \A c \in Cmds : freed[c] = 0
  BY DEF Init
<1>2. QED BY <1>1 DEF Ownership, Freed, Has, IsCurrent

\* A refused push frees the payload its producer still holds.
LEMMA PushKeepsOwnership ==
  ASSUME TypeOK, TypeOK', LineOrder, LineOrder', Ownership, NEW p \in Producers, Push(p)
  PROVE  Ownership'
<1> DEFINE h == Held(p)
<1>1. h \in Cmds /\ IsHeld(h) /\ h.by = p /\ h.line = read[p]
  <2>1. h \in Cmds
    BY HeldIsCmd DEF TypeOK, Push
  <2>2. QED BY <2>1 DEF Held, IsHeld, Push
<1>2. ~Pushed(h) /\ ~Has(applied, h) /\ ~Has(Waiting, h) /\ h \notin refused
  BY <1>1, PlacesApart DEF Ownership
<1>3. /\ main' = main /\ current' = current /\ applied' = applied /\ read' = read
      /\ where' = [where EXCEPT ![p] = "read"]
  BY DEF Push
<1>4. \A c \in Cmds : Pushed(c) => Pushed(c)'
  BY <1>3, CommandFields DEF Pushed, TypeOK, ThreadsOK
<1>5. Pushed(h)' /\ h' = h
  <2>1. h' = h
    BY <1>3 DEF Held
  <2>2. h.line <= read'[p] /\ where'[p] = "read"
    BY <1>1, <1>3, QueueAssumption DEF TypeOK, ThreadsOK
  <2> HIDE DEF h
  <2>3. QED BY <1>1, <2>1, <2>2 DEF Pushed
<1>6. CASE Full
  <2>1. Waiting' = Waiting /\ refused' = refused \cup {h} /\ freed' = [freed EXCEPT ![h] = freed[h] + 1]
    BY <1>6, WaitingKept DEF Push, DropHeld, Free
  <2> HIDE DEF h
  <2>2. \A c \in Cmds : Freed(c)' <=> Freed(c) \/ c = h
    BY <1>3, <2>1 DEF Freed, IsCurrent, Has
  <2>3. ~Freed(h) /\ freed[h] = 0 /\ \A c \in Cmds : c # h => freed'[c] = freed[c]
    BY <1>1, <1>2, <2>1 DEF Ownership, Freed, TypeOK, ThreadsOK
  <2>4. freed'[h] = 1
    BY <1>1, <2>1, <2>3 DEF TypeOK, ThreadsOK
  <2>5. \A c \in Cmds : freed'[c] = IF Freed(c)' THEN 1 ELSE 0
    BY <2>2, <2>3, <2>4 DEF Ownership
  <2>6. \A c \in refused' : Pushed(c)' /\ ~Has(applied', c) /\ ~Has(Waiting', c)
    <3>1. ASSUME NEW c \in refused' PROVE Pushed(c)' /\ ~Has(applied', c) /\ ~Has(Waiting', c)
      <4>1. CASE c = h
        BY <1>2, <1>3, <1>5, <2>1, <4>1 DEF Pushed
      <4>2. CASE c # h
        <5>1. c \in refused /\ c \in Cmds
          BY <2>1, <4>2 DEF TypeOK, ThreadsOK
        <5>2. QED BY <1>3, <1>4, <2>1, <5>1 DEF Ownership
      <4>3. QED BY <4>1, <4>2
    <3>2. QED BY <3>1
  <2>7. QED BY <1>3, <2>1, <2>5, <2>6 DEF Ownership, IsCurrent, Has
<1>7. CASE ~Full
  <2>1. refused' = refused /\ freed' = freed
    BY <1>7 DEF Push
  <2>2. Waiting' = Append(Waiting, h)
    <3>1. count < Cap
      BY <1>7, QueueAssumption DEF TypeOK, RingOK, Full
    <3>2. QED BY <1>1, <1>7, <3>1, PushAppends DEF Push
  <2>3. \A c \in Cmds : Has(Waiting', c) <=> Has(Waiting, c) \/ c = h
    BY <1>1, <2>2, SequencesTyped, AppendHas
  <2> HIDE DEF h
  <2>4. \A c \in refused : c \in Cmds
    BY DEF TypeOK, ThreadsOK
  <2>5. \A c \in refused' : Pushed(c)' /\ ~Has(applied', c) /\ ~Has(Waiting', c)
    BY <1>2, <1>3, <1>4, <2>1, <2>3, <2>4 DEF Ownership
  <2>6. QED BY <1>3, <2>1, <2>5 DEF Ownership, Freed, IsCurrent, Has
<1>8. QED BY <1>6, <1>7

\* The popped command passes from the ring to the main thread.
LEMMA PopKeepsOwnership ==
  ASSUME TypeOK, LineOrder, Ownership, Pop
  PROVE  Ownership'
<1> DEFINE h == cells[head]
<1>1. /\ applied' = Append(applied, h) /\ current' = h /\ main = "pop" /\ main' = "apply"
      /\ UNCHANGED <<read, where, refused, freed>>
      /\ count > 0 /\ head' = (head + 1) % Cap /\ count' = count - 1 /\ cells' = cells
  BY DEF Pop, TakeHead, HasCommand
<1>2. Waiting # <<>> /\ h = Head(Waiting) /\ Waiting' = Tail(Waiting)
  BY <1>1, PopTakesHead
<1>3. /\ h \in Cmds /\ Has(Waiting, h)
      /\ \A c \in Cmds : Has(Waiting', c) <=> Has(Waiting, c) /\ c # h
  BY <1>2, SequencesTyped, TailHas DEF LineOrder
<1>4. \A c : Has(applied', c) <=> Has(applied, c) \/ c = h
  BY <1>1, <1>3, SequencesTyped, AppendHas
<1>5. ~Has(applied, h) /\ h \notin refused
  BY <1>3, PlacesApart DEF Ownership
<1> HIDE DEF h
<1>6. \A c \in Cmds : Freed(c)' <=> Freed(c)
  BY <1>1, <1>4, <1>5 DEF Freed, IsCurrent
<1>7. \A c \in refused' : Pushed(c)' /\ ~Has(applied', c) /\ ~Has(Waiting', c)
  <2>1. \A c \in refused : c \in Cmds /\ c # h
    BY <1>5 DEF TypeOK, ThreadsOK
  <2>2. QED BY <1>1, <1>3, <1>4, <2>1 DEF Ownership, Pushed
<1>8. QED BY <1>1, <1>4, <1>6, <1>7 DEF Ownership, IsCurrent

\* The main thread frees what it has applied.
LEMMA ApplyKeepsOwnership ==
  ASSUME TypeOK, LineOrder, Ownership, Apply
  PROVE  Ownership'
<1>1. /\ main = "apply" /\ main' = "pop" /\ freed' = [freed EXCEPT ![current] = freed[current] + 1]
      /\ UNCHANGED <<ringVars, read, applied, refused>>
      /\ \A q \in Producers : where'[q] = "push" => where[q] = "push"
  BY DEF Apply, Free, TypeOK, ThreadsOK, Producers
<1>2. current \in Cmds /\ IsCurrent(current) /\ Has(applied, current) /\ Waiting' = Waiting
  BY <1>1, WaitingKept DEF TypeOK, ThreadsOK, IsCurrent, Ownership
<1>3. ~Freed(current) /\ freed[current] = 0
  BY <1>2 DEF Freed, Ownership
<1>4. \A c \in Cmds : Freed(c)' <=> Freed(c) \/ c = current
  BY <1>1, <1>2 DEF Freed, IsCurrent
<1>5. freed'[current] = 1 /\ \A c \in Cmds : c # current => freed'[c] = freed[c]
  BY <1>1, <1>2, <1>3 DEF TypeOK, ThreadsOK
<1>6. \A c \in Cmds : freed'[c] = IF Freed(c)' THEN 1 ELSE 0
  BY <1>4, <1>5 DEF Ownership
<1>7. \A c \in refused' : Pushed(c)' /\ ~Has(applied', c) /\ ~Has(Waiting', c)
  <2>1. \A c \in refused : c \in Cmds /\ c.by \in Producers
    BY CommandFields DEF TypeOK, ThreadsOK
  <2>2. QED BY <1>1, <1>2, <2>1 DEF Ownership, Pushed
<1>8. QED BY <1>1, <1>6, <1>7 DEF Ownership, IsCurrent

LEMMA OwnershipStep ==
  ASSUME TypeOK, TypeOK', LineOrder, LineOrder', Ownership, [Next]_vars
  PROVE  Ownership'
\* Steps that move no command.
<1>1. ASSUME UNCHANGED <<ringVars, applied, refused, freed>>,
             \A c \in Cmds : IsCurrent(c)' <=> IsCurrent(c)
      PROVE  Ownership'
  <2>1. Waiting' = Waiting /\ \A c \in refused : c \in Cmds
    BY <1>1, WaitingKept DEF TypeOK, ThreadsOK
  <2>2. \A c \in Cmds : Pushed(c) => Pushed(c)'
    BY PushedKept
  <2>3. QED BY <1>1, <2>1, <2>2 DEF Ownership, Freed
<1>2. ASSUME NEW p \in Producers, ReadLine(p) \/ Retire(p) PROVE Ownership'
  BY <1>1, <1>2 DEF ReadLine, Retire, IsCurrent
<1>3. ASSUME NEW p \in Producers, Push(p) PROVE Ownership'
  BY <1>3, PushKeepsOwnership
<1>4. CASE Pop
  BY <1>4, PopKeepsOwnership
<1>5. CASE Apply
  BY <1>5, ApplyKeepsOwnership
<1>6. CASE Sigint \/ TestStop \/ NothingToPop \/ UNCHANGED vars
  BY <1>1, <1>6 DEF Sigint, TestStop, NothingToPop, vars, ringVars, IsCurrent
<1>7. QED BY <1>2, <1>3, <1>4, <1>5, <1>6 DEF Next, MainThread, Produce

\* Sets with at most one member.
LEMMA AtMostOne ==
  ASSUME NEW S, \A x, y \in S : x = y
  PROVE  Cardinality(S) = IF S = {} THEN 0 ELSE 1
<1>1. CASE S = {}
  BY <1>1, FS_EmptySet
<1>2. CASE S # {}
  <2>1. PICK x \in S : TRUE
    BY <1>2
  <2>2. S = {x}
    BY <2>1
  <2>3. QED BY <1>2, <2>2, FS_Singleton
<1>3. QED BY <1>1, <1>2

\* The owners OwnedOnce counts, in the ring and among the producers.
LEMMA OwnersCounted ==
  ASSUME TypeOK, LineOrder, NEW c \in Cmds
  PROVE  Owners(c) = (IF Has(Waiting, c) THEN 1 ELSE 0) + (IF IsHeld(c) THEN 1 ELSE 0)
                       + (IF IsCurrent(c) THEN 1 ELSE 0)
<1> DEFINE ring  == { i \in 1..count : Waiting[i] = c }
           hands == { p \in Producers : where[p] = "push" /\ Held(p) = c }
<1>1. Cardinality(ring) = IF Has(Waiting, c) THEN 1 ELSE 0
  <2>1. DOMAIN Waiting = 1..count /\ count \in Nat /\ c.line \in Nat
    BY WaitingSeq, CommandFields DEF TypeOK, RingOK
  <2>2. ASSUME NEW i \in ring, NEW j \in ring, i < j PROVE FALSE
    <3>1. Earlier(c, c)
      BY <2>1, <2>2 DEF LineOrder, Ascending
    <3>2. QED BY <2>1, <3>1 DEF Earlier
  <2>3. \A i, j \in ring : i = j
    <3>1. \A i, j \in ring : i < j \/ j < i \/ i = j
      BY <2>1
    <3>2. QED BY <2>2, <3>1
  <2>4. ring = {} <=> ~Has(Waiting, c)
    BY <2>1 DEF Has
  <2> HIDE DEF ring
  <2>5. QED BY <2>3, <2>4, AtMostOne
<1>2. Cardinality(hands) = IF IsHeld(c) THEN 1 ELSE 0
  <2>1. c.by \in Producers
    BY CommandFields
  <2>2. \A p \in Producers : Held(p) = c <=> p = c.by /\ c.line = read[p]
    BY DEF Held, Cmds
  <2>3. \A p, q \in hands : p = q
    BY <2>2
  <2>4. hands = {} <=> ~IsHeld(c)
    BY <2>1, <2>2 DEF IsHeld
  <2> HIDE DEF hands
  <2>5. QED BY <2>3, <2>4, AtMostOne
<1>3. QED BY <1>1, <1>2 DEF Owners, IsCurrent

\* No payload leaks and none is freed twice, for any number of scenarios and any
\* capacity: it belongs to its producer, then to the ring, then to the main
\* thread, and is freed by the producer if the ring is full and by cmd_apply
\* otherwise (cmd.c:33-59, main.c's loop).
THEOREM PayloadAlwaysOwnedOnce == Spec => []OwnedOnce
<1> DEFINE Inv == TypeOK /\ LineOrder /\ Ownership
<1>1. Init => Inv
  BY InitTyped, OrderInitial, OwnershipInitial
<1>2. Inv /\ [Next]_vars => Inv'
  <2>1. TypeOK /\ LineOrder /\ [Next]_vars => TypeOK' /\ LineOrder'
    BY StepTyped, OrderStep
  <2>2. QED BY <2>1, OwnershipStep
<1>3. Inv => OwnedOnce
  <2> SUFFICES ASSUME Inv, NEW c \in Cmds
               PROVE  /\ Owners(c) + freed[c] <= 1
                      /\ c \in refused \/ Has(applied, c) => Owners(c) + freed[c] = 1
    BY DEF OwnedOnce, Has
  <2>1. /\ Has(applied, c) \/ Has(Waiting, c) => ~IsHeld(c)
        /\ Has(Waiting, c) => ~Has(applied, c)
        /\ IsCurrent(c) => Has(applied, c)
        /\ c \in refused => ~Has(applied, c) /\ ~Has(Waiting, c) /\ ~IsHeld(c)
    BY PlacesApart DEF Ownership
  <2>2. Owners(c) = (IF Has(Waiting, c) THEN 1 ELSE 0) + (IF IsHeld(c) THEN 1 ELSE 0)
                      + (IF IsCurrent(c) THEN 1 ELSE 0)
    BY OwnersCounted
  <2>3. freed[c] = IF c \in refused \/ (Has(applied, c) /\ ~IsCurrent(c)) THEN 1 ELSE 0
    BY DEF Ownership, Freed
  <2>4. QED BY <2>1, <2>2, <2>3
<1>4. QED BY <1>1, <1>2, <1>3, PTL DEF Spec
=============================================================================
