-------------------------- MODULE CanFabricProofs --------------------------
(***************************************************************************)
(* Proofs about CanFabric for every number of ECUs, queue capacity and     *)
(* quota: the type invariant, that the threads and queues implement the    *)
(* abstract bus LossyBus, and that no frame vanishes between them.         *)
(*                                                                         *)
(* The argument of the refinement: a frame on its way to ECU e goes        *)
(* through three places, e's queue, the hand of e's thread and what e has  *)
(* received.  In each place, and from each place to the earlier one, the   *)
(* numbers of the frames of one sender increase, and none is above what    *)
(* that sender has copied to e so far.  So the frame a sender copies next  *)
(* is new everywhere, and the frame a thread delivers is news to e.        *)
(***************************************************************************)
EXTENDS CanFabric, TLAPS

\* What the arithmetic on indices comes to; the proofs use nothing else of it.
LEMMA Indices ==
  /\ Ecus \subseteq Threads /\ Main \in Threads /\ Main \notin Ecus
  /\ Operated \subseteq Ecus
  /\ 0 \in 0..N
  /\ \A i \in Ecus : i \in 0..N /\ i + 1 \in 0..N
BY FabricAssumption DEF Ecus, Threads, Main

-----------------------------------------------------------------------------
(* Type correctness.                                                       *)

LEMMA TypeInit == Init => TypeOK
BY FabricAssumption, Indices DEF Init, TypeOK, NoFrame, Frame

LEMMA EnqueueType ==
  ASSUME TypeOK, NEW t \in Threads, NEW e \in Ecus, EnqueueTo(t, e)
  PROVE  /\ queue' \in [Ecus -> Seq(Frame)]
         /\ \A d \in Ecus : Len(queue'[d]) <= QueueCap
         /\ lost' \in [Ecus -> SUBSET Frame]
<1> DEFINE f == CurrentFrame(t)
<1>1. f \in Frame
  BY Indices DEF TypeOK, CurrentFrame, Frame
<1>2. CASE Len(queue[e]) < QueueCap
  <2>1. queue' = [queue EXCEPT ![e] = Append(queue[e], f)] /\ lost' = lost
    BY <1>2 DEF EnqueueTo
  <2>2. queue[e] \in Seq(Frame)
    BY DEF TypeOK
  <2>3. Append(queue[e], f) \in Seq(Frame) /\ Len(Append(queue[e], f)) = Len(queue[e]) + 1
    BY <1>1, <2>2
  <2>4. Len(Append(queue[e], f)) <= QueueCap
    BY <1>2, <2>2, <2>3, FabricAssumption
  <2> QED BY <2>1, <2>3, <2>4 DEF TypeOK
<1>3. CASE ~ (Len(queue[e]) < QueueCap)
  <2>1. queue' = queue /\ lost' = [lost EXCEPT ![e] = lost[e] \cup {f}]
    BY <1>3 DEF EnqueueTo
  <2>2. lost[e] \cup {f} \in SUBSET Frame
    BY <1>1 DEF TypeOK
  <2> QED BY <2>1, <2>2 DEF TypeOK
<1> QED BY <1>2, <1>3

LEMMA TypeStep == TypeOK /\ [Next]_vars => TypeOK'
<1> SUFFICES ASSUME TypeOK, [Next]_vars PROVE TypeOK'
  OBVIOUS
<1> USE Indices
<1>1. ASSUME NEW e \in Ecus, Pop(e) PROVE TypeOK'
  <2>1. queue[e] \in Seq(Frame) /\ queue[e] # <<>> /\ Len(queue[e]) <= QueueCap
    BY <1>1 DEF Pop, TypeOK
  <2>2. Head(queue[e]) \in Frame /\ Tail(queue[e]) \in Seq(Frame)
          /\ Len(Tail(queue[e])) = Len(queue[e]) - 1 /\ Len(queue[e]) \in Nat
    BY <2>1
  <2>3. Len(Tail(queue[e])) <= QueueCap
    BY <2>1, <2>2, FabricAssumption
  <2> QED BY <1>1, <2>2, <2>3 DEF Goto, Pop, TypeOK
<1>2. ASSUME NEW e \in Ecus, DeliverFrame(e) PROVE TypeOK'
  <2>1. NoFrame \in Frame
    BY DEF NoFrame, Frame
  <2>2. got[e] \in Seq(Frame) /\ hand[e] \in Frame
    BY DEF TypeOK
  <2>3. Append(got[e], hand[e]) \in Seq(Frame)
    BY <2>2
  <2> QED BY <1>2, <2>1, <2>3 DEF Goto, DeliverFrame, TypeOK
<1>3. ASSUME NEW e \in Ecus, StartBatch(e) PROVE TypeOK'
  BY <1>3 DEF Goto, StartBatch, TypeOK
<1>4. ASSUME NEW e \in Ecus, LockBatch(e) PROVE TypeOK'
  BY <1>4 DEF Goto, LockBatch, TypeOK
<1>5. ASSUME NEW e \in Ecus, Transmit(e) PROVE TypeOK'
  <2>1. sent[e] + 1 \in Nat
    BY DEF TypeOK
  <2> QED BY <1>5, <2>1 DEF Goto, Transmit, TypeOK
<1>6. ASSUME NEW e \in Ecus, EndBatch(e) PROVE TypeOK'
  BY <1>6 DEF Goto, EndBatch, TypeOK
<1>7. ASSUME NEW t \in Threads, CopyFrame(t) PROVE TypeOK'
  <2>1. fan' \in [Threads -> 0..N]
    BY <1>7 DEF CopyFrame, TypeOK
  <2>2. CASE fan[t] = t
    BY <1>7, <2>1, <2>2 DEF CopyFrame, TypeOK
  <2>3. CASE fan[t] # t
    <3>1. fan[t] \in Ecus /\ EnqueueTo(t, fan[t])
      BY <1>7, <2>3 DEF CopyFrame
    <3>2. /\ queue' \in [Ecus -> Seq(Frame)]
          /\ \A d \in Ecus : Len(queue'[d]) <= QueueCap
          /\ lost' \in [Ecus -> SUBSET Frame]
      BY <3>1, EnqueueType
    <3> QED BY <1>7, <2>1, <3>2 DEF CopyFrame, TypeOK
  <2> QED BY <2>2, <2>3
<1>8. ASSUME NEW t \in Threads, CopyDone(t) PROVE TypeOK'
  BY <1>8 DEF Goto, CopyDone, TypeOK
<1>9. CASE Inject
  <2>1. sent[Main] + 1 \in Nat
    BY DEF TypeOK
  <2> QED BY <1>9, <2>1 DEF Goto, Inject, TypeOK
<1>10. ASSUME NEW e \in Operated, Operate(e) PROVE TypeOK'
  BY <1>10 DEF Goto, Operate, TypeOK
<1>11. CASE LockOperate
  BY <1>11 DEF Goto, LockOperate, TypeOK
<1>12. CASE EndOperate
  BY <1>12 DEF Goto, EndOperate, TypeOK
<1>13. CASE UNCHANGED vars
  BY <1>13 DEF vars, TypeOK
<1> QED
  BY <1>1, <1>2, <1>3, <1>4, <1>5, <1>6, <1>7, <1>8, <1>9, <1>10, <1>11, <1>12, <1>13
  DEF Next, MainThread, Chip

\* Every variable of the fabric always holds a value the code can give it, and
\* no queue ever exceeds its array, for any number of ECUs and any capacity.
THEOREM FabricTypeCorrect == Spec => []TypeOK
BY TypeInit, TypeStep, PTL DEF Spec

-----------------------------------------------------------------------------
(* The order of frames on their way.                                       *)

\* No sender takes a copy back.
CopiesGrow == \A t \in Threads, e \in Ecus : Copied(t, e) <= Copied(t, e)'

CopiesKept == \A t \in Threads, e \in Ecus : Copied(t, e)' = Copied(t, e)

\* A step that neither starts nor ends a copying loop and sends nothing copies
\* nothing;
LEMMA CopiedStill ==
  ASSUME sent' = sent, fan' = fan, \A t \in Threads : pc'[t] = "fanout" <=> pc[t] = "fanout"
  PROVE  CopiesKept
BY DEF CopiesKept, Copied

\* nor does the step that makes a thread send its next frame,
LEMMA CopiedSend ==
  ASSUME TypeOK, NEW s \in Threads, pc[s] # "fanout", pc' = [pc EXCEPT ![s] = "fanout"],
         sent' = [sent EXCEPT ![s] = sent[s] + 1], fan' = [fan EXCEPT ![s] = 0]
  PROVE  CopiesKept
<1>1. \A e \in Ecus : 0 <= e
  BY DEF Ecus
<1>2. \A t \in Threads : sent[t] \in Nat
  BY DEF TypeOK
<1>3. ASSUME NEW t \in Threads, NEW e \in Ecus PROVE Copied(t, e)' = Copied(t, e)
  <2>1. CASE t = s
    <3>1. pc'[t] = "fanout" /\ fan'[t] = 0 /\ sent'[t] = sent[t] + 1
      BY <2>1 DEF TypeOK
    <3> QED BY <1>1, <1>2, <2>1, <3>1 DEF Copied
  <2>2. CASE t # s
    <3>1. pc'[t] = pc[t] /\ fan'[t] = fan[t] /\ sent'[t] = sent[t]
      BY <2>2 DEF TypeOK
    <3> QED BY <3>1 DEF Copied
  <2> QED BY <2>1, <2>2
<1> QED BY <1>3 DEF CopiesKept

\* nor the end of its loop.
LEMMA CopiedDone ==
  ASSUME TypeOK, NEW t \in Threads, CopyDone(t)
  PROVE  CopiesKept
<1>1. fan' = fan /\ sent' = sent
  BY DEF CopyDone
<1>2. ASSUME NEW s \in Threads, NEW e \in Ecus PROVE Copied(s, e)' = Copied(s, e)
  <2>1. CASE s = t
    <3>1. ~ (fan[t] <= e)
      BY FabricAssumption DEF CopyDone, Ecus
    <3> QED BY <1>1, <2>1, <3>1 DEF Copied
  <2>2. CASE s # t
    BY <1>1, <2>2 DEF Copied, CopyDone, Goto, TypeOK
  <2> QED BY <2>1, <2>2
<1> QED BY <1>2 DEF CopiesKept

\* A turn of the loop copies one frame to one ECU.
LEMMA CopiedOne ==
  ASSUME TypeOK, NEW s \in Threads, CopyFrame(s), NEW t \in Threads, NEW e \in Ecus,
         t # s \/ e # fan[s]
  PROVE  Copied(t, e)' = Copied(t, e)
<1>1. /\ pc[s] = "fanout" /\ fan[s] \in Ecus /\ fan' = [fan EXCEPT ![s] = fan[s] + 1]
      /\ pc' = pc /\ sent' = sent
  BY DEF CopyFrame
<1>2. CASE t # s
  BY <1>1, <1>2 DEF Copied, TypeOK
<1>3. CASE t = s /\ e # fan[s]
  <2>1. fan'[t] = fan[s] + 1 /\ e \in Int /\ fan[s] \in Int
    BY <1>1, <1>3 DEF TypeOK, Ecus
  <2>2. fan'[t] <= e <=> fan[t] <= e
    BY <1>3, <2>1
  <2> QED BY <1>1, <2>2 DEF Copied
<1> QED BY <1>2, <1>3

LEMMA CopiedNat ==
  ASSUME TypeOK, PipelineOrdered, NEW t \in Threads, NEW e \in Ecus
  PROVE  Copied(t, e) \in Nat
<1>1. sent[t] \in Nat /\ (pc[t] = "fanout" => sent[t] > 0)
  BY DEF TypeOK, PipelineOrdered
<1> QED BY <1>1 DEF Copied

LEMMA KnownKept ==
  ASSUME TypeOK, TypeOK', PipelineOrdered, CopiesGrow,
         NEW e \in Ecus, NEW f \in Frame, Known(e, f)
  PROVE  Known(e, f)'
<1>1. f.from \in Threads /\ f.n \in Nat
  BY DEF Frame
<1>2. Copied(f.from, e) \in Nat
  BY <1>1, CopiedNat
<1>3. Copied(f.from, e)' \in Int
  BY <1>1 DEF Copied, TypeOK
<1>4. Copied(f.from, e) <= Copied(f.from, e)'
  BY <1>1 DEF CopiesGrow
<1> QED BY <1>1, <1>2, <1>3, <1>4 DEF Known

\* A step that moves no frame only has to keep what was sent.
LEMMA QuietStep ==
  ASSUME TypeOK, TypeOK', PipelineOrdered, CopiesGrow,
         queue' = queue, hand' = hand, got' = got,
         \A e \in Ecus : pc'[e] = "deliver" => pc[e] = "deliver",
         \A t \in Threads : pc'[t] = "fanout" => sent'[t] > 0
  PROVE  PipelineOrdered'
<1>1. ASSUME NEW e \in Ecus PROVE AllKnown(e)' /\ Ordered(e)'
  <2>1. AllKnown(e) /\ Ordered(e) /\ (pc'[e] = "deliver" => pc[e] = "deliver")
    BY DEF PipelineOrdered
  <2>2. queue[e] \in Seq(Frame) /\ got[e] \in Seq(Frame) /\ hand[e] \in Frame
    BY DEF TypeOK
  <2>3. /\ \A i \in DOMAIN queue[e] : queue[e][i] \in Frame
        /\ \A i \in DOMAIN got[e] : got[e][i] \in Frame
    BY <2>2
  <2>4. AllKnown(e)'
    BY <2>1, <2>2, <2>3, KnownKept DEF AllKnown
  <2>5. Ordered(e)'
    BY <2>1 DEF Ordered, Older
  <2> QED BY <2>4, <2>5
<1> QED BY <1>1 DEF PipelineOrdered

\* drain_can_rx takes the oldest frame of the queue in hand.
LEMMA PopOrdered ==
  ASSUME TypeOK, TypeOK', PipelineOrdered, NEW c \in Ecus, Pop(c)
  PROVE  PipelineOrdered'
<1> USE Indices
<1>1. CopiesGrow
  <2>1. CopiesKept
    BY CopiedStill DEF Pop, Goto, TypeOK
  <2> QED BY <2>1, CopiedNat DEF CopiesGrow, CopiesKept
<1>2. \A t \in Threads : pc'[t] = "fanout" => sent'[t] > 0
  BY DEF PipelineOrdered, Pop, Goto, TypeOK
<1>3. ASSUME NEW e \in Ecus PROVE AllKnown(e)' /\ Ordered(e)'
  <2>1. AllKnown(e) /\ Ordered(e)
    BY DEF PipelineOrdered
  <2>2. queue[e] \in Seq(Frame) /\ got[e] \in Seq(Frame) /\ hand[e] \in Frame
    BY DEF TypeOK
  <2>3. /\ \A i \in DOMAIN queue[e] : queue[e][i] \in Frame
        /\ \A i \in DOMAIN got[e] : got[e][i] \in Frame
    BY <2>2
  <2>4. got' = got
    BY DEF Pop
  <2>5. CASE e = c
    <3>1. /\ queue[e] # <<>> /\ pc[e] = "drain"
          /\ hand'[e] = Head(queue[e]) /\ queue'[e] = Tail(queue[e])
      BY <2>5 DEF Pop, Goto, TypeOK
    <3>2. /\ Len(queue[e]) \in Nat \ {0} /\ DOMAIN queue[e] = 1..Len(queue[e])
          /\ hand'[e] = queue[e][1]
          /\ DOMAIN queue'[e] = 1..(Len(queue[e]) - 1)
          /\ \A i \in DOMAIN queue'[e] : queue'[e][i] = queue[e][i + 1]
      BY <2>2, <3>1
    <3>3. \A i \in DOMAIN queue'[e] : i + 1 \in DOMAIN queue[e] /\ 1 < i + 1 /\ i \in Nat
      BY <3>2
    <3>4. 1 \in DOMAIN queue[e]
      BY <3>2
    <3>5. AllKnown(e)'
      <4>1. \A f \in Frame : Known(e, f) => Known(e, f)'
        BY <1>1, KnownKept
      <4>2. \A i \in DOMAIN got[e] : Known(e, got[e][i])
        BY <2>1 DEF AllKnown
      <4>3. Known(e, queue[e][1]) /\ \A i \in DOMAIN queue'[e] : Known(e, queue[e][i + 1])
        BY <2>1, <3>3, <3>4 DEF AllKnown
      <4>4. queue[e][1] \in Frame /\ \A i \in DOMAIN queue'[e] : queue[e][i + 1] \in Frame
        BY <2>3, <3>3, <3>4
      <4> QED BY <2>3, <2>4, <3>2, <4>1, <4>2, <4>3, <4>4 DEF AllKnown, Known, Copied
    <3>6. Ordered(e)'
      <4>1. \A i, j \in DOMAIN queue'[e] : i < j => Older(queue'[e][i], queue'[e][j])
        <5> TAKE i, j \in DOMAIN queue'[e]
        <5>1. i + 1 \in DOMAIN queue[e] /\ j + 1 \in DOMAIN queue[e] /\ (i < j => i + 1 < j + 1)
          BY <3>3
        <5>2. i < j => Older(queue[e][i + 1], queue[e][j + 1])
          BY <2>1, <5>1 DEF Ordered
        <5> QED BY <3>2, <5>2
      <4>2. \A j \in DOMAIN queue'[e] : Older(hand'[e], queue'[e][j])
        <5> TAKE j \in DOMAIN queue'[e]
        <5>1. Older(queue[e][1], queue[e][j + 1])
          BY <2>1, <3>3, <3>4 DEF Ordered
        <5> QED BY <3>2, <5>1
      <4>3. \A i \in DOMAIN got[e], j \in DOMAIN queue'[e] : Older(got[e][i], queue'[e][j])
        <5> TAKE i \in DOMAIN got[e], j \in DOMAIN queue'[e]
        <5>1. Older(got[e][i], queue[e][j + 1])
          BY <2>1, <3>3 DEF Ordered
        <5> QED BY <3>2, <5>1
      <4>4. \A i \in DOMAIN got[e] : Older(got[e][i], hand'[e])
        BY <2>1, <3>2, <3>4 DEF Ordered
      <4> QED BY <2>4, <4>1, <4>2, <4>3, <4>4 DEF Ordered, Older
    <3> QED BY <3>5, <3>6
  <2>6. CASE e # c
    <3>1. queue'[e] = queue[e] /\ hand'[e] = hand[e] /\ pc'[e] = pc[e]
      BY <2>6 DEF Pop, Goto, TypeOK
    <3>2. AllKnown(e)'
      BY <1>1, <2>1, <2>2, <2>3, <2>4, <3>1, KnownKept DEF AllKnown
    <3>3. Ordered(e)'
      BY <2>1, <2>4, <3>1 DEF Ordered, Older
    <3> QED BY <3>2, <3>3
  <2> QED BY <2>5, <2>6
<1> QED BY <1>2, <1>3 DEF PipelineOrdered

\* ... and hands it to the controller.
LEMMA DeliverOrdered ==
  ASSUME TypeOK, TypeOK', PipelineOrdered, NEW c \in Ecus, DeliverFrame(c)
  PROVE  PipelineOrdered'
<1> USE Indices
<1>1. CopiesGrow
  <2>1. CopiesKept
    BY CopiedStill DEF DeliverFrame, Goto, TypeOK
  <2> QED BY <2>1, CopiedNat DEF CopiesGrow, CopiesKept
<1>2. \A t \in Threads : pc'[t] = "fanout" => sent'[t] > 0
  BY DEF PipelineOrdered, DeliverFrame, Goto, TypeOK
<1>3. ASSUME NEW e \in Ecus PROVE AllKnown(e)' /\ Ordered(e)'
  <2>1. AllKnown(e) /\ Ordered(e)
    BY DEF PipelineOrdered
  <2>2. queue[e] \in Seq(Frame) /\ got[e] \in Seq(Frame) /\ hand[e] \in Frame
    BY DEF TypeOK
  <2>3. /\ \A i \in DOMAIN queue[e] : queue[e][i] \in Frame
        /\ \A i \in DOMAIN got[e] : got[e][i] \in Frame
    BY <2>2
  <2>4. queue' = queue
    BY DEF DeliverFrame
  <2>5. \A f \in Frame : Known(e, f) => Known(e, f)'
    BY <1>1, KnownKept
  <2>6. CASE e = c
    <3>1. pc[e] = "deliver" /\ pc'[e] # "deliver" /\ got'[e] = Append(got[e], hand[e])
      BY <2>6 DEF DeliverFrame, Goto, TypeOK
    <3>2. \A i \in DOMAIN got'[e] :
            got'[e][i] = hand[e] \/ (i \in DOMAIN got[e] /\ got'[e][i] = got[e][i])
      BY <2>2, <3>1
    <3>3. AllKnown(e)'
      BY <2>1, <2>2, <2>3, <2>4, <2>5, <3>1, <3>2 DEF AllKnown, Known, Copied
    <3>4. \A i \in DOMAIN got'[e], j \in DOMAIN queue[e] : Older(got'[e][i], queue[e][j])
      BY <2>1, <3>1, <3>2 DEF Ordered, Older
    <3>5. Ordered(e)'
      BY <2>1, <2>4, <3>1, <3>4 DEF Ordered, Older
    <3> QED BY <3>3, <3>5
  <2>7. CASE e # c
    <3>1. got'[e] = got[e] /\ hand'[e] = hand[e] /\ pc'[e] = pc[e]
      BY <2>7 DEF DeliverFrame, Goto, TypeOK
    <3>2. AllKnown(e)'
      BY <2>1, <2>2, <2>3, <2>4, <2>5, <3>1 DEF AllKnown, Known, Copied
    <3>3. Ordered(e)'
      BY <2>1, <2>4, <3>1 DEF Ordered, Older
    <3> QED BY <3>2, <3>3
  <2> QED BY <2>6, <2>7
<1> QED BY <1>2, <1>3 DEF PipelineOrdered

\* The copying loops append the sender's newest frame, which is new everywhere.
LEMMA CopyOrdered ==
  ASSUME TypeOK, TypeOK', PipelineOrdered, NEW s \in Threads, CopyFrame(s)
  PROVE  PipelineOrdered'
<1> USE Indices
<1>1. /\ pc[s] = "fanout" /\ fan[s] \in Ecus /\ fan' = [fan EXCEPT ![s] = fan[s] + 1]
      /\ pc' = pc /\ hand' = hand /\ sent' = sent /\ got' = got
  BY DEF CopyFrame
<1>2. sent[s] \in Nat /\ sent[s] > 0 /\ fan[s] \in Int
  BY <1>1 DEF TypeOK, PipelineOrdered, Ecus
<1>3. \A t \in Threads, e \in Ecus :
        (t # s \/ e # fan[s]) => Copied(t, e)' = Copied(t, e)
  BY CopiedOne
<1>4. Copied(s, fan[s]) = sent[s] - 1
  BY <1>1, <1>2 DEF Copied
<1>5. ASSUME NEW e \in Ecus, e = fan[s] PROVE Copied(s, e)' = sent[s]
  <2>1. fan'[s] = e + 1 /\ e \in Int
    BY <1>1, <1>5 DEF TypeOK, Ecus
  <2> QED BY <1>1, <2>1 DEF Copied
<1>6. CopiesGrow
  <2> SUFFICES ASSUME NEW t \in Threads, NEW e \in Ecus PROVE Copied(t, e) <= Copied(t, e)'
    BY DEF CopiesGrow
  <2>1. CASE t = s /\ e = fan[s]
    BY <1>2, <1>4, <1>5, <2>1
  <2>2. CASE ~ (t = s /\ e = fan[s])
    BY <1>3, <2>2, CopiedNat
  <2> QED BY <2>1, <2>2
<1>7. \A t \in Threads : pc'[t] = "fanout" => sent'[t] > 0
  BY <1>1 DEF PipelineOrdered
<1>8. ASSUME NEW e \in Ecus PROVE AllKnown(e)' /\ Ordered(e)'
  <2> DEFINE f == CurrentFrame(s)
  <2>1. AllKnown(e) /\ Ordered(e)
    BY DEF PipelineOrdered
  <2>2. queue[e] \in Seq(Frame) /\ got[e] \in Seq(Frame) /\ hand[e] \in Frame
    BY DEF TypeOK
  <2>3. /\ \A i \in DOMAIN queue[e] : queue[e][i] \in Frame
        /\ \A i \in DOMAIN got[e] : got[e][i] \in Frame
    BY <2>2
  <2>4. \A g \in Frame : Known(e, g) => Known(e, g)'
    BY <1>6, KnownKept
  <2>5. CASE queue'[e] = queue[e]
    <3>1. AllKnown(e)'
      BY <1>1, <2>1, <2>2, <2>3, <2>4, <2>5 DEF AllKnown, Known, Copied
    <3>2. Ordered(e)'
      BY <1>1, <2>1, <2>5 DEF Ordered, Older
    <3> QED BY <3>1, <3>2
  <2>6. CASE queue'[e] # queue[e]
    <3>1. e = fan[s] /\ e # s /\ queue'[e] = Append(queue[e], f)
      <4>1. fan[s] # s /\ EnqueueTo(s, fan[s])
        BY <2>6 DEF CopyFrame
      <4>2. queue' = [queue EXCEPT ![fan[s]] = Append(queue[fan[s]], f)]
        BY <2>6, <4>1 DEF EnqueueTo
      <4>3. e = fan[s]
        BY <1>1, <2>6, <4>2 DEF TypeOK
      <4> QED BY <4>1, <4>2, <4>3 DEF TypeOK
    <3>2. f.from = s /\ f.n = sent[s] /\ f \in Frame
      BY <1>2 DEF CurrentFrame, Frame
    <3>3. \A g \in Frame : Known(e, g) => Older(g, f)
      BY <1>2, <1>4, <3>1, <3>2 DEF Known, Older, Frame
    <3>4. Known(e, f)'
      <4>1. f' = f
        BY <1>1 DEF CurrentFrame
      <4>2. Copied(s, e)' = sent[s]
        BY <1>5, <3>1
      <4>3. f.n \in 1..sent[s]
        BY <1>2, <3>2
      <4> QED BY <3>1, <3>2, <4>1, <4>2, <4>3 DEF Known, Copied
    <3>5. \A i \in DOMAIN queue'[e] :
            \/ queue'[e][i] = f /\ i = Len(queue[e]) + 1
            \/ i \in DOMAIN queue[e] /\ queue'[e][i] = queue[e][i] /\ i <= Len(queue[e])
      BY <2>2, <3>1, <3>2
    <3>6. f' = f
      BY <1>1 DEF CurrentFrame
    <3>7. AllKnown(e)'
      <4>1. \A i \in DOMAIN got[e] : Known(e, got[e][i])'
        BY <1>1, <2>1, <2>3, <2>4 DEF AllKnown, Known, Copied
      <4>2. pc[e] = "deliver" => Known(e, hand[e])'
        BY <1>1, <2>1, <2>2, <2>4 DEF AllKnown, Known, Copied
      <4>3. \A i \in DOMAIN queue'[e] : Known(e, queue[e][i])'
        <5> SUFFICES ASSUME NEW i \in DOMAIN queue'[e] PROVE Known(e, queue[e][i])'
          OBVIOUS
        <5>1. CASE queue'[e][i] = f
          BY <3>4, <3>6, <5>1 DEF Known, Copied
        <5>2. CASE i \in DOMAIN queue[e] /\ queue'[e][i] = queue[e][i]
          BY <2>1, <2>3, <2>4, <5>2 DEF AllKnown, Known, Copied
        <5> QED BY <3>5, <5>1, <5>2
      <4> QED BY <1>1, <4>1, <4>2, <4>3 DEF AllKnown
    <3>8. \A i, j \in DOMAIN queue'[e] : i < j => Older(queue'[e][i], queue'[e][j])
      <4> TAKE i, j \in DOMAIN queue'[e]
      <4> HAVE i < j
      <4>1. Len(queue[e]) \in Nat /\ i \in Int /\ j \in Int
        BY <2>2, <3>1, <3>2
      <4>2. i \in DOMAIN queue[e] /\ queue'[e][i] = queue[e][i]
        BY <3>5, <4>1
      <4>3. Older(queue[e][i], f)
        BY <2>1, <2>3, <3>3, <4>2 DEF AllKnown
      <4> QED BY <2>1, <3>5, <4>2, <4>3 DEF Ordered
    <3>9. \A i \in DOMAIN got[e], j \in DOMAIN queue'[e] : Older(got[e][i], queue'[e][j])
      BY <2>1, <2>3, <3>3, <3>5 DEF AllKnown, Ordered
    <3>10. pc[e] = "deliver" => \A j \in DOMAIN queue'[e] : Older(hand[e], queue'[e][j])
      BY <2>1, <2>2, <3>3, <3>5 DEF AllKnown, Ordered
    <3>11. Ordered(e)'
      BY <1>1, <2>1, <3>8, <3>9, <3>10 DEF Ordered, Older
    <3> QED BY <3>7, <3>11
  <2> QED BY <2>5, <2>6
<1> QED BY <1>7, <1>8 DEF PipelineOrdered

LEMMA OrderInit == Init => PipelineOrdered
<1> SUFFICES ASSUME Init PROVE PipelineOrdered
  OBVIOUS
<1>1. \A t \in Threads : pc[t] # "fanout" /\ pc[t] # "deliver"
  BY DEF Init
<1>2. \A e \in Ecus : queue[e] = <<>> /\ got[e] = <<>> /\ e \in Threads
  BY Indices DEF Init
<1> QED BY <1>1, <1>2 DEF PipelineOrdered, AllKnown, Ordered

LEMMA OrderStep == TypeOK /\ TypeOK' /\ PipelineOrdered /\ [Next]_vars => PipelineOrdered'
<1> SUFFICES ASSUME TypeOK, TypeOK', PipelineOrdered, [Next]_vars PROVE PipelineOrdered'
  OBVIOUS
<1> USE Indices
\* What QuietStep asks of an action that moves no frame.
<1> DEFINE Quiet == /\ queue' = queue /\ hand' = hand /\ got' = got
                    /\ \A e \in Ecus : pc'[e] = "deliver" => pc[e] = "deliver"
                    /\ \A t \in Threads : pc'[t] = "fanout" => sent'[t] > 0
<1>quiet. Quiet /\ CopiesKept => PipelineOrdered'
  <2> SUFFICES ASSUME Quiet, CopiesKept PROVE PipelineOrdered'
    OBVIOUS
  <2>1. CopiesGrow
    BY CopiedNat DEF CopiesGrow, CopiesKept
  <2> QED BY <2>1, QuietStep
<1>still. ASSUME queue' = queue, hand' = hand, got' = got, sent' = sent, fan' = fan,
              \A t \in Threads : pc'[t] = "fanout" <=> pc[t] = "fanout",
              \A e \in Ecus : pc'[e] = "deliver" => pc[e] = "deliver"
       PROVE  PipelineOrdered'
  <2>1. \A t \in Threads : pc'[t] = "fanout" => sent'[t] > 0
    BY <1>still DEF PipelineOrdered
  <2> QED BY <1>quiet, <1>still, <2>1, CopiedStill
<1>send. ASSUME NEW s \in Threads, queue' = queue, hand' = hand, got' = got,
               pc[s] # "fanout", pc' = [pc EXCEPT ![s] = "fanout"],
               sent' = [sent EXCEPT ![s] = sent[s] + 1], fan' = [fan EXCEPT ![s] = 0]
        PROVE  PipelineOrdered'
  <2>1. \A t \in Threads : sent[t] \in Nat
    BY DEF TypeOK
  <2>2. \A t \in Threads : pc'[t] = "fanout" => sent'[t] > 0
    BY <1>send, <2>1 DEF PipelineOrdered, TypeOK
  <2>3. \A e \in Ecus : pc'[e] = "deliver" => pc[e] = "deliver"
    BY <1>send DEF TypeOK
  <2>4. CopiesKept
    BY <1>send, CopiedSend
  <2> QED BY <1>quiet, <1>send, <2>2, <2>3, <2>4
<1>1. ASSUME NEW e \in Ecus, Pop(e) PROVE PipelineOrdered'
  BY <1>1, PopOrdered
<1>2. ASSUME NEW e \in Ecus, DeliverFrame(e) PROVE PipelineOrdered'
  BY <1>2, DeliverOrdered
<1>3. ASSUME NEW e \in Ecus, StartBatch(e) PROVE PipelineOrdered'
  BY <1>still, <1>3 DEF StartBatch, Goto, TypeOK
<1>4. ASSUME NEW e \in Ecus, LockBatch(e) PROVE PipelineOrdered'
  BY <1>still, <1>4 DEF LockBatch, Goto, TypeOK
<1>5. ASSUME NEW e \in Ecus, Transmit(e) PROVE PipelineOrdered'
  BY <1>send, <1>5 DEF Transmit, Goto
<1>6. ASSUME NEW e \in Ecus, EndBatch(e) PROVE PipelineOrdered'
  BY <1>still, <1>6 DEF EndBatch, Goto, TypeOK
<1>7. ASSUME NEW t \in Threads, CopyFrame(t) PROVE PipelineOrdered'
  BY <1>7, CopyOrdered
<1>8. ASSUME NEW t \in Threads, CopyDone(t) PROVE PipelineOrdered'
  <2>1. fan' = fan /\ sent' = sent /\ queue' = queue /\ hand' = hand /\ got' = got
    BY <1>8 DEF CopyDone
  <2>2. CopiesKept
    BY <1>8, CopiedDone
  <2>3. /\ \A s \in Threads : pc'[s] = "fanout" => pc[s] = "fanout"
        /\ \A e \in Ecus : pc'[e] = "deliver" => pc[e] = "deliver"
    BY <1>8 DEF CopyDone, Goto, TypeOK
  <2>4. \A s \in Threads : pc'[s] = "fanout" => sent'[s] > 0
    BY <2>1, <2>3 DEF PipelineOrdered
  <2> QED BY <1>quiet, <2>1, <2>2, <2>3, <2>4
<1>9. CASE Inject
  <2>1. Goto(Main, "idle", "fanout") /\ queue' = queue /\ hand' = hand /\ got' = got
        /\ sent' = [sent EXCEPT ![Main] = sent[Main] + 1] /\ fan' = [fan EXCEPT ![Main] = 0]
    BY <1>9 DEF Inject
  <2>2. pc[Main] # "fanout" /\ pc' = [pc EXCEPT ![Main] = "fanout"]
    BY <2>1 DEF Goto
  <2> QED BY <1>send, <2>1, <2>2
<1>10. ASSUME NEW e \in Operated, Operate(e) PROVE PipelineOrdered'
  BY <1>still, <1>10 DEF Operate, Goto, TypeOK
<1>11. CASE LockOperate
  BY <1>still, <1>11 DEF LockOperate, Goto, TypeOK
<1>12. CASE EndOperate
  BY <1>still, <1>12 DEF EndOperate, Goto, TypeOK
<1>13. CASE UNCHANGED vars
  BY <1>still, <1>13 DEF vars
<1> QED
  BY <1>1, <1>2, <1>3, <1>4, <1>5, <1>6, <1>7, <1>8, <1>9, <1>10, <1>11, <1>12, <1>13
  DEF Next, MainThread, Chip

\* Of two frames of one sender the older is always further on its way to every
\* ECU, and no ECU's way holds a frame that was not copied to it or that it
\* sent itself: the copying loops and drain_can_rx never mix frames up.
THEOREM PipelineAlwaysOrdered == Spec => []PipelineOrdered
<1>1. Init => TypeOK /\ PipelineOrdered
  BY TypeInit, OrderInit
<1>2. TypeOK /\ PipelineOrdered /\ [Next]_vars => (TypeOK /\ PipelineOrdered)'
  BY TypeStep, OrderStep
<1> QED BY <1>1, <1>2, PTL DEF Spec

-----------------------------------------------------------------------------
(* The refinement.                                                         *)

LEMMA BusInitial == Init => Bus!BusInit
BY DEF Init, Bus!BusInit

\* A delivery of the fabric is a delivery of the bus.
LEMMA DeliverIsNews ==
  ASSUME TypeOK, PipelineOrdered, NEW c \in Ecus, DeliverFrame(c)
  PROVE  Bus!BusNext
<1> USE Indices
<1> DEFINE f == hand[c]
<1>1. /\ pc[c] = "deliver" /\ sent' = sent
      /\ got' = [got EXCEPT ![c] = Append(got[c], f)]
  BY DEF DeliverFrame, Goto
<1>2. Known(c, f) /\ \A i \in DOMAIN got[c] : Older(got[c][i], f)
  BY <1>1 DEF PipelineOrdered, AllKnown, Ordered
<1>3. f \in Frame /\ f.from \in Threads /\ f.n \in Nat /\ f = [from |-> f.from, n |-> f.n]
  BY DEF TypeOK, Frame
<1>4. f.from # c /\ f.n \in 1..sent[f.from]
  <2>1. sent[f.from] \in Nat
    BY <1>3 DEF TypeOK
  <2> QED BY <1>2, <1>3, <2>1 DEF Known, Copied
<1>5. Bus!IsNews(c, f)
  BY <1>2 DEF Bus!IsNews, Older
<1>6. Bus!Deliver(c, f)
  BY <1>1, <1>4, <1>5 DEF Bus!Deliver
<1> QED BY <1>3, <1>4, <1>6 DEF Bus!BusNext

LEMMA BusStep ==
  TypeOK /\ PipelineOrdered /\ [Next]_vars => [Bus!BusNext]_Bus!busVars
<1> SUFFICES ASSUME TypeOK, PipelineOrdered, [Next]_vars
             PROVE  Bus!BusNext \/ UNCHANGED <<sent, got>>
  BY DEF Bus!busVars
<1> USE Indices
<1>1. ASSUME NEW e \in Ecus, DeliverFrame(e) PROVE Bus!BusNext
  BY <1>1, DeliverIsNews
<1>2. ASSUME NEW e \in Ecus, Transmit(e) PROVE Bus!BusNext
  <2>1. Bus!Send(e)
    BY <1>2 DEF Transmit, Bus!Send
  <2> QED BY <2>1 DEF Bus!BusNext
<1>3. CASE Inject
  <2>1. Bus!Send(Main)
    BY <1>3 DEF Inject, Bus!Send
  <2> QED BY <2>1 DEF Bus!BusNext
<1>4. ASSUME NEW t \in Threads, CopyFrame(t) \/ CopyDone(t) PROVE UNCHANGED <<sent, got>>
  BY <1>4 DEF CopyFrame, CopyDone
<1>5. ASSUME NEW e \in Ecus, Pop(e) \/ StartBatch(e) \/ LockBatch(e) \/ EndBatch(e)
      PROVE  UNCHANGED <<sent, got>>
  BY <1>5 DEF Pop, StartBatch, LockBatch, EndBatch
<1>6. ASSUME NEW e \in Operated, Operate(e) PROVE UNCHANGED <<sent, got>>
  BY <1>6 DEF Operate
<1>7. CASE LockOperate \/ EndOperate \/ UNCHANGED vars
  BY <1>7 DEF LockOperate, EndOperate, vars
<1> QED BY <1>1, <1>2, <1>3, <1>4, <1>5, <1>6, <1>7 DEF Next, MainThread, Chip

\* The chip threads, their queues and locks implement the abstract bus: nobody
\* receives a frame that was not sent, its own frame, a frame twice, or two
\* frames of one sender in the wrong order, for any number of ECUs.
THEOREM FabricImplementsBus == Spec => ImplementsBus
<1>1. Spec => [](TypeOK /\ PipelineOrdered)
  BY FabricTypeCorrect, PipelineAlwaysOrdered, PTL
<1> QED BY <1>1, BusInitial, BusStep, PTL DEF Spec, ImplementsBus, Bus!BusSpec

-----------------------------------------------------------------------------
(* What becomes of the frames.  NothingVanishes compares two sets; here    *)
(* frame by frame: one that somebody else has copied to e is on e's way,   *)
(* and nothing else is.                                                    *)

Way(e) == Range(queue[e]) \cup InHand(e) \cup Range(got[e]) \cup lost[e]

Accounted == \A e \in Ecus, f \in Frame : Known(e, f) <=> f \in Way(e)

LEMMA AppendRange ==
  ASSUME NEW s \in Seq(Frame), NEW f \in Frame
  PROVE  Range(Append(s, f)) = Range(s) \cup {f}
<1>1. /\ DOMAIN s = 1..Len(s) /\ DOMAIN Append(s, f) = 1..(Len(s) + 1) /\ Len(s) \in Nat
      /\ \A i \in 1..Len(s) : Append(s, f)[i] = s[i]
      /\ Append(s, f)[Len(s) + 1] = f
  OBVIOUS
<1>2. \A i \in 1..(Len(s) + 1) : i \in 1..Len(s) \/ i = Len(s) + 1
  BY <1>1
<1>3. Len(s) + 1 \in 1..(Len(s) + 1) /\ \A i \in 1..Len(s) : i \in 1..(Len(s) + 1)
  BY <1>1
<1> QED BY <1>1, <1>2, <1>3 DEF Range

LEMMA TailRange ==
  ASSUME NEW s \in Seq(Frame), s # <<>>
  PROVE  Range(s) = Range(Tail(s)) \cup {Head(s)}
<1>1. /\ Len(s) \in Nat \ {0} /\ DOMAIN s = 1..Len(s) /\ Head(s) = s[1]
      /\ DOMAIN Tail(s) = 1..(Len(s) - 1)
      /\ \A i \in 1..(Len(s) - 1) : Tail(s)[i] = s[i + 1]
  OBVIOUS
<1>2. ASSUME NEW i \in 1..Len(s) PROVE i = 1 \/ (i - 1 \in 1..(Len(s) - 1) /\ s[i] = Tail(s)[i - 1])
  <2>1. i # 1 => i - 1 \in 1..(Len(s) - 1) /\ (i - 1) + 1 = i
    BY <1>1
  <2> QED BY <1>1, <2>1
<1>3. 1 \in 1..Len(s) /\ \A i \in 1..(Len(s) - 1) : i + 1 \in 1..Len(s)
  BY <1>1
<1>4. Range(s) = { s[i] : i \in 1..Len(s) } /\ Range(Tail(s)) = { Tail(s)[i] : i \in 1..(Len(s) - 1) }
  BY <1>1 DEF Range
<1>5. ASSUME NEW x \in Range(s) PROVE x \in Range(Tail(s)) \cup {Head(s)}
  <2>1. PICK i \in 1..Len(s) : s[i] = x
    BY <1>4
  <2> QED BY <1>1, <1>2, <1>4, <2>1
<1>6. ASSUME NEW x \in Range(Tail(s)) PROVE x \in Range(s)
  BY <1>1, <1>3, <1>4
<1>7. Head(s) \in Range(s)
  BY <1>1, <1>3, <1>4
<1> QED BY <1>5, <1>6, <1>7

LEMMA AccountedInit == Init => Accounted
<1> SUFFICES ASSUME Init, NEW e \in Ecus, NEW f \in Frame PROVE Known(e, f) <=> f \in Way(e)
  BY DEF Accounted
<1> USE Indices
<1>1. Way(e) = {}
  BY DEF Init, Way, InHand, Range
<1>2. f.from \in Threads
  BY DEF Frame
<1>3. Copied(f.from, e) = 0
  BY <1>2 DEF Init, Copied
<1> QED BY <1>1, <1>3 DEF Known

\* A step that keeps every frame in its place.
LEMMA AccountedKept ==
  ASSUME Accounted, CopiesKept, \A e \in Ecus : Way(e)' = Way(e)
  PROVE  Accounted'
<1>1. \A f \in Frame : f.from \in Threads
  BY DEF Frame
<1>2. \A e \in Ecus, f \in Frame : Known(e, f)' <=> Known(e, f)
  BY <1>1 DEF Known, CopiesKept
<1> QED BY <1>2 DEF Accounted

\* drain_can_rx moves a frame along its way.
LEMMA PopKeepsWay ==
  ASSUME TypeOK, NEW c \in Ecus, Pop(c), NEW e \in Ecus
  PROVE  Way(e)' = Way(e)
<1> USE Indices
<1>1. got' = got /\ lost' = lost
  BY DEF Pop
<1>2. CASE e = c
  <2>1. /\ queue[e] # <<>> /\ pc[e] = "drain" /\ pc'[e] = "deliver"
        /\ hand'[e] = Head(queue[e]) /\ queue'[e] = Tail(queue[e])
    BY <1>2 DEF Pop, Goto, TypeOK
  <2>2. Range(queue[e]) = Range(Tail(queue[e])) \cup {Head(queue[e])}
    BY <2>1, TailRange DEF TypeOK
  <2>3. InHand(e) = {} /\ InHand(e)' = {Head(queue[e])}
    BY <2>1 DEF InHand
  <2>4. Range(queue[e])' = Range(Tail(queue[e])) /\ Range(got[e])' = Range(got[e])
    BY <1>1, <2>1 DEF Range
  <2> QED BY <1>1, <2>2, <2>3, <2>4 DEF Way
<1>3. CASE e # c
  <2>1. queue'[e] = queue[e] /\ hand'[e] = hand[e] /\ pc'[e] = pc[e]
    BY <1>3 DEF Pop, Goto, TypeOK
  <2> QED BY <1>1, <2>1 DEF Way, Range, InHand
<1> QED BY <1>2, <1>3

LEMMA DeliverKeepsWay ==
  ASSUME TypeOK, NEW c \in Ecus, DeliverFrame(c), NEW e \in Ecus
  PROVE  Way(e)' = Way(e)
<1> USE Indices
<1>1. queue' = queue /\ lost' = lost
  BY DEF DeliverFrame
<1>2. CASE e = c
  <2>1. pc[e] = "deliver" /\ pc'[e] = "drain" /\ got'[e] = Append(got[e], hand[e])
    BY <1>2 DEF DeliverFrame, Goto, TypeOK
  <2>2. Range(Append(got[e], hand[e])) = Range(got[e]) \cup {hand[e]}
    BY AppendRange DEF TypeOK
  <2>3. InHand(e) = {hand[e]} /\ InHand(e)' = {}
    BY <2>1 DEF InHand
  <2>4. Range(got[e])' = Range(Append(got[e], hand[e])) /\ Range(queue[e])' = Range(queue[e])
    BY <1>1, <2>1 DEF Range
  <2> QED BY <1>1, <2>2, <2>3, <2>4 DEF Way
<1>3. CASE e # c
  <2>1. got'[e] = got[e] /\ hand'[e] = hand[e] /\ pc'[e] = pc[e]
    BY <1>3 DEF DeliverFrame, Goto, TypeOK
  <2> QED BY <1>1, <2>1 DEF Way, Range, InHand
<1> QED BY <1>2, <1>3

\* The copying loops add the sender's current frame to the way of one ECU, in
\* its queue or among its losses.
LEMMA CopyAccounted ==
  ASSUME TypeOK, TypeOK', PipelineOrdered, Accounted, NEW s \in Threads, CopyFrame(s)
  PROVE  Accounted'
<1> USE Indices
<1> DEFINE new == CurrentFrame(s)
<1>1. /\ pc[s] = "fanout" /\ fan[s] \in Ecus /\ fan' = [fan EXCEPT ![s] = fan[s] + 1]
      /\ pc' = pc /\ hand' = hand /\ sent' = sent /\ got' = got
  BY DEF CopyFrame
<1>2. sent[s] \in Nat /\ sent[s] > 0 /\ new \in Frame /\ new = [from |-> s, n |-> sent[s]]
  BY <1>1 DEF TypeOK, PipelineOrdered, CurrentFrame, Frame
<1>3. ASSUME NEW e \in Ecus, NEW f \in Frame PROVE Known(e, f)' <=> f \in Way(e)'
  <2>1. Known(e, f) <=> f \in Way(e)
    BY DEF Accounted
  <2>2. f.from \in Threads /\ f.n \in Nat /\ f = [from |-> f.from, n |-> f.n]
    BY DEF Frame
  <2>3. CASE e = fan[s] /\ e # s
    <3>1. Known(e, f)' <=> Known(e, f) \/ f = new
      <4>1. CASE f.from = s
        <5>1. Copied(s, e) = sent[s] - 1
          BY <1>1, <1>2, <2>3 DEF Copied, Ecus
        <5>2. Copied(s, e)' = sent[s]
          <6>1. fan'[s] = e + 1 /\ e \in Int
            BY <1>1, <2>3 DEF TypeOK, Ecus
          <6> QED BY <1>1, <6>1 DEF Copied
        <5>3. f.n \in 1..sent[s] <=> f.n \in 1..(sent[s] - 1) \/ f.n = sent[s]
          BY <1>2, <2>2
        <5> QED BY <1>2, <2>2, <2>3, <4>1, <5>1, <5>2, <5>3 DEF Known
      <4>2. CASE f.from # s
        <5>1. Copied(f.from, e)' = Copied(f.from, e) /\ f # new
          BY <1>2, <2>2, <4>2, CopiedOne
        <5> QED BY <5>1 DEF Known
      <4> QED BY <4>1, <4>2
    <3>2. Way(e)' = Way(e) \cup {new}
      <4>1. EnqueueTo(s, e)
        BY <2>3 DEF CopyFrame
      <4>2. Range(got[e])' = Range(got[e]) /\ InHand(e)' = InHand(e)
        BY <1>1 DEF Range, InHand
      <4>3. CASE Len(queue[e]) < QueueCap
        <5>1. queue'[e] = Append(queue[e], new) /\ lost' = lost
          BY <4>1, <4>3 DEF EnqueueTo, TypeOK
        <5>2. Range(queue[e])' = Range(Append(queue[e], new))
          BY <5>1 DEF Range
        <5>3. Range(Append(queue[e], new)) = Range(queue[e]) \cup {new}
          BY <1>2, AppendRange DEF TypeOK
        <5> QED BY <4>2, <5>1, <5>2, <5>3 DEF Way
      <4>4. CASE ~ (Len(queue[e]) < QueueCap)
        <5>1. queue' = queue /\ lost'[e] = lost[e] \cup {new}
          BY <4>1, <4>4 DEF EnqueueTo, TypeOK
        <5>2. Range(queue[e])' = Range(queue[e])
          BY <5>1 DEF Range
        <5> QED BY <4>2, <5>1, <5>2 DEF Way
      <4> QED BY <4>3, <4>4
    <3> QED BY <2>1, <3>1, <3>2
  <2>4. CASE ~ (e = fan[s] /\ e # s)
    <3>1. queue'[e] = queue[e] /\ lost'[e] = lost[e]
      BY <1>1, <2>4 DEF CopyFrame, EnqueueTo, TypeOK
    <3>2. Way(e)' = Way(e)
      BY <1>1, <3>1 DEF Way, Range, InHand
    <3>3. f.from # e => Copied(f.from, e)' = Copied(f.from, e)
      BY <2>2, <2>4, CopiedOne
    <3> QED BY <2>1, <3>2, <3>3 DEF Known
  <2> QED BY <2>3, <2>4
<1> QED BY <1>3 DEF Accounted

LEMMA AccountedStep ==
  TypeOK /\ TypeOK' /\ PipelineOrdered /\ Accounted /\ [Next]_vars => Accounted'
<1> SUFFICES ASSUME TypeOK, TypeOK', PipelineOrdered, Accounted, [Next]_vars PROVE Accounted'
  OBVIOUS
<1> USE Indices
\* A step that takes nothing in hand and puts nothing down.
<1>1. ASSUME CopiesKept, queue' = queue, hand' = hand, got' = got, lost' = lost,
             \A e \in Ecus : pc'[e] = "deliver" <=> pc[e] = "deliver"
      PROVE  Accounted'
  <2>1. \A e \in Ecus : Way(e)' = Way(e)
    BY <1>1 DEF Way, Range, InHand
  <2> QED BY <1>1, <2>1, AccountedKept
<1>2. ASSUME NEW e \in Ecus, Pop(e) PROVE Accounted'
  <2>1. CopiesKept
    BY <1>2, CopiedStill DEF Pop, Goto, TypeOK
  <2> QED BY <1>2, <2>1, PopKeepsWay, AccountedKept
<1>3. ASSUME NEW e \in Ecus, DeliverFrame(e) PROVE Accounted'
  <2>1. CopiesKept
    BY <1>3, CopiedStill DEF DeliverFrame, Goto, TypeOK
  <2> QED BY <1>3, <2>1, DeliverKeepsWay, AccountedKept
<1>4. ASSUME NEW e \in Ecus, StartBatch(e) \/ LockBatch(e) \/ EndBatch(e) PROVE Accounted'
  <2>1. CopiesKept
    BY <1>4, CopiedStill DEF StartBatch, LockBatch, EndBatch, Goto, TypeOK
  <2> QED BY <1>1, <1>4, <2>1 DEF StartBatch, LockBatch, EndBatch, Goto, TypeOK
<1>5. ASSUME NEW e \in Ecus, Transmit(e) PROVE Accounted'
  <2>1. CopiesKept
    BY <1>5, CopiedSend DEF Transmit, Goto
  <2> QED BY <1>1, <1>5, <2>1 DEF Transmit, Goto, TypeOK
<1>6. CASE Inject
  <2>1. pc[Main] # "fanout" /\ pc' = [pc EXCEPT ![Main] = "fanout"]
    BY <1>6 DEF Inject, Goto
  <2>2. CopiesKept
    BY <1>6, <2>1, CopiedSend DEF Inject
  <2> QED BY <1>1, <1>6, <2>1, <2>2 DEF Inject, TypeOK
<1>7. ASSUME NEW t \in Threads, CopyFrame(t) PROVE Accounted'
  BY <1>7, CopyAccounted
<1>8. ASSUME NEW t \in Threads, CopyDone(t) PROVE Accounted'
  <2>1. CopiesKept
    BY <1>8, CopiedDone
  <2> QED BY <1>1, <1>8, <2>1 DEF CopyDone, Goto, TypeOK
<1>9. ASSUME NEW e \in Operated, Operate(e) PROVE Accounted'
  <2>1. CopiesKept
    BY <1>9, CopiedStill DEF Operate, Goto, TypeOK
  <2> QED BY <1>1, <1>9, <2>1 DEF Operate, Goto, TypeOK
<1>10. CASE LockOperate \/ EndOperate
  <2>1. CopiesKept
    BY <1>10, CopiedStill DEF LockOperate, EndOperate, Goto, TypeOK
  <2> QED BY <1>1, <1>10, <2>1 DEF LockOperate, EndOperate, Goto, TypeOK
<1>11. CASE UNCHANGED vars
  <2>1. CopiesKept
    BY <1>11, CopiedStill DEF vars
  <2> QED BY <1>1, <1>11, <2>1 DEF vars
<1> QED
  BY <1>2, <1>3, <1>4, <1>5, <1>6, <1>7, <1>8, <1>9, <1>10, <1>11 DEF Next, MainThread, Chip

\* Frame by frame and as sets, the account is the same.
LEMMA AccountedMeans ==
  ASSUME TypeOK, Accounted
  PROVE  NothingVanishes
<1> SUFFICES ASSUME NEW e \in Ecus
             PROVE  UNION { [from : {t}, n : 1..Copied(t, e)] : t \in Threads \ {e} } = Way(e)
  BY DEF NothingVanishes, Way
<1> USE Indices
<1>1. Way(e) \subseteq Frame
  <2>1. Range(queue[e]) \subseteq Frame /\ Range(got[e]) \subseteq Frame
    <3>1. queue[e] \in Seq(Frame) /\ got[e] \in Seq(Frame)
      BY DEF TypeOK
    <3> QED BY <3>1 DEF Range
  <2> QED BY <2>1 DEF Way, InHand, TypeOK
<1>2. \A t \in Threads : 1..Copied(t, e) \subseteq Nat
  <2>1. \A t \in Threads : Copied(t, e) \in Int
    BY DEF Copied, TypeOK
  <2> QED BY <2>1
<1>3. ASSUME NEW t \in Threads \ {e}, NEW f \in [from : {t}, n : 1..Copied(t, e)] PROVE f \in Way(e)
  <2>1. f.from = t /\ f.n \in 1..Copied(t, e) /\ f \in Frame
    BY <1>2 DEF Frame
  <2>2. Known(e, f)
    BY <2>1 DEF Known
  <2> QED BY <2>1, <2>2 DEF Accounted
<1>4. ASSUME NEW f \in Way(e)
      PROVE  f.from \in Threads \ {e} /\ f \in [from : {f.from}, n : 1..Copied(f.from, e)]
  <2>1. f \in Frame /\ Known(e, f)
    BY <1>1 DEF Accounted
  <2> QED BY <2>1 DEF Frame, Known
<1> QED BY <1>3, <1>4

\* Every frame that somebody else copied to an ECU is in its queue, in its
\* thread's hand, received or counted as lost, and nothing else ever is, for any
\* number of ECUs, any capacity of the queues and any number of frames.
THEOREM NothingEverVanishes == Spec => []NothingVanishes
<1>1. Spec => [](TypeOK /\ PipelineOrdered)
  BY FabricTypeCorrect, PipelineAlwaysOrdered, PTL
<1>2. Spec => []Accounted
  BY <1>1, AccountedInit, AccountedStep, PTL DEF Spec
<1> QED BY <1>1, <1>2, AccountedMeans, PTL
=============================================================================
