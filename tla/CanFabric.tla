----------------------------- MODULE CanFabric -----------------------------
(***************************************************************************)
(* How CAN frames travel between the chip threads of the engine            *)
(* (sim_loop.c).  Each ECU has a thread, an avr_lock and a bounded queue   *)
(* of incoming frames.  A frame transmitted during a thread's batch is     *)
(* copied into the peers' queues one after another, under the sender's     *)
(* avr_lock only; each thread drains its own queue before its batch.  The  *)
(* main thread injects frames without any avr_lock, and takes one for the  *)
(* operator commands that touch a controller.                              *)
(*                                                                         *)
(* A queue's own lock is never held while waiting for another lock, so the *)
(* critical sections under it are single steps here.                       *)
(***************************************************************************)
EXTENDS Integers, Sequences

CONSTANTS
  N,         \* number of ECUs, indexed 0..N-1 (4 in the code)
  QueueCap,  \* CHIP_CAN_RX_CAP, 32 in the code
  Quota,     \* bound of the model: how many frames each thread may send
  Operated   \* bound of the model: ECUs that operator commands are about

ASSUME FabricAssumption ==
  /\ N \in Nat \ {0}
  /\ QueueCap \in Nat \ {0}
  /\ Quota \in [0..N -> Nat]
  /\ Operated \subseteq 0..(N - 1)

Ecus    == 0..(N - 1)
Main    == N              \* the main thread, which injects and operates
Threads == 0..N
Frame   == [from : Threads, n : Nat]
None    == N + 1          \* no holder of a lock, no target ECU

VARIABLES
  pc,      \* where each thread is
  queue,   \* g_can_rx[e]
  hand,    \* the frame a chip thread has popped and not yet delivered
  fan,     \* next index of the loop that copies the current frame
  lock,    \* holder of g_chips[e].avr_lock
  target,  \* the ECU an operator command of the main thread is about
  sent,    \* number of frames each thread has sent
  got,     \* frames offered to mcp2515_rx_frame of each ECU
  lost     \* frames dropped at each ECU because its queue was full

vars == <<pc, queue, hand, fan, lock, target, sent, got, lost>>

Range(s) == { s[i] : i \in DOMAIN s }

NoFrame == [from |-> Main, n |-> 0]

Init ==
  /\ pc = [t \in Threads |-> IF t = Main THEN "idle" ELSE "drain"]
  /\ queue = [e \in Ecus |-> <<>>]
  /\ hand = [e \in Ecus |-> NoFrame]
  /\ fan = [t \in Threads |-> 0]
  /\ lock = [e \in Ecus |-> None]
  /\ target = None
  /\ sent = [t \in Threads |-> 0]
  /\ got = [e \in Ecus |-> <<>>]
  /\ lost = [e \in Ecus |-> {}]

Goto(t, from, to) == pc[t] = from /\ pc' = [pc EXCEPT ![t] = to]

-----------------------------------------------------------------------------
(* The chip thread of ECU e.                                               *)

\* Mutant: the newest frame first.
Pop_Newest(e) ==
  /\ queue[e] # <<>>
  /\ Goto(e, "drain", "deliver")
  /\ hand' = [hand EXCEPT ![e] = queue[e][Len(queue[e])]]
  /\ queue' = [queue EXCEPT ![e] = SubSeq(@, 1, Len(@) - 1)]
  /\ UNCHANGED <<fan, lock, target, sent, got, lost>>

\* drain_can_rx, one turn of its loop: pop under the queue's lock.
Pop(e) ==
  /\ queue[e] # <<>>
  /\ Goto(e, "drain", "deliver")
  /\ hand' = [hand EXCEPT ![e] = Head(queue[e])]
  /\ queue' = [queue EXCEPT ![e] = Tail(queue[e])]
  /\ UNCHANGED <<fan, lock, target, sent, got, lost>>

\* ... then deliver it under the ECU's own avr_lock.
DeliverFrame(e) ==
  /\ lock[e] = None
  /\ Goto(e, "deliver", "drain")
  /\ got' = [got EXCEPT ![e] = Append(got[e], hand[e])]
  /\ hand' = [hand EXCEPT ![e] = NoFrame]
  /\ UNCHANGED <<queue, fan, lock, target, sent, lost>>

\* Mutant: the batch does not wait for the queue to be drained.
StartBatch_Undrained(e) ==
  /\ Goto(e, "drain", "wait")
  /\ UNCHANGED <<queue, hand, fan, lock, target, sent, got, lost>>

\* The queue is empty: take the avr_lock for a batch of AVR cycles.
StartBatch(e) ==
  /\ queue[e] = <<>>
  /\ Goto(e, "drain", "wait")
  /\ UNCHANGED <<queue, hand, fan, lock, target, sent, got, lost>>

LockBatch(e) ==
  /\ lock[e] = None
  /\ Goto(e, "wait", "batch")
  /\ lock' = [lock EXCEPT ![e] = e]
  /\ UNCHANGED <<queue, hand, fan, target, sent, got, lost>>

\* The firmware makes its controller transmit: on_mcp_tx runs in the batch.
Transmit(e) ==
  /\ sent[e] < Quota[e]
  /\ Goto(e, "batch", "fanout")
  /\ sent' = [sent EXCEPT ![e] = sent[e] + 1]
  /\ fan' = [fan EXCEPT ![e] = 0]
  /\ UNCHANGED <<queue, hand, lock, target, got, lost>>

EndBatch(e) ==
  /\ Goto(e, "batch", "drain")
  /\ lock' = [lock EXCEPT ![e] = None]
  /\ UNCHANGED <<queue, hand, fan, target, sent, got, lost>>

-----------------------------------------------------------------------------
(* chip_can_rx_enqueue, called by the two loops that copy a frame: the one *)
(* in on_mcp_tx skips the sender, the one in sim_loop_can_inject does not. *)

CurrentFrame(t) == [from |-> t, n |-> sent[t]]

\* Mutant: a full queue gives up its oldest frame.
EnqueueTo_Overwrite(t, e) ==
  /\ queue' = [queue EXCEPT ![e] =
       Append(IF Len(@) < QueueCap THEN @ ELSE Tail(@), CurrentFrame(t))]
  /\ UNCHANGED lost

EnqueueTo(t, e) ==
  IF Len(queue[e]) < QueueCap
  THEN queue' = [queue EXCEPT ![e] = Append(queue[e], CurrentFrame(t))] /\ UNCHANGED lost
  ELSE lost' = [lost EXCEPT ![e] = lost[e] \cup {CurrentFrame(t)}] /\ UNCHANGED queue

\* Mutant: the sender is not skipped.
CopyFrame_ToAll(t) ==
  /\ pc[t] = "fanout"
  /\ fan[t] \in Ecus
  /\ EnqueueTo(t, fan[t])
  /\ fan' = [fan EXCEPT ![t] = fan[t] + 1]
  /\ UNCHANGED <<pc, hand, lock, target, sent, got>>

CopyFrame(t) ==
  /\ pc[t] = "fanout"
  /\ fan[t] \in Ecus
  /\ IF fan[t] = t THEN UNCHANGED <<queue, lost>> ELSE EnqueueTo(t, fan[t])
  /\ fan' = [fan EXCEPT ![t] = fan[t] + 1]
  /\ UNCHANGED <<pc, hand, lock, target, sent, got>>

CopyDone(t) ==
  /\ fan[t] = N
  /\ Goto(t, "fanout", IF t = Main THEN "idle" ELSE "batch")
  /\ UNCHANGED <<queue, hand, fan, lock, target, sent, got, lost>>

-----------------------------------------------------------------------------
(* The main thread.                                                        *)

Inject ==
  /\ sent[Main] < Quota[Main]
  /\ Goto(Main, "idle", "fanout")
  /\ sent' = [sent EXCEPT ![Main] = sent[Main] + 1]
  /\ fan' = [fan EXCEPT ![Main] = 0]
  /\ UNCHANGED <<queue, hand, lock, target, got, lost>>

\* An operator command on e's controller: force_busoff, can_errors and can_recover
\* differ only in what they do to the controller.
Operate(e) ==
  /\ Goto(Main, "idle", "wait")
  /\ target' = e
  /\ UNCHANGED <<queue, hand, fan, lock, sent, got, lost>>

LockOperate ==
  /\ target \in Ecus
  /\ lock[target] = None
  /\ Goto(Main, "wait", "operate")
  /\ lock' = [lock EXCEPT ![target] = Main]
  /\ UNCHANGED <<queue, hand, fan, target, sent, got, lost>>

EndOperate ==
  /\ Goto(Main, "operate", "idle")
  /\ lock' = [lock EXCEPT ![target] = None]
  /\ target' = None
  /\ UNCHANGED <<queue, hand, fan, sent, got, lost>>

-----------------------------------------------------------------------------

Chip(e) ==
  \/ Pop(e) \/ DeliverFrame(e) \/ StartBatch(e) \/ LockBatch(e)
  \/ Transmit(e) \/ EndBatch(e) \/ CopyFrame(e) \/ CopyDone(e)

MainThread ==
  \/ Inject \/ LockOperate \/ EndOperate \/ CopyFrame(Main) \/ CopyDone(Main)
  \/ \E e \in Operated : Operate(e)

Next == MainThread \/ \E e \in Ecus : Chip(e)

\* A thread that can run eventually runs, and a free lock is eventually given
\* to each waiter (pthread mutexes, a thread per chip).  Nothing makes the
\* firmware transmit or the operator act.
Fairness ==
  /\ \A e \in Ecus :
       /\ WF_vars(Pop(e)) /\ WF_vars(StartBatch(e))
       /\ SF_vars(DeliverFrame(e)) /\ SF_vars(LockBatch(e))
       /\ SF_vars(EndBatch(e))
  /\ \A t \in Threads : WF_vars(CopyFrame(t)) /\ WF_vars(CopyDone(t))
  /\ SF_vars(LockOperate) /\ WF_vars(EndOperate)

Spec     == Init /\ [][Next]_vars
FairSpec == Spec /\ Fairness

-----------------------------------------------------------------------------
(* Properties.                                                             *)

\* Every variable holds a value the code can give it; a queue never holds more
\* frames than its array has room for.
TypeOK ==
  /\ pc \in [Threads -> {"drain", "deliver", "wait", "batch", "fanout", "idle", "operate"}]
  /\ queue \in [Ecus -> Seq(Frame)]
  /\ \A e \in Ecus : Len(queue[e]) <= QueueCap
  /\ hand \in [Ecus -> Frame]
  /\ fan \in [Threads -> 0..N]
  /\ lock \in [Ecus -> Threads \cup {None}]
  /\ target \in Ecus \cup {None}
  /\ sent \in [Threads -> Nat]
  /\ got \in [Ecus -> Seq(Frame)]
  /\ lost \in [Ecus -> SUBSET Frame]

\* How many of t's frames have been copied to e (or skipped it): all but the
\* current one of a sender whose loop has not passed e yet.
Copied(t, e) == IF pc[t] = "fanout" /\ fan[t] <= e THEN sent[t] - 1 ELSE sent[t]

InHand(e) == IF pc[e] = "deliver" THEN {hand[e]} ELSE {}

\* Nothing disappears between the threads: every frame copied to an ECU by
\* somebody else is in its queue, in its thread's hand, already offered to its
\* controller, or recorded as dropped by the full queue.
NothingVanishes ==
  \A e \in Ecus :
    UNION { [from : {t}, n : 1..Copied(t, e)] : t \in Threads \ {e} }
      = Range(queue[e]) \cup InHand(e) \cup Range(got[e]) \cup lost[e]

\* Why the bus keeps its promise: a frame on its way to e is in e's queue, then
\* in the hand of e's thread, then received.  Everywhere it is a frame that
\* somebody else copied to e, and of two frames of one sender the older one is
\* further on its way.
Known(e, f) == f.from # e /\ f.n \in 1..Copied(f.from, e)
Older(f, g) == f.from = g.from => f.n < g.n

AllKnown(e) ==
  /\ \A i \in DOMAIN got[e] : Known(e, got[e][i])
  /\ \A i \in DOMAIN queue[e] : Known(e, queue[e][i])
  /\ pc[e] = "deliver" => Known(e, hand[e])

Ordered(e) ==
  /\ \A i, j \in DOMAIN queue[e] : i < j => Older(queue[e][i], queue[e][j])
  /\ \A i \in DOMAIN got[e], j \in DOMAIN queue[e] : Older(got[e][i], queue[e][j])
  /\ pc[e] = "deliver" =>
       /\ \A i \in DOMAIN got[e] : Older(got[e][i], hand[e])
       /\ \A j \in DOMAIN queue[e] : Older(hand[e], queue[e][j])

PipelineOrdered ==
  /\ \A t \in Threads : pc[t] = "fanout" => sent[t] > 0
  /\ \A e \in Ecus : AllKnown(e) /\ Ordered(e)

\* The threads keep the promise of LossyBus: no frame is made up, duplicated,
\* reflected to its sender or reordered with respect to its sender.
Bus == INSTANCE LossyBus WITH Nodes <- Ecus, Senders <- Threads
ImplementsBus == Bus!BusSpec

\* Every frame that reaches a queue is eventually offered to the controller,
\* whatever the other threads do: the drain loop cannot be starved.
EveryFrameOffered ==
  \A e \in Ecus, t \in Threads : \A k \in 1..Quota[t] :
    ([from |-> t, n |-> k] \in Range(queue[e]))
      ~> ([from |-> t, n |-> k] \in Range(got[e]))
=============================================================================
