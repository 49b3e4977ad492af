------------------------------ MODULE LossyBus ------------------------------
(***************************************************************************)
(* What the CAN bus of the simulator promises its nodes, whatever threads  *)
(* and queues carry the frames: a frame is received only after it was sent *)
(* and never by its own sender; no node receives it twice; and the frames  *)
(* of one sender arrive in the order they were sent.  Frames may be lost,  *)
(* and nothing relates the order of frames of different senders.           *)
(***************************************************************************)
EXTENDS Naturals, Sequences

CONSTANTS
  Nodes,     \* the attached controllers
  Senders    \* the nodes and whoever else puts frames on the bus
             \* (Nodes is a subset of Senders)

VARIABLES
  sent,   \* sent[s]: how many frames s has sent; they are numbered from 1
  got     \* got[r]: the frames r has received, in order

busVars == <<sent, got>>

BusFrame == [from : Senders, n : Nat]

\* f comes after everything r already has from the same sender.
IsNews(r, f) ==
  \A i \in DOMAIN got[r] : got[r][i].from = f.from => got[r][i].n < f.n

BusInit ==
  /\ sent = [s \in Senders |-> 0]
  /\ got = [r \in Nodes |-> <<>>]

Send(s) == sent' = [sent EXCEPT ![s] = @ + 1] /\ UNCHANGED got

Deliver(r, f) ==
  /\ f.from # r
  /\ f.n \in 1..sent[f.from]
  /\ IsNews(r, f)
  /\ got' = [got EXCEPT ![r] = Append(@, f)]
  /\ UNCHANGED sent

BusNext ==
  \/ \E s \in Senders : Send(s)
  \/ \E r \in Nodes, s \in Senders : \E n \in 1..sent[s] : Deliver(r, [from |-> s, n |-> n])

BusSpec == BusInit /\ [][BusNext]_busVars
=============================================================================
