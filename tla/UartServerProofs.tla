-------------------------- MODULE UartServerProofs --------------------------
(***************************************************************************)
(* Theorems about the TCP UART of a chip, for any number of clients of     *)
(* either kind, any ring capacity and any input.  The server thread and    *)
(* the chip thread share flags and rings without a common lock, so the     *)
(* invariant says for each place of the server thread what the flags mean  *)
(* there, and counts a reset from the accept that causes it.               *)
(***************************************************************************)
EXTENDS UartServer, FiniteSetTheorems, SequenceTheorems, TLAPS

\* Where the server thread has a client in its hands.
Serving == {"reset_tx", "reset_rx", "announce", "attach", "recv", "flash_done", "close"}

\* The slot, its flags and the sockets at every place of the server thread.
FlagsMean ==
  /\ \A c \in Conns : conn[c] = "accepted" <=> c = slot
  /\ sPc \in Serving => slot # NoConn
  /\ sPc \in {"select", "accept_flasher", "accept_bridge", "recv"} =>
       /\ attached <=> slot # NoConn
       /\ isFlasher <=> slot \in Flashers
  /\ sPc = "flash_done" => (isFlasher <=> slot \in Flashers)
  /\ sPc \in {"flash_done", "close"} => ~attached
  /\ sPc = "close" => ~isFlasher

\* A client that is being closed has gone.
LostIsGone ==
  /\ sPc = "recv" => wire[slot] # <<>> \/ slot \in hungUp
  /\ sPc \in {"flash_done", "close"} => slot \in hungUp

\* The coalescing window was opened by a sync of the present client.
WindowIsOwn ==
  slot # NoConn /\ sPc \notin {"reset_tx", "reset_rx"} /\ recentSync => syncSeen[slot] # "none"

\* The resets made or announced, and the one the server has still to announce.
Arrived == { f \in Flashers : Came(f) }
Gone    == { f \in Flashers : Came(f) /\ f \in hungUp }

ToAnnounce == sPc \in {"reset_tx", "reset_rx", "announce"} /\ slot \in Flashers
ToMark     == sPc # "close" /\ slot \in Flashers /\ slot \in hungUp

ResetSum == resets + missed + Count(newConnect) + Count(cPc = "reset") + Count(ToAnnounce)
SoftSum  == softResets + Count(flashDone) + Count(cPc = "soft_reset") + Count(ToMark)

ResetsCounted == ResetSum <= Cardinality(Arrived) /\ SoftSum <= Cardinality(Gone)

ServerInv ==
  /\ TypeOK
  /\ FlagsMean
  /\ LostIsGone
  /\ RingsBelongToOwner
  /\ WindowIsOwn /\ FirstSyncPasses
  /\ ResetsCounted

-----------------------------------------------------------------------------
(* Types.                                                                  *)

LEMMA PushTyped ==
  ASSUME NEW S, NEW ring \in Seq(S), Len(ring) <= RingCap, NEW item \in S
  PROVE  /\ Push(ring, item) \in Seq(S) /\ Len(Push(ring, item)) <= RingCap
         /\ \A i \in DOMAIN Push(ring, item) :
               Push(ring, item)[i] = item \/ (i \in DOMAIN ring /\ Push(ring, item)[i] = ring[i])
<1>1. Len(ring) \in Nat /\ RingCap \in Nat /\ DOMAIN ring = 1..Len(ring)
  BY UartAssumption
<1>2. CASE Len(ring) < RingCap
  <2>1. Push(ring, item) = Append(ring, item)
    BY <1>2 DEF Push
  <2>2. /\ Append(ring, item) \in Seq(S) /\ Len(Append(ring, item)) = Len(ring) + 1
        /\ DOMAIN Append(ring, item) = 1..(Len(ring) + 1)
        /\ \A i \in 1..Len(ring) : Append(ring, item)[i] = ring[i]
        /\ Append(ring, item)[Len(ring) + 1] = item
    BY AppendProperties
  <2>3. \A i \in 1..(Len(ring) + 1) : i \in 1..Len(ring) \/ i = Len(ring) + 1
    BY <1>1
  <2>4. QED BY <1>1, <1>2, <2>1, <2>2, <2>3
<1>3. CASE ~(Len(ring) < RingCap)
  BY <1>3 DEF Push
<1>4. QED BY <1>2, <1>3

LEMMA TailTyped ==
  ASSUME NEW S, NEW s \in Seq(S), s # <<>>
  PROVE  /\ Head(s) \in S /\ Tail(s) \in Seq(S) /\ Len(Tail(s)) <= Len(s)
         /\ \A i \in DOMAIN Tail(s) : i + 1 \in DOMAIN s /\ Tail(s)[i] = s[i + 1]
<1>1. Len(s) \in Nat /\ Len(s) # 0 /\ DOMAIN s = 1..Len(s)
  BY EmptySeq
<1>2. /\ Tail(s) \in Seq(S) /\ Len(Tail(s)) = Len(s) - 1 /\ Head(s) \in S
      /\ \A i \in 1..(Len(s) - 1) : Tail(s)[i] = s[i + 1]
  BY HeadTailProperties
<1>3. DOMAIN Tail(s) = 1..(Len(s) - 1)
  BY <1>2
<1>4. QED BY <1>1, <1>2, <1>3

LEMMA EmptyTyped == \A S : <<>> \in Seq(S) /\ Len(<<>>) = 0 /\ DOMAIN <<>> = {}
BY EmptySeq

LEMMA InitTyped == Init => TypeOK
<1> SUFFICES ASSUME Init PROVE TypeOK
  OBVIOUS
<1>1. /\ conn \in [Conns -> {"new", "backlog", "accepted", "closed"}]
      /\ wire \in [Conns -> Seq(Chunks)]
      /\ syncSeen \in [Conns -> {"none", "passed", "dropped"}]
  BY EmptyTyped DEF Init
<1>2. {newConnect, attached, flashDone, isFlasher, recentSync} \subseteq BOOLEAN
  BY DEF Init
<1>3. /\ rx \in Seq(RxItems) /\ tx \in Seq(Conns \cup {NoConn}) /\ flushBuf \in Seq(Conns \cup {NoConn})
      /\ Len(rx) <= RingCap /\ Len(tx) <= RingCap
  BY EmptyTyped, UartAssumption DEF Init
<1>4. QED BY <1>1, <1>2, <1>3 DEF Init, TypeOK

LEMMA ClientTyped == TypeOK /\ Client => TypeOK'
<1> SUFFICES ASSUME TypeOK, NEW c \in Conns,
                    Connect(c) \/ HangUp(c) \/ Abort(c) \/ \E chunk \in Chunks : ClientSends(c, chunk)
             PROVE  TypeOK'
  BY DEF Client
<1>1. UNCHANGED <<slotVars, rx, tx, newConnect, flashDone, sPc, chipVars, history>>
  BY DEF Connect, HangUp, Abort, ClientSends
<1>2. /\ conn' \in [Conns -> {"new", "backlog", "accepted", "closed"}]
      /\ wire' \in [Conns -> Seq(Chunks)]
      /\ hungUp' \subseteq Conns
  <2> DEFINE Typed == /\ conn' \in [Conns -> {"new", "backlog", "accepted", "closed"}]
                      /\ wire' \in [Conns -> Seq(Chunks)]
                      /\ hungUp' \subseteq Conns
  <2>1. CASE Connect(c) \/ HangUp(c)
    BY <2>1 DEF Connect, HangUp, TypeOK
  <2>2. CASE Abort(c)
    BY <2>2, EmptyTyped DEF Abort, TypeOK
  <2>3. ASSUME NEW chunk \in Chunks, ClientSends(c, chunk) PROVE Typed
    <3>1. Append(wire[c], chunk) \in Seq(Chunks)
      BY <2>3, AppendProperties DEF TypeOK
    <3>2. QED BY <2>3, <3>1 DEF ClientSends, TypeOK
  <2>4. QED BY <2>1, <2>2, <2>3
<1>3. QED BY <1>1, <1>2 DEF TypeOK, slotVars, chipVars, history

LEMMA ServerTyped == TypeOK /\ FlagsMean /\ Server => TypeOK'
<1> SUFFICES ASSUME TypeOK, FlagsMean, Server PROVE TypeOK'
  OBVIOUS
<1> USE DEF TypeOK, tcpVars, slotVars, chipVars, history
<1>1. CASE Select
  BY <1>1 DEF Select
<1>2. ASSUME NEW c \in Conns, Accept(c) PROVE TypeOK'
  BY <1>2 DEF Accept
<1>3. CASE ResetTx
  BY <1>3, EmptyTyped, UartAssumption DEF ResetTx
<1>4. CASE ResetRx
  <2>1. rx' \in Seq(RxItems) /\ Len(rx') <= RingCap
    BY <1>4, EmptyTyped, UartAssumption DEF ResetRx
  <2>2. recentSync' \in BOOLEAN
    BY <1>4 DEF ResetRx
  <2>3. QED BY <1>4, <2>1, <2>2 DEF ResetRx
<1>5. CASE Announce
  BY <1>5 DEF Announce
<1>6. CASE Attach
  BY <1>6 DEF Attach
<1>7. CASE Receive
  <2>0. slot \in Conns
    BY <1>7 DEF Receive, FlagsMean, Serving
  <2> DEFINE item == [conn |-> slot, chunk |-> Head(wire[slot])]
  <2>1. wire[slot] \in Seq(Chunks) /\ wire[slot] # <<>>
    BY <1>7, <2>0 DEF Receive
  <2>2. Head(wire[slot]) \in Chunks /\ Tail(wire[slot]) \in Seq(Chunks)
    BY <2>1, TailTyped
  <2>3. item \in RxItems
    BY <2>0, <2>2 DEF RxItems
  <2>4. Push(rx, item) \in Seq(RxItems) /\ Len(Push(rx, item)) <= RingCap
    BY <2>3, PushTyped
  <2> HIDE DEF item
  <2>5. rx' \in {rx, Push(rx, item)}
    BY <1>7 DEF Receive, item
  <2>6. rx' \in Seq(RxItems) /\ Len(rx') <= RingCap
    BY <2>4, <2>5
  <2>7. wire' \in [Conns -> Seq(Chunks)]
    BY <1>7, <2>0, <2>2 DEF Receive
  <2>8. recentSync' \in BOOLEAN /\ syncSeen' \in [Conns -> {"none", "passed", "dropped"}]
    BY <1>7 DEF Receive
  <2>9. QED BY <1>7, <2>6, <2>7, <2>8 DEF Receive
<1>8. CASE LoseClient
  BY <1>8 DEF LoseClient
<1>9. CASE MarkFlashDone
  BY <1>9 DEF MarkFlashDone
<1>10. CASE CloseClient
  BY <1>10 DEF CloseClient
<1>11. QED BY <1>1, <1>2, <1>3, <1>4, <1>5, <1>6, <1>7, <1>8, <1>9, <1>10 DEF Server

LEMMA ChipTyped == TypeOK /\ ChipThread => TypeOK'
<1> SUFFICES ASSUME TypeOK, ChipThread PROVE TypeOK'
  OBVIOUS
<1> USE DEF TypeOK, tcpVars, slotVars, chipVars, history, uartVars, resetVars
<1>1. CASE PollConnect
  BY <1>1 DEF PollConnect
<1>2. CASE ChipReset
  BY <1>2 DEF ChipReset
<1>3. CASE PollFlashDone
  BY <1>3 DEF PollFlashDone
<1>4. CASE ChipSoftReset
  BY <1>4 DEF ChipSoftReset
<1>5. CASE StartBatch \/ LockBatch \/ EndBatch
  BY <1>5 DEF StartBatch, LockBatch, EndBatch
<1>6. CASE FeedChip
  <2>1. Tail(rx) \in Seq(RxItems) /\ Len(Tail(rx)) <= Len(rx)
    BY <1>6, TailTyped DEF FeedChip
  <2>2. Len(Tail(rx)) <= RingCap
    <3>1. Len(rx) \in Nat /\ Len(Tail(rx)) \in Nat /\ RingCap \in Nat
      BY <2>1, UartAssumption
    <3>2. QED BY <2>1, <3>1
  <2>3. QED BY <1>6, <2>1, <2>2 DEF FeedChip
<1>7. CASE FirmwareWrites
  <2>1. Push(tx, slot) \in Seq(Conns \cup {NoConn}) /\ Len(Push(tx, slot)) <= RingCap
    BY PushTyped
  <2>2. QED BY <1>7, <2>1 DEF FirmwareWrites
<1>8. CASE DrainTx
  <2>1. tx' \in Seq(Conns \cup {NoConn}) /\ Len(tx') <= RingCap
    BY <1>8, EmptyTyped, UartAssumption DEF DrainTx
  <2>2. QED BY <1>8, <2>1 DEF DrainTx
<1>9. CASE SendOut
  <2>1. flushBuf' \in Seq(Conns \cup {NoConn})
    BY <1>9, EmptyTyped DEF SendOut
  <2>2. QED BY <1>9, <2>1 DEF SendOut
<1>10. QED BY <1>1, <1>2, <1>3, <1>4, <1>5, <1>6, <1>7, <1>8, <1>9 DEF ChipThread

LEMMA StepTyped == TypeOK /\ FlagsMean /\ [Next]_vars => TypeOK'
<1> SUFFICES ASSUME TypeOK, FlagsMean, [Next]_vars PROVE TypeOK'
  OBVIOUS
<1>1. CASE Client \/ Server \/ ChipThread
  BY <1>1, ClientTyped, ServerTyped, ChipTyped
<1>2. CASE WindowEnds
  BY <1>2 DEF WindowEnds, TypeOK, tcpVars, chipVars, history
<1>3. CASE Operator
  BY <1>3 DEF Operator, LoadFirmware, UnloadFirmware, OperatorResets, TypeOK, tcpVars, uartVars, resetVars, slotVars
<1>4. CASE UNCHANGED vars
  BY <1>4 DEF vars, TypeOK
<1>5. QED BY <1>1, <1>2, <1>3, <1>4 DEF Next

-----------------------------------------------------------------------------
(* What the flags mean.                                                    *)

\* Steps of the clients, of the chip thread and of the operator leave slot,
\* flags and the place of the server thread alone.
Elsewhere == Client \/ WindowEnds \/ ChipThread \/ Operator \/ UNCHANGED vars

ChipSide == ChipThread \/ Operator

LEMMA ChipLeaves ==
  ASSUME ChipSide
  PROVE  UNCHANGED <<tcpVars, slotVars, sPc, syncSeen>>
BY DEF ChipSide, ChipThread, PollConnect, ChipReset, PollFlashDone, ChipSoftReset, StartBatch, LockBatch, FeedChip,
       FirmwareWrites, EndBatch, DrainTx, SendOut, Operator, LoadFirmware, UnloadFirmware, OperatorResets,
       tcpVars, slotVars, chipVars, history, uartVars, resetVars

LEMMA ElsewhereLeaves ==
  ASSUME Elsewhere
  PROVE  UNCHANGED <<slot, attached, isFlasher, sPc, syncSeen>>
<1>1. CASE ChipSide
  BY <1>1, ChipLeaves DEF slotVars
<1>2. CASE Client
  BY <1>2 DEF Client, Connect, HangUp, Abort, ClientSends, slotVars, history
<1>3. CASE WindowEnds
  BY <1>3 DEF WindowEnds, history
<1>4. CASE UNCHANGED vars
  BY <1>4 DEF vars
<1>5. QED BY <1>1, <1>2, <1>3, <1>4 DEF Elsewhere, ChipSide

\* Clients only add to hungUp, and do not touch a connection the server has.
LEMMA ElsewhereConns ==
  ASSUME TypeOK, Elsewhere
  PROVE  /\ \A c \in Conns : conn'[c] = "accepted" <=> conn[c] = "accepted"
         /\ \A c \in Conns : conn'[c] = "closed" <=> conn[c] = "closed"
         /\ hungUp \subseteq hungUp'
<1>1. CASE ChipSide
  BY <1>1, ChipLeaves DEF tcpVars
<1>2. CASE Client
  BY <1>2 DEF Client, Connect, HangUp, Abort, ClientSends, TypeOK
<1>3. CASE WindowEnds
  BY <1>3 DEF WindowEnds, tcpVars
<1>4. CASE UNCHANGED vars
  BY <1>4 DEF vars
<1>5. QED BY <1>1, <1>2, <1>3, <1>4 DEF Elsewhere, ChipSide

LEMMA FlagsStep == TypeOK /\ FlagsMean /\ [Next]_vars => FlagsMean'
<1> SUFFICES ASSUME TypeOK, FlagsMean, [Next]_vars PROVE FlagsMean'
  OBVIOUS
<1>1. CASE Elsewhere
  BY <1>1, ElsewhereLeaves, ElsewhereConns DEF FlagsMean
<1>2. CASE Select
  <2>1. sPc' = "recv" => slot # NoConn
    BY <1>2, UartAssumption DEF Select, TypeOK, Conns
  <2>2. sPc = "select" /\ sPc' \in {"accept_flasher", "accept_bridge", "recv"} /\ conn' = conn
        /\ UNCHANGED <<slot, attached, isFlasher>>
    BY <1>2 DEF Select, tcpVars, slotVars
  <2>3. QED BY <2>1, <2>2 DEF FlagsMean, Serving
<1>3. ASSUME NEW c \in Conns, Accept(c) PROVE FlagsMean'
  BY <1>3, UartAssumption DEF Accept, FlagsMean, Serving, TypeOK, Conns
<1>4. CASE ResetTx
  BY <1>4 DEF ResetTx, FlagsMean, Serving, tcpVars, slotVars
<1>5. CASE ResetRx
  BY <1>5 DEF ResetRx, FlagsMean, Serving, tcpVars
<1>6. CASE Announce
  BY <1>6 DEF Announce, FlagsMean, Serving, tcpVars, slotVars
<1>7. CASE Attach
  BY <1>7 DEF Attach, FlagsMean, Serving, tcpVars
<1>8. CASE Receive
  BY <1>8 DEF Receive, FlagsMean, Serving
<1>9. CASE LoseClient
  BY <1>9 DEF LoseClient, FlagsMean, Serving, tcpVars
<1>10. CASE MarkFlashDone
  BY <1>10 DEF MarkFlashDone, FlagsMean, Serving, tcpVars
<1>11. CASE CloseClient
  <2>1. slot \in Conns /\ sPc = "close" /\ sPc' = "select" /\ slot' = NoConn
        /\ UNCHANGED <<attached, isFlasher>>
    BY <1>11 DEF CloseClient, FlagsMean, Serving, TypeOK
  <2>2. \A c \in Conns : conn'[c] = "accepted" <=> c = slot'
    BY <1>11, <2>1, UartAssumption DEF CloseClient, FlagsMean, TypeOK, Conns
  <2>3. ~attached' /\ ~isFlasher' /\ NoConn \notin Flashers
    BY <2>1, UartAssumption DEF FlagsMean
  <2>4. QED BY <2>1, <2>2, <2>3 DEF FlagsMean, Serving
<1>12. QED BY <1>1, <1>2, <1>3, <1>4, <1>5, <1>6, <1>7, <1>8, <1>9, <1>10, <1>11
           DEF Next, Server, Elsewhere

-----------------------------------------------------------------------------
(* Who is being closed, what the rings hold, who opened the window.        *)

LEMMA LostStep == TypeOK /\ FlagsMean /\ LostIsGone /\ [Next]_vars => LostIsGone'
<1> SUFFICES ASSUME TypeOK, FlagsMean, LostIsGone, [Next]_vars PROVE LostIsGone'
  OBVIOUS
<1>1. CASE Elsewhere
  <2>1. slot' = slot /\ sPc' = sPc /\ hungUp \subseteq hungUp'
    BY <1>1, ElsewhereLeaves, ElsewhereConns
  <2>2. CASE wire' = wire
    BY <2>1, <2>2 DEF LostIsGone
  <2>3. ASSUME NEW c \in Conns, Abort(c) PROVE LostIsGone'
    <3>1. slot \in Conns /\ slot # c => wire'[slot] = wire[slot]
      BY <2>3 DEF Abort, TypeOK
    <3>2. c \in hungUp'
      BY <2>3 DEF Abort
    <3>3. sPc \in Serving => slot \in Conns
      BY DEF FlagsMean, TypeOK
    <3>4. QED BY <2>1, <3>1, <3>2, <3>3 DEF LostIsGone, Serving
  <2>4. ASSUME NEW c \in Conns, NEW chunk \in Chunks, ClientSends(c, chunk) PROVE LostIsGone'
    <3>1. slot \in Conns /\ slot # c => wire'[slot] = wire[slot]
      BY <2>4 DEF ClientSends, TypeOK
    <3>2. wire'[c] # <<>>
      <4>1. wire[c] \in Seq(Chunks) /\ wire'[c] = Append(wire[c], chunk)
        BY <2>4 DEF ClientSends, TypeOK
      <4>2. Len(wire'[c]) = Len(wire[c]) + 1 /\ Len(wire[c]) \in Nat
        BY <4>1, AppendProperties, LenProperties
      <4>3. Len(<<>>) = 0
        OBVIOUS
      <4>4. Len(wire'[c]) # 0
        BY <4>2
      <4>5. QED BY <4>3, <4>4
    <3>3. sPc \in Serving => slot \in Conns
      BY DEF FlagsMean, TypeOK
    <3>4. QED BY <2>1, <3>1, <3>2, <3>3 DEF LostIsGone, Serving
  <2>5. wire' = wire \/ Client
    BY <1>1, ChipLeaves DEF Elsewhere, ChipSide, tcpVars, WindowEnds, vars
  <2>6. QED BY <2>2, <2>3, <2>4, <2>5 DEF Client, Connect, HangUp
<1>2. CASE Select
  BY <1>2 DEF Select, LostIsGone, tcpVars, slotVars
<1>3. CASE LoseClient
  BY <1>3 DEF LoseClient, LostIsGone, tcpVars
<1>4. CASE MarkFlashDone
  BY <1>4 DEF MarkFlashDone, LostIsGone, tcpVars
<1>5. ASSUME sPc' \notin {"recv", "flash_done", "close"} PROVE LostIsGone'
  BY <1>5 DEF LostIsGone
<1>6. QED
  BY <1>1, <1>2, <1>3, <1>4, <1>5 DEF Next, Server, Elsewhere, Accept, ResetTx, ResetRx, Announce,
     Attach, Receive, CloseClient

LEMMA RingsStep ==
  TypeOK /\ FlagsMean /\ RingsBelongToOwner /\ [Next]_vars => RingsBelongToOwner'
<1> SUFFICES ASSUME TypeOK, FlagsMean, RingsBelongToOwner, [Next]_vars PROVE RingsBelongToOwner'
  OBVIOUS
<1>1. ASSUME slot' = slot, rx' = rx, tx' = tx,
             sPc' \in {"reset_tx", "reset_rx"} \/ sPc \notin {"reset_tx", "reset_rx"},
             sPc' = "reset_tx" \/ sPc # "reset_tx"
      PROVE  RingsBelongToOwner'
  BY <1>1 DEF RingsBelongToOwner
<1>2. ASSUME NEW c \in Conns, Accept(c) PROVE RingsBelongToOwner'
  BY <1>2 DEF Accept, RingsBelongToOwner
<1>3. CASE ResetTx
  BY <1>3, EmptyTyped DEF ResetTx, RingsBelongToOwner
<1>4. CASE ResetRx
  BY <1>4, EmptyTyped DEF ResetRx, RingsBelongToOwner
<1>5. CASE Receive
  <2> DEFINE item == [conn |-> slot, chunk |-> Head(wire[slot])]
  <2>1. slot \in Conns /\ wire[slot] \in Seq(Chunks) /\ wire[slot] # <<>>
    BY <1>5 DEF Receive, FlagsMean, Serving, TypeOK
  <2>2. item \in RxItems /\ item.conn = slot
    BY <2>1, TailTyped DEF RxItems
  <2>3. \A i \in DOMAIN rx : rx[i].conn = slot
    BY <1>5, <2>1, UartAssumption DEF Receive, RingsBelongToOwner, Conns
  <2> HIDE DEF item
  <2>4. \A i \in DOMAIN Push(rx, item) : Push(rx, item)[i].conn = slot
    <3>1. rx \in Seq(RxItems) /\ Len(rx) <= RingCap
      BY DEF TypeOK
    <3>2. \A i \in DOMAIN Push(rx, item) :
            Push(rx, item)[i] = item \/ (i \in DOMAIN rx /\ Push(rx, item)[i] = rx[i])
      BY <2>2, <3>1, PushTyped
    <3>3. QED BY <2>2, <2>3, <3>2
  <2>5. rx' \in {rx, Push(rx, item)} /\ slot' = slot /\ tx' = tx
        /\ sPc = "recv" /\ sPc' = "select"
    BY <1>5 DEF Receive, item
  <2>6. QED BY <2>3, <2>4, <2>5 DEF RingsBelongToOwner
<1>6. CASE FeedChip
  <2>1. rx' = Tail(rx) /\ rx # <<>> /\ slot' = slot /\ tx' = tx /\ sPc' = sPc
    BY <1>6 DEF FeedChip, slotVars
  <2>2. \A i \in DOMAIN Tail(rx) : i + 1 \in DOMAIN rx /\ Tail(rx)[i] = rx[i + 1]
    BY <2>1, TailTyped DEF TypeOK
  <2>3. QED BY <2>1, <2>2 DEF RingsBelongToOwner
<1>7. CASE FirmwareWrites
  <2>1. tx' = Push(tx, slot) /\ slot' = slot /\ rx' = rx /\ sPc' = sPc
    BY <1>7 DEF FirmwareWrites, slotVars
  <2>2. \A i \in DOMAIN Push(tx, slot) :
          Push(tx, slot)[i] = slot \/ (i \in DOMAIN tx /\ Push(tx, slot)[i] = tx[i])
    <3>1. tx \in Seq(Conns \cup {NoConn}) /\ Len(tx) <= RingCap /\ slot \in Conns \cup {NoConn}
      BY DEF TypeOK
    <3>2. QED BY <3>1, PushTyped
  <2>3. QED BY <2>1, <2>2 DEF RingsBelongToOwner
<1>8. CASE DrainTx
  BY <1>8, EmptyTyped DEF DrainTx, RingsBelongToOwner, slotVars
<1>9. CASE CloseClient
  BY <1>9 DEF CloseClient, RingsBelongToOwner
<1>10. CASE Select \/ Announce \/ Attach \/ LoseClient \/ MarkFlashDone
  BY <1>1, <1>10 DEF Select, Announce, Attach, LoseClient, MarkFlashDone, slotVars
<1>11. CASE Client \/ WindowEnds \/ Operator \/ UNCHANGED vars
  BY <1>1, <1>11 DEF Client, Connect, HangUp, Abort, ClientSends, WindowEnds, Operator, LoadFirmware, UnloadFirmware, OperatorResets,
     slotVars, uartVars, vars
<1>12. CASE PollConnect \/ ChipReset \/ PollFlashDone \/ ChipSoftReset \/ StartBatch \/ LockBatch \/ EndBatch \/ SendOut
  BY <1>1, <1>12 DEF PollConnect, ChipReset, PollFlashDone, ChipSoftReset, StartBatch, LockBatch, EndBatch, SendOut,
     slotVars, uartVars
<1>13. QED
  BY <1>2, <1>3, <1>4, <1>5, <1>6, <1>7, <1>8, <1>9, <1>10, <1>11, <1>12 DEF Next, Server, ChipThread

LEMMA WindowStep ==
  TypeOK /\ FlagsMean /\ WindowIsOwn /\ FirstSyncPasses /\ [Next]_vars => (WindowIsOwn /\ FirstSyncPasses)'
<1> SUFFICES ASSUME TypeOK, FlagsMean, WindowIsOwn, FirstSyncPasses, [Next]_vars
             PROVE  WindowIsOwn' /\ FirstSyncPasses'
  OBVIOUS
<1>1. CASE Receive
  <2> DEFINE chunk == Head(wire[slot])
             dropped == chunk = "sync" /\ recentSync
  <2>1. slot \in Conns /\ slot' = slot /\ sPc = "recv" /\ slot # NoConn
    BY <1>1 DEF Receive, FlagsMean, Serving, TypeOK
  <2>2. recentSync => syncSeen[slot] # "none"
    BY <2>1 DEF WindowIsOwn
  <2>3. CASE chunk = "sync" /\ syncSeen[slot] = "none"
    <3>1. ~dropped
      BY <2>2, <2>3
    <3>2. syncSeen' = [syncSeen EXCEPT ![slot] = "passed"]
      BY <1>1, <2>3, <3>1 DEF Receive
    <3>3. QED BY <2>1, <3>2 DEF WindowIsOwn, FirstSyncPasses, TypeOK
  <2>4. CASE ~(chunk = "sync" /\ syncSeen[slot] = "none")
    <3>1. syncSeen' = syncSeen /\ (recentSync' => recentSync \/ chunk = "sync")
      BY <1>1, <2>4 DEF Receive
    <3>2. QED BY <2>1, <2>2, <2>4, <3>1 DEF WindowIsOwn, FirstSyncPasses
  <2>5. QED BY <2>3, <2>4
<1>2. ASSUME syncSeen' = syncSeen,
             slot' = NoConn \/ slot' = slot,
             slot' = slot => /\ recentSync' => recentSync
                             /\ \/ sPc' \in {"reset_tx", "reset_rx"} \/ ~recentSync'
                                \/ sPc \notin {"reset_tx", "reset_rx"}
      PROVE  WindowIsOwn' /\ FirstSyncPasses'
  BY <1>2 DEF WindowIsOwn, FirstSyncPasses
<1>3. ASSUME NEW c \in Conns, Accept(c) PROVE WindowIsOwn' /\ FirstSyncPasses'
  BY <1>3 DEF Accept, WindowIsOwn, FirstSyncPasses, history
<1>4. CASE Elsewhere
  <2>1. slot' = slot /\ sPc' = sPc /\ syncSeen' = syncSeen
    BY <1>4, ElsewhereLeaves
  <2>2. recentSync' => recentSync
    BY <1>4, ChipLeaves DEF Elsewhere, ChipSide, slotVars, Client, Connect, HangUp, Abort, ClientSends,
       WindowEnds, vars
  <2>3. QED BY <1>2, <2>1, <2>2
<1>5. CASE Select \/ ResetTx \/ ResetRx \/ Announce \/ Attach \/ LoseClient \/ MarkFlashDone \/ CloseClient
  BY <1>2, <1>5 DEF Select, ResetTx, ResetRx, Announce, Attach, LoseClient, MarkFlashDone, CloseClient,
     slotVars, history
<1>6. QED BY <1>1, <1>3, <1>4, <1>5 DEF Next, Server, Elsewhere

-----------------------------------------------------------------------------
(* Counting resets.                                                        *)

LEMMA SumsTyped == TypeOK => ResetSum \in Nat /\ SoftSum \in Nat
BY DEF TypeOK, ResetSum, SoftSum, Count

LEMMA FlasherSets ==
  /\ IsFiniteSet(Arrived) /\ Cardinality(Arrived) \in Nat
  /\ IsFiniteSet(Gone) /\ Cardinality(Gone) \in Nat
<1>1. IsFiniteSet(Flashers) /\ Arrived \subseteq Flashers /\ Gone \subseteq Flashers
  BY UartAssumption DEF Arrived, Gone
<1>2. QED BY <1>1, FS_Subset, FS_CardinalityType

\* Nobody un-arrives, and nobody comes back.
LEMMA FlashersOnlyCome ==
  ASSUME TypeOK, FlagsMean, [Next]_vars
  PROVE  Arrived \subseteq Arrived' /\ Gone \subseteq Gone' /\ hungUp \subseteq hungUp'
<1>1. (\A c \in Conns : Came(c) => Came(c)') /\ hungUp \subseteq hungUp'
  <2>1. CASE Elsewhere
    BY <2>1, ElsewhereConns DEF Came
  <2>2. ASSUME NEW c \in Conns, Accept(c) PROVE <1>1!1 /\ <1>1!2
    BY <2>2 DEF Accept, Came
  <2>3. CASE CloseClient
    BY <2>3 DEF CloseClient, Came, TypeOK
  <2>4. CASE Select \/ ResetTx \/ ResetRx \/ Announce \/ Attach \/ Receive \/ LoseClient \/ MarkFlashDone
    BY <2>4 DEF Select, ResetTx, ResetRx, Announce, Attach, Receive, LoseClient, MarkFlashDone, tcpVars, Came
  <2>5. QED BY <2>1, <2>2, <2>3, <2>4 DEF Next, Server, Elsewhere
<1>2. Flashers \subseteq Conns
  BY DEF Conns
<1>3. QED BY <1>1, <1>2 DEF Arrived, Gone

LEMMA SetsGrow ==
  ASSUME TypeOK, FlagsMean, [Next]_vars
  PROVE  /\ Cardinality(Arrived) <= Cardinality(Arrived)' /\ Cardinality(Gone) <= Cardinality(Gone)'
         /\ \A f \in Arrived' : f \notin Arrived => Cardinality(Arrived) + 1 <= Cardinality(Arrived)'
         /\ \A f \in Gone' : f \notin Gone => Cardinality(Gone) + 1 <= Cardinality(Gone)'
<1>1. Arrived \subseteq Arrived' /\ Gone \subseteq Gone'
  BY FlashersOnlyCome
<1>2. IsFiniteSet(Arrived) /\ IsFiniteSet(Gone) /\ Cardinality(Arrived) \in Nat /\ Cardinality(Gone) \in Nat
  BY FlasherSets
<1>3. (IsFiniteSet(Arrived) /\ IsFiniteSet(Gone) /\ Cardinality(Arrived) \in Nat /\ Cardinality(Gone) \in Nat)'
  <2>1. IsFiniteSet(Flashers) /\ Arrived' \subseteq Flashers /\ Gone' \subseteq Flashers
    BY UartAssumption DEF Arrived, Gone
  <2>2. QED BY <2>1, FS_Subset, FS_CardinalityType
<1>4. ASSUME NEW S, NEW T, S \subseteq T, IsFiniteSet(S), IsFiniteSet(T), NEW f \in T, f \notin S
      PROVE  Cardinality(S) + 1 <= Cardinality(T)
  <2>1. S \cup {f} \subseteq T
    BY <1>4
  <2>2. Cardinality(S \cup {f}) = Cardinality(S) + 1
    BY <1>4, FS_AddElement
  <2>3. Cardinality(S \cup {f}) <= Cardinality(T)
    BY <1>4, <2>1, FS_Subset
  <2>4. QED BY <2>2, <2>3
<1>5. QED BY <1>1, <1>2, <1>3, <1>4, FS_Subset

\* A step keeps the account when the sum does not grow, or grows by one as a
\* flasher is added to the set.
LEMMA Balanced ==
  ASSUME NEW a \in Nat, NEW b \in Nat, NEW k \in Nat, NEW l \in Nat, a <= k,
         (b <= a /\ k <= l) \/ (b <= a + 1 /\ k + 1 <= l)
  PROVE  b <= l
OBVIOUS

\* What is true of the sums and of the sets before a step and after it.
LEMMA AccountTyped ==
  ASSUME TypeOK, TypeOK'
  PROVE  /\ ResetSum \in Nat /\ ResetSum' \in Nat /\ SoftSum \in Nat /\ SoftSum' \in Nat
         /\ Cardinality(Arrived) \in Nat /\ Cardinality(Arrived)' \in Nat
         /\ Cardinality(Gone) \in Nat /\ Cardinality(Gone)' \in Nat
<1>1. ResetSum \in Nat /\ SoftSum \in Nat
  BY SumsTyped
<1>2. ResetSum' \in Nat /\ SoftSum' \in Nat
  <2>1. resets' \in Nat /\ softResets' \in Nat /\ missed' \in Nat
    BY DEF TypeOK
  <2>2. \A b : Count(b) \in Nat
    BY DEF Count
  <2>3. /\ ResetSum' = resets' + missed' + Count(newConnect') + Count(cPc' = "reset") + Count(ToAnnounce')
        /\ SoftSum' = softResets' + Count(flashDone') + Count(cPc' = "soft_reset") + Count(ToMark')
    BY Zenon DEF ResetSum, SoftSum, Count
  <2>4. QED BY <2>1, <2>2, <2>3
<1>3. IsFiniteSet(Flashers) /\ Arrived' \subseteq Flashers /\ Gone' \subseteq Flashers
  BY UartAssumption DEF Arrived, Gone
<1>4. Cardinality(Arrived)' \in Nat /\ Cardinality(Gone)' \in Nat
  BY <1>3, FS_Subset, FS_CardinalityType
<1>5. QED BY <1>1, <1>2, <1>4, FlasherSets

LEMMA ResetsStep ==
  ASSUME TypeOK, TypeOK', FlagsMean, [Next]_vars, ResetSum <= Cardinality(Arrived)
  PROVE  ResetSum' <= Cardinality(Arrived)'
<1>1. /\ ResetSum \in Nat /\ ResetSum' \in Nat
      /\ Cardinality(Arrived) \in Nat /\ Cardinality(Arrived)' \in Nat
  BY AccountTyped
<1>2. ASSUME ResetSum' <= ResetSum PROVE ResetSum' <= Cardinality(Arrived)'
  BY <1>1, <1>2, SetsGrow, Balanced
<1>3. ASSUME NEW c \in Conns, Accept(c) PROVE ResetSum' <= Cardinality(Arrived)'
  <2>1. resets' = resets /\ missed' = missed /\ newConnect' = newConnect /\ cPc' = cPc /\ slot' = c /\ sPc' = "reset_tx"
        /\ conn[c] = "backlog" /\ conn'[c] = "accepted" /\ ~ToAnnounce
    BY <1>3 DEF Accept, chipVars, history, ToAnnounce
  <2>2. resets \in Nat /\ missed \in Nat
    BY DEF TypeOK
  <2>3. CASE c \in Flashers
    <3>1. c \in Arrived' /\ c \notin Arrived
      BY <2>1, <2>3 DEF Arrived, Came
    <3>2. ResetSum' <= ResetSum + 1
      BY <2>1, <2>2 DEF ResetSum, Count
    <3>3. QED BY <1>1, <3>1, <3>2, SetsGrow, Balanced
  <2>4. CASE c \notin Flashers
    <3>1. ~ToAnnounce'
      BY <2>1, <2>4 DEF ToAnnounce
    <3>2. ResetSum' <= ResetSum
      BY <2>1, <2>2, <3>1 DEF ResetSum, Count
    <3>3. QED BY <1>2, <3>2
  <2>5. QED BY <2>3, <2>4
<1>4. CASE Announce
  <2>1. /\ resets' = resets /\ missed' = missed /\ cPc' = cPc /\ ~ToAnnounce' /\ (ToAnnounce <=> slot \in Flashers)
        /\ newConnect' = (newConnect \/ slot \in Flashers) /\ resets \in Nat /\ missed \in Nat
    BY <1>4 DEF Announce, chipVars, history, slotVars, ToAnnounce, TypeOK
  <2>2. CASE slot \in Flashers
    <3>1. Count(ToAnnounce) = 1 /\ Count(ToAnnounce') = 0
      BY <2>1, <2>2 DEF Count
    <3>2. QED BY <1>2, <2>1, <3>1 DEF ResetSum, Count
  <2>3. CASE slot \notin Flashers
    <3>1. Count(ToAnnounce) = 0 /\ Count(ToAnnounce') = 0
      BY <2>1, <2>3 DEF Count
    <3>2. Count(newConnect') = Count(newConnect)
      BY <2>1, <2>3 DEF Count
    <3>3. QED BY <1>2, <2>1, <3>1, <3>2 DEF ResetSum, Count
  <2>4. QED BY <2>2, <2>3
<1>5. CASE PollConnect
  <2>1. /\ resets' = resets /\ missed' = missed /\ sPc' = sPc /\ slot' = slot /\ newConnect' = FALSE
        /\ cPc = "poll_connect" /\ (newConnect => cPc' = "reset") /\ (~newConnect => cPc' # "reset")
        /\ resets \in Nat /\ missed \in Nat
    BY <1>5 DEF PollConnect, resetVars, uartVars, slotVars, TypeOK
  <2>2. /\ Count(newConnect') = 0 /\ Count(cPc' = "reset") = Count(newConnect) /\ Count(cPc = "reset") = 0
        /\ Count(ToAnnounce') = Count(ToAnnounce)
    BY <2>1 DEF Count, ToAnnounce
  <2>3. QED BY <1>2, <2>1, <2>2 DEF ResetSum, Count
<1>6. CASE ChipReset
  <2>1. /\ sPc' = sPc /\ slot' = slot /\ newConnect' = newConnect /\ cPc = "reset" /\ cPc' = "poll_flash"
        /\ resets \in Nat /\ missed \in Nat
        /\ (resets' = resets /\ missed' = missed + 1) \/ (resets' = resets + 1 /\ missed' = missed)
    BY <1>6 DEF ChipReset, uartVars, slotVars, TypeOK
  <2>2. /\ Count(cPc' = "reset") = 0 /\ Count(cPc = "reset") = 1
        /\ Count(ToAnnounce') = Count(ToAnnounce)
    BY <2>1 DEF Count, ToAnnounce
  <2>3. /\ ResetSum = resets + missed + Count(newConnect) + 1 + Count(ToAnnounce)
        /\ ResetSum' = resets' + missed' + Count(newConnect) + 0 + Count(ToAnnounce)
    BY <2>1, <2>2 DEF ResetSum
  <2>4. Count(newConnect) \in Nat /\ Count(ToAnnounce) \in Nat
    BY DEF Count
  <2>5. QED BY <1>2, <2>1, <2>3, <2>4
<1>7. ASSUME resets' = resets, missed' = missed, newConnect' = newConnect, cPc' = "reset" => cPc = "reset",
             ToAnnounce' => ToAnnounce
      PROVE  ResetSum' <= Cardinality(Arrived)'
  <2>1. resets \in Nat /\ missed \in Nat
    BY DEF TypeOK
  <2>2. Count(cPc' = "reset") <= Count(cPc = "reset") /\ Count(ToAnnounce') <= Count(ToAnnounce)
    BY <1>7 DEF Count
  <2>3. QED BY <1>2, <1>7, <2>1, <2>2 DEF ResetSum, Count
<1>8. CASE Client \/ WindowEnds \/ Operator \/ UNCHANGED vars
  BY <1>7, <1>8 DEF Client, Connect, HangUp, Abort, ClientSends, WindowEnds, Operator, LoadFirmware, UnloadFirmware, OperatorResets,
     slotVars, chipVars, history, uartVars, resetVars, vars, ToAnnounce
<1>9. CASE Select \/ ResetTx \/ ResetRx \/ Attach \/ Receive \/ LoseClient \/ MarkFlashDone \/ CloseClient
  BY <1>7, <1>9 DEF Select, ResetTx, ResetRx, Attach, Receive, LoseClient, MarkFlashDone, CloseClient,
     slotVars, chipVars, history, ToAnnounce
<1>10. CASE PollFlashDone \/ ChipSoftReset \/ StartBatch \/ LockBatch \/ FeedChip \/ FirmwareWrites \/ EndBatch
            \/ DrainTx \/ SendOut
  BY <1>7, <1>10 DEF PollFlashDone, ChipSoftReset, StartBatch, LockBatch, FeedChip, FirmwareWrites, EndBatch,
     DrainTx, SendOut, slotVars, chipVars, history, uartVars, resetVars, ToAnnounce
<1>11. QED
  BY <1>3, <1>4, <1>5, <1>6, <1>8, <1>9, <1>10 DEF Next, Server, ChipThread

LEMMA SoftStep ==
  ASSUME TypeOK, TypeOK', FlagsMean, LostIsGone, [Next]_vars, SoftSum <= Cardinality(Gone)
  PROVE  SoftSum' <= Cardinality(Gone)'
<1>1. /\ SoftSum \in Nat /\ SoftSum' \in Nat /\ softResets \in Nat
      /\ Cardinality(Gone) \in Nat /\ Cardinality(Gone)' \in Nat
  BY AccountTyped DEF TypeOK
<1>2. ASSUME SoftSum' <= SoftSum PROVE SoftSum' <= Cardinality(Gone)'
  BY <1>1, <1>2, SetsGrow, Balanced
<1>3. ASSUME softResets' = softResets, flashDone' = flashDone, cPc' = "soft_reset" => cPc = "soft_reset",
             ToMark' => ToMark \/ \E f \in Gone' : f \notin Gone
      PROVE  SoftSum' <= Cardinality(Gone)'
  <2>1. Count(cPc' = "soft_reset") <= Count(cPc = "soft_reset")
    BY <1>3 DEF Count
  <2>2. CASE ToMark' => ToMark
    <3>1. Count(ToMark') <= Count(ToMark)
      BY <2>2 DEF Count
    <3>2. QED BY <1>1, <1>2, <1>3, <2>1, <3>1 DEF SoftSum, Count
  <2>3. CASE ToMark' /\ ~ToMark
    <3>1. PICK f \in Gone' : f \notin Gone
      BY <1>3, <2>3
    <3>2. Count(ToMark') = 1 /\ Count(ToMark) = 0
      BY <2>3 DEF Count
    <3>3. SoftSum' <= SoftSum + 1
      BY <1>1, <1>3, <2>1, <3>2 DEF SoftSum, Count
    <3>4. QED BY <1>1, <3>1, <3>3, SetsGrow, Balanced
  <2>4. QED BY <2>2, <2>3
<1>4. ASSUME NEW c \in Conns, Accept(c) PROVE SoftSum' <= Cardinality(Gone)'
  <2>1. /\ softResets' = softResets /\ flashDone' = flashDone /\ cPc' = cPc /\ hungUp' = hungUp
        /\ slot' = c /\ conn[c] = "backlog" /\ conn'[c] = "accepted"
    BY <1>4 DEF Accept, chipVars, history
  <2>2. ToMark' => c \in Gone' /\ c \notin Gone
    BY <2>1 DEF ToMark, Gone, Came
  <2>3. QED BY <1>3, <2>1, <2>2
<1>5. ASSUME NEW c \in Conns, HangUp(c) \/ Abort(c) PROVE SoftSum' <= Cardinality(Gone)'
  <2>1. /\ softResets' = softResets /\ flashDone' = flashDone /\ cPc' = cPc /\ hungUp' = hungUp \cup {c}
        /\ slot' = slot /\ sPc' = sPc /\ conn' = conn
    BY <1>5 DEF HangUp, Abort, slotVars, chipVars, history
  <2>2. ASSUME ToMark', ~ToMark PROVE slot \in Gone' /\ slot \notin Gone
    <3>1. slot \in Flashers /\ slot \in hungUp' /\ slot \notin hungUp
      BY <2>1, <2>2 DEF ToMark
    <3>2. conn[slot] = "accepted"
      BY <3>1 DEF FlagsMean, Conns
    <3>3. QED BY <2>1, <3>1, <3>2 DEF Gone, Came
  <2>3. QED BY <1>3, <2>1, <2>2
<1>6. CASE MarkFlashDone
  <2>1. /\ softResets' = softResets /\ cPc' = cPc /\ sPc = "flash_done" /\ sPc' = "close"
        /\ slot \in hungUp /\ (isFlasher <=> slot \in Flashers) /\ flashDone' = (flashDone \/ isFlasher)
    BY <1>6 DEF MarkFlashDone, chipVars, history, LostIsGone, FlagsMean
  <2>2. (ToMark <=> slot \in Flashers) /\ ~ToMark'
    BY <2>1 DEF ToMark
  <2>3. CASE slot \in Flashers
    <3>1. Count(ToMark) = 1 /\ Count(ToMark') = 0
      BY <2>2, <2>3 DEF Count
    <3>2. QED BY <1>1, <1>2, <2>1, <3>1 DEF SoftSum, Count
  <2>4. CASE slot \notin Flashers
    <3>1. Count(ToMark) = 0 /\ Count(ToMark') = 0
      BY <2>2, <2>4 DEF Count
    <3>2. Count(flashDone') = Count(flashDone)
      BY <2>1, <2>4 DEF Count
    <3>3. QED BY <1>1, <1>2, <2>1, <3>1, <3>2 DEF SoftSum, Count
  <2>5. QED BY <2>3, <2>4
<1>7. CASE PollFlashDone
  <2>1. /\ softResets' = softResets /\ sPc' = sPc /\ slot' = slot /\ hungUp' = hungUp /\ flashDone' = FALSE
        /\ cPc = "poll_flash" /\ (flashDone => cPc' = "soft_reset") /\ (~flashDone => cPc' # "soft_reset")
    BY <1>7 DEF PollFlashDone, resetVars, uartVars, slotVars, tcpVars
  <2>2. /\ Count(flashDone') = 0 /\ Count(cPc' = "soft_reset") = Count(flashDone)
        /\ Count(cPc = "soft_reset") = 0 /\ Count(ToMark') = Count(ToMark)
    BY <2>1 DEF Count, ToMark
  <2>3. QED BY <1>1, <1>2, <2>1, <2>2 DEF SoftSum, Count
<1>8. CASE ChipSoftReset
  <2>1. /\ softResets' \in {softResets, softResets + 1} /\ sPc' = sPc /\ slot' = slot /\ hungUp' = hungUp
        /\ flashDone' = flashDone /\ cPc = "soft_reset" /\ cPc' = "ready"
    BY <1>8 DEF ChipSoftReset, uartVars, slotVars, tcpVars
  <2>2. /\ Count(cPc' = "soft_reset") = 0 /\ Count(cPc = "soft_reset") = 1
        /\ Count(ToMark') = Count(ToMark)
    BY <2>1 DEF Count, ToMark
  <2>3. /\ SoftSum = softResets + Count(flashDone) + 1 + Count(ToMark)
        /\ SoftSum' = softResets' + Count(flashDone) + 0 + Count(ToMark)
    BY <2>1, <2>2 DEF SoftSum
  <2>4. Count(flashDone) \in Nat /\ Count(ToMark) \in Nat
    BY DEF Count
  <2>5. QED BY <1>1, <1>2, <2>1, <2>3, <2>4
<1>9. CASE CloseClient
  <2>1. softResets' = softResets /\ flashDone' = flashDone /\ cPc' = cPc /\ slot' = NoConn
    BY <1>9 DEF CloseClient, chipVars, history
  <2>2. ~ToMark'
    BY <2>1, UartAssumption DEF ToMark
  <2>3. QED BY <1>3, <2>1, <2>2
<1>10. CASE Select \/ ResetTx \/ ResetRx \/ Announce \/ Attach \/ Receive \/ LoseClient
  BY <1>3, <1>10 DEF Select, ResetTx, ResetRx, Announce, Attach, Receive, LoseClient,
     slotVars, chipVars, history, tcpVars, ToMark
<1>11. CASE \/ \E c \in Conns : Connect(c) \/ \E chunk \in Chunks : ClientSends(c, chunk)
            \/ WindowEnds \/ Operator \/ UNCHANGED vars
  BY <1>3, <1>11 DEF Connect, ClientSends, WindowEnds, Operator, LoadFirmware, UnloadFirmware, OperatorResets,
     slotVars, chipVars, history, tcpVars, uartVars, resetVars, vars, ToMark
<1>12. CASE PollConnect \/ ChipReset \/ StartBatch \/ LockBatch \/ FeedChip \/ FirmwareWrites \/ EndBatch
            \/ DrainTx \/ SendOut
  BY <1>3, <1>12 DEF PollConnect, ChipReset, StartBatch, LockBatch, FeedChip, FirmwareWrites, EndBatch,
     DrainTx, SendOut, slotVars, chipVars, history, tcpVars, uartVars, resetVars, ToMark
<1>13. QED
  BY <1>4, <1>5, <1>6, <1>7, <1>8, <1>9, <1>10, <1>11, <1>12 DEF Next, Client, Server, ChipThread

-----------------------------------------------------------------------------
(* The invariant.                                                          *)

LEMMA InitInv == Init => ServerInv
<1> SUFFICES ASSUME Init PROVE ServerInv
  OBVIOUS
<1>1. TypeOK
  BY InitTyped
<1>2. \A c \in Conns : conn[c] = "new" /\ syncSeen[c] = "none"
  BY DEF Init
<1>3. FlagsMean /\ LostIsGone /\ RingsBelongToOwner
  BY <1>2, UartAssumption DEF Init, FlagsMean, LostIsGone, RingsBelongToOwner, Serving, Conns
<1>4. WindowIsOwn /\ FirstSyncPasses
  BY <1>2 DEF Init, WindowIsOwn, FirstSyncPasses
<1>5. ResetsCounted
  <2>1. ~ToAnnounce /\ ~ToMark /\ ~newConnect /\ ~flashDone /\ cPc = "poll_connect"
        /\ resets = 0 /\ softResets = 0 /\ missed = 0
    BY UartAssumption DEF Init, ToAnnounce, ToMark
  <2>2. ResetSum = 0 /\ SoftSum = 0
    BY <2>1 DEF ResetSum, SoftSum, Count
  <2>3. QED BY <2>2, FlasherSets DEF ResetsCounted
<1>6. QED BY <1>1, <1>3, <1>4, <1>5 DEF ServerInv

LEMMA StepInv == ServerInv /\ [Next]_vars => ServerInv'
<1> SUFFICES ASSUME ServerInv, [Next]_vars PROVE ServerInv'
  OBVIOUS
<1>1. TypeOK /\ FlagsMean /\ LostIsGone /\ RingsBelongToOwner /\ WindowIsOwn /\ FirstSyncPasses
  BY DEF ServerInv
<1>2. ResetSum <= Cardinality(Arrived) /\ SoftSum <= Cardinality(Gone)
  BY DEF ServerInv, ResetsCounted
<1>3. TypeOK'
  BY <1>1, StepTyped
<1>4. ResetsCounted'
  <2>1. ResetSum' <= Cardinality(Arrived)'
    BY <1>1, <1>2, <1>3, ResetsStep
  <2>2. SoftSum' <= Cardinality(Gone)'
    BY <1>1, <1>2, <1>3, SoftStep
  <2>3. QED BY <2>1, <2>2 DEF ResetsCounted
<1>5. FlagsMean' /\ LostIsGone' /\ RingsBelongToOwner' /\ WindowIsOwn' /\ FirstSyncPasses'
  BY <1>1, FlagsStep, LostStep, RingsStep, WindowStep
<1>6. QED BY <1>3, <1>4, <1>5 DEF ServerInv

LEMMA InvAlways == Spec => []ServerInv
BY InitInv, StepInv, PTL DEF Spec

\* Whatever clients connect, send, hang up or are kicked, and whatever the chip
\* thread and the operator do meanwhile, every variable of the server and of the
\* chip thread holds a value the code can give it and no ring exceeds BUF_CAP.
THEOREM UartTypeCorrect == Spec => []TypeOK
<1>1. ServerInv => TypeOK
  BY DEF ServerInv
<1>2. QED BY <1>1, InvAlways, PTL

\* However clients come, kick each other and leave, the one accepted socket is
\* the one in the slot, and attached and isFlasher describe its owner whenever
\* the server thread is back at select.
THEOREM SlotAlwaysCoherent == Spec => []SlotCoherent
<1>1. ServerInv => SlotCoherent
  BY DEF ServerInv, FlagsMean, SlotCoherent
<1>2. QED BY <1>1, InvAlways, PTL

\* Although the rings are emptied after the slot has changed hands, and the chip
\* thread feeds from one and writes to the other all the time, an installed client
\* shares no ring with a predecessor.
THEOREM RingsAlwaysBelongToOwner == Spec => []RingsBelongToOwner
<1>1. ServerInv => RingsBelongToOwner
  BY DEF ServerInv
<1>2. QED BY <1>1, InvAlways, PTL

\* The sync coalescing of uart_server.c never swallows the first GET_SYNC of a
\* session, however close it follows the syncs of the session before.
THEOREM FirstSyncAlwaysPasses == Spec => []FirstSyncPasses
<1>1. ServerInv => FirstSyncPasses
  BY DEF ServerInv
<1>2. QED BY <1>1, InvAlways, PTL

\* The chip thread never goes to reset the AVR more often than flashers have come, and
\* never soft-resets it more often than flashers have left: a reset is neither
\* invented by a bridge nor delivered twice, although the flags that carry it
\* are set and cleared by two threads.
THEOREM ResetsAlwaysEarned == Spec => []ResetsAreEarned
<1>1. ServerInv => ResetsAreEarned
  <2> SUFFICES ASSUME ServerInv PROVE ResetsAreEarned
    OBVIOUS
  <2>1. resets \in Nat /\ softResets \in Nat /\ missed \in Nat
    BY DEF ServerInv, TypeOK
  <2>2. ResetSum <= Cardinality(Arrived) /\ SoftSum <= Cardinality(Gone)
    BY DEF ServerInv, ResetsCounted
  <2>3. /\ resets + missed + Count(newConnect) + Count(cPc = "reset") <= Cardinality(Arrived)
        /\ softResets + Count(flashDone) + Count(cPc = "soft_reset") <= Cardinality(Gone)
    BY <2>1, <2>2, FlasherSets DEF ResetSum, SoftSum, Count
  <2>4. QED BY <2>3 DEF ResetsAreEarned, Arrived, Gone
<1>2. QED BY <1>1, InvAlways, PTL
=============================================================================
