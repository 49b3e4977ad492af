----------------------------- MODULE UartServer -----------------------------
(***************************************************************************)
(* The TCP UART of one chip: the server thread (uart_server.c) that owns   *)
(* the single client slot, the chip thread (sim_loop.c) that polls its     *)
(* flags and exchanges bytes with it through two rings, and the operator   *)
(* who loads and unloads firmware.                                         *)
(*                                                                         *)
(* A connection is a flasher (avrdude, ports 8600+i) or a bridge (the UI,  *)
(* ports 8700+i); each connects once, so a reconnection is another         *)
(* connection.  Input is in chunks, one per recv: "sync" is the STK500     *)
(* GET_SYNC pair 30 20, "data" anything else.  A chunk occupies one place  *)
(* of a ring, and so does one output byte, which is represented by the     *)
(* owner of the slot when the firmware produced it.                        *)
(***************************************************************************)
EXTENDS Naturals, Sequences, FiniteSets

CONSTANTS
  Flashers, Bridges,  \* connections, by the port they come in on
  NoConn,
  RingCap,            \* BUF_CAP, 4096 in the code
  MaxChunks           \* bound of the model: chunks each connection sends

ASSUME UartAssumption ==
  /\ Flashers \cap Bridges = {} /\ NoConn \notin Flashers \cup Bridges
  /\ IsFiniteSet(Flashers)
  /\ RingCap \in Nat \ {0}
  /\ MaxChunks \in Nat

Conns   == Flashers \cup Bridges
Chunks  == {"sync", "data"}
RxItems == [conn : Conns, chunk : Chunks]

VARIABLES
  \* the connections, as TCP keeps them
  conn,        \* "new", "backlog", "accepted" or "closed" (by the server)
  wire,        \* chunks sent and not yet received by the server
  hungUp,      \* the client has closed or lost its end
  \* struct chip_uart_t
  slot,        \* client_sock
  rx, tx,      \* the rings
  newConnect, attached, flashDone, isFlasher,
  recentSync,  \* last_sync_ns lies less than SYNC_COALESCE_NS ago
  \* the threads
  sPc,         \* where the server thread is
  cPc,         \* where the chip thread is
  flushBuf,    \* bytes drained from tx, on their way to the client
  chip,        \* what the AVR runs: "bootloader", "app" or "stopped"
  \* history
  syncSeen,    \* what became of the first sync of each connection
  resets, softResets,  \* how often the chip thread has reset the AVR
  missed       \* connects of flashers that found the AVR not running

tcpVars  == <<conn, wire, hungUp>>
slotVars == <<slot, attached, isFlasher, recentSync>>
chipVars == <<cPc, flushBuf, chip>>
history  == <<syncSeen, resets, softResets, missed>>
vars == <<conn, wire, hungUp, slot, rx, tx, newConnect, attached, flashDone,
          isFlasher, recentSync, sPc, cPc, flushBuf, chip, syncSeen,
          resets, softResets, missed>>

Init ==
  /\ conn = [c \in Conns |-> "new"]
  /\ wire = [c \in Conns |-> <<>>]
  /\ hungUp = {}
  /\ slot = NoConn
  /\ rx = <<>> /\ tx = <<>>
  /\ newConnect = FALSE /\ attached = FALSE /\ flashDone = FALSE /\ isFlasher = FALSE
  /\ recentSync = FALSE
  /\ sPc = "select" /\ cPc = "poll_connect"
  /\ flushBuf = <<>>
  /\ chip = "bootloader"
  /\ syncSeen = [c \in Conns |-> "none"]
  /\ resets = 0 /\ softResets = 0 /\ missed = 0

Push(ring, item) == IF Len(ring) < RingCap THEN Append(ring, item) ELSE ring

-----------------------------------------------------------------------------
(* Clients.                                                                *)

Connect(c) ==
  /\ conn[c] = "new"
  /\ conn' = [conn EXCEPT ![c] = "backlog"]
  /\ UNCHANGED <<wire, hungUp, slotVars, rx, tx, newConnect, flashDone, sPc, chipVars, history>>

\* The bound on chunks counts what is still unread, which is enough here.
ClientSends(c, chunk) ==
  /\ conn[c] \in {"backlog", "accepted"} /\ c \notin hungUp
  /\ Len(wire[c]) < MaxChunks
  /\ wire' = [wire EXCEPT ![c] = Append(@, chunk)]
  /\ UNCHANGED <<conn, hungUp, slotVars, rx, tx, newConnect, flashDone, sPc, chipVars, history>>

\* An orderly close: what was sent can still be read.
HangUp(c) ==
  /\ conn[c] \in {"backlog", "accepted"}
  /\ hungUp' = hungUp \cup {c}
  /\ UNCHANGED <<conn, wire, slotVars, rx, tx, newConnect, flashDone, sPc, chipVars, history>>

\* A reset connection: recv fails at once.
Abort(c) ==
  /\ conn[c] \in {"backlog", "accepted"}
  /\ hungUp' = hungUp \cup {c}
  /\ wire' = [wire EXCEPT ![c] = <<>>]
  /\ UNCHANGED <<conn, slotVars, rx, tx, newConnect, flashDone, sPc, chipVars, history>>

-----------------------------------------------------------------------------
(* The server thread.  What it does in an iteration is decided by what      *)
(* select found ready: the flasher port before the bridge port, and both   *)
(* before the client.                                                      *)

Waiting(ports) == { c \in ports : conn[c] = "backlog" }

Select ==
  /\ sPc = "select"
  /\ \/ Waiting(Flashers) # {} /\ sPc' = "accept_flasher"
     \/ Waiting(Flashers) = {} /\ Waiting(Bridges) # {} /\ sPc' = "accept_bridge"
     \/ Waiting(Conns) = {} /\ slot # NoConn /\ wire[slot] # <<>> /\ sPc' = "recv"
     \/ Waiting(Conns) = {} /\ slot \in hungUp /\ sPc' = "recv"
  /\ UNCHANGED <<tcpVars, slotVars, rx, tx, newConnect, flashDone, chipVars, history>>

\* accept_new_client, one step per lock or flag: close the previous client, if
\* any, and install the new one;
Accept(c) ==
  /\ conn[c] = "backlog"
  /\ sPc = (IF c \in Flashers THEN "accept_flasher" ELSE "accept_bridge")
  /\ conn' = [d \in Conns |-> IF d = c THEN "accepted"
                              ELSE IF d = slot THEN "closed" ELSE conn[d]]
  /\ slot' = c
  /\ sPc' = "reset_tx"
  /\ UNCHANGED <<wire, hungUp, attached, isFlasher, recentSync, rx, tx, newConnect,
                 flashDone, chipVars, history>>

\* empty the rings;
ResetTx ==
  /\ sPc = "reset_tx" /\ sPc' = "reset_rx"
  /\ tx' = <<>>
  /\ UNCHANGED <<tcpVars, slotVars, rx, newConnect, flashDone, chipVars, history>>

\* Mutant: the input ring is not emptied.
ResetRx_KeepsInput ==
  /\ sPc = "reset_rx" /\ sPc' = "announce"
  /\ recentSync' = FALSE
  /\ UNCHANGED <<tcpVars, slot, attached, isFlasher, rx, tx, newConnect, flashDone, chipVars, history>>

\* Mutant: the coalescing window survives the client.
ResetRx_KeepsWindow ==
  /\ sPc = "reset_rx" /\ sPc' = "announce"
  /\ rx' = <<>>
  /\ UNCHANGED <<tcpVars, slotVars, tx, newConnect, flashDone, chipVars, history>>

ResetRx ==
  /\ sPc = "reset_rx" /\ sPc' = "announce"
  /\ rx' = <<>>
  /\ recentSync' = FALSE
  /\ UNCHANGED <<tcpVars, slot, attached, isFlasher, tx, newConnect, flashDone, chipVars, history>>

\* Mutant: every connection pulses the reset line.
Announce_Always ==
  /\ sPc = "announce" /\ sPc' = "attach"
  /\ newConnect' = TRUE
  /\ UNCHANGED <<tcpVars, slotVars, rx, tx, flashDone, chipVars, history>>

\* Only a flasher pulses the reset line.
Announce ==
  /\ sPc = "announce" /\ sPc' = "attach"
  /\ newConnect' = (newConnect \/ slot \in Flashers)
  /\ UNCHANGED <<tcpVars, slotVars, rx, tx, flashDone, chipVars, history>>

Attach ==
  /\ sPc = "attach" /\ sPc' = "select"
  /\ isFlasher' = (slot \in Flashers)
  /\ attached' = TRUE
  /\ UNCHANGED <<tcpVars, slot, recentSync, rx, tx, newConnect, flashDone, chipVars, history>>

\* recv returned data.  A sync that follows another within the window is
\* dropped; everything else goes into the ring.
Receive ==
  /\ sPc = "recv" /\ sPc' = "select"
  /\ wire[slot] # <<>>
  /\ LET chunk   == Head(wire[slot])
         dropped == chunk = "sync" /\ recentSync
     IN /\ rx' = IF dropped THEN rx ELSE Push(rx, [conn |-> slot, chunk |-> chunk])
        /\ recentSync' = (recentSync \/ chunk = "sync")
        /\ syncSeen' = IF chunk = "sync" /\ syncSeen[slot] = "none"
                         THEN [syncSeen EXCEPT ![slot] = IF dropped THEN "dropped" ELSE "passed"]
                         ELSE syncSeen
  /\ wire' = [wire EXCEPT ![slot] = Tail(@)]
  /\ UNCHANGED <<conn, hungUp, slot, attached, isFlasher, tx, newConnect, flashDone, chipVars,
                 resets, softResets, missed>>

\* recv returned 0 or an error.
LoseClient ==
  /\ sPc = "recv" /\ sPc' = "flash_done"
  /\ wire[slot] = <<>>
  /\ attached' = FALSE
  /\ UNCHANGED <<tcpVars, slot, isFlasher, recentSync, rx, tx, newConnect, flashDone, chipVars, history>>

\* Mutant: the role of the lost client is kept.
MarkFlashDone_KeepsRole ==
  /\ sPc = "flash_done" /\ sPc' = "close"
  /\ flashDone' = (flashDone \/ isFlasher)
  /\ UNCHANGED <<tcpVars, slotVars, rx, tx, newConnect, chipVars, history>>

\* Mutant: losing the client cancels its reset.
MarkFlashDone_CancelsReset ==
  /\ sPc = "flash_done" /\ sPc' = "close"
  /\ flashDone' = (flashDone \/ isFlasher)
  /\ isFlasher' = FALSE
  /\ newConnect' = FALSE
  /\ UNCHANGED <<tcpVars, slot, attached, recentSync, rx, tx, chipVars, history>>

MarkFlashDone ==
  /\ sPc = "flash_done" /\ sPc' = "close"
  /\ flashDone' = (flashDone \/ isFlasher)
  /\ isFlasher' = FALSE
  /\ UNCHANGED <<tcpVars, slot, attached, recentSync, rx, tx, newConnect, chipVars, history>>

CloseClient ==
  /\ sPc = "close" /\ sPc' = "select"
  /\ conn' = [conn EXCEPT ![slot] = "closed"]
  /\ slot' = NoConn
  /\ UNCHANGED <<wire, hungUp, attached, isFlasher, recentSync, rx, tx, newConnect, flashDone,
                 chipVars, history>>

\* 100 ms pass.
WindowEnds ==
  /\ recentSync /\ recentSync' = FALSE
  /\ UNCHANGED <<tcpVars, slot, attached, isFlasher, rx, tx, newConnect, flashDone, sPc,
                 chipVars, history>>

-----------------------------------------------------------------------------
(* The chip thread, one iteration of chip_thread_fn.                       *)

uartVars == <<slotVars, rx, tx, sPc, syncSeen>>
resetVars == <<resets, softResets, missed>>

PollConnect ==
  /\ cPc = "poll_connect"
  /\ cPc' = IF newConnect THEN "reset" ELSE "poll_flash"
  /\ newConnect' = FALSE
  /\ UNCHANGED <<tcpVars, uartVars, resetVars, flashDone, flushBuf, chip>>

\* chip_reset sets EXTRF, so Optiboot waits for a flasher; an AVR that is not
\* running is left alone, and the connect is forgotten.
ChipReset ==
  /\ cPc = "reset" /\ cPc' = "poll_flash"
  /\ \/ chip = "stopped" /\ missed' = missed + 1 /\ UNCHANGED <<chip, resets>>
     \/ chip # "stopped" /\ chip' = "bootloader" /\ resets' = resets + 1 /\ UNCHANGED missed
  /\ UNCHANGED <<tcpVars, uartVars, softResets, newConnect, flashDone, flushBuf>>

PollFlashDone ==
  /\ cPc = "poll_flash"
  /\ cPc' = IF flashDone THEN "soft_reset" ELSE "ready"
  /\ flashDone' = FALSE
  /\ UNCHANGED <<tcpVars, uartVars, resetVars, newConnect, flushBuf, chip>>

\* chip_soft_reset: MCUSR is zero, so Optiboot jumps to the application.
ChipSoftReset ==
  /\ cPc = "soft_reset" /\ cPc' = "ready"
  /\ \/ chip = "stopped" /\ UNCHANGED <<chip, softResets>>
     \/ chip # "stopped" /\ chip' = "app" /\ softResets' = softResets + 1
  /\ UNCHANGED <<tcpVars, uartVars, resets, missed, newConnect, flashDone, flushBuf>>

\* A paused or stopped chip goes round the loop; the thread looks at that before
\* it has the avr_lock.
StartBatch ==
  /\ cPc = "ready"
  /\ \/ cPc' = "poll_connect"
     \/ chip # "stopped" /\ cPc' = "lock"
  /\ UNCHANGED <<tcpVars, uartVars, resetVars, newConnect, flashDone, flushBuf, chip>>

LockBatch ==
  /\ cPc = "lock" /\ cPc' = "batch"
  /\ UNCHANGED <<tcpVars, uartVars, resetVars, newConnect, flashDone, flushBuf, chip>>

\* Hand one received chunk to the AVR.
FeedChip ==
  /\ cPc = "batch" /\ rx # <<>>
  /\ rx' = Tail(rx)
  /\ UNCHANGED <<tcpVars, slotVars, tx, newConnect, flashDone, sPc, chipVars, history>>

\* The firmware writes a byte: on_uart_byte.
FirmwareWrites ==
  /\ cPc = "batch" /\ chip # "stopped"
  /\ tx' = Push(tx, slot)
  /\ UNCHANGED <<tcpVars, slotVars, rx, newConnect, flashDone, sPc, chipVars, history>>

\* The end of a batch.  Meanwhile Optiboot may have given up waiting, or the
\* AVR may have crashed.
EndBatch ==
  /\ cPc = "batch" /\ cPc' = "drain_tx"
  /\ chip' \in {chip, "stopped"} \cup (IF chip = "bootloader" THEN {"app"} ELSE {})
  /\ UNCHANGED <<tcpVars, uartVars, resetVars, newConnect, flashDone, flushBuf>>

\* uart_server_flush_tx empties the ring under tx.lock ...
DrainTx ==
  /\ cPc = "drain_tx"
  /\ cPc' = IF tx = <<>> THEN "poll_connect" ELSE "send"
  /\ flushBuf' = tx
  /\ tx' = <<>>
  /\ UNCHANGED <<tcpVars, slotVars, rx, newConnect, flashDone, sPc, chip, history>>

\* ... and sends to whoever has the slot by then, if anyone, under client_lock.
SendOut ==
  /\ cPc = "send" /\ cPc' = "poll_connect"
  /\ flushBuf' = <<>>
  /\ UNCHANGED <<tcpVars, uartVars, resetVars, newConnect, flashDone, chip>>

-----------------------------------------------------------------------------
(* The operator's commands, under the avr_lock the batch holds.            *)

LoadFirmware ==
  /\ cPc # "batch"
  /\ chip' = "bootloader"
  /\ UNCHANGED <<tcpVars, uartVars, resetVars, newConnect, flashDone, cPc, flushBuf>>

UnloadFirmware ==
  /\ cPc # "batch"
  /\ chip' = "stopped"
  /\ UNCHANGED <<tcpVars, uartVars, resetVars, newConnect, flashDone, cPc, flushBuf>>

\* apply_reset: it does not start a stopped chip.
OperatorResets ==
  /\ cPc # "batch" /\ chip # "stopped"
  /\ chip' = "bootloader"
  /\ UNCHANGED <<tcpVars, uartVars, resetVars, newConnect, flashDone, cPc, flushBuf>>

Operator == LoadFirmware \/ UnloadFirmware \/ OperatorResets

-----------------------------------------------------------------------------

Client == \E c \in Conns :
  Connect(c) \/ HangUp(c) \/ Abort(c) \/ \E chunk \in Chunks : ClientSends(c, chunk)

Server ==
  \/ Select
  \/ \E c \in Conns : Accept(c)
  \/ ResetTx \/ ResetRx \/ Announce \/ Attach
  \/ Receive \/ LoseClient \/ MarkFlashDone \/ CloseClient

ChipThread ==
  \/ PollConnect \/ ChipReset \/ PollFlashDone \/ ChipSoftReset \/ StartBatch \/ LockBatch
  \/ FeedChip \/ FirmwareWrites \/ EndBatch \/ DrainTx \/ SendOut

Next == Client \/ Server \/ WindowEnds \/ ChipThread \/ Operator

Spec == Init /\ [][Next]_vars

\* Both threads keep running, and a batch ends whatever the firmware does.
\* Clients, the operator and the clock owe nothing.
Fairness ==
  /\ WF_vars(Server)
  /\ WF_vars(PollConnect) /\ WF_vars(ChipReset)
  /\ WF_vars(PollFlashDone) /\ WF_vars(ChipSoftReset)
  /\ WF_vars(StartBatch) /\ WF_vars(LockBatch) /\ WF_vars(EndBatch)
  /\ WF_vars(DrainTx) /\ WF_vars(SendOut)

FairSpec == Spec /\ Fairness

-----------------------------------------------------------------------------
(* Properties.                                                             *)

\* Every variable holds a value the code can give it; the rings keep to their
\* capacity.
TypeOK ==
  /\ conn \in [Conns -> {"new", "backlog", "accepted", "closed"}]
  /\ wire \in [Conns -> Seq(Chunks)]
  /\ hungUp \subseteq Conns
  /\ slot \in Conns \cup {NoConn}
  /\ rx \in Seq(RxItems) /\ Len(rx) <= RingCap
  /\ tx \in Seq(Conns \cup {NoConn}) /\ Len(tx) <= RingCap
  /\ {newConnect, attached, flashDone, isFlasher, recentSync} \subseteq BOOLEAN
  /\ sPc \in {"select", "accept_flasher", "accept_bridge", "reset_tx", "reset_rx", "announce",
              "attach", "recv", "flash_done", "close"}
  /\ cPc \in {"poll_connect", "reset", "poll_flash", "soft_reset", "ready", "lock", "batch",
              "drain_tx", "send"}
  /\ flushBuf \in Seq(Conns \cup {NoConn})
  /\ chip \in {"bootloader", "app", "stopped"}
  /\ syncSeen \in [Conns -> {"none", "passed", "dropped"}]
  /\ resets \in Nat /\ softResets \in Nat /\ missed \in Nat

\* The slot, the flags that describe its owner and the open sockets agree
\* whenever the server thread is back at select, however clients came, kicked
\* each other and left: no socket leaks, no flag is left from a previous owner.
SlotCoherent ==
  /\ \A c \in Conns : conn[c] = "accepted" <=> c = slot
  /\ sPc = "select" => /\ attached <=> slot # NoConn
                       /\ isFlasher <=> slot \in Flashers

\* Once a client is installed, the rings hold nothing of its predecessors: the
\* chip is fed only what its present client sent.  Output already taken out of
\* the ring is another matter: see FreshOutput.
RingsBelongToOwner ==
  slot # NoConn =>
    /\ sPc \notin {"reset_tx", "reset_rx"} => \A i \in DOMAIN rx : rx[i].conn = slot
    /\ sPc # "reset_tx" => \A i \in DOMAIN tx : tx[i] = slot

\* The bootloader answers the first GET_SYNC of every session: coalescing never
\* swallows it because of the syncs of an earlier client.
FirstSyncPasses == \A c \in Conns : syncSeen[c] # "dropped"

\* Bridges never disturb the firmware: the flags make the chip thread look for a
\* reset at most once for each flasher that came, and soft-reset the AVR at most
\* once for each that left.
Came(f) == conn[f] \in {"accepted", "closed"}
Count(b) == IF b THEN 1 ELSE 0

ResetsAreEarned ==
  /\ resets + missed + Count(newConnect) + Count(cPc = "reset")
       <= Cardinality({ f \in Flashers : Came(f) })
  /\ softResets + Count(flashDone) + Count(cPc = "soft_reset")
       <= Cardinality({ f \in Flashers : Came(f) /\ f \in hungUp })

\* When a flasher has got the slot, a reset follows that no earlier flasher has
\* caused to be made, whatever the other clients do and the operator does
\* meanwhile.  The exception is an AVR that is not running when the chip thread
\* comes to it: the connect is forgotten.  That the reset may be undone at once
\* is another matter: see BootloaderKept.
BeingInstalled == slot \in Flashers /\ sPc \in {"reset_tx", "reset_rx", "announce"}

EveryFlasherResets ==
  \A n \in 0..(Cardinality(Flashers) - 1) :
    (BeingInstalled /\ resets + missed + Count(cPc = "reset") = n) ~> (resets + missed > n)

\* uart_server.h:5-7: connecting to the flasher port resets the chip so that
\* avrdude can sync with Optiboot.  So no soft reset for a previous flasher
\* follows the reset made for the present one.
BootloaderKept ==
  [][cPc = "soft_reset" /\ cPc' = "ready" /\ attached /\ isFlasher /\ chip = "bootloader"
       => newConnect]_vars

\* uart_server.c:126-128: output from before a client switchover must not reach
\* the next client.
FreshOutput ==
  [][cPc = "send" /\ cPc' = "poll_connect" /\ slot # NoConn
       => \A i \in DOMAIN flushBuf : flushBuf[i] = slot]_vars

\* uart_server.c:86-90: flash_done is set when a flasher disconnects, so that the
\* chip leaves Optiboot for the application.
LeaverIsReported == (sPc = "select" /\ slot \in Flashers /\ slot \in hungUp) ~> flashDone
=============================================================================
