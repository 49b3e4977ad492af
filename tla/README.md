# Verification of aneb-sim

aneb-sim simulates a training board with five AVR microcontrollers: ecu1 to ecu4 (atmega328p),
which share a CAN bus, and mcu (atmega328pb), which is not on it. The engine (`src/aneb-sim`, C)
runs each AVR with simavr in a thread of its own. Each ECU has a model of an MCP2515 CAN controller
and of an I2C LCD, and each of the five chips a serial port served over TCP. A PyQt application (`src/aneb-ui`, Python) starts the engine,
talks JSON lines to it over its standard streams and bridges the TCP serial ports to COM ports.

This directory holds TLA+ models of the engine and of the UI, TLC configurations that check them on small
instances, and TLAPS proofs of the theorems that matter most. In this text a path such as
`sim_loop.c:134` is below `src/aneb-sim/src`, and a Python file of the UI below
`src/aneb-ui/aneb_ui`.

## 1. Inventory

| component | state | operations | what is hard |
|---|---|---|---|
| MCP2515 controller (`mcp2515/`) | register file, SPI transaction, INT pin level | register writes, RTS, READ RX, reset, `mcp2515_rx_frame`, error injection, bus-off and recovery | derived state (INT, EFLG, CANSTAT) recomputed on many paths; two receive buffers with rollover; edge-triggered TXREQ; eight-bit counters |
| CAN fabric (`sim_loop.c`, `can_bus/`) | a queue of 32 frames per chip, a lock per queue, an `avr_lock` per chip | transmit (copy to the peers), drain, batch, inject | four ECU threads and the main thread; a frame is copied in several critical sections; locks are nested |
| TCP UART server (`uart_server.c`) | client slot, four flags, two rings per chip | accept with kick, receive with SYNC coalescing, hang-up, flush | a server thread, a chip thread and remote clients share flags and rings under three locks, taken one at a time |
| Chip life cycle (`chip.c`) | AVR state, `running`, staged flash | load, unload, reset, soft reset, step | resets come from the operator and from flash sessions, and set only part of the state |
| Commands (`cmd.c`) and their queue | ring of 256 commands | push, pop, apply, state snapshot | two kinds of producers and one consumer; a full queue drops |
| Main loop, scenario player (`main.c`, `script.c`) | stop flag | read stdin or a script, push, drain | end of input while commands are queued |
| Pacing and pause (`sim_loop.c`) | `g_paused_all`, `g_speed`, an anchor per chip | pause, resume, set speed | flags read and the anchor written outside the lock |
| JSON protocol (`proto.c`) | output mutex | parse a command, emit an event | field defaults |
| I2C LCD (`i2c_lcd/`) | nibble in progress, address counter, 80 bytes of display memory | one byte from the I2C bus | half bytes; 8-bit and 4-bit phases; address wrap |
| Pin names (`pin_names.c`) | tables | lookup | nothing |
| HEX loader (`chip.c`) | image under construction | parse, copy | a failure in the middle |
| UI UART bridge (`uart_bridge.py`) | per chip: a TCP socket, a serial port, two workers, a supervisor, a stop event; the dictionary of bridges | start, supervise, reopen, stop, of one chip or of all | threads that close what others use; a dictionary that two kinds of threads change |
| UI flashing and COM ports (`qml_bridge.py`) | paused bridges, avrdude threads, the script that is running | flash, pause and resume a bridge, install and remove COM pairs | must leave the bridge as it was, whatever else restarts bridges meanwhile |
| UI proxy and store (`sim_proxy.py`, `state.py`, `plot_buffers.py`) | unread bytes, last known state of every chip, logs, traces | read a chunk, apply an event, send a command | chunks end anywhere; logs and traces overflow |
| UI windows (`app_qml.py` and `qml_bridge.py`; `app.py` and `widgets/`) | caches, LCD rows, LEDs, consoles, the CAN table, buttons, knobs | follow the signals of the store, send what the operator does | many copies of one state |
| Calibration tool (`scripts/calibrate-nano.py`) | coordinates, current item, spin boxes, list | place, tune, select, save, reload | copies that every handler must refresh |

How they interact:

* stdin reader or script thread → command queue → main thread → `cmd_apply` → a chip, its
  controller, or `sim_loop_can_inject`.
* firmware → simavr callback (SPI, pin, UART) in the chip thread, under its `avr_lock` →
  controller → `on_mcp_tx` → the queues of the other chips → `drain_can_rx` of their threads →
  `mcp2515_rx_frame` under *their* `avr_lock`.
* TCP client → server thread → RX ring → chip thread → AVR UART, and back through the TX ring;
  connects and hang-ups set flags that the chip thread polls at the start of each iteration.
* COM port → bridge worker → TCP client and back; avrdude is another TCP client of the same slot,
  and the UI stops the bridge of a chip while it runs.
* Everything → `proto_emit_*` under the output mutex → stdout → UI proxy → store → the
  signals of the store → the open window; the window → proxy → stdin.

What makes each component correct, in one line each:

* Controller: INT always equals `(CANINTF & CANINTE) != 0`; EFLG follows the counters; a full
  buffer is never overwritten; bus-off is silent and its edges are reported; every request sent
  once.
* Fabric: no frame made up, duplicated, reflected or reordered within a sender; losses only at a
  full queue; no deadlock among the locks; every queued frame delivered.
* UART: one owner at a time; no bytes of one conversation in another; every flash session gets
  its reset into the bootloader; a bridge resets nothing.
* Command queue: a bounded FIFO whose only loss is at the full queue; every payload freed once.
* Pause: after `pause_all` has returned a chip runs at most the batch it had decided on.
* Life cycle: an ejected chip executes nothing, a halted one is not running, a failed load changes
  nothing.
* Shutdown: every thread ends, and nothing is freed before.
* LCD: a byte written in two halves has the same effect as one; the cursor stays in the memory.
* UI bridge: no workers of an earlier connection; a stop leaves nothing running; a kicked bridge
  returns; avrdude finds the slot and the port free, and keeps them.
* UI store and windows: no line lost or split; every copy agrees with the store, every bounded log
  is the end of its history, and the engine was told what the controls show.
* Calibration: the spin boxes show the current item, the list marks what is placed, a click moves on.

The hazards are listed one by one, at their source lines, in `PROJECT.json` under "hazards", each
with the properties that cover it or the reason why none does yet.

## 2. Modules

| module | what it is | code |
|---|---|---|
| `Mcp2515Core` | the register file as a value, each handler a function on it | `mcp2515/mcp2515.c`, `mcp2515_regs.h` |
| `Mcp2515` | the controller as a state machine: one action per SPI command or external event | `mcp2515/mcp2515.c` |
| `LossyBus` | abstract specification: what the CAN bus promises its nodes | none, it is the promise |
| `CanFabric` | chip threads, queues, locks, injection; shown to implement `LossyBus` | `sim_loop.c`, `cmd.c` |
| `UartServer` | one chip's TCP serial port: server thread, chip thread, clients, operator | `uart_server.c`, `sim_loop.c`, `chip.c` |
| `CommandPipe` | abstract specification: what the command queue promises | none, it is the promise |
| `CmdQueue` | the ring, its producers and the main thread; shown to implement `CommandPipe` | `cmd.c`, `main.c`, `script.c` |
| `ChipControl` | operator commands on the chips, the chip threads' loop, pacing, shutdown | `sim_loop.c`, `cmd.c`, `chip.c` |
| `UartBridge` | the bridges of the UI and the threads that start, stop and pause them | `uart_bridge.py`, `qml_bridge.py` |
| `SimStore` | the store of the UI as a value, each mutator a function on it | `state.py` |
| `QmlView` | what the QML board caches, mirrors and samples | `qml_bridge.py`, `plot_buffers.py` |
| `QtView` | what the QtWidgets window keeps | `app.py`, `widgets/` |
| `SimUi` | the UI process: engine's output, proxy, store, one of the windows, its controls | `sim_proxy.py`, `qml_bridge.py`, `app.py`, `widgets/` |
| `Calibrate` | the calibration window | `src/scripts/calibrate-nano.py` |
| `MC...` | values of the constants for TLC, one module per checked specification | none |
| `...Proofs` (`Mcp2515`, `CanFabric`, `UartServer`, `CmdQueue`, `ChipControl`, `UartBridge`, `SimUi`, `Calibrate`) | theorems and their proofs | none |

The modules see the chip thread from different sides: `CanFabric` its CAN queue, `UartServer` its
serial port, `ChipControl` its pauses and its pacing; each leaves out what the others have.
`UartBridge` sees the chip's serial port from the other end of the TCP connection: of `UartServer` it
keeps only that the newest client takes the slot.

A definition named `Op_What` is a variant of `Op` with a plausible bug. No specification uses
it; each property has one that TLC shows it to detect.

### Mcp2515Core and Mcp2515

The variable `m` is the controller and `out` the frames handed to `on_tx` in the last step.
A register whose bits the code tests one by one is the set of its bits that are 1; a frame is
one value, and an acceptance filter is the set of frames it matches, so the arithmetic of
identifiers and masks is not in the model. Each action is one complete call under the chip's
`avr_lock`, with everything the call does: a write to TXBnCTRL includes the transmission, the
loopback reception, the counters, EFLG and the INT pin. CONSTANTs such as `ReqopValues` give the
values each run lets the firmware write, which aims a run at one part of the controller.

### LossyBus and CanFabric

Frames are numbered per sender. `pc` says where each thread is: a chip thread goes
`drain` → (`deliver` → `drain`)* → `wait` → `batch` → `drain`, and from `batch` to `fanout` and
back when its firmware transmits; the main thread goes `idle` → `fanout` (inject) or `wait` →
`operate` (a command that takes a chip's `avr_lock`; one action stands for the three of `cmd.c:227-268`,
which differ only in what they do to the controller) → `idle`. `fan` is the index of the copying
loop, so copies to different peers are different steps that any thread may come between. A
queue's own lock is never held while another lock is waited for (`sim_loop.c:115-122` and `:133-147` take
nothing under it), so what is done under it is one step, and a cycle through queue locks, were there one,
would not show in the model. A paused or stopped chip is one whose batches transmit nothing. `got`, `lost` and `sent`
record the history that the properties are about.

`LossyBus` says that a frame is received only after it was sent, not by its sender, at most once,
and in its sender's order; it may be lost, and nothing is said about frames of different senders.
`CanFabric` implements it with the refinement mapping `Nodes <- Ecus`, `Senders <- Threads`
and `sent`, `got` mapped to themselves.

### UartServer

One connection identifier is one TCP connection, a reconnection is another; one chunk is what one
`recv` returns. `sPc` is where the server thread is. `Select` looks at readiness in the order the
code does (flasher port, bridge port, client) and the thread then acts on that snapshot, while
the world moves on. Accepting is install, reset TX, reset RX, announce, attach; a hang-up is lose
the client, mark the flash done, close: one action per critical section or unlocked store.
`cPc` is where the chip thread is in an iteration of `chip_thread_fn`: poll `new_connect`, reset,
poll `flash_done`, soft reset, look at `running` and the pause, take the lock, batch (feed the UART from the RX ring, firmware output into the TX
ring), drain the TX ring into a local buffer, send that buffer. Both resets are made only of an AVR that
is running (`sim_loop.c:174`, `:190`): the flag is cleared in any case, so a connect to an ejected or halted
chip is forgotten, which `missed` counts. A pause is a turn of the loop that reaches no batch, which
`StartBatch` may always take. The operator loads, ejects and resets at any moment outside a batch. The
variables `syncSeen`, `resets`, `softResets` and `missed` are history.

The partial overflow of a ring inside one chunk, the pacing of the chip thread, the
suppression of console events while a client is attached, and the shutdown are not modelled.

### CommandPipe and CmdQueue

`cells`, `head`, `tail` and `count` are `g_q` and its indices; every access is under `g_q_mutex` and is
one step. `where` says what a producer does: read a line, push the command it parsed, or nothing any
more; a scenario is started from the command line or by a `run_script` command. `main` follows the two
loops of `main()`: the inner one pops and applies until the ring is empty and only then does the outer
one look at the stop request. A command is its producer and its line number, so order, loss and
duplication show; `freed` counts how often its payload has been freed, by `stdin_reader`, by
`script_thread` or by `cmd_apply`. `CommandPipe` is the promise: accepted in order, applied in order,
each once, refused only when `Cap` wait. The refinement mapping is `pending <- Waiting`, the contents
of the ring from `head` on. `CmdQueue` bounds the lines of a producer, and with a bounded input the inner loop
always ends; what becomes of a stop request is therefore asked of `ChipControl`, where commands need not end.

The rings of `sim_loop.c` (CAN frames) and `uart_server.c` (bytes) have the same shape; their modules
use a sequence in their place.

### ChipControl

`pc` is where a chip thread is in one turn of `chip_thread_fn`: `top` (stop?), `flasher` (resets that
`UartServer` is about), `check` (pause and `running`, read without the lock), `batch` (under the lock,
`running` read again), `pace` (`running`, speed and anchor, read without the lock), `anchor` (the
anchor written without the lock). The main thread is at the test of the stop request (`test`), in the
inner loop of `main()` (`pop`), where any command may be next or the queue may be empty, or in a loop over the
chips that takes one lock at a time. Nothing bounds the commands: the state space is finite without it. `chip_t.paused` is left out: nothing in the code ever sets it. The anchor is reduced to
`paceInit`, because what matters is whether one is kept, and the halt of a core is a choice of the
batch, since firmware may halt or crash at any instruction. `late`, `asked` and `strayed` are history.

### UartBridge

A bridge is a `ChipBridge` object, identified by its chip and a number of a pool. `pc` is the thread
that opens or supervises it: `serial`, `connect`, `spawn` are the three blocking parts of
`_open_and_spawn`, first on behalf of `start()` and later of the supervisor, whose loop is `watch`,
`join`, `nap`, `retry`, `backoff`. `sock` and `ser` are the ends that are open, `tcp2com` and `com2tcp`
the workers that are alive, `stop` the event. `gui` is where the GUI thread is: in the loop of
`UartBridgeManager.stop()` over the dictionary (one join per bridge, during which every other thread
runs), in the pool that opens new bridges, or pausing a bridge for a flash. `avr` is where the avrdude
thread of a chip is; its `finally` branch resumes the bridge with `start_chip`, on that thread.

Calls that wait for a thread are two steps, begin and joined. `Release` is CPython's reference counting:
a bridge whose threads are dead is collected, and what it still holds closed, when the dictionary and
the threads have let go of it. That is how a socket that was opened *after* `stop()` had closed both
ends gets closed. Assumed of the world: a COM port is opened by one process at a time, the newest client
of a chip's TCP port takes the slot, a join never runs into its timeout because closing the ends
dislodges whoever uses them, an exception that leaves a Qt slot ends the process (PyQt6).

### SimStore, QmlView, QtView, SimUi

All of this runs on the GUI thread, and Qt calls the slots of a signal synchronously, so a step is one
callback and the difficulty is not concurrency but the number of copies of one state. `OnStdout` takes
any number of pieces from the pipe; a line is two pieces, so a chunk can end between lines or within
one. The loop of the same method is `DispatchLine`, one complete line at a time: every other callback waits
until no complete line is left in the buffer (`Idle`), only the engine goes on writing and may end meanwhile. A
line that parses goes through `Dispatch`: the store's mutator, then the slots of the window that is
open. `QmlHears` and `QtHears` are the connections. The commands
a window sends are records in `sent`. `QmlSlots` lists the slots of the QML bridge that do nothing but
pass commands on, with the sequences of commands a call may send; `UsedSlots` says which of them a run
calls. `emitted`, `seen` and `from` are history.

### Calibrate

Coordinates are integers in units of the last decimal kept; `y` and `h`, which behave as `x` and `w`, are
left out. `Steps` is what each spin box can show, so that rounding and clamping happen: `Shown` is the
nearest such value. The file is one this tool has written, or absent, or unreadable.

## 3. What is checked

"Violation" runs show a disagreement between the code and what its own documents or comments say;
they are described in section 6.

| run | question | bounds, and why they are enough |
|---|---|---|
| `mcp_errors` | do INT, EFLG and bus-off stay consistent through errors, transmissions, receptions, mode changes and direct writes of CANINTF? | limits 2, 3, 6 instead of 96, 128, 255 and steps of 2 instead of 8: every threshold is crossed upwards and downwards, by saturation and exactly |
| `mcp_buffers` | does each request of an RTS command complete once, can reception or loopback overwrite an unread frame, does bus-off gate both directions? | two buffers per RTS, both sending modes, frames of both types, receive modes that take one type or all, BUKT both ways, firmware that writes TXBO into EFLG itself |
| `fabric_bus` | do threads, queues and locks implement `LossyBus`, can a copy of a frame vanish, and is every queued frame offered to its controller? | two ECUs and an operator that injects and takes locks, one frame each and one of them a second, queues of two: a full queue, a held frame and a half-copied frame occur together |
| `uart_bytes` | are slot, flags and sockets coherent, do the rings mix conversations, is a first SYNC ever swallowed, are resets only caused by flashers, does every flasher get its reset if the AVR is running? | a flasher and a bridge that send one chunk each, rings of one item: a ring is empty or full, so stale content always shows, and either kind can replace the other |
| `cmd_queue` | does the ring implement `CommandPipe`, has every payload one owner, are accepted commands applied? | two producers of three lines, a ring of two: full, wrapped and refused several times over |
| `chip_control` | do pause and eject take hold, do running chips go on, does the shutdown end every thread before it frees the chips? | two chips and any number of commands: pauses, ejects, loads and resets in any order, with a halt, a flasher or the stop request at any point; only the number of chips is bounded |
| `bridge` | are workers always of the present connection, does a stop leave nothing running, does avrdude find slot and port free, do the threads that stop bridges return, does a kicked bridge come back? | one chip, three bridge objects at a time (each thread that can hold one, and one that nothing refers to any more), two flashes and a script, with outsiders, the end of the engine and of the window at any point |
| `ui` | is a line ever lost or split, do store, caches, tables, consoles, traces and panels agree with what the engine wrote, was the engine told what the controls show? | three lines, commands or samples in all; logs of two cut to one, tables and traces of two, consoles of two lines and three characters with a slack of one: every bound is passed |
| `calibrate` | do spin boxes and list agree with the coordinates, and does a click move on? | two LEDs around a pad, two edits, sizes and positions that the boxes round and clamp |

All runs but `cmd_queue`, `chip_*` and `ui` check deadlock as well. In `CmdQueue` and `ChipControl` the process ends;
in `ChipControl` the check is replaced by `StopEndsAll`, which is conditional on the commands ceasing;
`SimUi` ends at its bound. That the locks of the fabric have no cycle is read off
the code and not checked: no thread waits for anything while it holds a queue lock, and `avr_lock`s are taken
one at a time.

**Bounds.** `Quota` (frames per sender), `QueueCap` (32 in the code), `RingCap` (4096), `Cap`
(256), `Lines` (for the safety of the ring and the fate of a command, not for the stop), `MaxChunks`, the three error limits, `Pool`, `MaxFlashes`, `MaxScripts`, `MaxEdits`, `Nudges`
(one pixel and, with Shift, five) and, for `SimUi`,
`MaxSteps`, `MaxPieces` and the sizes of logs (5000 and 4000), tables (1500), consoles (200 000 and 2000 lines)
are CONSTANTs; the theorems hold for all of their values. `ChipControl` is bounded by `N` alone: the
operator's commands never run out.

**Fairness.** `CanFabric`: weak fairness of each thread's own steps, strong fairness of the steps
that take an `avr_lock` (a mutex that is free infinitely often is eventually given to a waiter: the
batch is short and the thread gives the lock up between batches), and of `EndBatch`, because a batch
is at most `SIM_CYCLES_PER_TICK` steps and firmware cannot prolong it by transmitting. Firmware owes no
transmission and the operator no command. `UartServer`: weak fairness of the server thread's loop and
of every step of the chip thread except firmware reads and writes; clients, operator and clock owe
nothing. `CmdQueue`: the main thread keeps running and a producer finishes a push it has begun;
nobody has to send a line. `ChipControl`: every thread keeps running; in its inner loop the main thread takes the
next command or finds none, so commands that never cease keep it from the test of the stop request. In
both, a critical section is one step, so weak fairness of a thread includes that it gets the lock.
`UartBridge`: threads are scheduled, waits run out, scripts and avrdude end. The operator, an outsider
and the end of the engine owe nothing, and neither does the byte that would make `_com_to_tcp` notice a
kick: firmware may be silent for ever, which is why `KickedReturns` is not trivial.

## 4. What is proved

All theorems hold for every value of the constants that satisfies the named assumptions of the
modules (`FramesAssumption`, `LimitsAssumption`, `InputsAssumption`, `FabricAssumption`,
`UartAssumption`, `QueueAssumption`, `ControlAssumption`, `BoundsAssumption`, `NamesAssumption`, `ChipAssumption`,
`KindAssumption`, `SpinAssumption`, `StepAssumption`, `StoreAssumption`, `QmlAssumption`, `ConsoleAssumption`,
`EventsAssumption`, `ControlsAssumption`, `SlotsAssumption`). `EventsAssumption` is what `proto.c` promises: an
event that has the fields its mutator needs names one of the five chips, and its value, duty or text is one.

* `Mcp2515Proofs`: `TypeCorrect` (`Spec => []TypeOK`), one lemma per handler function that says
  it maps controllers to controllers, then one step per action. `IntAlwaysCoherent`
  (`Spec => []IntCoherent`): each handler that touches CANINTF or CANINTE ends in the function
  that recomputes INT, and the others leave all three alone; no strengthening is needed beyond the
  type. `EflgAlwaysDerived` (`Spec => []EflgDerived`), under the assumption that firmware's writes
  to EFLG come from an empty `EflgValues`: a direct write is stored as it is (section 6), and without
  the assumption the property is false. The action properties `FullBufferKept`, `BusOffSilent`,
  `CompletionReported` and `BusOffEdges` (the last under the same assumption) rest on one relation,
  `Traffic`: a reception, or a transmission with its loopback, keeps the mode and the full buffers, clears
  no interrupt flag and does not raise TEC. It is transitive, so it holds over the three buffers of an RTS
  command, which the handler serves one after the other; every other step is a reset, a register
  write or an injected error, and each of these leaves the receive buffers alone.
* `CanFabricProofs`: `FabricTypeCorrect`; `PipelineAlwaysOrdered`, the inductive invariant;
  `FabricImplementsBus` (`Spec => ImplementsBus`). The argument: the frames of one sender that have
  been copied to `e` are received, in hand or queued at `e`, in increasing order along that path, and
  none is newer than the last one copied. So the frame that a sender appends is newer than
  everything on the path, the order is kept when a frame moves from the queue to the hand and from
  the hand to the controller, and the delivered frame is news in the sense of `LossyBus`. With that
  invariant each step is a `Send`, a `Deliver` or a stutter of the abstract bus. `NothingEverVanishes`
  is proved frame by frame (`Accounted`): a turn of the copying loop adds the current frame both to what has
  been copied to `e` and to `e`'s queue or losses (`CopyAccounted`), and every other step leaves the union
  of the places as it is.
* `UartServerProofs`: `UartTypeCorrect`, `SlotAlwaysCoherent`, `RingsAlwaysBelongToOwner`,
  `FirstSyncAlwaysPasses` and `ResetsAlwaysEarned`, for any number of flashers and bridges, any input and any
  ring capacity. The server changes slot, rings and flags in separate steps while the chip thread uses them, so
  the invariant `ServerInv` says for each place of the server thread what the flags mean there
  (`FlagsMean`), that a client being closed has gone (`LostIsGone`) and that an open coalescing window was
  opened by the present client (`WindowIsOwn`). Resets are counted from their cause, made or missed: a reset that has still
  to be announced (`ToAnnounce`) or a soft reset still to be marked (`ToMark`) is in the sum from the accept
  or the hang-up on, so the sum grows only when the set of flashers that came or left grows.
* `CmdQueueProofs`: `QueueTypeCorrect`, `QueueImplementsPipe` (`Spec => ImplementsPipe`) and
  `LinesAlwaysInOrder`. The arithmetic modulo `Cap` is confined to lemmas about ring positions
  (`SlotCases`, `SlotsDiffer`, `NextSlot`). `PushAppends` and `PopTakesHead` say that a push appends to
  `Waiting` and a pop takes its head off, through any wrap-around; that needs
  `tail = (head + count) % Cap`, which is why it is part of `TypeOK`. The rest is about sequences: a push
  is an `Accept` or a `Refuse`, a pop an `ApplyNext`, all else a stutter. The order of lines is not
  inductive by itself; `LineOrder` adds that what waits is in order, later than what was applied, and
  no later than what its producer has read. `PayloadAlwaysOwnedOnce` rests on it: since lines are never equal,
  a command is in one place at a time (`PlacesApart`), and `Ownership` says that exactly the refused
  commands and the applied ones that the main thread has let go of have been freed, once each.
* `ChipControlProofs`: `ControlTypeCorrect`, `PauseAlwaysTakesHold`, `EjectAlwaysTakesHold` and
  `TeardownAlwaysSafe`, for any number of chips and commands. The strengthenings are `PauseCounted` (a
  chip that is on its way to a batch while a pause holds has run none since), `EjectCounted` (nothing
  has ever strayed, because the second test of `running` is under the lock) and `JoinCounted` (the
  threads before the index of the join loop have left, and do not come back).

* `UartBridgeProofs`: `BridgeTypeCorrect`, `WorkersAlwaysFresh`, `StopIsAlwaysComplete` and
  `AvrdudeAlwaysFindsSlotFree`, for any number of chips, bridges, flashes and scripts. The invariant
  `BridgeInv` adds what the others rest on: a free object holds nothing and nobody refers to it
  (`FreeIsClosed`); the dictionary and the threads refer to bridges of the right chip, and exactly while they
  join or open one (`RefersToOwn`); the bridge being paused is out of the dictionary and no flash of its chip
  runs (`PausingOne`); a bridge that `start()` opens is known to its starter only and has not been told to
  stop (`OpeningUnshared`); a bridge that was told to stop is being joined or its threads are dead
  (`StoppingIsJoined`). `StopIsComplete` then follows because references are dropped only in steps that
  have joined the threads, and `Release` collects the object in that step. That avrdude finds slot and port
  free is the same argument, made for the two ways of launching it (`LaunchedBy`, `LaunchFindsSlotFree`).
* `CalibrateProofs`: `CalibrateTypeCorrect`, `EditorAlwaysShowsItem`, `ListIsAlwaysTrue` and `ClicksMoveOn`, for
  any list of items, any boxes and any numbers. What every handler relies on is stated
  once: what the boxes hold after a refresh (`RefreshShows`), that a value a box can show is its own
  nearest, so an edit that writes all boxes back is shown as it is (`ShownIsShowable`), and that
  `Advance` finds an item that is not placed if there is one (`AdvanceFinds`).

* `SimUiProofs`: `TypeCorrect` and all seven invariants of the `ui` run (`NothingLostHolds`,
  `StoreIsLatestHolds`, `QmlShowsStoreHolds`, `RowsAreNewestHolds`, `ConsoleIsTailHolds`, `PanelsFollowHolds`,
  `ControlsAreHeardHolds`), for any events, controls and bounds, and any way the stream is cut.
  The history in these properties is a sequence of any length and several operators recur over it (`KeptIn`,
  `Fill`, `FlattenSeq`), so the proofs need induction. The library's induction theorems take an operator, which
  the provers cannot instantiate; the ones here take a *set*: `LeastNat` follows from the well-foundedness of `<`
  on Nat, `SetInduction` from that, `SeqInduction` (a set with `<<>>` and every `Append` has all sequences) from
  that, and `Recursion` says that the function a recursion describes exists, so that the CHOOSE behind a
  recursive function definition denotes it (`KeptInRuns`, `FlattenRuns`). What a fold does to one element more
  is then an equation (`KeptInAppend`, `FlattenAppend`), and `FillIsNewest` closes the fold over the whole log.
  A delivery is one arrival (`DeliveryExists`): an event of the engine, or junk. `StreamInv` says what is still
  coming, piece by piece, and gives that the first line of the buffer is the next event (`FirstLineIsNext`).
  Every other invariant is split into lemmas for a delivery and lemmas for the slots: `KeysAppend`,
  `StateAppend`, `StatAppend`, `LogAppend` for the store; `TickAligns` and `PutAgrees` for QML; `RowsDelivery`,
  `RowsFilter`, `RowsClear` for the table, where `RowsInv` needs the store's invariant since a filter refills the
  table from a log that has been cut; `AppendIsTail` for a console, which counts the newlines of an end of the
  text through both of its bounds; `LedsAppend`, `PinsPut`, `PwmPut` for a panel; `ButtonTells`, `AdcTells`,
  `SpeedTells` for what a slot tells the engine.

Only model-checked: the liveness properties (fairness and ENABLED are beyond the prover).

## 5. Plan

What has been done first is the behaviour that several threads share: controller, fabric with its abstract
bus, UART server, command queue with its abstract pipe, control of the chips, the bridges of the UI; then
the single-threaded parts that keep many copies of one state, the UI and the calibration tool. What is left,
in this order:

1. `StateReport`: the snapshot `emit_state` makes of fields that chip threads change, and the unlocked
   frame counters. The shutdown of the UART server, whose mutexes are destroyed before the chip threads
   are joined.
2. `I2cLcd`: the half-byte protocol, cursor and display memory, checked against the effect of whole
   bytes. `IntelHex`: the record parser as a fold over records, and the staged load.
3. The byte-by-byte SPI command machine of the MCP2515, shown to implement the actions of `Mcp2515`;
   a chip reset together with the controller and the queue that it leaves untouched.

## 6. Disagreements between the code and what it says

Each of these is a "violation" run whose property quotes the text; `PROJECT.json` has the lines.

| run | what the text says | what the code does |
|---|---|---|
| `uart_race` | connecting resets the chip so that avrdude finds Optiboot | the soft reset for the flasher that has just left follows the reset for the one that has come |
| `chip_pace` | `pause_all` resets the pacing of all chips | the chip thread, which paces itself without the lock, takes a new anchor after that; when resumed it makes up the pause at full speed |
| `bridge_flash` | the bridge of a chip gives the UART slot to avrdude and comes back after avrdude exits | the restart of all bridges that a COM-port script queues, and the start-up timer, start a bridge for the chip that is being flashed; it takes the slot from avrdude |

Others follow from the models as they stand and have no run of their own:

* A transmit request made outside Normal and Loopback mode, or in bus-off, is never served: sending
  happens on the 0 to 1 edge of TXREQ (`mcp2515.c:152`) and a mode change does not look at pending
  requests; `mcp2515.c:164-166` says TXREQ stays "until the mode changes".
* A direct write to EFLG is stored (`mcp2515.c:171-172`), while `mcp2515.c:118-119` and `:779` call the
  error bits derived from the counters.
* Rollover into RXB1 also happens when RXB0 is empty and only its receive mode rejects the frame.
* Two senders that overlap may reach two listeners in opposite orders, because `on_mcp_tx` copies
  queue by queue; `can_bus.h:16-18` describes lockstep delivery with attach order, which the threaded
  engine no longer uses. `docs/ARCHITECTURE.md:33` still describes one thread in lockstep.
* `src/claude_Reference.md:224` says of an ejected chip "if you want to restart the same firmware, send
  `reset`"; `chip_reset` does not set `running`, only a load does (`ResetRestartsEjected` in `ChipControl`).
* `uart_server.c:126-128` says stale output must not reach the next client and drains the ring on accept; output
  that the chip thread has already moved to its local buffer is sent to the next client all the same
  (`FreshOutput` in `UartServer` states it, and TLC refutes it). `RingsBelongToOwner` is about the rings only.
* `uart_server.c:86-90` says `flash_done` is set when a flasher disconnects; if another client is accepted before the
  hang-up is read, `accept_new_client` takes the slot over without setting it, and the chip stays in Optiboot until
  that gives up by itself (`LeaverIsReported` in `UartServer` states it, and TLC refutes it).
* `main.c:63-64` says shutdown is driven by SIGINT; the main thread looks at the request only when the queue is
  empty (`main.c:142`), so commands that keep coming as fast as they are applied delay the stop without end
  (`SigintStops` in `ChipControl` states it, and TLC refutes it; `StopEndsAll` has the condition).
* A flasher that connects to an ejected or halted chip clears `new_connect` without a reset
  (`sim_loop.c:172-174`); a firmware loaded after that starts in the bootloader by itself, but the connect is
  not remembered (`EveryFlasherResets` names the exception).
* `UartBridgeManager.stop()` iterates over a dictionary into which avrdude threads insert and from which
  they delete: `RuntimeError` on the GUI thread, which ends the program (`StopRaises`), or `KeyError` in the
  avrdude thread, after which its bridge is not resumed (`ResumeReplaces`). Such a bridge can go on running
  with nothing that refers to it (`NoStray` states the contrary and fails), and keeps its COM port. The
  properties of `UartBridge` name it where they have to.
* `qml_bridge.py` stops all bridges before it runs the script that removes the COM pairs, because an open port
  cannot be deleted; a flash that ends in between opens one again (`RemoveFindsPortsClosed` fails).
* In the calibration tool the edit of one spin box rounds the other fields of the item to the decimals
  of their boxes, and clamps them to their ranges.

## 7. Not modelled

Pin names and pin events, PWM and formatting are tables and text; no property of the engine
depends on them. simavr, Optiboot, avrdude, pthreads, TCP, Qt, pyserial and com0com are external and appear
as what the code relies on: a batch that ends, a bootloader or an application, clients that connect, send and
leave, locks that are fair, signals that are delivered synchronously, `QProcess` that hands out what is left
before it announces the end, a text view that evicts whole lines. The QML files, drawing, layout, dialogs and
the search for avrdude and its configuration keep no state that the system shares; neither do the scripts
that make screenshots for the documentation and `com_helpers.py`, which reads the registry. The JSON parser
of the engine, the I2C LCD and the HEX loader are sequential code; the last two are in the plan.
`mcp2515_force_error_passive` has no action: no command calls it, only unit tests do. The console model takes
an escape sequence, and a CR LF, as one character, so one that is split between two UART events, which the
code does not recognise (`serial_console.py:62`), is outside it; and `PanelsFollow` takes the panels'
routing tables as given. `PROJECT.json` gives the status of each component.

## 8. Running

`tlc -config Mcp2515_errors.cfg MCMcp2515` (and likewise for the other configurations: the part of
the file's name before `_` names the module after `MC`), and `tlapm M.tla` for each module
whose name ends in `Proofs`.
