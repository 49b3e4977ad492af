----------------------------- MODULE UartBridge -----------------------------
(***************************************************************************)
(* The virtual-COM bridges of the UI (uart_bridge.py) and everything that  *)
(* starts and stops them (qml_bridge.py).                                  *)
(*                                                                         *)
(* A ChipBridge copies bytes between the chip's UART slot in the engine (a *)
(* TCP socket) and one end of a com0com pair.  Two workers copy, a         *)
(* supervisor reopens both ends when a worker dies.  The bridges are kept  *)
(* in the dictionary of UartBridgeManager, which two kinds of threads use: *)
(* the GUI thread (start-up, COM-port scripts, pausing for avrdude, close) *)
(* and each avrdude thread, which resumes the bridge it paused.            *)
(*                                                                         *)
(* Outside the Python code: a COM port is opened by one process at a time, *)
(* the newest TCP client of a chip takes its slot (UartServer.tla), and    *)
(* a ChipBridge that nothing refers to is collected at once, which closes  *)
(* what it still holds.  Closing a socket or port dislodges the worker     *)
(* that uses it, so the timeouts of join() never expire.                   *)
(***************************************************************************)
EXTENDS Integers, FiniteSets

CONSTANTS Chip,        \* the chips with a COM pair
          Pool,        \* bound: ChipBridge objects of one chip at a time
          MaxFlashes,  \* bound: avrdude runs
          MaxScripts,  \* bound: runs of setup_com.ps1
          NoOne,       \* no bridge; in the slot: nobody, or an outsider
          Avrdude      \* avrdude in the slot

Bridge == Chip \X (1..Pool)

ASSUME BoundsAssumption == /\ Pool \in Nat \ {0}
                           /\ MaxFlashes \in Nat
                           /\ MaxScripts \in Nat
ASSUME NamesAssumption == /\ NoOne \notin Bridge
                          /\ Avrdude \notin Bridge
                          /\ Avrdude # NoOne
                          /\ NoOne \notin Chip
ASSUME ChipAssumption == IsFiniteSet(Chip) /\ Chip # {}

VARIABLES
  pc,        \* the thread that opens or supervises each bridge
  supervised,\* its supervisor thread has been started
  stop,      \* its _stop event
  sock, ser, \* its _sock and _serial are not None
  tcp2com,   \* its worker from the socket to the port is alive
  com2tcp,   \* its worker from the port to the socket is alive
  slot,      \* the client each chip's UART slot belongs to
  engine,    \* the engine is running
  bridges,   \* UartBridgeManager._bridges
  gui,       \* where the GUI thread is: a control state, a job, a chip
  guiAt,     \* the bridge it is stopping
  visited,   \* the bridges its loop over the dictionary has stopped
  size,      \* the size of the dictionary when that loop began
  opening,   \* the bridges its thread pool is starting
  avr,       \* the avrdude thread of each chip
  avrAt,     \* the bridge it is stopping or starting
  restore,   \* it has to resume the bridge
  script,    \* the COM-port script that is running
  paired,    \* the com0com pairs exist
  timer,     \* the deferred _start_uart_bridges is pending
  restarts,  \* queued _restart_uart_bridges calls
  flashes, scripts \* runs so far

bridgeVars == <<pc, supervised, stop, sock, ser, tcp2com, com2tcp>>
guiVars    == <<gui, guiAt, visited, size, opening>>
avrVars    == <<avr, avrAt, restore>>
comVars    == <<script, paired, timer, restarts, flashes, scripts>>
programVars == <<engine, bridges, guiVars, avrVars, comVars>>
vars == <<bridgeVars, slot, programVars>>

Opening    == {"serial", "connect", "spawn"}
Supervisor == {"watch", "join", "nap", "retry", "backoff"}
Over       == {"exited", "failed"}
Jobs       == {"none", "start", "restart", "remove", "close", "flash"}

TypeOK ==
  /\ pc \in [Bridge -> {"free"} \cup Opening \cup Supervisor \cup Over]
  /\ supervised \in [Bridge -> BOOLEAN]
  /\ stop \in [Bridge -> BOOLEAN]
  /\ sock \in [Bridge -> BOOLEAN]
  /\ ser \in [Bridge -> BOOLEAN]
  /\ tcp2com \in [Bridge -> BOOLEAN]
  /\ com2tcp \in [Bridge -> BOOLEAN]
  /\ slot \in [Chip -> Bridge \cup {Avrdude, NoOne}]
  /\ engine \in BOOLEAN
  /\ bridges \in [Chip -> Bridge \cup {NoOne}]
  /\ gui \in [at: {"idle", "next", "joining", "clear", "create", "opening",
                   "pausing", "closed", "raised"},
              job: Jobs, chip: Chip \cup {NoOne}]
  /\ guiAt \in Bridge \cup {NoOne}
  /\ visited \in SUBSET Bridge
  /\ size \in Nat
  /\ opening \in SUBSET Bridge
  /\ avr \in [Chip -> {"none", "launch", "session", "ended", "joining", "create",
                     "opening"}]
  /\ avrAt \in [Chip -> Bridge \cup {NoOne}]
  /\ restore \in [Chip -> BOOLEAN]
  /\ script \in {"none", "install", "remove"}
  /\ paired \in BOOLEAN
  /\ timer \in BOOLEAN
  /\ restarts \in Nat
  /\ flashes \in 0..MaxFlashes
  /\ scripts \in 0..MaxScripts

Idle == [at |-> "idle", job |-> "none", chip |-> NoOne]

Init ==
  /\ pc = [b \in Bridge |-> "free"]
  /\ supervised = [b \in Bridge |-> FALSE]
  /\ stop = [b \in Bridge |-> FALSE]
  /\ sock = [b \in Bridge |-> FALSE]
  /\ ser = [b \in Bridge |-> FALSE]
  /\ tcp2com = [b \in Bridge |-> FALSE]
  /\ com2tcp = [b \in Bridge |-> FALSE]
  /\ slot = [c \in Chip |-> NoOne]
  /\ engine = TRUE
  /\ bridges = [c \in Chip |-> NoOne]
  /\ gui = Idle
  /\ guiAt = NoOne
  /\ visited = {}
  /\ size = 0
  /\ opening = {}
  /\ avr = [c \in Chip |-> "none"]
  /\ avrAt = [c \in Chip |-> NoOne]
  /\ restore = [c \in Chip |-> FALSE]
  /\ script = "none"
  /\ paired \in BOOLEAN
  /\ timer = TRUE
  /\ restarts = 0
  /\ flashes = 0
  /\ scripts = 0

(***************************************************************************)
(* Helpers.                                                                *)
(***************************************************************************)
\* The chip of a bridge.
Of(b) == b[1]

\* The slots once the bridges in S have closed their sockets.
Vacate(S) == [c \in Chip |-> IF slot[c] \in S THEN NoOne ELSE slot[c]]

\* The engine has closed the socket of b: avrdude or another bridge took the
\* slot, or the engine is gone.
Kicked(b) == sock[b] /\ slot[Of(b)] # b

\* Someone has the port of chip c open.
PortTaken(c) == \E b \in Bridge : Of(b) = c /\ ser[b]

\* _close_io.
CloseIo(b) ==
  /\ sock' = [sock EXCEPT ![b] = FALSE]
  /\ ser' = [ser EXCEPT ![b] = FALSE]
  /\ slot' = Vacate({b})

\* The start of stop(): set the event, close both ends.  What is left is to
\* join the threads.
BeginStop(b) ==
  /\ stop' = [stop EXCEPT ![b] = TRUE]
  /\ CloseIo(b)

\* None of its three threads runs.
ThreadsDead(b) == pc[b] \in Over /\ ~tcp2com[b] /\ ~com2tcp[b]

\* The joins of stop() have returned.
Joined_NoSupervisor(b) == ~tcp2com[b] /\ ~com2tcp[b]
Joined(b) == ThreadsDead(b)

Active == {bridges[c] : c \in Chip} \ {NoOne}

\* The bridges some thread of the program still refers to.
Held == Active \cup opening \cup {guiAt} \cup {avrAt[c] : c \in Chip}

\* The references of this step to the bridges in S are dropped: those that
\* nothing refers to any more are collected and close what they hold.
Release(S) ==
  LET dead == {b \in S \cap Bridge : ThreadsDead(b) /\ b \notin Held'}
  IN /\ pc' = [b \in Bridge |-> IF b \in dead THEN "free" ELSE pc[b]]
     /\ supervised' = [b \in Bridge |-> IF b \in dead THEN FALSE ELSE supervised[b]]
     /\ stop' = [b \in Bridge |-> IF b \in dead THEN FALSE ELSE stop[b]]
     /\ sock' = [b \in Bridge |-> IF b \in dead THEN FALSE ELSE sock[b]]
     /\ ser' = [b \in Bridge |-> IF b \in dead THEN FALSE ELSE ser[b]]
     /\ slot' = Vacate(dead)
     /\ UNCHANGED <<tcp2com, com2tcp>>

\* The object that the next ChipBridge(c, ...) is.
Free(c) == {b \in Bridge : Of(b) = c /\ pc[b] = "free"}
Fresh(c) == CHOOSE b \in Free(c) : \A f \in Free(c) : b[2] <= f[2]

(***************************************************************************)
(* _open_and_spawn, called by start() or by the supervisor: the port, the  *)
(* socket, the workers.  A failure ends start() or sends the supervisor to *)
(* its backoff.                                                            *)
(***************************************************************************)
AfterFailure(b) == IF supervised[b] THEN "backoff" ELSE "failed"

OpenSerial(b) ==
  /\ pc[b] = "serial"
  /\ \/ /\ paired /\ ~PortTaken(Of(b))
        /\ ser' = [ser EXCEPT ![b] = TRUE]
        /\ pc' = [pc EXCEPT ![b] = "connect"]
     \/ /\ ~paired \/ PortTaken(Of(b))
        /\ pc' = [pc EXCEPT ![b] = AfterFailure(b)]
        /\ UNCHANGED ser
  /\ UNCHANGED <<supervised, stop, sock, tcp2com, com2tcp, slot, programVars>>

\* The newest client of the slot takes it from whoever had it.
OpenSocket(b) ==
  /\ pc[b] = "connect"
  /\ \/ /\ engine
        /\ sock' = [sock EXCEPT ![b] = TRUE]
        /\ slot' = [slot EXCEPT ![Of(b)] = b]
        /\ pc' = [pc EXCEPT ![b] = "spawn"]
        /\ UNCHANGED ser
     \/ /\ ~engine
        /\ ser' = [ser EXCEPT ![b] = FALSE]
        /\ pc' = [pc EXCEPT ![b] = AfterFailure(b)]
        /\ UNCHANGED <<sock, slot>>
  /\ UNCHANGED <<supervised, stop, tcp2com, com2tcp, programVars>>

\* The workers run; start() goes on to start the supervisor.
Spawn(b) ==
  /\ pc[b] = "spawn"
  /\ tcp2com' = [tcp2com EXCEPT ![b] = TRUE]
  /\ com2tcp' = [com2tcp EXCEPT ![b] = TRUE]
  /\ supervised' = [supervised EXCEPT ![b] = TRUE]
  /\ pc' = [pc EXCEPT ![b] = "watch"]
  /\ UNCHANGED <<stop, sock, ser, slot, programVars>>

(***************************************************************************)
(* The workers.  Both end when the bridge is stopped or its ends are       *)
(* closed.  _tcp_to_com sees the engine's close at its next recv;          *)
(* _com_to_tcp only when it has a byte to send, which may never happen.    *)
(***************************************************************************)
WorkerIsTold(b) == stop[b] \/ ~sock[b] \/ ~ser[b]

TcpToComEnds(b) ==
  /\ tcp2com[b]
  /\ WorkerIsTold(b) \/ Kicked(b)
  /\ tcp2com' = [tcp2com EXCEPT ![b] = FALSE]
  /\ UNCHANGED <<pc, supervised, stop, sock, ser, com2tcp, slot, programVars>>

ComToTcpEnds(b) ==
  /\ com2tcp[b]
  /\ WorkerIsTold(b)
  /\ com2tcp' = [com2tcp EXCEPT ![b] = FALSE]
  /\ UNCHANGED <<pc, supervised, stop, sock, ser, tcp2com, slot, programVars>>

ComToTcpSendFails(b) ==
  /\ com2tcp[b]
  /\ Kicked(b)
  /\ com2tcp' = [com2tcp EXCEPT ![b] = FALSE]
  /\ UNCHANGED <<pc, supervised, stop, sock, ser, tcp2com, slot, programVars>>

(***************************************************************************)
(* _supervise.                                                             *)
(***************************************************************************)
Died_Both(b) == ~tcp2com[b] /\ ~com2tcp[b]
Died(b) == ~tcp2com[b] \/ ~com2tcp[b]

\* Either worker is dead and nobody asked for a stop: close both ends.
SuperviseDeath(b) ==
  /\ pc[b] = "watch"
  /\ ~stop[b]
  /\ Died(b)
  /\ CloseIo(b)
  /\ pc' = [pc EXCEPT ![b] = "join"]
  /\ UNCHANGED <<supervised, stop, tcp2com, com2tcp, programVars>>

WorkersJoined_One(b) == ~tcp2com[b]
WorkersJoined(b) == ~tcp2com[b] /\ ~com2tcp[b]

SuperviseJoin(b) ==
  /\ pc[b] = "join"
  /\ WorkersJoined(b)
  /\ pc' = [pc EXCEPT ![b] = "nap"]
  /\ UNCHANGED <<supervised, stop, sock, ser, tcp2com, com2tcp, slot, programVars>>

\* Each wait and each loop condition of the supervisor notices the stop event.
StopSeenAt_NotWhenRetrying == {"watch", "nap"}
StopSeenAt == {"watch", "nap", "retry", "backoff"}
Proceeds(b) == ~(stop[b] /\ pc[b] \in StopSeenAt)

\* A wait (RECONNECT_DELAY_S, or the backoff) has run out.
SuperviseWakes(b) ==
  /\ pc[b] \in {"nap", "backoff"}
  /\ Proceeds(b)
  /\ pc' = [pc EXCEPT ![b] = "retry"]
  /\ UNCHANGED <<supervised, stop, sock, ser, tcp2com, com2tcp, slot, programVars>>

SuperviseRetry(b) ==
  /\ pc[b] = "retry"
  /\ Proceeds(b)
  /\ pc' = [pc EXCEPT ![b] = "serial"]
  /\ UNCHANGED <<supervised, stop, sock, ser, tcp2com, com2tcp, slot, programVars>>

SuperviseStops(b) ==
  /\ pc[b] \in StopSeenAt
  /\ stop[b]
  /\ pc' = [pc EXCEPT ![b] = "exited"]
  /\ UNCHANGED <<supervised, stop, sock, ser, tcp2com, com2tcp, slot, programVars>>

(***************************************************************************)
(* UartBridgeManager.stop() on the GUI thread: the loop over the           *)
(* dictionary, which Python aborts with RuntimeError when its size has     *)
(* changed, then clear().  An exception in a Qt slot ends the program.     *)
(***************************************************************************)
At(place, job, c) == [at |-> place, job |-> job, chip |-> c]

StopAll(job) ==
  /\ gui' = At("next", job, NoOne)
  /\ visited' = {}
  /\ size' = Cardinality(Active)
  /\ UNCHANGED <<guiAt, opening>>

StopNext ==
  /\ gui.at = "next"
  /\ Cardinality(Active) = size
  /\ \E b \in Active \ visited :
       /\ BeginStop(b)
       /\ guiAt' = b
  /\ gui' = [gui EXCEPT !.at = "joining"]
  /\ UNCHANGED <<pc, supervised, tcp2com, com2tcp, engine, bridges, visited, size,
                 opening, avrVars, comVars>>

StopJoined ==
  /\ gui.at = "joining"
  /\ Joined(guiAt)
  /\ visited' = visited \cup {guiAt}
  /\ guiAt' = NoOne
  /\ gui' = [gui EXCEPT !.at = "next"]
  /\ UNCHANGED <<bridges, opening, avrVars>>
  /\ Release({guiAt})
  /\ UNCHANGED <<engine, size, comVars>>

StopRaises ==
  /\ gui.at = "next"
  /\ Cardinality(Active) # size
  /\ gui' = [gui EXCEPT !.at = "raised"]
  /\ UNCHANGED <<bridgeVars, slot, engine, bridges, guiAt, visited, size, opening,
                 avrVars, comVars>>

StopLoopEnds ==
  /\ gui.at = "next"
  /\ Cardinality(Active) = size
  /\ Active \subseteq visited
  /\ gui' = [gui EXCEPT !.at = "clear"]
  /\ UNCHANGED <<bridgeVars, slot, engine, bridges, guiAt, visited, size, opening,
                 avrVars, comVars>>

\* clear(), and what the caller of stop() does next: _restart_uart_bridges,
\* removeComPorts, closeEvent, UartBridgeManager.start.
StopClears ==
  /\ gui.at = "clear"
  /\ bridges' = [c \in Chip |-> NoOne]
  /\ visited' = {}
  /\ size' = 0
  /\ UNCHANGED <<guiAt, opening, avrVars, paired, timer, restarts, flashes>>
  /\ \/ gui.job = "restart" /\ gui' = At("next", "start", NoOne)
     \/ gui.job = "start" /\ gui' = At("create", "start", NoOne)
     \/ gui.job = "remove" /\ gui' = Idle
     \/ gui.job = "close" /\ gui' = At("closed", "close", NoOne)
  /\ IF gui.job = "remove" THEN script' = "remove" /\ scripts' = scripts + 1
                           ELSE UNCHANGED <<script, scripts>>
  /\ engine' = (engine /\ gui.job # "close")
  /\ Release(Active)

(***************************************************************************)
(* UartBridgeManager.start after its stop(): one object per chip, started  *)
(* by a pool of threads.  The code takes the results in the order of the   *)
(* chips, the model in any order, which allows more.                       *)
(***************************************************************************)
NewBridges(S) == pc' = [b \in Bridge |-> IF b \in S THEN "serial" ELSE pc[b]]

CreateAll ==
  /\ gui.at = "create"
  /\ \A c \in Chip : Free(c) # {}
  /\ opening' = {Fresh(c) : c \in Chip}
  /\ NewBridges(opening')
  /\ gui' = [gui EXCEPT !.at = "opening"]
  /\ UNCHANGED <<supervised, stop, sock, ser, tcp2com, com2tcp, slot, engine, bridges,
                 guiAt, visited, size, avrVars, comVars>>

\* start() of b has returned: True with its supervisor running, or False.
Started(b) == supervised[b] \/ pc[b] = "failed"

TakeResult ==
  /\ gui.at = "opening"
  /\ \E b \in opening :
       /\ Started(b)
       /\ opening' = opening \ {b}
       /\ bridges' = IF supervised[b] THEN [bridges EXCEPT ![Of(b)] = b] ELSE bridges
       /\ UNCHANGED <<guiAt, avrAt>>
       /\ Release({b, bridges[Of(b)]})
  /\ gui' = IF opening' = {} THEN Idle ELSE gui
  /\ UNCHANGED <<engine, visited, size, avr, restore, comVars>>

(***************************************************************************)
(* The slots the event loop of the GUI runs, one at a time.                *)
(***************************************************************************)
\* The 250 ms after the engine's start have passed: _start_uart_bridges.
TimerFires ==
  /\ gui = Idle /\ timer
  /\ timer' = FALSE
  /\ StopAll("start")
  /\ UNCHANGED <<bridgeVars, slot, engine, bridges, avrVars, script, paired, restarts,
                 flashes, scripts>>

RestartRuns ==
  /\ gui = Idle /\ restarts > 0
  /\ restarts' = restarts - 1
  /\ StopAll("restart")
  /\ UNCHANGED <<bridgeVars, slot, engine, bridges, avrVars, script, paired, timer,
                 flashes, scripts>>

InstallComPorts ==
  /\ gui = Idle /\ script = "none" /\ scripts < MaxScripts
  /\ script' = "install"
  /\ scripts' = scripts + 1
  /\ UNCHANGED <<bridgeVars, slot, engine, bridges, guiVars, avrVars, paired, timer,
                 restarts, flashes>>

RemoveComPorts ==
  /\ gui = Idle /\ script = "none" /\ scripts < MaxScripts
  /\ StopAll("remove")
  /\ UNCHANGED <<bridgeVars, slot, engine, bridges, avrVars, comVars>>

CloseEvent ==
  /\ gui = Idle
  /\ StopAll("close")
  /\ UNCHANGED <<bridgeVars, slot, engine, bridges, avrVars, comVars>>

\* The bridge _pause_bridge finds.
ToPause_Never(c) == NoOne
ToPause(c) == bridges[c]

\* stop_chip: the bridge is popped, then stopped.
StopChip(c) ==
  /\ BeginStop(bridges[c])
  /\ guiAt' = bridges[c]
  /\ bridges' = [bridges EXCEPT ![c] = NoOne]

\* flashChipAvrdude from its guard on: _pause_bridge pops the bridge and
\* stops it, then the avrdude thread starts.
FlashChip(c) ==
  /\ gui = Idle /\ avr[c] = "none" /\ flashes < MaxFlashes
  /\ flashes' = flashes + 1
  /\ \/ /\ ToPause(c) = NoOne
        /\ avr' = [avr EXCEPT ![c] = "launch"]
        /\ restore' = [restore EXCEPT ![c] = FALSE]
        /\ UNCHANGED <<stop, sock, ser, slot, bridges, gui, guiAt>>
     \/ /\ ToPause(c) # NoOne
        /\ StopChip(c)
        /\ gui' = At("pausing", "flash", c)
        /\ UNCHANGED <<avr, restore>>
  /\ UNCHANGED <<pc, supervised, tcp2com, com2tcp, engine, visited, size, opening,
                 avrAt, script, paired, timer, restarts, scripts>>

Paused ==
  /\ gui.at = "pausing"
  /\ Joined(guiAt)
  /\ guiAt' = NoOne
  /\ gui' = Idle
  /\ avr' = [avr EXCEPT ![gui.chip] = "launch"]
  /\ restore' = [restore EXCEPT ![gui.chip] = TRUE]
  /\ UNCHANGED <<bridges, opening, avrAt>>
  /\ Release({guiAt})
  /\ UNCHANGED <<engine, visited, size, comVars>>

(***************************************************************************)
(* _run_avrdude, on a thread of its own per chip.                          *)
(***************************************************************************)
\* avrdude connects, or cannot be run or cannot connect.
AvrdudeConnects(c) ==
  /\ avr[c] = "launch"
  /\ \/ /\ engine
        /\ slot' = [slot EXCEPT ![c] = Avrdude]
        /\ avr' = [avr EXCEPT ![c] = "session"]
     \/ /\ avr' = [avr EXCEPT ![c] = "ended"]
        /\ UNCHANGED slot
  /\ UNCHANGED <<bridgeVars, engine, bridges, guiVars, avrAt, restore, comVars>>

\* avrdude exits, done or because it lost its connection.
AvrdudeExits(c) ==
  /\ avr[c] = "session"
  /\ slot' = [slot EXCEPT ![c] = IF slot[c] = Avrdude THEN NoOne ELSE slot[c]]
  /\ avr' = [avr EXCEPT ![c] = "ended"]
  /\ UNCHANGED <<bridgeVars, engine, bridges, guiVars, avrAt, restore, comVars>>

\* The finally branch: nothing to resume, or start_chip, which first stops
\* the bridge the dictionary holds for the chip by now.
ResumeBegins(c) ==
  /\ avr[c] = "ended"
  /\ \/ /\ ~restore[c]
        /\ avr' = [avr EXCEPT ![c] = "none"]
        /\ UNCHANGED <<stop, sock, ser, slot, avrAt>>
     \/ /\ restore[c] /\ bridges[c] = NoOne
        /\ avr' = [avr EXCEPT ![c] = "create"]
        /\ UNCHANGED <<stop, sock, ser, slot, avrAt>>
     \/ /\ restore[c] /\ bridges[c] # NoOne
        /\ BeginStop(bridges[c])
        /\ avrAt' = [avrAt EXCEPT ![c] = bridges[c]]
        /\ avr' = [avr EXCEPT ![c] = "joining"]
  /\ UNCHANGED <<pc, supervised, tcp2com, com2tcp, engine, bridges, guiVars, restore,
                 comVars>>

\* stop() has returned: del self._bridges[chip] removes whatever is there
\* now; the GUI thread may have removed it, and KeyError ends the thread.
ResumeReplaces(c) ==
  /\ avr[c] = "joining"
  /\ Joined(avrAt[c])
  /\ avrAt' = [avrAt EXCEPT ![c] = NoOne]
  /\ avr' = [avr EXCEPT ![c] = IF bridges[c] = NoOne THEN "none" ELSE "create"]
  /\ bridges' = [bridges EXCEPT ![c] = NoOne]
  /\ UNCHANGED <<guiAt, opening>>
  /\ Release({avrAt[c], bridges[c]})
  /\ UNCHANGED <<engine, gui, visited, size, restore, comVars>>

ResumeCreates(c) ==
  /\ avr[c] = "create"
  /\ Free(c) # {}
  /\ avrAt' = [avrAt EXCEPT ![c] = Fresh(c)]
  /\ NewBridges({Fresh(c)})
  /\ avr' = [avr EXCEPT ![c] = "opening"]
  /\ UNCHANGED <<supervised, stop, sock, ser, tcp2com, com2tcp, slot, engine, bridges,
                 guiVars, restore, comVars>>

ResumeEnds(c) ==
  /\ avr[c] = "opening"
  /\ Started(avrAt[c])
  /\ bridges' = IF supervised[avrAt[c]] THEN [bridges EXCEPT ![c] = avrAt[c]] ELSE bridges
  /\ avrAt' = [avrAt EXCEPT ![c] = NoOne]
  /\ avr' = [avr EXCEPT ![c] = "none"]
  /\ UNCHANGED <<guiAt, opening>>
  /\ Release({avrAt[c], bridges[c]})
  /\ UNCHANGED <<engine, gui, visited, size, restore, comVars>>

(***************************************************************************)
(* _run_com_setup: the script ends, well or not, the flag is cleared and   *)
(* the restart is queued.  setupc cannot delete a port that is open.       *)
(***************************************************************************)
ScriptEnds ==
  /\ script # "none"
  /\ \/ UNCHANGED paired
     \/ script = "install" /\ paired' = TRUE
     \/ script = "remove" /\ paired' = FALSE /\ \A c \in Chip : ~PortTaken(c)
  /\ script' = "none"
  /\ restarts' = restarts + 1
  /\ UNCHANGED <<bridgeVars, slot, engine, bridges, guiVars, avrVars, timer, flashes,
                 scripts>>

\* A client from outside the program takes the slot: avrdude from a shell, a
\* terminal.
OutsiderConnects(c) ==
  /\ engine /\ slot[c] # NoOne
  /\ slot' = [slot EXCEPT ![c] = NoOne]
  /\ UNCHANGED <<bridgeVars, programVars>>

\* The engine ends; its sockets close.
EngineEnds ==
  /\ engine
  /\ engine' = FALSE
  /\ slot' = [c \in Chip |-> NoOne]
  /\ UNCHANGED <<bridgeVars, bridges, guiVars, avrVars, comVars>>

(***************************************************************************)
(* The specification.                                                      *)
(***************************************************************************)
BridgeStep(b) == \/ OpenSerial(b) \/ OpenSocket(b) \/ Spawn(b)
                 \/ SuperviseDeath(b) \/ SuperviseJoin(b) \/ SuperviseWakes(b)
                 \/ SuperviseRetry(b) \/ SuperviseStops(b)
WorkerStep(b) == TcpToComEnds(b) \/ ComToTcpEnds(b)
GuiOwn == \/ StopNext \/ StopJoined \/ StopRaises \/ StopLoopEnds \/ StopClears
          \/ CreateAll \/ TakeResult \/ Paused \/ TimerFires \/ RestartRuns
AvrStep(c) == \/ AvrdudeConnects(c) \/ AvrdudeExits(c) \/ ResumeBegins(c)
              \/ ResumeReplaces(c) \/ ResumeCreates(c) \/ ResumeEnds(c)
Operator == \/ InstallComPorts \/ RemoveComPorts \/ CloseEvent
            \/ \E c \in Chip : FlashChip(c)

\* The window is closed or Qt has aborted; the other threads are daemons and
\* may go on until the process is gone.
ProcessEnds == gui.at \in {"closed", "raised"} /\ UNCHANGED vars

Next == \/ \E b \in Bridge : BridgeStep(b) \/ WorkerStep(b) \/ ComToTcpSendFails(b)
        \/ GuiOwn
        \/ \E c \in Chip : AvrStep(c) \/ OutsiderConnects(c)
        \/ Operator
        \/ ScriptEnds
        \/ EngineEnds
        \/ ProcessEnds

Spec == Init /\ [][Next]_vars

\* Every thread is scheduled, a wait runs out, a script and avrdude end.
\* What the operator, an outsider and the engine's end do is not fair, and
\* neither is the byte that would make com2tcp notice a kick.
Fair ==
  /\ \A b \in Bridge : /\ WF_vars(BridgeStep(b))
                       /\ WF_vars(TcpToComEnds(b))
                       /\ WF_vars(ComToTcpEnds(b))
  /\ WF_vars(GuiOwn)
  /\ \A c \in Chip : WF_vars(AvrStep(c))
  /\ WF_vars(ScriptEnds)

FairSpec == Spec /\ Fair

(***************************************************************************)
(* Properties.                                                             *)
(***************************************************************************)
\* A bridge never has workers of an earlier connection when it waits, opens
\* its ends again or is spawned: the two pairs would share _sock and _serial
\* and mix their bytes.  The supervisor's close and joins are there for it.
FreshWorkers ==
  \A b \in Bridge :
     pc[b] \in {"free", "failed", "nap", "retry", "backoff"} \cup Opening =>
        ~tcp2com[b] /\ ~com2tcp[b]

\* stop() returns only when nothing of the bridge runs any more: a bridge
\* that was told to stop and is not collected yet is still in the dictionary
\* or in the hands of the thread that stops it, wherever its supervisor was
\* (watching, waiting, or half-way through reopening) when the stop came.
StopIsComplete ==
  \A b \in Bridge : stop[b] => b \in Held

\* A bridge that runs and that nothing in the program can reach or stop.
Stray(b) == pc[b] # "free" /\ b \notin Held
NoStray == \A b \in Bridge : ~Stray(b)

\* When flashChipAvrdude starts avrdude, no bridge of that chip (a stray
\* apart) is in the slot, has the COM port open or copies bytes.
AvrdudeFindsSlotFree ==
  [][\A c \in Chip :
       avr[c] = "none" /\ avr'[c] = "launch" =>
          \A b \in Bridge : Of(b) = c /\ ~Stray(b) =>
             slot'[c] # b /\ ~ser'[b] /\ ~tcp2com'[b] /\ ~com2tcp'[b]]_vars

\* The GUI thread comes back to its event loop and the avrdude thread ends,
\* whatever the bridges they stop were doing.
ThreadsReturn ==
  /\ gui.at # "idle" ~> gui.at \in {"idle", "closed", "raised"}
  /\ \A c \in Chip : avr[c] # "none" ~> avr[c] = "none"

\* A bridge of the dictionary that lost its slot gets it back, even when the
\* firmware is silent and com2tcp never notices; unless it is stopped, the
\* engine or the COM pair is gone, or a stray bridge keeps the port.
KickedReturns ==
  \A b \in Bridge :
     Kicked(b) /\ b \in Active ~>
        \/ slot[Of(b)] = b \/ b \notin Active
        \/ ~engine \/ ~paired \/ ~NoStray

(***************************************************************************)
(* What comments of the code say and the code does not do.                 *)
(***************************************************************************)
\* qml_bridge.py frees the slot for avrdude and resumes the bridge "after
\* avrdude exits": no bridge takes the slot from the avrdude it was paused
\* for.
FlashKeepsSlot ==
  [][\A c \in Chip : avr[c] = "session" /\ restore[c] /\ slot[c] = Avrdude =>
                       slot'[c] \notin Bridge]_vars

\* qml_bridge.py releases the COM ports before it runs the remove script,
\* which cannot delete a port whose handle is still open.
RemoveFindsPortsClosed == script = "remove" => \A c \in Chip : ~PortTaken(c)
=============================================================================
