------------------------------- MODULE SimUi -------------------------------
(***************************************************************************)
(* The UI process: SimProxy (sim_proxy.py) reads JSON lines from the       *)
(* engine's stdout and writes commands to its stdin, SimState keeps what   *)
(* the events say, and one of two windows shows it, the QML board          *)
(* (app_qml.py) or the QtWidgets window (app.py).                          *)
(*                                                                         *)
(* All of it runs on the GUI thread and Qt calls the slots of a signal     *)
(* synchronously, so a step is one callback.  The proxy's on_stdout takes  *)
(* what has arrived, whatever it ends with, and then delivers one complete *)
(* line after the other to the store and from there to the window; no      *)
(* other callback runs before its loop ends, but the engine writes on.     *)
(*                                                                         *)
(* A line is two pieces, so that a chunk can end within a line as well as  *)
(* between lines; the second one holds its newline.                        *)
(***************************************************************************)
EXTENDS QmlView, QtView

CONSTANTS Apps,        \* the windows: "qml", "widgets"
          Events,      \* for each window, the events of the engine's lines
          Buttons,     \* of the panels: records [chip, pin]
          Knobs,       \* of the panels: records [chip, ch]
          Inputs,      \* the values QML's sliders and the knobs are given
          Speeds,      \* the factors QML's speed control is given
          Filters,     \* what the id filter of the CAN monitor can select
          InjectIds,   \* what the operator types as the id of a frame
          BadId,       \* not a number
          UsedSlots,   \* the slots of QmlSlots that QML calls in this instance
          Typed,       \* what the operator types in a serial console
          NoButton,    \* the mouse is up
          MaxSteps,    \* bound: lines, commands and plotter samples together
          MaxPieces    \* bound: pieces in the pipe

AllEvents == UNION {Events[a] : a \in Apps}
CanEvents == {e \in AllEvents : e.t = "can_tx"}

\* What the engine promises of an event that has the fields its mutator needs.
ASSUME EventsAssumption ==
  \A e \in AllEvents :
    Complete(e) => /\ "chip" \in Required(e) => e.chip \in Chips
                   /\ e.t = "pin"  => e.val \in Int
                   /\ e.t = "pwm"  => e.duty \in Int
                   /\ e.t = "uart" => Field(e, "data", <<>>) \in Seq(Characters)

ASSUME ControlsAssumption ==
  /\ Buttons \subseteq [chip : Chips, pin : STRING] /\ NoButton \notin Buttons
  /\ Knobs \subseteq [chip : Chips, ch : Channels]
  /\ Inputs \subseteq Int /\ Speeds \subseteq Int
  /\ \A x \in Targets : /\ x.chip \in Chips /\ x.kind \in {"pin", "pwm", "adc"}
                        /\ x.kind = "adc" => x.name \in Channels
  /\ IsFiniteSet(Ecus)
  /\ MaxSteps \in Nat

VARIABLES app,      \* the window
          engine,   \* "running", "exited" (Qt has not noticed yet), "over"
          pipe,     \* the engine's stdout that has not been read
          buffer,   \* SimProxy._buffer
          store,    \* SimState
          qml, qt,  \* the window's copy of it
          controls, \* the buttons and knobs of the panels
          sent,     \* the commands written to the engine
          emitted, seen, from \* history: the engine's events, those delivered,
                    \* and the first frame the CAN table is to show

uiVars  == <<store, qml, qt>>
ioVars  == <<pipe, buffer, emitted, seen>>
vars    == <<app, engine, ioVars, uiVars, controls, sent, from>>

Junk == [t |-> "junk"]

Room == Len(emitted) + Len(sent) + qml.lastTick < MaxSteps

\* --------------------------------------------------------------- the proxy

LineOf(e) == <<[ev |-> e, end |-> FALSE], [ev |-> e, end |-> TRUE]>>

HasLine(data) == \E i \in DOMAIN data : data[i].end

\* The first complete line of the buffer, and what follows its newline.
FirstEnd(data) == CHOOSE i \in DOMAIN data : data[i].end /\ \A j \in 1..(i-1) : ~data[j].end

FirstLine(data) == SubSeq(data, 1, FirstEnd(data))

\* Mutant: the bytes after the last newline are thrown away.
Rest_OnlyLines(data) ==
  LET rest == SubSeq(data, FirstEnd(data) + 1, Len(data))
  IN IF HasLine(rest) THEN rest ELSE <<>>

Rest(data) == SubSeq(data, FirstEnd(data) + 1, Len(data))

\* No slot of a signal is running: Qt calls the next one.
Idle == ~HasLine(buffer)

\* _on_stdout takes what has arrived ...
OnStdout ==
  /\ engine # "over"
  /\ Idle
  /\ \E n \in 1..Len(pipe) : /\ buffer' = buffer \o SubSeq(pipe, 1, n)
                             /\ pipe' = SubSeq(pipe, n + 1, Len(pipe))
  /\ UNCHANGED <<app, engine, emitted, seen, uiVars, controls, sent, from>>

\* json.loads succeeds and gives an object.
Parses(line) == \E e \in Events[app] \ {Junk} : line = LineOf(e)

\* _dispatch: an event goes to the mutator of its type, and from there to the
\* slots of the window.
Dispatch(e) ==
  /\ store' = Update(store, e)
  /\ qml' = IF app = "qml" THEN QmlHears(qml, e) ELSE qml
  /\ qt'  = IF app = "widgets" THEN QtHears(qt, store', e) ELSE qt

\* ... and loops over the complete lines in its buffer.  One that does not
\* parse is reported and skipped, and a mutator ignores an incomplete event.
DispatchLine ==
  /\ HasLine(buffer)
  /\ buffer' = Rest(buffer)
  /\ LET line == FirstLine(buffer)
         e    == line[1].ev
     IN IF Parses(line)
          THEN /\ seen' = Append(seen, e)
               /\ IF Complete(e) THEN Dispatch(e) ELSE UNCHANGED uiVars
          ELSE /\ seen' = Append(seen, Junk)
               /\ UNCHANGED uiVars
  /\ UNCHANGED <<app, engine, pipe, emitted, controls, sent, from>>

\* QProcess hands out what is left before it announces the end; _on_finished
\* then drops an incomplete line.
OnFinished ==
  /\ engine = "exited"
  /\ Idle
  /\ pipe = <<>>
  /\ engine' = "over"
  /\ buffer' = <<>>
  /\ qml' = [qml EXCEPT !.running = FALSE]
  /\ UNCHANGED <<app, pipe, emitted, seen, store, qt, controls, sent, from>>

\* -------------------------------------------------------------- the engine

EngineWrites ==
  /\ engine = "running"
  /\ Room
  /\ Len(pipe) + 2 <= MaxPieces
  /\ \E e \in Events[app] : /\ pipe' = pipe \o LineOf(e)
                            /\ emitted' = Append(emitted, e)
  /\ UNCHANGED <<app, engine, buffer, seen, uiVars, controls, sent, from>>

\* By itself or because SimProxy.stop terminates it; perhaps in the middle of
\* a line.
EngineEnds ==
  /\ engine = "running"
  /\ engine' = "exited"
  /\ \/ pipe' = pipe
     \/ pipe' = Append(pipe, LineOf(Junk)[1])
  /\ UNCHANGED <<app, buffer, emitted, seen, uiVars, controls, sent, from>>

\* --------------------------------------------------------- outbound commands

\* send_command, for each command of a slot: a write to a process that has
\* ended does nothing.
SendAll(cmds) == sent' = IF engine # "over" THEN sent \o cmds ELSE sent
SendCommand(cmd) == SendAll(<<cmd>>)

To(c, chip) == [c |-> c, chip |-> chip]
Din(b, on) == [c |-> "din", chip |-> b.chip, pin |-> b.pin, val |-> IF on THEN 1 ELSE 0]
Inject(id) == [c |-> "can_inject", id |-> id]

\* A slot of the window runs when no other does.
InWindow(window) == app = window /\ Idle

\* ------------------------------------------------------------ the QML window

Read ==
  /\ InWindow("qml")
  /\ \E k \in qml.dirty : qml' = ReadSection(qml, store, k)
  /\ UNCHANGED <<app, engine, ioVars, store, qt, controls, sent, from>>

Tick ==
  /\ InWindow("qml")
  /\ Room
  /\ qml' = PlotTick(qml, store, qml.lastTick + 1)
  /\ UNCHANGED <<app, engine, ioVars, store, qt, controls, sent, from>>

SetAdc ==
  /\ InWindow("qml")
  /\ Room
  /\ \E x \in {y \in Targets : y.kind = "adc"}, v \in Inputs :
       /\ store' = UpdateAdc(store, x.chip, x.name, v)
       /\ qml' = MarkDirty(qml, "adc")
       /\ SendCommand([c |-> "adc", chip |-> x.chip, ch |-> x.name, val |-> v])
  /\ UNCHANGED <<app, engine, ioVars, qt, controls, from>>

\* The slots that only pass commands on, with the commands a call may send:
\* none when a dialog is cancelled or an id is not a number.
QmlSlots ==
  [setDin       |-> {<<Din(b, on)>> : b \in Buttons, on \in BOOLEAN},
   sendUart     |-> {<<[c |-> "uart", chip |-> x, data |-> t]>> : x \in Chips, t \in Typed},
   injectCan    |-> {<<Inject(id)>> : id \in InjectIds \ {BadId}} \cup {<<>>},
   forceBusoff  |-> {<<To("force_busoff", x)>> : x \in Ecus},
   canRecover   |-> {<<To("can_recover", x)>> : x \in Ecus},
   pauseEngine  |-> {<<[c |-> "pause"]>>},
   resumeEngine |-> {<<[c |-> "resume"]>>},
   openLoadDialog |-> {<<To("load", x)>> : x \in Chips} \cup {<<>>},
   runScript    |-> {<<[c |-> "run_script"]>>, <<>>},
   openLoadAllDialog |-> {SetToSeq({To("load", x) : x \in Ecus}), <<>>},
   unloadChip   |-> {<<To("unload", x)>> : x \in Chips}]

ASSUME SlotsAssumption == UsedSlots \subseteq DOMAIN QmlSlots

QmlCommand ==
  /\ InWindow("qml")
  /\ Room
  /\ \E name \in UsedSlots : \E cmds \in QmlSlots[name] : SendAll(cmds)
  /\ UNCHANGED <<app, engine, ioVars, uiVars, controls, from>>

Speed(factor) == [c |-> "speed", speed |-> factor]

SetSpeed ==
  /\ InWindow("qml")
  /\ Room
  /\ \E v \in Speeds : LET factor == IF v < 0 THEN 0 ELSE v
                       IN /\ qml' = [qml EXCEPT !.speed = factor]
                          /\ SendCommand(Speed(factor))
  /\ UNCHANGED <<app, engine, ioVars, store, qt, controls, from>>

\* What flashChipAvrdude tells the engine before avrdude runs (UartBridge has
\* the rest): Optiboot is loaded, and real time is forced when it is not set.
FlashChip ==
  /\ InWindow("qml")
  /\ Room
  /\ \E x \in Chips :
       SendAll(<<To("load", x)>> \o IF qml.speed = 1 THEN <<>> ELSE <<Speed(1)>>)
  /\ qml' = [qml EXCEPT !.speed = 1]
  /\ UNCHANGED <<app, engine, ioVars, store, qt, controls, from>>

\* -------------------------------------------------------- the widgets window

Latching(b) == b.chip \notin Ecus

\* mousePressEvent: a latching button toggles.
Press ==
  /\ InWindow("widgets")
  /\ Room
  /\ controls.held = NoButton
  /\ \E b \in Buttons :
       LET on == ~Latching(b) \/ ~controls.on[b]
       IN /\ controls' = [controls EXCEPT !.held = b, !.on[b] = on]
          /\ SendCommand(Din(b, on))
  /\ UNCHANGED <<app, engine, ioVars, uiVars, from>>

\* Mutant: a latching button sends its release value as well.
Release_Always ==
  /\ InWindow("widgets")
  /\ controls.held # NoButton
  /\ LET b == controls.held
     IN /\ controls' = [controls EXCEPT !.held = NoButton, !.on[b] = Latching(b) /\ @]
        /\ SendCommand(Din(b, FALSE))
  /\ UNCHANGED <<app, engine, ioVars, uiVars, from>>

\* mouseReleaseEvent
Release ==
  /\ InWindow("widgets")
  /\ controls.held # NoButton
  /\ LET b == controls.held
     IN /\ controls' = [controls EXCEPT !.held = NoButton, !.on[b] = Latching(b) /\ @]
        /\ IF Latching(b) THEN sent' = sent ELSE SendCommand(Din(b, FALSE))
  /\ UNCHANGED <<app, engine, ioVars, uiVars, from>>

Adc(k, v) == [c |-> "adc", chip |-> k.chip, ch |-> k.ch, val |-> v]

\* _Knob.set_value signals a change only.
SetValue(k, v) ==
  /\ v # controls.knob[k]
  /\ controls' = [controls EXCEPT !.knob[k] = v]
  /\ SendCommand(Adc(k, v))

\* A drag or the wheel.
Turn ==
  /\ InWindow("widgets")
  /\ Room
  /\ \E k \in Knobs, v \in Inputs : SetValue(k, Clamp(v, AdcMax))
  /\ UNCHANGED <<app, engine, ioVars, uiVars, from>>

\* Load, pause and resume.
ToolbarCommand ==
  /\ InWindow("widgets")
  /\ Room
  /\ \/ \E x \in Chips : SendCommand(To("load", x))
     \/ \E c \in {"pause", "resume"} : SendCommand([c |-> c])
  /\ UNCHANGED <<app, engine, ioVars, uiVars, controls, from>>

\* An id that is not a number sends nothing.
InjectFrame ==
  /\ InWindow("widgets")
  /\ Room
  /\ \E id \in InjectIds \ {BadId} : SendCommand(Inject(id))
  /\ UNCHANGED <<app, engine, ioVars, uiVars, controls, from>>

\* _do_send: a line, unless the input is empty.
ConsoleSend ==
  /\ InWindow("widgets")
  /\ Room
  /\ \E c \in Chips, text \in Typed \ {<<>>} :
       SendCommand([c |-> "uart", chip |-> c, data |-> Append(text, Newline)])
  /\ UNCHANGED <<app, engine, ioVars, uiVars, controls, from>>

\* The bus-off and recover buttons of an ECU panel.
FaultCommand ==
  /\ InWindow("widgets")
  /\ Room
  /\ \E c \in {"force_busoff", "can_recover"}, e \in Ecus : SendCommand(To(c, e))
  /\ UNCHANGED <<app, engine, ioVars, uiVars, controls, from>>

CanHistory == KeptIn(seen, CanEvents)

TypeFilter ==
  /\ InWindow("widgets")
  /\ \E ids \in Filters : qt' = OnFilterText(qt, store, ids)
  /\ from' = Len(CanHistory) - Len(store.canLog) + 1
  /\ UNCHANGED <<app, engine, ioVars, store, qml, controls, sent>>

Clear ==
  /\ InWindow("widgets")
  /\ qt' = [qt EXCEPT !.rows = <<>>]
  /\ from' = Len(CanHistory) + 1
  /\ UNCHANGED <<app, engine, ioVars, store, qml, controls, sent>>

DecayUart ==
  /\ InWindow("widgets")
  /\ \E c \in Chips : /\ qt.panel[c].tx > 0
                      /\ qt' = [qt EXCEPT !.panel[c] = Decay(@)]
  /\ UNCHANGED <<app, engine, ioVars, store, qml, controls, sent, from>>

\* ------------------------------------------------------------ specification

Init ==
  /\ app \in Apps
  /\ engine = "running"
  /\ pipe = <<>> /\ buffer = <<>>
  /\ store = EmptyStore
  /\ qml = QmlInit /\ qt = QtInit
  /\ controls = [held |-> NoButton,
                 on   |-> [b \in Buttons |-> FALSE],
                 knob |-> [k \in Knobs |-> 0]]
  /\ sent = <<>>
  /\ emitted = <<>> /\ seen = <<>> /\ from = 1

Next ==
  \/ OnStdout \/ DispatchLine \/ OnFinished \/ EngineWrites \/ EngineEnds
  \/ Read \/ Tick \/ SetAdc \/ SetSpeed \/ FlashChip \/ QmlCommand
  \/ Press \/ Release \/ Turn \/ TypeFilter \/ Clear \/ DecayUart
  \/ ToolbarCommand \/ InjectFrame \/ ConsoleSend \/ FaultCommand

Spec == Init /\ [][Next]_vars

\* --------------------------------------------------------------- properties

Values(f) == {e[f] : e \in {x \in AllEvents : f \in DOMAIN x}}
Dict(K, V) == UNION {[D -> V] : D \in SUBSET K}

CanStates == [tec : Values("tec") \cup {0}, rec : Values("rec") \cup {0}, state : Values("state") \cup {"active"}]
Lines     == Values("line0") \cup Values("line1") \cup {<<>>}
Rows      == {Fit(line) : line \in Lines}
Shown     == Characters \ {Escape}

Stores == [pins     : [Chips -> Dict(Values("pin"), Int)],
           pwm      : [Chips -> Dict(Values("pin"), Int)],
           adc      : [Chips -> Dict(Channels, 0..AdcMax)],
           canState : [Chips -> CanStates],
           stat     : [Chips -> [hex : Values("hex") \cup {""}, free : Values("free") \cup {0}]],
           lcd      : Dict(Chips, Lines \X Lines),
           canLog   : Seq(CanEvents),
           log      : Seq(AllEvents)]

QmlViews == [dirty    : SUBSET Sections,
             cache    : [Sections -> {NoneYet} \cup [Chips -> Dict(Values("pin"), Int)]
                                               \cup [Chips -> Dict(Channels, 0..AdcMax)]],
             lcd      : Dict(Chips, Rows \X Rows),
             running  : BOOLEAN,
             speed    : Nat,
             trace    : [Targets -> Seq([at : Nat, v : Int])],
             lastTick : Nat]

Panels == [leds  : [{"dout0", "dout1", "led", "buzz"} -> 0..Full],
           pins  : Dict(Ports, BOOLEAN),
           pwm   : Dict(Ports, 0..Full),
           tx    : Nat,
           text  : Seq(Shown),
           badge : CanStates]

QtViews == [rows : Seq(CanEvents), filter : Filters \cup {AllIds}, panel : [Chips -> Panels]]

Commands == [c : {"din"}, chip : Chips, pin : STRING, val : {0, 1}]
       \cup [c : {"adc"}, chip : Chips, ch : Channels, val : Int]
       \cup [c : {"uart"}, chip : Chips, data : Typed \cup {Append(t, Newline) : t \in Typed}]
       \cup [c : {"can_inject"}, id : InjectIds]
       \cup [c : {"load", "unload", "force_busoff", "can_recover"}, chip : Chips]
       \cup [c : {"pause", "resume", "run_script"}]
       \cup [c : {"speed"}, speed : Nat]

TypeOK ==
  /\ app \in Apps
  /\ engine \in {"running", "exited", "over"}
  /\ {pipe, buffer} \subseteq Seq([ev : AllEvents \cup {Junk}, end : BOOLEAN])
  /\ emitted \in Seq(Events[app]) /\ seen \in Seq(AllEvents \cup {Junk})
  /\ store \in Stores /\ qml \in QmlViews /\ qt \in QtViews
  /\ controls \in [held : Buttons \cup {NoButton}, on : [Buttons -> BOOLEAN], knob : [Knobs -> 0..AdcMax]]
  /\ sent \in Seq(Commands)
  /\ from \in Int

\* The pieces of what the engine wrote.
Piece(k) == [ev |-> emitted[(k + 1) \div 2], end |-> k % 2 = 0]

\* However the pipe cuts the stream into chunks, no line is lost, split,
\* joined or reordered: what has been delivered is what the engine wrote, up to
\* the pieces still on their way, and all of it once the engine is over
\* (SimProxy._on_stdout).
NothingLost ==
  LET coming    == buffer \o pipe
      delivered == 2 * Len(seen)
      left      == 2 * Len(emitted) - delivered
  IN /\ IsPrefix(seen, emitted)
     /\ \A i \in 1..left : coming[i] = Piece(delivered + i)
     /\ \/ Len(coming) = left
        \/ engine = "exited" /\ Len(coming) = left + 1 /\ ~coming[left + 1].end

Heard == {i \in DOMAIN seen : Complete(seen[i])}

\* Event x writes what event e wrote.
Overwrites(x, e) == x.t = e.t /\ x.chip = e.chip /\ (e.t \in {"pin", "pwm"} => x.pin = e.pin)

\* The store holds the newest value of every pin, duty and CAN state and nothing
\* else, merges the partial chip statistics, and its frame log is the end of the
\* history, no shorter than LogKeep allows (SimState's mutators).  The LCD rows
\* are in QmlShowsStore, the ADC inputs in ControlsAreHeard.
StoreIsLatest ==
  /\ \A i \in Heard :
       LET e     == seen[i]
           later == {j \in Heard : j > i /\ Overwrites(seen[j], e)}
       IN /\ e.t = "pin" /\ later = {} =>
               e.pin \in DOMAIN store.pins[e.chip] /\ store.pins[e.chip][e.pin] = e.val
          /\ e.t = "pwm" /\ later = {} =>
               e.pin \in DOMAIN store.pwm[e.chip] /\ store.pwm[e.chip][e.pin] = e.duty
          /\ e.t = "can_state" /\ later = {} =>
               store.canState[e.chip] = UpdateCanState(store, e).canState[e.chip]
          /\ e.t = "chipstat" => \A k \in DOMAIN NoStat \cap DOMAIN e :
               (\A j \in later : k \notin DOMAIN seen[j]) => store.stat[e.chip][k] = e[k]
  /\ \A c \in Chips :
       /\ \A p \in DOMAIN store.pins[c] : \E i \in Heard : seen[i].t = "pin" /\ seen[i].chip = c /\ seen[i].pin = p
       /\ \A p \in DOMAIN store.pwm[c]  : \E i \in Heard : seen[i].t = "pwm" /\ seen[i].chip = c /\ seen[i].pin = p
       /\ store.canState[c] # Healthy => \E i \in Heard : seen[i].t = "can_state" /\ seen[i].chip = c
       /\ store.stat[c] # NoStat => \E i \in Heard : seen[i].t = "chipstat" /\ seen[i].chip = c
  /\ store.canLog = Newest(CanHistory, Len(store.canLog))
  /\ Len(store.canLog) <= LogMax
  /\ Len(store.canLog) >= IF Len(CanHistory) < LogKeep THEN Len(CanHistory) ELSE LogKeep

\* Whatever QML reads between events is the store: a section that is not
\* marked dirty is cached as it is, the LCD rows are the engine's, the frame
\* list is the end of the history although the log is cut, and the traces are
\* aligned with the newest sample at 0 (qml_bridge.py, plot_buffers.py).
QmlShowsStore ==
  app = "qml" =>
    /\ \A k \in Sections \ qml.dirty : qml.cache[k] = store[k]
    /\ qml.lcd = [c \in DOMAIN store.lcd |-> [r \in 1..2 |-> Fit(store.lcd[c][r])]]
    /\ CanFrames(store) = Newest(CanHistory, FramesMax)
    /\ \A x \in Targets : LET s == Series(qml, x)
                          IN /\ Len(s) = IF qml.lastTick < BufLen THEN qml.lastTick ELSE BufLen
                             /\ \A i \in DOMAIN s : s[i].at = i - Len(s)

\* The CAN table shows the newest matching frames since it was last cleared or
\* filled from the log, whichever way the filter and the log changed since
\* (can_monitor.py).
RowsAreNewest ==
  app = "widgets" =>
    LET since == SubSeq(CanHistory, from, Len(CanHistory))
    IN qt.rows = Newest(KeptIn(since, {e \in CanEvents : Matches(qt, e)}), RowMax)

\* What chip c wrote in an event, and in all events so far.
Written(c, e) ==
  IF e.t = "uart" /\ Complete(e) /\ e.chip = c THEN Strip(Field(e, "data", <<>>)) ELSE <<>>

Stream(c) == FlattenSeq([i \in DOMAIN seen |-> Written(c, seen[i])])

\* A console shows the end of what the chip wrote, bounded in characters and
\* in lines, and never less of it than the bounds allow (serial_console.py).  An
\* escape sequence that two events share is not covered: see Strip.
ConsoleIsTail ==
  app = "widgets" => \A c \in Chips :
    LET text == qt.panel[c].text
    IN /\ text = Newest(Stream(c), Len(text))
       /\ CharacterCount(text) <= ConsoleMax + ConsoleSlack
       /\ BlockCount(text) <= BlockMax
       /\ BlockCount(Stream(c)) <= BlockMax =>
            Len(text) >= IF Len(Stream(c)) < ConsoleMax THEN Len(Stream(c)) ELSE ConsoleMax - 1

\* Event e drives LED l of chip c's panel, and how bright it makes it.
Lights(c, l, e) ==
  /\ e.t \in {"pin", "pwm"} /\ e.chip = c
  /\ l = Field(IF e.t = "pin" THEN PinLed(c) ELSE PwmLed(c), e.pin, "")

Brightness(e) == IF e.t = "pwm" THEN Clamp(e.duty, Full) ELSE IF e.val # 0 THEN Full ELSE 0

\* The panels' own copies agree with the store: the pins and duties of the
\* Nano and the CAN badge; an LED that pin and PWM events share shows the
\* newest of either (ecu_panel.py, mcu_panel.py, nano_widget.py).  Which LED a pin
\* drives is taken from the panels' own tables, PinLed and PwmLed: a wrong entry
\* there would not show here.
PanelsFollow ==
  app = "widgets" => \A c \in Chips :
    LET p == qt.panel[c]
    IN /\ p.pins = [x \in DOMAIN store.pins[c] \cap Ports |-> store.pins[c][x] # 0]
       /\ c \in Ecus => /\ p.pwm = [x \in DOMAIN store.pwm[c] \cap Ports |-> Clamp(store.pwm[c][x], Full)]
                        /\ p.badge = store.canState[c]
       /\ \A l \in DOMAIN p.leds :
            LET lit == {i \in Heard : Lights(c, l, seen[i])}
            IN /\ lit = {} => p.leds[l] = 0
               /\ \A i \in lit : (\A j \in lit : j <= i) => p.leds[l] = Brightness(seen[i])

\* The value of field f in the last of the commands that lies in Q.
LastSent(cmds, Q, f, default) ==
  LET S == {i \in DOMAIN cmds : cmds[i] \in Q}
  IN IF S = {} THEN default ELSE cmds[CHOOSE i \in S : \A j \in S : j <= i][f]

DinOf(b) == [c : {"din"}, chip : {b.chip}, pin : {b.pin}, val : {0, 1}]
AdcOf(chip, ch) == [c : {"adc"}, chip : {chip}, ch : {ch}, val : Int]

\* While the engine runs, what the controls of the window show is what the
\* engine was told last: buttons and knobs, or QML's ADC record and speed.
ControlsAreHeard ==
  engine = "running" =>
    /\ app = "widgets" =>
         /\ \A b \in Buttons : (IF controls.on[b] THEN 1 ELSE 0) = LastSent(sent, DinOf(b), "val", 0)
         /\ \A k \in Knobs : controls.knob[k] = LastSent(sent, AdcOf(k.chip, k.ch), "val", 0)
    /\ app = "qml" => \A x \in {y \in Targets : y.kind = "adc"} :
         Sample(store, x) = Clamp(LastSent(sent, AdcOf(x.chip, x.name), "val", 0), AdcMax)
    /\ qml.speed = LastSent(sent, [c : {"speed"}, speed : Int], "speed", 1)
=============================================================================
