------------------------------- MODULE QtView -------------------------------
(***************************************************************************)
(* What the QtWidgets window (app.py) shows and the controls it has: the   *)
(* CAN monitor's table, and per chip a panel with LEDs, the Nano picture,  *)
(* the CAN badge, the serial console, buttons and knobs.  A widget keeps   *)
(* its own copy of what the store's signals told it.  Brightness is in     *)
(* percent; drawing and layout are left out.                               *)
(***************************************************************************)
EXTENDS SimStore

CONSTANTS Ecus,       \* the chips with an EcuPanel; the others have a McuPanel
          Ports,      \* _split_port: PB, PC or PD and a digit, the pins the Nano shows
          RowMax,     \* 1500: rows of the CAN table
          ConsoleMax, ConsoleSlack, \* UART_VIEW_MAX, UART_VIEW_SLACK
          BlockMax,   \* 2000: setMaximumBlockCount
          PulseTicks, \* decay_uart calls until a TX pulse is dark (1.0 * 0.6^n < 0.05)
          Characters, Newline, Escape, \* what chips write, and the characters
                      \* the console tells apart: the end of a line, and an
                      \* ANSI sequence (one character here)
          AllIds      \* the filter that is None

ASSUME ConsoleAssumption == /\ {ConsoleMax, ConsoleSlack, BlockMax, RowMax} \subseteq Nat \ {0}
                            /\ PulseTicks \in Nat
                            /\ Ecus \subseteq Chips

Full == 100

EcuPinLed == [PD3 |-> "dout0", PD4 |-> "dout1", PB5 |-> "led", PD7 |-> "buzz"]
McuPinLed == [PB5 |-> "led"]
EcuPwmLed == [PD3 |-> "dout0", PD6 |-> "led"]

PinLed(chip) == IF chip \in Ecus THEN EcuPinLed ELSE McuPinLed
PwmLed(chip) == IF chip \in Ecus THEN EcuPwmLed ELSE NoneYet

PanelInit == [leds  |-> [l \in {"dout0", "dout1", "led", "buzz"} |-> 0],
              pins  |-> NoneYet,
              pwm   |-> NoneYet,
              tx    |-> 0,
              text  |-> <<>>,
              badge |-> Healthy]

QtInit == [rows |-> <<>>, filter |-> AllIds, panel |-> [c \in Chips |-> PanelInit]]

\* set_brightness
SetLed(p, leds, name, v) ==
  IF name \in DOMAIN leds THEN [p EXCEPT !.leds[leds[name]] = Clamp(v, Full)] ELSE p

\* set_pin_state and set_pwm of the Nano picture
NanoPin(p, e) == IF e.pin \in Ports THEN [p EXCEPT !.pins = Put(@, e.pin, e.val # 0)] ELSE p
NanoPwm(p, e) == IF e.pin \in Ports THEN [p EXCEPT !.pwm = Put(@, e.pin, Clamp(e.duty, Full))] ELSE p

\* Mutant: a pin with an LED does not reach the Nano.
OnPinChanged_Led(p, e) ==
  IF e.pin \in DOMAIN PinLed(e.chip)
    THEN SetLed(p, PinLed(e.chip), e.pin, IF e.val # 0 THEN Full ELSE 0) ELSE NanoPin(p, e)

OnPinChanged(p, e) ==
  NanoPin(SetLed(p, PinLed(e.chip), e.pin, IF e.val # 0 THEN Full ELSE 0), e)

\* Only the ECU panels listen to PWM and to the CAN state.
OnPwmChanged(p, e) ==
  IF e.chip \in Ecus THEN NanoPwm(SetLed(p, PwmLed(e.chip), e.pin, e.duty), e) ELSE p

OnCanStateChanged(p, s, e) ==
  IF e.chip \in Ecus THEN [p EXCEPT !.badge = s.canState[e.chip]] ELSE p

\* ----------------------------------------------------------------- console

\* An escape sequence, and the CR of a CR LF, is one character: the code strips
\* them event by event, so one that two UART events share is outside the model.
Strip(data) == KeptIn(data, Characters \ {Escape})

Ends(text) == {i \in DOMAIN text : text[i] = Newline}

\* blockCount()
BlockCount(text) == Cardinality(Ends(text)) + 1

\* QPlainTextEdit drops whole lines from the front beyond BlockMax.
EvictBlocks(text) ==
  LET ends   == Ends(text)
      excess == BlockCount(text) - BlockMax
      cut    == CHOOSE i \in ends : Cardinality({j \in ends : j <= i}) = excess
  IN IF excess > 0 THEN SubSeq(text, cut + 1, Len(text)) ELSE text

\* characterCount() counts the end of the document as well.
CharacterCount(text) == Len(text) + 1

\* Mutant: the newest characters are cut.
Trim_Back(text) ==
  IF CharacterCount(text) > ConsoleMax + ConsoleSlack
    THEN SubSeq(text, 1, ConsoleMax)
    ELSE text

Trim(text) ==
  IF CharacterCount(text) > ConsoleMax + ConsoleSlack
    THEN SubSeq(text, CharacterCount(text) - ConsoleMax + 1, Len(text))
    ELSE text

ConsoleAppend(text, data) ==
  IF Strip(data) = <<>> THEN text ELSE Trim(EvictBlocks(text \o Strip(data)))

OnUartAppended(p, e) ==
  [p EXCEPT !.text = ConsoleAppend(@, Field(e, "data", <<>>)), !.tx = PulseTicks]

\* decay_uart
Decay(p) == [p EXCEPT !.tx = IF @ > 0 THEN @ - 1 ELSE 0]

\* ----------------------------------------------------------- CAN monitor

Matches(w, e) == w.filter = AllIds \/ e.id \in w.filter

AppendRow(rows, e) ==
  IF Len(rows) + 1 > RowMax THEN Append(Tail(rows), e) ELSE Append(rows, e)

OnFrame(w, e) == IF Matches(w, e) THEN [w EXCEPT !.rows = AppendRow(@, e)] ELSE w

\* The rows after a pass over the log that starts with the rows given.
Fill(w, first, log) ==
  LET rows[i \in 0..Len(log)] == IF i = 0 THEN first
                                 ELSE IF Matches(w, log[i]) THEN AppendRow(rows[i-1], log[i])
                                 ELSE rows[i-1]
  IN rows[Len(log)]

\* Mutant: the old rows stay.
Refresh_KeepRows(w, s) == [w EXCEPT !.rows = Fill(w, @, s.canLog)]

Refresh(w, s) == [w EXCEPT !.rows = Fill(w, <<>>, s.canLog)]

OnFilterText(w, s, ids) == Refresh([w EXCEPT !.filter = ids], s)

\* ------------------------------------------------------------- the signals

QtHears(w, s, e) ==
  CASE e.t = "pin"       -> [w EXCEPT !.panel[e.chip] = OnPinChanged(@, e)]
    [] e.t = "pwm"       -> [w EXCEPT !.panel[e.chip] = OnPwmChanged(@, e)]
    [] e.t = "uart"      -> [w EXCEPT !.panel[e.chip] = OnUartAppended(@, e)]
    [] e.t = "can_state" -> [w EXCEPT !.panel[e.chip] = OnCanStateChanged(@, s, e)]
    [] e.t = "can_tx"    -> OnFrame(w, e)
    [] OTHER             -> w
=============================================================================
