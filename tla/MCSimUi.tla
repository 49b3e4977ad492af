------------------------------ MODULE MCSimUi ------------------------------
(***************************************************************************)
(* An instance of SimUi: one ECU and the MCU, logs, tables and consoles of *)
(* a few entries, and events chosen so that every bound is passed and      *)
(* every table lookup has a hit and a miss.                                *)
(***************************************************************************)
EXTENDS SimUi

Both    == {"ecu1", "mcu"}
OneEcu  == {"ecu1"}
Windows == {"qml", "widgets"}

Frame(i) == [t |-> "can_tx", id |-> i]
PinIs(c, p, v) == [t |-> "pin", chip |-> c, pin |-> p, val |-> v]
Duty(p, d) == [t |-> "pwm", chip |-> "ecu1", pin |-> p, duty |-> d]
Text(c, d) == [t |-> "uart", chip |-> c, data |-> d]

MCEvents ==
  [qml |-> {Frame(1), Junk, PinIs("ecu1", "PB5", 1), Duty("PB5", 4),
            [t |-> "lcd", chip |-> "mcu", line0 |-> <<"a", "b", "c">>],
            [t |-> "chipstat", chip |-> "mcu", hex |-> "h", free |-> 5],
            [t |-> "chipstat", chip |-> "mcu", free |-> 7]},
   widgets |-> {Frame(1), Frame(2),
            PinIs("ecu1", "PD3", 1), PinIs("mcu", "PE0", 1), Duty("PD3", 140),
            [t |-> "can_state", chip |-> "ecu1", tec |-> 128, rec |-> 0, state |-> "passive"],
            [t |-> "pin", pin |-> "PB5", val |-> 1],
            Text("ecu1", <<1, 2>>), Text("ecu1", <<9, 3, 0>>)}]

MCPorts   == {"PB5", "PD3", "PD6"}
MCTargets == {[chip |-> "ecu1", kind |-> "pin", name |-> "PB5"],
              [chip |-> "ecu1", kind |-> "adc", name |-> 0]}
MCButtons == {[chip |-> "ecu1", pin |-> "A4"], [chip |-> "mcu", pin |-> "D8"]}
MCKnobs   == {[chip |-> "ecu1", ch |-> 0]}
MCInputs  == {2, 9}
MCSpeeds  == {-1, 2}
MCFilters == {{1}, {2}, AllIds}
\* A slot that sends one command, one that may send none, and one that asks
\* for a file first.
MCSlots   == {"unloadChip", "injectCan", "openLoadAllDialog"}
MCTyped   == {<<>>, <<1>>}
=============================================================================
