------------------------------ MODULE SimStore ------------------------------
(***************************************************************************)
(* SimState (state.py), the one store of the UI, as a record that events   *)
(* update.  A dictionary of the code is a function whose domain are the    *)
(* keys written so far, and an event is a record whose domain are the      *)
(* fields the engine sent.  Each Update is the method of that name; the    *)
(* signals it emits are the views' business (QmlView, QtView).             *)
(***************************************************************************)
EXTENDS Integers, Sequences, SequencesExt

CONSTANTS Chips,     \* CHIPS
          AdcMax,    \* 1023
          Channels,  \* 0..7
          LogMax,    \* 5000: longer than this, a log is cut ...
          LogKeep    \* 4000: ... to this

ASSUME StoreAssumption == /\ AdcMax \in Nat
                          /\ {LogMax, LogKeep} \subseteq Nat
                          /\ LogKeep <= LogMax

Field(r, f, default) == IF f \in DOMAIN r THEN r[f] ELSE default

Put(d, k, v) == [x \in DOMAIN d \cup {k} |-> IF x = k THEN v ELSE d[x]]

NoneYet == [x \in {} |-> 0]

\* The elements of s that lie in S, in their order.
KeptIn(s, S) ==
  LET kept[i \in 0..Len(s)] == IF i = 0 THEN <<>>
                               ELSE IF s[i] \in S THEN Append(kept[i-1], s[i]) ELSE kept[i-1]
  IN kept[Len(s)]

Clamp(v, hi) == IF v < 0 THEN 0 ELSE IF v > hi THEN hi ELSE v

NoStat   == [hex |-> "", free |-> 0]
Healthy  == [tec |-> 0, rec |-> 0, state |-> "active"]

EmptyStore ==
  [pins     |-> [c \in Chips |-> NoneYet],
   pwm      |-> [c \in Chips |-> NoneYet],
   adc      |-> [c \in Chips |-> NoneYet],
   canState |-> [c \in Chips |-> Healthy],
   stat     |-> [c \in Chips |-> NoStat],
   lcd      |-> NoneYet,
   canLog   |-> <<>>,
   log      |-> <<>>]

\* The guard at the head of a mutator: the fields without which it returns
\* early, and emits nothing.
Required(e) == CASE e.t = "pin" -> {"chip", "pin", "val"}
                 [] e.t = "pwm" -> {"chip", "pin", "duty"}
                 [] e.t \in {"uart", "can_state", "lcd", "chipstat"} -> {"chip"}
                 [] OTHER -> {}

Complete(e) == Required(e) \subseteq DOMAIN e

UpdatePin(s, e) == [s EXCEPT !.pins[e.chip] = Put(@, e.pin, e.val)]

UpdatePwm(s, e) == [s EXCEPT !.pwm[e.chip] = Put(@, e.pin, e.duty)]

Cut(q) == IF Len(q) > LogMax THEN SubSeq(q, Len(q) - LogKeep + 1, Len(q)) ELSE q

UpdateCanTx(s, e) == [s EXCEPT !.canLog = Cut(Append(@, e))]

UpdateLog(s, e) == [s EXCEPT !.log = Cut(Append(@, e))]

UpdateCanState(s, e) ==
  [s EXCEPT !.canState[e.chip] = [tec   |-> Field(e, "tec", 0),
                                  rec   |-> Field(e, "rec", 0),
                                  state |-> Field(e, "state", "active")]]

UpdateLcd(s, e) ==
  [s EXCEPT !.lcd = Put(@, e.chip, <<Field(e, "line0", <<>>), Field(e, "line1", <<>>)>>)]

\* Mutant: a field the event lacks is reset.
UpdateChipStat_Reset(s, e) ==
  [s EXCEPT !.stat[e.chip] = [f \in DOMAIN @ |-> Field(e, f, NoStat[f])]]

\* A field the event lacks keeps its value.
UpdateChipStat(s, e) ==
  [s EXCEPT !.stat[e.chip] = [f \in DOMAIN @ |-> Field(e, f, @[f])]]

UpdateAdc(s, chip, ch, v) ==
  IF ch \in Channels THEN [s EXCEPT !.adc[chip] = Put(@, ch, Clamp(v, AdcMax))]
                     ELSE s

\* The mutator the event's signal is connected to; update_uart retains
\* nothing and other types have no signal.
Update(s, e) == CASE e.t = "pin"       -> UpdatePin(s, e)
                  [] e.t = "pwm"       -> UpdatePwm(s, e)
                  [] e.t = "can_tx"    -> UpdateCanTx(s, e)
                  [] e.t = "can_state" -> UpdateCanState(s, e)
                  [] e.t = "lcd"       -> UpdateLcd(s, e)
                  [] e.t = "log"       -> UpdateLog(s, e)
                  [] e.t = "chipstat"  -> UpdateChipStat(s, e)
                  [] OTHER             -> s

Pin(s, chip, pin) == Field(s.pins[chip], pin, 0)
Pwm(s, chip, pin) == Field(s.pwm[chip], pin, 0)
=============================================================================
