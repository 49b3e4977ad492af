------------------------------ MODULE QmlView ------------------------------
(***************************************************************************)
(* What the QML board sees of the store: QmlBridge (qml_bridge.py), which  *)
(* caches three dictionaries behind dirty flags, mirrors the LCD rows and  *)
(* samples the plotter's traces (plot_buffers.py) on a timer.  Each        *)
(* operator is a slot or a property of the bridge, on a record that holds  *)
(* its fields; the caches have the names of the store's dictionaries.      *)
(***************************************************************************)
EXTENDS SimStore

CONSTANTS LcdCols,   \* LCD_COLS
          FramesMax, \* 1000: the frames the QML list shows
          BufLen,    \* sample_hz * window_s: the samples of a trace
          Targets    \* _plot_targets: records [chip, kind, name]

\* The list is shorter than what is left of a log that was cut.
ASSUME QmlAssumption == /\ {LcdCols, FramesMax, BufLen} \subseteq Nat \ {0}
                        /\ FramesMax <= LogKeep

Sections == {"pins", "pwm", "adc"}

QmlInit == [dirty |-> Sections,
            cache |-> [k \in Sections |-> NoneYet],
            lcd   |-> NoneYet,
            running |-> TRUE,
            speed |-> 1,
            trace |-> [x \in Targets |-> <<>>],
            lastTick |-> 0]

\* ljust and slice: exactly LcdCols cells.
Fit(row) == [i \in 1..LcdCols |-> IF i <= Len(row) THEN row[i] ELSE " "]

OnLcdChanged(q, e) ==
  [q EXCEPT !.lcd = Put(@, e.chip, <<Fit(Field(e, "line0", <<>>)), Fit(Field(e, "line1", <<>>))>>)]

\* Mutant: a section that was read once is never marked again.
MarkDirty_NotIfCached(q, k) ==
  IF q.cache[k] = NoneYet THEN [q EXCEPT !.dirty = @ \cup {k}] ELSE q

MarkDirty(q, k) == [q EXCEPT !.dirty = @ \cup {k}]

\* The slot each signal of the store is connected to; the other signals only
\* notify QML, which then reads the store.
QmlHears(q, e) == CASE e.t = "pin" -> MarkDirty(q, "pins")
                    [] e.t = "pwm" -> MarkDirty(q, "pwm")
                    [] e.t = "lcd" -> OnLcdChanged(q, e)
                    [] OTHER       -> q

\* A read of pinStates, pwmDuties or adcValues.
ReadSection(q, s, k) ==
  IF k \in q.dirty THEN [q EXCEPT !.cache[k] = s[k], !.dirty = @ \ {k}] ELSE q

Newest(seq, n) == SubSeq(seq, IF Len(seq) > n THEN Len(seq) - n + 1 ELSE 1, Len(seq))

CanFrames(s) == Newest(s.canLog, FramesMax)

\* ---------------------------------------------------------------- plotter

\* _read: an adc channel, a pin or a duty that was never written reads 0.
Sample(s, x) == CASE x.kind = "pin" -> Pin(s, x.chip, x.name)
                  [] x.kind = "pwm" -> Pwm(s, x.chip, x.name)
                  [] x.kind = "adc" -> Field(s.adc[x.chip], x.name, 0)

\* tick: the deque of each trace drops its oldest sample when it is full.
PlotTick(q, s, now) ==
  [q EXCEPT !.trace = [x \in Targets |-> Newest(Append(@[x], [at |-> now, v |-> Sample(s, x)]), BufLen)],
            !.lastTick = now]

\* series: times relative to the last tick.
Series(q, x) == [i \in DOMAIN q.trace[x] |->
                   [q.trace[x][i] EXCEPT !.at = @ - q.lastTick]]
=============================================================================
