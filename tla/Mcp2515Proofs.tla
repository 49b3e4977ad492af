--------------------------- MODULE Mcp2515Proofs ---------------------------
(***************************************************************************)
(* Theorems about one controller, for every set of frames, every limit and *)
(* every set of inputs.  The lemmas follow Mcp2515Core function by         *)
(* function; each says that a handler returns a controller again and what  *)
(* it does to the INT pin (IntOk) and to the error bits (EflgOk).  The     *)
(* second part says what bus traffic may do to the registers (Traffic),    *)
(* which the action properties follow from.                                *)
(***************************************************************************)
EXTENDS Mcp2515, TLAPS

IntOk(c)  == c.int = (c.intf \cap c.inte # {})
EflgOk(c) == c.eflg \cap ErrBits = DerivedErrBits(c.tec, c.rec)

\* Same interrupt registers: what a handler that leaves them alone preserves.
SameInt(c, d) == d.int = c.int /\ d.intf = c.intf /\ d.inte = c.inte

-----------------------------------------------------------------------------

LEMMA ResetGood == ResetState \in Controller /\ IntOk(ResetState) /\ EflgOk(ResetState)
<1>1. ResetState \in Controller
  BY FramesAssumption, LimitsAssumption
     DEF ResetState, Controller, Modes, RxModes, IntBits, OvrBits, ErrBits
<1>2. IntOk(ResetState)
  BY DEF ResetState, IntOk
<1>3. EflgOk(ResetState)
  BY LimitsAssumption DEF ResetState, EflgOk, DerivedErrBits, ErrBits
<1>4. QED BY <1>1, <1>2, <1>3

\* update_int_pin makes the pin coherent whatever it was before.
LEMMA UpdateIntPinGood ==
  ASSUME NEW c \in Controller
  PROVE  /\ UpdateIntPin(c) \in Controller
         /\ IntOk(UpdateIntPin(c))
         /\ UpdateIntPin(c).tec = c.tec /\ UpdateIntPin(c).rec = c.rec
         /\ UpdateIntPin(c).eflg = c.eflg
BY DEF UpdateIntPin, Controller, IntOk

\* update_error_state makes the error bits the derived ones and touches no
\* interrupt register.
LEMMA UpdateErrorStateGood ==
  ASSUME NEW c \in Controller
  PROVE  /\ UpdateErrorState(c) \in Controller
         /\ EflgOk(UpdateErrorState(c))
         /\ SameInt(c, UpdateErrorState(c))
<1> DEFINE d == UpdateErrorState(c)
<1>1. DerivedErrBits(c.tec, c.rec) \subseteq ErrBits
  BY DEF DerivedErrBits
<1>2. OvrBits \cap ErrBits = {}
  BY DEF OvrBits, ErrBits
<1>3. d \in Controller /\ SameInt(c, d) /\ d.tec = c.tec /\ d.rec = c.rec
      /\ d.eflg = (c.eflg \cap OvrBits) \cup DerivedErrBits(c.tec, c.rec)
  BY <1>1 DEF UpdateErrorState, Controller, SameInt
<1>4. EflgOk(d)
  BY <1>1, <1>2, <1>3 DEF EflgOk
<1>5. QED BY <1>3, <1>4

\* raise_error_flags ends in update_int_pin.
LEMMA RaiseErrorFlagsGood ==
  ASSUME NEW c \in Controller, EflgOk(c), NEW flags \in SUBSET IntBits
  PROVE  /\ RaiseErrorFlags(c, flags) \in Controller
         /\ IntOk(RaiseErrorFlags(c, flags))
         /\ EflgOk(RaiseErrorFlags(c, flags))
<1> DEFINE d == [c EXCEPT !.intf = @ \cup flags]
<1>1. d \in Controller /\ d.tec = c.tec /\ d.rec = c.rec /\ d.eflg = c.eflg
  BY DEF Controller
<1>2. RaiseErrorFlags(c, flags) = UpdateIntPin(d)
  BY DEF RaiseErrorFlags
<1>3. QED
  BY <1>1, <1>2, UpdateIntPinGood DEF EflgOk

LEMMA SaturatingAddType ==
  ASSUME NEW a \in 0..BusOffLimit, NEW b \in Nat
  PROVE  SaturatingAdd(a, b) \in 0..BusOffLimit
BY LimitsAssumption DEF SaturatingAdd

\* Each injected error event ends with coherent pin and derived error bits.
LEMMA ErrorEventsGood ==
  ASSUME NEW c \in Controller, NEW count \in Nat
  PROVE  \A d \in {InjectTxErrors(c, count), InjectRxErrors(c, count), ForceBusOff(c)} :
           d \in Controller /\ IntOk(d) /\ EflgOk(d)
<1> DEFINE t == [c EXCEPT !.tec = SaturatingAdd(@, TxErrorStep * count)]
           r == [c EXCEPT !.rec = SaturatingAdd(@, count)]
           o == [c EXCEPT !.tec = BusOffLimit]
           flags == {"ERRIF", "MERRF"}
<1>1. TxErrorStep * count \in Nat
  BY LimitsAssumption
<1>2. c.tec \in 0..BusOffLimit /\ c.rec \in 0..BusOffLimit
  BY DEF Controller
<1>3. /\ SaturatingAdd(c.tec, TxErrorStep * count) \in 0..BusOffLimit
      /\ SaturatingAdd(c.rec, count) \in 0..BusOffLimit
      /\ BusOffLimit \in 0..BusOffLimit
  <2> DEFINE k == TxErrorStep * count
  <2> HIDE DEF k
  <2>1. k \in Nat
    BY <1>1 DEF k
  <2>2. SaturatingAdd(c.tec, k) \in 0..BusOffLimit
    BY <2>1, <1>2, SaturatingAddType
  <2>3. SaturatingAdd(c.rec, count) \in 0..BusOffLimit
    BY <1>2, SaturatingAddType
  <2>4. BusOffLimit \in 0..BusOffLimit
    BY LimitsAssumption
  <2>5. QED BY <2>2, <2>3, <2>4 DEF k
<1>4. t \in Controller /\ r \in Controller /\ o \in Controller
  BY <1>3 DEF Controller
<1>5. flags \in SUBSET IntBits /\ {"ERRIF"} \in SUBSET IntBits
  BY DEF IntBits
<1>6. \A d \in {t, r, o} : UpdateErrorState(d) \in Controller /\ EflgOk(UpdateErrorState(d))
  BY <1>4, UpdateErrorStateGood
<1>7. /\ InjectTxErrors(c, count) = RaiseErrorFlags(UpdateErrorState(t), flags)
      /\ InjectRxErrors(c, count) = RaiseErrorFlags(UpdateErrorState(r), {"ERRIF"})
      /\ ForceBusOff(c) = RaiseErrorFlags(UpdateErrorState(o), flags)
  BY DEF InjectTxErrors, InjectRxErrors, ForceBusOff
<1> HIDE DEF t, r, o, flags
<1>8. QED
  BY <1>5, <1>6, <1>7, RaiseErrorFlagsGood

LEMMA RecoverBusOffGood ==
  ASSUME NEW c \in Controller
  PROVE  /\ RecoverBusOff(c) \in Controller
         /\ EflgOk(RecoverBusOff(c))
         /\ SameInt(c, RecoverBusOff(c))
<1> DEFINE d == [c EXCEPT !.tec = 0, !.rec = 0]
<1>1. d \in Controller /\ SameInt(c, d)
  <2>1. 0 \in 0..BusOffLimit
    BY LimitsAssumption
  <2>2. d \in Controller
    BY <2>1 DEF Controller
  <2>3. SameInt(c, d)
    BY DEF Controller, SameInt
  <2>4. QED BY <2>2, <2>3
<1>2. RecoverBusOff(c) = UpdateErrorState(d)
  BY DEF RecoverBusOff
<1> HIDE DEF d
<1>3. QED
  BY <1>1, <1>2, UpdateErrorStateGood DEF SameInt

-----------------------------------------------------------------------------
(* From here on a handler is shown to take a controller to a controller    *)
(* and to keep whichever of IntOk and EflgOk held before.                  *)

Keeps(c, d) ==
  /\ d \in Controller
  /\ IntOk(c) => IntOk(d)
  /\ EflgOk(c) => EflgOk(d)

\* A handler that touches neither the interrupt registers nor the error
\* registers keeps both.
LEMMA SameRegsKeeps ==
  ASSUME NEW c \in Controller, NEW d \in Controller, SameInt(c, d),
         d.tec = c.tec, d.rec = c.rec, d.eflg \cap ErrBits = c.eflg \cap ErrBits
  PROVE  Keeps(c, d)
BY DEF Keeps, SameInt, IntOk, EflgOk

LEMMA RecoverBusOffKeeps ==
  ASSUME NEW c \in Controller
  PROVE  Keeps(c, RecoverBusOff(c))
BY RecoverBusOffGood DEF Keeps, SameInt, IntOk

LEMMA UpdateErrorStateKeeps ==
  ASSUME NEW c \in Controller
  PROVE  Keeps(c, UpdateErrorState(c))
BY UpdateErrorStateGood DEF Keeps, SameInt, IntOk

LEMMA UpdateIntPinKeeps ==
  ASSUME NEW c \in Controller
  PROVE  Keeps(c, UpdateIntPin(c))
BY UpdateIntPinGood DEF Keeps, EflgOk

LEMMA RxIfType == \A b \in RxBufs : RxIf(b) \in IntBits
BY DEF RxIf, IntBits

LEMMA TxIfType == \A n \in TxBufs : TxIf(n) \in IntBits
BY DEF TxIf, IntBits

\* Writes that end in update_int_pin: CANINTF, CANINTE, READ RX, deposit.
LEMMA WriteIntKeeps ==
  ASSUME NEW c \in Controller, NEW d \in Controller,
         d.tec = c.tec, d.rec = c.rec, d.eflg = c.eflg
  PROVE  Keeps(c, UpdateIntPin(d)) /\ IntOk(UpdateIntPin(d))
<1>1. UpdateIntPin(d) \in Controller /\ IntOk(UpdateIntPin(d))
      /\ UpdateIntPin(d).tec = c.tec /\ UpdateIntPin(d).rec = c.rec
      /\ UpdateIntPin(d).eflg = c.eflg
  BY UpdateIntPinGood
<1>2. QED BY <1>1 DEF Keeps, EflgOk

LEMMA DepositKeeps ==
  ASSUME NEW c \in Controller, NEW b \in RxBufs, NEW f \in Frames
  PROVE  Keeps(c, Deposit(c, b, f)) /\ IntOk(Deposit(c, b, f))
<1> DEFINE d == [c EXCEPT !.rxbuf[b] = f, !.intf = @ \cup {RxIf(b)}]
<1>1. d \in Controller /\ d.tec = c.tec /\ d.rec = c.rec /\ d.eflg = c.eflg
  BY RxIfType DEF Controller
<1>2. Deposit(c, b, f) = UpdateIntPin(d)
  BY DEF Deposit
<1> HIDE DEF d
<1>3. QED BY <1>1, <1>2, WriteIntKeeps

\* Routing only ever adds overrun bits to EFLG.
LEMMA RouteInboundKeeps ==
  ASSUME NEW c \in Controller, NEW f \in Frames
  PROVE  Keeps(c, RouteInbound(c, f))
<1> DEFINE d == [c EXCEPT !.eflg = @ \cup Overruns(c, f)]
<1>1. Overruns(c, f) \subseteq OvrBits /\ OvrBits \cap ErrBits = {}
  BY DEF Overruns, OvrBits, ErrBits
<1>2. d \in Controller /\ SameInt(c, d) /\ d.tec = c.tec /\ d.rec = c.rec
      /\ d.eflg = c.eflg \cup Overruns(c, f)
  BY <1>1 DEF Controller, SameInt
<1>3. Keeps(c, d)
  BY <1>1, <1>2, SameRegsKeeps
<1>4. 0 \in RxBufs /\ 1 \in RxBufs
  BY DEF RxBufs
<1> HIDE DEF d
<1>5. RouteInbound(c, f) \in {Deposit(c, 0, f), Deposit(c, 1, f), d}
  BY DEF RouteInbound, d
<1>6. QED BY <1>3, <1>4, <1>5, DepositKeeps

LEMMA RxFrameKeeps ==
  ASSUME NEW c \in Controller, NEW f \in Frames
  PROVE  Keeps(c, RxFrame(c, f))
<1> DEFINE r == RouteInbound(c, f)
           d == [r EXCEPT !.rec = @ - 1]
<1>1. Keeps(c, r)
  BY RouteInboundKeeps
<1>2. r.rec = c.rec
  BY DEF RouteInbound, Deposit, UpdateIntPin, Controller
<1>3. Keeps(c, c)
  BY DEF Keeps
<1>4. ASSUME c.rec > 0 PROVE Keeps(c, UpdateErrorState(d))
  <2>1. c.rec - 1 \in 0..BusOffLimit
    BY <1>4, LimitsAssumption DEF Controller
  <2>2. r \in Controller
    BY <1>1 DEF Keeps
  <2> HIDE DEF r
  <2>3. d \in Controller /\ SameInt(r, d)
    BY <2>1, <2>2, <1>2 DEF Controller, SameInt
  <2> HIDE DEF d
  <2>4. UpdateErrorState(d) \in Controller /\ EflgOk(UpdateErrorState(d))
        /\ SameInt(d, UpdateErrorState(d))
    BY <2>3, UpdateErrorStateGood
  <2>5. QED BY <1>1, <2>3, <2>4 DEF Keeps, SameInt, IntOk
<1>5. RxFrame(c, f) \in {c, r} \/ (c.rec > 0 /\ RxFrame(c, f) = UpdateErrorState(d))
  BY DEF RxFrame
<1> HIDE DEF r, d
<1>6. QED BY <1>1, <1>3, <1>4, <1>5

-----------------------------------------------------------------------------
(* Transmission.                                                           *)

\* mark_tx_complete leaves the pin to its callers, so only EflgOk survives.
LEMMA CompleteTxKeeps ==
  ASSUME NEW c \in Controller, NEW n \in TxBufs
  PROVE  /\ CompleteTx(c, n) \in Controller
         /\ EflgOk(c) => EflgOk(CompleteTx(c, n))
<1> DEFINE d == [c EXCEPT !.txreq = @ \ {n}, !.intf = @ \cup {TxIf(n)}]
           e == [d EXCEPT !.tec = @ - 1]
<1>1. d \in Controller /\ d.tec = c.tec /\ d.rec = c.rec /\ d.eflg = c.eflg
  BY TxIfType DEF Controller
<1>2. EflgOk(c) => EflgOk(d)
  BY <1>1 DEF EflgOk
<1>3. ASSUME c.tec > 0
      PROVE  UpdateErrorState(e) \in Controller /\ EflgOk(UpdateErrorState(e))
  <2>1. c.tec - 1 \in 0..BusOffLimit
    BY <1>3, LimitsAssumption DEF Controller
  <2> HIDE DEF d
  <2>2. e \in Controller
    BY <2>1, <1>1 DEF Controller
  <2> HIDE DEF e
  <2>3. QED BY <2>2, UpdateErrorStateGood
<1>4. CompleteTx(c, n) = IF c.tec > 0 THEN UpdateErrorState(e) ELSE d
  BY DEF CompleteTx
<1> HIDE DEF d, e
<1>5. QED BY <1>1, <1>2, <1>3, <1>4

LEMMA DeliverNormalKeeps ==
  ASSUME NEW c \in Controller, NEW n \in TxBufs
  PROVE  /\ DeliverNormal(c, n) \in Controller
         /\ IntOk(DeliverNormal(c, n))
         /\ EflgOk(c) => EflgOk(DeliverNormal(c, n))
<1> DEFINE d == CompleteTx(c, n)
<1>1. d \in Controller /\ (EflgOk(c) => EflgOk(d))
  BY CompleteTxKeeps
<1>2. DeliverNormal(c, n) = UpdateIntPin(d)
  BY DEF DeliverNormal
<1> HIDE DEF d
<1>3. QED BY <1>1, <1>2, UpdateIntPinGood, UpdateIntPinKeeps DEF Keeps

LEMMA DeliverLoopbackKeeps ==
  ASSUME NEW c \in Controller, NEW n \in TxBufs
  PROVE  /\ DeliverLoopback(c, n) \in Controller
         /\ IntOk(DeliverLoopback(c, n))
         /\ EflgOk(c) => EflgOk(DeliverLoopback(c, n))
<1> DEFINE d == CompleteTx(c, n)
           e == RouteInbound(d, c.txbuf[n])
<1>1. d \in Controller /\ (EflgOk(c) => EflgOk(d))
  BY CompleteTxKeeps
<1>2. c.txbuf[n] \in Frames
  BY DEF Controller
<1>3. DeliverLoopback(c, n) = UpdateIntPin(e)
  BY DEF DeliverLoopback
<1> HIDE DEF d
<1>4. e \in Controller /\ (EflgOk(d) => EflgOk(e))
  BY <1>1, <1>2, RouteInboundKeeps DEF Keeps
<1> HIDE DEF e
<1>5. QED BY <1>1, <1>3, <1>4, UpdateIntPinGood, UpdateIntPinKeeps DEF Keeps

LEMMA RequestTxKeeps ==
  ASSUME NEW c \in Controller, NEW n \in TxBufs
  PROVE  Keeps(c, RequestTx(c, n))
<1> DEFINE d == [c EXCEPT !.txreq = @ \cup {n}]
<1>1. d \in Controller /\ SameInt(c, d) /\ d.tec = c.tec /\ d.rec = c.rec
      /\ d.eflg = c.eflg
  BY DEF Controller, SameInt
<1>2. RequestTx(c, n) \in {d, DeliverLoopback(d, n), DeliverNormal(d, n)}
  BY DEF RequestTx
<1>3. EflgOk(c) => EflgOk(d)
  BY <1>1 DEF EflgOk
<1> HIDE DEF d
<1>4. Keeps(c, d)
  BY <1>1, SameRegsKeeps
<1>5. QED
  BY <1>1, <1>2, <1>3, <1>4, DeliverLoopbackKeeps, DeliverNormalKeeps DEF Keeps

LEMMA RequestIfKeeps ==
  ASSUME NEW c \in Controller, NEW n \in TxBufs, NEW mask
  PROVE  Keeps(c, RequestIf(c, n, mask))
BY RequestTxKeeps DEF RequestIf, Keeps

LEMMA RtsKeeps ==
  ASSUME NEW c \in Controller, NEW mask
  PROVE  Keeps(c, Rts(c, mask))
<1> DEFINE c1 == RequestIf(c, 0, mask)
           c2 == RequestIf(c1, 1, mask)
<1>0. 0 \in TxBufs /\ 1 \in TxBufs /\ 2 \in TxBufs
  BY DEF TxBufs
<1>1. Keeps(c, c1)
  BY <1>0, RequestIfKeeps
<1>2. Rts(c, mask) = RequestIf(c2, 2, mask)
  BY DEF Rts
<1> HIDE DEF c1
<1>3. Keeps(c1, c2)
  BY <1>0, <1>1, RequestIfKeeps DEF Keeps
<1> HIDE DEF c2
<1>4. Keeps(c2, Rts(c, mask))
  BY <1>0, <1>2, <1>3, RequestIfKeeps DEF Keeps
<1>5. QED BY <1>1, <1>3, <1>4 DEF Keeps

\* What leaves the controller is a sequence of frames.
LEMMA EmittedType ==
  ASSUME NEW c \in Controller, NEW mask
  PROVE  RtsEmitted(c, mask) \in Seq(Frames)
<1> DEFINE c1 == RequestIf(c, 0, mask)
           c2 == RequestIf(c1, 1, mask)
<1>0. 0 \in TxBufs /\ 1 \in TxBufs /\ 2 \in TxBufs
  BY DEF TxBufs
<1>1. \A d \in Controller, n \in TxBufs : EmittedIf(d, n, mask) \in Seq(Frames)
  BY DEF EmittedIf, Emitted, Controller
<1>2. c1 \in Controller
  BY <1>0, RequestIfKeeps DEF Keeps
<1>3. RtsEmitted(c, mask) = EmittedIf(c, 0, mask) \o EmittedIf(c1, 1, mask)
                            \o EmittedIf(c2, 2, mask)
  BY DEF RtsEmitted
<1> HIDE DEF c1
<1>4. c2 \in Controller
  BY <1>0, <1>2, RequestIfKeeps DEF Keeps
<1> HIDE DEF c2
<1>5. QED BY <1>0, <1>1, <1>2, <1>3, <1>4

-----------------------------------------------------------------------------
(* Register writes, and the two halves of the next-state relation.         *)

LEMMA WriteCanctrlKeeps ==
  ASSUME NEW c \in Controller, NEW reqop
  PROVE  Keeps(c, WriteCanctrl(c, reqop))
<1> DEFINE d == IF reqop \in Modes THEN [c EXCEPT !.mode = reqop] ELSE c
<1>1. d \in Controller /\ SameInt(c, d) /\ d.tec = c.tec /\ d.rec = c.rec
      /\ d.eflg = c.eflg
  BY DEF Controller, SameInt
<1>2. WriteCanctrl(c, reqop) \in {d, RecoverBusOff(d)}
  BY DEF WriteCanctrl
<1> HIDE DEF d
<1>3. Keeps(c, d)
  BY <1>1, SameRegsKeeps
<1>4. Keeps(d, RecoverBusOff(d))
  BY <1>1, RecoverBusOffKeeps
<1>5. QED BY <1>2, <1>3, <1>4 DEF Keeps

LEMMA FirmwareKeeps ==
  ASSUME TypeOK, Firmware
  PROVE  /\ m' \in Controller
         /\ IntOk(m) => IntOk(m')
         /\ EflgOk(m) /\ EflgValues = {} => EflgOk(m')
         /\ out' \in Seq(Frames)
<1> USE DEF TypeOK, Quiet
<1>0. m \in Controller /\ <<>> \in Seq(Frames)
  OBVIOUS
<1> SUFFICES \/ Keeps(m, m') /\ out' \in Seq(Frames)
             \/ EflgValues # {} /\ m' \in Controller /\ (IntOk(m) => IntOk(m'))
                /\ out' \in Seq(Frames)
  BY DEF Keeps
<1>1. CASE Reset
  BY <1>1, ResetGood DEF Reset, Keeps
<1>2. CASE \E r \in ReqopValues : SetMode(r)
  BY <1>2, WriteCanctrlKeeps DEF SetMode
<1>3. CASE \E mask \in RtsMasks : RequestToSend(mask)
  BY <1>3, RtsKeeps, EmittedType DEF RequestToSend
<1>4. CASE \E mask \in RtsMasks : \E n \in mask : AbortTx(n)
  <2>1. PICK mask \in RtsMasks : \E n \in mask : AbortTx(n)
    BY <1>4
  <2>2. PICK n \in mask : AbortTx(n)
    BY <2>1
  <2>3. m' \in Controller /\ SameInt(m, m') /\ m'.tec = m.tec /\ m'.rec = m.rec
        /\ m'.eflg = m.eflg
    BY <1>0, <2>2 DEF AbortTx, CancelTx, Controller, SameInt
  <2>4. QED BY <2>2, <2>3, SameRegsKeeps DEF AbortTx
<1>5. CASE \E mask \in RtsMasks : \E n \in mask, f \in TxLoads : LoadTxBuffer(n, f)
  <2>1. PICK mask \in RtsMasks : \E n \in mask, f \in TxLoads : LoadTxBuffer(n, f)
    BY <1>5
  <2>2. PICK n \in mask, f \in TxLoads : LoadTxBuffer(n, f)
    BY <2>1
  <2>3. n \in TxBufs /\ f \in Frames
    BY <2>2, InputsAssumption
  <2>4. m' \in Controller /\ SameInt(m, m') /\ m'.tec = m.tec /\ m'.rec = m.rec
        /\ m'.eflg = m.eflg
    BY <1>0, <2>2, <2>3 DEF LoadTxBuffer, LoadTx, Controller, SameInt
  <2>5. QED BY <2>2, <2>4, SameRegsKeeps DEF LoadTxBuffer
<1>6. CASE \E b \in RxBufs : ReadRxBuffer(b)
  <2>1. PICK b \in RxBufs : ReadRxBuffer(b)
    BY <1>6
  <2> DEFINE d == [m EXCEPT !.intf = @ \ {RxIf(b)}]
  <2>2. d \in Controller /\ d.tec = m.tec /\ d.rec = m.rec /\ d.eflg = m.eflg
    BY <1>0 DEF Controller
  <2>3. m' = UpdateIntPin(d)
    BY <2>1 DEF ReadRxBuffer, ReadRx
  <2> HIDE DEF d
  <2>4. QED BY <1>0, <2>1, <2>2, <2>3, WriteIntKeeps DEF ReadRxBuffer
<1>7. CASE \E i \in InteValues : SetInte(i)
  <2>1. PICK i \in InteValues : SetInte(i)
    BY <1>7
  <2> DEFINE d == [m EXCEPT !.inte = i]
  <2>2. d \in Controller /\ d.tec = m.tec /\ d.rec = m.rec /\ d.eflg = m.eflg
    BY <1>0, <2>1, InputsAssumption DEF Controller
  <2>3. m' = UpdateIntPin(d)
    BY <2>1 DEF SetInte, WriteCaninte
  <2> HIDE DEF d
  <2>4. QED BY <1>0, <2>1, <2>2, <2>3, WriteIntKeeps DEF SetInte
<1>8. ASSUME NEW flags \in SUBSET IntBits
      PROVE  Keeps(m, WriteCanintf(m, flags))
  <2> DEFINE d == [m EXCEPT !.intf = flags]
  <2>1. d \in Controller /\ d.tec = m.tec /\ d.rec = m.rec /\ d.eflg = m.eflg
    BY <1>0 DEF Controller
  <2>2. WriteCanintf(m, flags) = UpdateIntPin(d)
    BY DEF WriteCanintf
  <2> HIDE DEF d
  <2>3. QED BY <1>0, <2>1, <2>2, WriteIntKeeps
<1>9. CASE \E i \in IntfValues : SetIntf(i)
  BY <1>8, <1>9, InputsAssumption DEF SetIntf
<1>10. CASE \E i \in IntfClears : ClearIntf(i)
  <2>1. PICK i \in IntfClears : ClearIntf(i)
    BY <1>10
  <2>2. m.intf \ i \in SUBSET IntBits
    BY <1>0 DEF Controller
  <2>3. QED BY <2>1, <2>2, <1>8 DEF ClearIntf
<1>11. CASE \E o \in OvrBits : ClearOverrun(o)
  <2>1. PICK o \in OvrBits : ClearOverrun(o)
    BY <1>11
  <2>2. m' \in Controller /\ SameInt(m, m') /\ m'.tec = m.tec /\ m'.rec = m.rec
        /\ m'.eflg = m.eflg \ {o}
    BY <1>0, <2>1 DEF ClearOverrun, WriteEflg, Controller, SameInt
  <2>3. m'.eflg \cap ErrBits = m.eflg \cap ErrBits
    BY <2>2 DEF OvrBits, ErrBits
  <2>4. Keeps(m, m')
    BY <1>0, <2>2, <2>3, SameRegsKeeps
  <2>5. QED BY <2>1, <2>4 DEF ClearOverrun
<1>12. CASE \E e \in EflgValues : SetEflg(e)
  <2>1. PICK e \in EflgValues : SetEflg(e)
    BY <1>12
  <2>2. m' \in Controller /\ SameInt(m, m')
    BY <1>0, <2>1, InputsAssumption DEF SetEflg, WriteEflg, Controller, SameInt
  <2>3. QED BY <2>1, <2>2 DEF SetEflg, SameInt, IntOk
<1>13. CASE \E v \in RxbCtrlValues : SetRxbCtrl(v[1], v[2], v[3])
  <2>1. PICK v \in RxbCtrlValues : SetRxbCtrl(v[1], v[2], v[3])
    BY <1>13
  <2>2. v[1] \in RxBufs /\ v[2] \in RxModes /\ v[3] \in BOOLEAN
    BY <2>1, InputsAssumption
  <2>3. m' \in Controller /\ SameInt(m, m') /\ m'.tec = m.tec /\ m'.rec = m.rec
        /\ m'.eflg = m.eflg
    BY <1>0, <2>1, <2>2 DEF SetRxbCtrl, WriteRxbCtrl, Controller, SameInt
  <2>4. QED BY <2>1, <2>3, SameRegsKeeps DEF SetRxbCtrl
<1>14. CASE \E v \in FilterValues : SetFilters(v[1], v[2])
  <2>1. PICK v \in FilterValues : SetFilters(v[1], v[2])
    BY <1>14
  <2>2. v[1] \in RxBufs /\ v[2] \in SUBSET Frames
    BY <2>1, InputsAssumption
  <2>3. m' \in Controller /\ SameInt(m, m') /\ m'.tec = m.tec /\ m'.rec = m.rec
        /\ m'.eflg = m.eflg
    BY <1>0, <2>1, <2>2 DEF SetFilters, WriteFilters, Controller, SameInt
  <2>4. QED BY <2>1, <2>3, SameRegsKeeps DEF SetFilters
<1>15. QED
  BY <1>1, <1>2, <1>3, <1>4, <1>5, <1>6, <1>7, <1>9, <1>10, <1>11, <1>12,
     <1>13, <1>14 DEF Firmware

LEMMA EnvironmentKeeps ==
  ASSUME TypeOK, Environment
  PROVE  Keeps(m, m') /\ out' \in Seq(Frames)
<1>0. m \in Controller /\ <<>> \in Seq(Frames)
  BY DEF TypeOK
<1> USE DEF Quiet
<1>1. CASE \E f \in BusFrames : Receive(f)
  <2>1. PICK f \in BusFrames : Receive(f)
    BY <1>1
  <2>2. f \in Frames
    BY InputsAssumption
  <2>3. QED BY <1>0, <2>1, <2>2, RxFrameKeeps DEF Receive
<1>2. CASE \E k \in ErrorCounts : TxErrors(k)
  BY <1>0, <1>2, InputsAssumption, ErrorEventsGood DEF TxErrors, Keeps
<1>3. CASE \E k \in ErrorCounts : RxErrors(k)
  BY <1>0, <1>3, InputsAssumption, ErrorEventsGood DEF RxErrors, Keeps
<1>4. CASE ForceOff
  BY <1>0, <1>4, ErrorEventsGood DEF ForceOff, Keeps
<1>5. CASE Recover
  BY <1>0, <1>5, RecoverBusOffKeeps DEF Recover
<1>6. QED BY <1>1, <1>2, <1>3, <1>4, <1>5 DEF Environment

-----------------------------------------------------------------------------

\* Every register holds a value of its range in every reachable state, for any
\* frames, limits and inputs.
THEOREM TypeCorrect == Spec => []TypeOK
<1>1. Init => TypeOK
  BY ResetGood DEF Init, TypeOK
<1>2. TypeOK /\ [Next]_vars => TypeOK'
  <2> SUFFICES ASSUME TypeOK, [Next]_vars PROVE TypeOK'
    OBVIOUS
  <2>1. CASE Firmware
    BY <2>1, FirmwareKeeps DEF TypeOK
  <2>2. CASE Environment
    BY <2>2, EnvironmentKeeps DEF TypeOK, Keeps
  <2>3. CASE UNCHANGED vars
    BY <2>3 DEF vars, TypeOK
  <2>4. QED BY <2>1, <2>2, <2>3 DEF Next
<1>3. QED BY <1>1, <1>2, PTL DEF Spec

\* The INT pin equals (CANINTF & CANINTE) # 0 in every reachable state, also
\* when the firmware writes CANINTF, CANINTE and EFLG as it likes.
THEOREM IntAlwaysCoherent == Spec => []IntCoherent
<1>1. Init => IntOk(m)
  BY ResetGood DEF Init
<1>2. TypeOK /\ IntOk(m) /\ [Next]_vars => IntOk(m)'
  <2> SUFFICES ASSUME TypeOK, IntOk(m), [Next]_vars PROVE IntOk(m')
    BY DEF IntOk
  <2>1. CASE Firmware
    BY <2>1, FirmwareKeeps
  <2>2. CASE Environment
    BY <2>2, EnvironmentKeeps DEF Keeps
  <2>3. CASE UNCHANGED vars
    BY <2>3 DEF vars, IntOk
  <2>4. QED BY <2>1, <2>2, <2>3 DEF Next
<1>3. IntOk(m) <=> IntCoherent
  BY DEF IntOk, IntCoherent
<1>4. QED BY <1>1, <1>2, <1>3, TypeCorrect, PTL DEF Spec

\* If the firmware writes EFLG only to clear overrun bits, the error bits are
\* in every reachable state the ones TEC and REC imply.
THEOREM EflgAlwaysDerived == (EflgValues = {}) /\ Spec => []EflgDerived
<1> SUFFICES ASSUME EflgValues = {} PROVE Spec => []EflgDerived
  OBVIOUS
<1>1. Init => EflgOk(m)
  BY ResetGood DEF Init
<1>2. TypeOK /\ EflgOk(m) /\ [Next]_vars => EflgOk(m)'
  <2> SUFFICES ASSUME TypeOK, EflgOk(m), [Next]_vars PROVE EflgOk(m')
    BY DEF EflgOk
  <2>1. CASE Firmware
    BY <2>1, FirmwareKeeps
  <2>2. CASE Environment
    BY <2>2, EnvironmentKeeps DEF Keeps
  <2>3. CASE UNCHANGED vars
    BY <2>3 DEF vars, EflgOk
  <2>4. QED BY <2>1, <2>2, <2>3 DEF Next
<1>3. EflgOk(m) <=> EflgDerived
  BY DEF EflgOk, EflgDerived
<1>4. QED BY <1>1, <1>2, <1>3, TypeCorrect, PTL DEF Spec

-----------------------------------------------------------------------------
(* What traffic may do.  A reception, or one transmission with its         *)
(* loopback, leaves the mode, clears no interrupt flag, keeps full buffers *)
(* and does not raise TEC.  All four pass from step to step of an RTS      *)
(* command.                                                                *)

Traffic(c, d) ==
  /\ d \in Controller
  /\ d.mode = c.mode
  /\ c.intf \subseteq d.intf
  /\ \A b \in RxBufs : Full(c, b) => d.rxbuf[b] = c.rxbuf[b]
  /\ d.tec <= c.tec

LEMMA TecNat == \A c \in Controller : c.tec \in Nat /\ c.rec \in Nat /\ c.tec <= BusOffLimit
BY LimitsAssumption DEF Controller

LEMMA TrafficTwice ==
  ASSUME NEW c \in Controller, NEW d, NEW e, Traffic(c, d), Traffic(d, e)
  PROVE  Traffic(c, e)
<1>1. d \in Controller /\ e \in Controller
  BY DEF Traffic
<1>2. c.tec \in Nat /\ d.tec \in Nat /\ e.tec \in Nat
  BY <1>1, TecNat
<1>3. QED BY <1>2 DEF Traffic, Full

LEMMA TrafficNone ==
  ASSUME NEW c \in Controller, NEW d \in Controller, d.mode = c.mode, d.intf = c.intf,
         d.rxbuf = c.rxbuf, d.tec = c.tec
  PROVE  Traffic(c, d)
BY TecNat DEF Traffic

LEMMA UpdateErrorStateTraffic ==
  ASSUME NEW c \in Controller
  PROVE  /\ Traffic(c, UpdateErrorState(c))
         /\ UpdateErrorState(c).txreq = c.txreq /\ UpdateErrorState(c).rxbuf = c.rxbuf
         /\ UpdateErrorState(c).tec = c.tec /\ UpdateErrorState(c).rec = c.rec
         /\ UpdateErrorState(c).intf = c.intf
<1> DEFINE d == UpdateErrorState(c)
<1>1. d \in Controller
  BY UpdateErrorStateGood
<1>2. /\ d.mode = c.mode /\ d.intf = c.intf /\ d.rxbuf = c.rxbuf /\ d.tec = c.tec
      /\ d.rec = c.rec /\ d.txreq = c.txreq
  BY DEF UpdateErrorState, Controller
<1> HIDE DEF d
<1>3. QED BY <1>1, <1>2, TrafficNone DEF d

LEMMA UpdateIntPinTraffic ==
  ASSUME NEW c \in Controller
  PROVE  /\ Traffic(c, UpdateIntPin(c))
         /\ UpdateIntPin(c).txreq = c.txreq /\ UpdateIntPin(c).rxbuf = c.rxbuf
         /\ UpdateIntPin(c).intf = c.intf
<1> DEFINE d == UpdateIntPin(c)
<1>1. d \in Controller
  BY UpdateIntPinGood
<1>2. /\ d.mode = c.mode /\ d.intf = c.intf /\ d.rxbuf = c.rxbuf /\ d.tec = c.tec
      /\ d.txreq = c.txreq
  BY DEF UpdateIntPin, Controller
<1> HIDE DEF d
<1>3. QED BY <1>1, <1>2, TrafficNone DEF d

LEMMA DepositTraffic ==
  ASSUME NEW c \in Controller, NEW b \in RxBufs, NEW f \in Frames, ~Full(c, b)
  PROVE  Traffic(c, Deposit(c, b, f)) /\ Deposit(c, b, f).txreq = c.txreq
<1> DEFINE d == [c EXCEPT !.rxbuf[b] = f, !.intf = @ \cup {RxIf(b)}]
<1>1. /\ d \in Controller /\ d.mode = c.mode /\ d.tec = c.tec /\ c.intf \subseteq d.intf
      /\ d.txreq = c.txreq /\ \A a \in RxBufs : a # b => d.rxbuf[a] = c.rxbuf[a]
  BY RxIfType DEF Controller
<1>2. Deposit(c, b, f) = UpdateIntPin(d)
  BY DEF Deposit
<1> HIDE DEF d
<1>3. Traffic(c, d)
  BY <1>1, TecNat DEF Traffic
<1>4. QED BY <1>1, <1>2, <1>3, UpdateIntPinTraffic, TrafficTwice

LEMMA RouteInboundTraffic ==
  ASSUME NEW c \in Controller, NEW f \in Frames
  PROVE  Traffic(c, RouteInbound(c, f)) /\ RouteInbound(c, f).txreq = c.txreq
<1> DEFINE d == [c EXCEPT !.eflg = @ \cup Overruns(c, f)]
<1>1. /\ d \in Controller /\ d.mode = c.mode /\ d.intf = c.intf /\ d.rxbuf = c.rxbuf
      /\ d.tec = c.tec /\ d.txreq = c.txreq
  BY DEF Controller, Overruns
<1> HIDE DEF d
<1>2. Traffic(c, d)
  BY <1>1, TrafficNone
<1>3. 0 \in RxBufs /\ 1 \in RxBufs
  BY DEF RxBufs
<1>4. CASE Rxb0Takes(c, f)
  <2>1. ~Full(c, 0) /\ RouteInbound(c, f) = Deposit(c, 0, f)
    BY <1>4 DEF Rxb0Takes, RouteInbound
  <2>2. QED BY <1>3, <2>1, DepositTraffic
<1>5. CASE ~Rxb0Takes(c, f) /\ Rxb1Takes(c, f)
  <2>1. ~Full(c, 1) /\ RouteInbound(c, f) = Deposit(c, 1, f)
    BY <1>5 DEF Rxb1Takes, RouteInbound
  <2>2. QED BY <1>3, <2>1, DepositTraffic
<1>6. CASE ~Rxb0Takes(c, f) /\ ~Rxb1Takes(c, f)
  <2>1. RouteInbound(c, f) = d
    BY <1>6 DEF RouteInbound, d
  <2>2. QED BY <1>1, <1>2, <2>1
<1>7. QED BY <1>4, <1>5, <1>6

LEMMA RxFrameTraffic ==
  ASSUME NEW c \in Controller, NEW f \in Frames
  PROVE  Traffic(c, RxFrame(c, f)) /\ (BusOff(c) => RxFrame(c, f) = c)
<1> DEFINE r == RouteInbound(c, f)
           d == [r EXCEPT !.rec = @ - 1]
<1>1. Traffic(c, r) /\ r \in Controller
  BY RouteInboundTraffic DEF Traffic
<1>2. r.rec = c.rec
  BY DEF RouteInbound, Deposit, UpdateIntPin, Controller
<1>3. ASSUME c.rec > 0 PROVE Traffic(c, UpdateErrorState(d))
  <2>1. c.rec - 1 \in 0..BusOffLimit
    BY <1>3, LimitsAssumption DEF Controller
  <2> HIDE DEF r
  <2>2. d \in Controller /\ d.mode = r.mode /\ d.intf = r.intf /\ d.rxbuf = r.rxbuf /\ d.tec = r.tec
    BY <1>1, <1>2, <2>1 DEF Controller
  <2> HIDE DEF d
  <2>3. Traffic(r, d) /\ Traffic(d, UpdateErrorState(d))
    BY <1>1, <2>2, TrafficNone, UpdateErrorStateTraffic
  <2>4. QED BY <1>1, <2>2, <2>3, TrafficTwice
<1>4. Traffic(c, c)
  BY TrafficNone
<1>5. RxFrame(c, f) \in {c, r} \/ (c.rec > 0 /\ RxFrame(c, f) = UpdateErrorState(d))
  BY DEF RxFrame
<1>6. BusOff(c) => RxFrame(c, f) = c
  BY DEF RxFrame, Deaf
<1> HIDE DEF r, d
<1>7. QED BY <1>1, <1>3, <1>4, <1>5, <1>6

LEMMA CompleteTxTraffic ==
  ASSUME NEW c \in Controller, NEW n \in TxBufs
  PROVE  /\ Traffic(c, CompleteTx(c, n))
         /\ CompleteTx(c, n).txreq = c.txreq \ {n}
         /\ TxIf(n) \in CompleteTx(c, n).intf
<1> DEFINE d == [c EXCEPT !.txreq = @ \ {n}, !.intf = @ \cup {TxIf(n)}]
           e == [d EXCEPT !.tec = @ - 1]
<1>1. /\ d \in Controller /\ d.tec = c.tec /\ d.mode = c.mode /\ c.intf \subseteq d.intf
      /\ d.rxbuf = c.rxbuf /\ d.txreq = c.txreq \ {n} /\ TxIf(n) \in d.intf
  BY TxIfType DEF Controller
<1>2. Traffic(c, d)
  <2> HIDE DEF d
  <2>1. QED BY <1>1, TecNat DEF Traffic
<1>3. ASSUME c.tec > 0
      PROVE  /\ Traffic(c, UpdateErrorState(e)) /\ UpdateErrorState(e).txreq = d.txreq
             /\ UpdateErrorState(e).intf = d.intf
  <2>1. c.tec - 1 \in 0..BusOffLimit /\ c.tec - 1 <= c.tec
    BY <1>3, LimitsAssumption DEF Controller
  <2> HIDE DEF d
  <2>2. /\ e \in Controller /\ e.mode = d.mode /\ e.intf = d.intf /\ e.rxbuf = d.rxbuf
        /\ e.tec = c.tec - 1 /\ e.txreq = d.txreq
    BY <2>1, <1>1 DEF Controller
  <2> HIDE DEF e
  <2>3. Traffic(c, e)
    BY <1>1, <2>1, <2>2 DEF Traffic
  <2>4. QED BY <2>2, <2>3, UpdateErrorStateTraffic, TrafficTwice
<1>4. CompleteTx(c, n) = IF c.tec > 0 THEN UpdateErrorState(e) ELSE d
  BY DEF CompleteTx
<1> HIDE DEF d, e
<1>5. QED BY <1>1, <1>2, <1>3, <1>4

\* One buffer's turn in an RTS command.
Turn(c, d, n) ==
  /\ Traffic(c, d)
  /\ \A k \in TxBufs : k # n => (k \in d.txreq <=> k \in c.txreq)
  /\ n \in c.txreq => n \in d.txreq
  /\ BusOff(c) => BusOff(d) /\ d.rxbuf = c.rxbuf

LEMMA RequestTxTurn ==
  ASSUME NEW c \in Controller, NEW n \in TxBufs
  PROVE  /\ Turn(c, RequestTx(c, n), n)
         /\ n \in RequestTx(c, n).txreq \/ TxIf(n) \in RequestTx(c, n).intf
<1> DEFINE d == [c EXCEPT !.txreq = @ \cup {n}]
           e == CompleteTx(d, n)
<1>1. /\ d \in Controller /\ d.mode = c.mode /\ d.intf = c.intf /\ d.rxbuf = c.rxbuf
      /\ d.tec = c.tec /\ d.eflg = c.eflg /\ d.txreq = c.txreq \cup {n} /\ d.txbuf = c.txbuf
  BY DEF Controller
<1>2. RequestTx(c, n) = IF ~Transmits(c, n) THEN d
                        ELSE IF c.mode = "LOOPBACK" THEN DeliverLoopback(d, n) ELSE DeliverNormal(d, n)
  BY DEF RequestTx
<1> HIDE DEF d
<1>3. Traffic(c, d)
  BY <1>1, TrafficNone
<1>4. CASE ~Transmits(c, n)
  BY <1>1, <1>2, <1>3, <1>4 DEF Turn, BusOff
<1>5. CASE Transmits(c, n)
  <2>1. n \notin c.txreq /\ ~BusOff(c)
    BY <1>5 DEF Transmits
  <2>2. Traffic(d, e) /\ e.txreq = d.txreq \ {n} /\ TxIf(n) \in e.intf /\ e \in Controller
    BY <1>1, CompleteTxTraffic DEF Traffic
  <2>3. d.txbuf[n] \in Frames
    BY <1>1 DEF Controller
  <2> DEFINE r == RouteInbound(e, d.txbuf[n])
  <2>4. DeliverLoopback(d, n) = UpdateIntPin(r) /\ DeliverNormal(d, n) = UpdateIntPin(e)
    BY DEF DeliverLoopback, DeliverNormal
  <2> HIDE DEF e
  <2>5. Traffic(e, r) /\ r.txreq = e.txreq /\ r \in Controller
    BY <2>2, <2>3, RouteInboundTraffic DEF Traffic
  <2> HIDE DEF r
  <2>6. \A x \in {e, r} : /\ Traffic(x, UpdateIntPin(x)) /\ UpdateIntPin(x).txreq = x.txreq
                          /\ UpdateIntPin(x).intf = x.intf
    BY <2>2, <2>5, UpdateIntPinTraffic
  <2>7. \A x \in {e, r} : Traffic(c, UpdateIntPin(x)) /\ TxIf(n) \in UpdateIntPin(x).intf
                          /\ UpdateIntPin(x).txreq = (c.txreq \cup {n}) \ {n}
    <3>1. Traffic(c, e) /\ Traffic(c, r)
      BY <1>1, <1>3, <2>2, <2>5, TrafficTwice
    <3>2. Traffic(c, UpdateIntPin(e)) /\ Traffic(c, UpdateIntPin(r))
      BY <2>2, <2>5, <2>6, <3>1, TrafficTwice
    <3>3. TxIf(n) \in r.intf
      BY <2>2, <2>5 DEF Traffic
    <3>4. QED BY <1>1, <2>2, <2>5, <2>6, <3>2, <3>3
  <2>8. RequestTx(c, n) \in {UpdateIntPin(e), UpdateIntPin(r)}
    BY <1>2, <1>5, <2>4
  <2>9. QED BY <2>1, <2>7, <2>8 DEF Turn
<1>6. QED BY <1>4, <1>5

LEMMA RequestIfTurn ==
  ASSUME NEW c \in Controller, NEW n \in TxBufs, NEW mask
  PROVE  /\ Turn(c, RequestIf(c, n, mask), n)
         /\ n \in mask => \/ n \in RequestIf(c, n, mask).txreq
                          \/ TxIf(n) \in RequestIf(c, n, mask).intf
<1>1. Turn(c, c, n)
  BY TrafficNone DEF Turn
<1>2. QED BY <1>1, RequestTxTurn DEF RequestIf

\* The command as a whole.
LEMMA RtsTraffic ==
  ASSUME NEW c \in Controller, NEW mask
  PROVE  /\ Traffic(c, Rts(c, mask))
         /\ BusOff(c) => BusOff(Rts(c, mask)) /\ Rts(c, mask).rxbuf = c.rxbuf
         /\ RtsEmitted(c, mask) # <<>> => c.mode = "NORMAL" /\ ~BusOff(c)
         /\ \A n \in TxBufs :
              /\ n \in mask => n \in Rts(c, mask).txreq \/ TxIf(n) \in Rts(c, mask).intf
              /\ n \in c.txreq => n \in Rts(c, mask).txreq
<1> DEFINE c1 == RequestIf(c, 0, mask)
           c2 == RequestIf(c1, 1, mask)
           c3 == RequestIf(c2, 2, mask)
<1>0. 0 \in TxBufs /\ 1 \in TxBufs /\ 2 \in TxBufs /\ \A n \in TxBufs : n = 0 \/ n = 1 \/ n = 2
  BY DEF TxBufs
<1>1. Rts(c, mask) = c3
  BY DEF Rts
<1>2. RtsEmitted(c, mask) = EmittedIf(c, 0, mask) \o EmittedIf(c1, 1, mask) \o EmittedIf(c2, 2, mask)
  BY DEF RtsEmitted
<1>3. Turn(c, c1, 0) /\ c1 \in Controller /\ (0 \in mask => 0 \in c1.txreq \/ TxIf(0) \in c1.intf)
  BY <1>0, RequestIfTurn DEF Turn, Traffic
<1> HIDE DEF c1
<1>4. Turn(c1, c2, 1) /\ c2 \in Controller /\ (1 \in mask => 1 \in c2.txreq \/ TxIf(1) \in c2.intf)
  BY <1>0, <1>3, RequestIfTurn DEF Turn, Traffic
<1> HIDE DEF c2
<1>5. Turn(c2, c3, 2) /\ (2 \in mask => 2 \in c3.txreq \/ TxIf(2) \in c3.intf)
  BY <1>0, <1>4, RequestIfTurn
<1> HIDE DEF c3
<1>6. Traffic(c, c2) /\ Traffic(c, c3)
  BY <1>3, <1>4, <1>5, TrafficTwice DEF Turn
<1>7. BusOff(c) => BusOff(c1) /\ BusOff(c2) /\ BusOff(c3) /\ c3.rxbuf = c.rxbuf
  BY <1>3, <1>4, <1>5 DEF Turn
<1>8. c1.intf \subseteq c2.intf /\ c2.intf \subseteq c3.intf
      /\ c1.mode = c.mode /\ c2.mode = c.mode
  BY <1>3, <1>4, <1>5 DEF Turn, Traffic
<1>9. \A d \in {c, c1, c2}, n \in TxBufs :
        BusOff(d) \/ d.mode # "NORMAL" => EmittedIf(d, n, mask) = <<>>
  BY DEF EmittedIf, Emitted, Transmits
<1>10. BusOff(c) \/ c.mode # "NORMAL" => RtsEmitted(c, mask) = <<>>
  <2>1. BusOff(c) \/ c.mode # "NORMAL" =>
          /\ EmittedIf(c, 0, mask) = <<>>
          /\ EmittedIf(c1, 1, mask) = <<>>
          /\ EmittedIf(c2, 2, mask) = <<>>
    BY <1>0, <1>7, <1>8, <1>9
  <2>2. <<>> \o <<>> \o <<>> = <<>>
    OBVIOUS
  <2>3. QED BY <1>2, <2>1, <2>2
<1>11. \A n \in TxBufs : /\ n \in mask => n \in c3.txreq \/ TxIf(n) \in c3.intf
                         /\ n \in c.txreq => n \in c3.txreq
  <2>1. /\ \A n \in TxBufs : n # 0 => (n \in c1.txreq <=> n \in c.txreq)
        /\ \A n \in TxBufs : n # 1 => (n \in c2.txreq <=> n \in c1.txreq)
        /\ \A n \in TxBufs : n # 2 => (n \in c3.txreq <=> n \in c2.txreq)
        /\ 0 \in c.txreq => 0 \in c1.txreq
        /\ 1 \in c1.txreq => 1 \in c2.txreq
        /\ 2 \in c2.txreq => 2 \in c3.txreq
    BY <1>3, <1>4, <1>5 DEF Turn
  <2>2. /\ 0 \in c1.txreq => 0 \in c3.txreq
        /\ 1 \in c2.txreq => 1 \in c3.txreq
        /\ 1 \in c.txreq => 1 \in c1.txreq
        /\ 2 \in c.txreq => 2 \in c2.txreq
    BY <1>0, <2>1
  <2>3. QED BY <1>0, <1>3, <1>4, <1>5, <1>8, <2>1, <2>2
<1>12. QED BY <1>1, <1>6, <1>7, <1>10, <1>11

-----------------------------------------------------------------------------
(* Steps.                                                                  *)

\* What is neither a reset nor an RTS command writes registers: it leaves the
\* receive buffers, sends nothing and changes the error state only to end
\* bus-off.
Recovered(c) == c.tec = 0 /\ c.rec = 0 /\ ~BusOff(c)

RegisterWrite ==
  /\ m'.rxbuf = m.rxbuf /\ out' = <<>>
  /\ EflgValues = {} => (BusOff(m)' <=> BusOff(m)) \/ Recovered(m)'

LEMMA RecoverRecovers ==
  ASSUME NEW c \in Controller
  PROVE  Recovered(RecoverBusOff(c)) /\ RecoverBusOff(c).rxbuf = c.rxbuf
<1>1. "TXBO" \notin DerivedErrBits(0, 0) /\ "TXBO" \notin OvrBits
  BY LimitsAssumption DEF DerivedErrBits, OvrBits
<1>2. /\ RecoverBusOff(c).tec = 0 /\ RecoverBusOff(c).rec = 0 /\ RecoverBusOff(c).rxbuf = c.rxbuf
      /\ RecoverBusOff(c).eflg = (c.eflg \cap OvrBits) \cup DerivedErrBits(0, 0)
  BY DEF RecoverBusOff, UpdateErrorState, Controller
<1>3. QED BY <1>1, <1>2 DEF Recovered, BusOff

LEMMA FirmwareSteps ==
  ASSUME TypeOK, Firmware
  PROVE  \/ m' = ResetState /\ out' = <<>>
         \/ \E mask \in RtsMasks : RequestToSend(mask)
         \/ RegisterWrite
<1>0. m \in Controller
  BY DEF TypeOK
<1> USE DEF Quiet
<1>1. ASSUME NEW r \in ReqopValues, SetMode(r) PROVE RegisterWrite
  <2> DEFINE d == IF r \in Modes THEN [m EXCEPT !.mode = r] ELSE m
  <2>1. d \in Controller /\ d.rxbuf = m.rxbuf /\ d.eflg = m.eflg
    BY <1>0 DEF Controller
  <2>2. m' = (IF BusOff(m) THEN RecoverBusOff(d) ELSE d) /\ out' = <<>>
    BY <1>1 DEF SetMode, WriteCanctrl
  <2> HIDE DEF d
  <2>3. CASE BusOff(m)
    BY <2>1, <2>2, <2>3, RecoverRecovers DEF RegisterWrite, Recovered, BusOff
  <2>4. CASE ~BusOff(m)
    BY <2>1, <2>2, <2>4 DEF RegisterWrite, BusOff
  <2>5. QED BY <2>3, <2>4
<1>2. ASSUME m'.rxbuf = m.rxbuf, m'.eflg = m.eflg, out' = <<>> PROVE RegisterWrite
  BY <1>2 DEF RegisterWrite, BusOff
<1>3. ASSUME NEW o \in OvrBits, ClearOverrun(o) PROVE RegisterWrite
  <2>1. m'.rxbuf = m.rxbuf /\ m'.eflg = m.eflg \ {o} /\ o # "TXBO" /\ out' = <<>>
    BY <1>0, <1>3 DEF ClearOverrun, WriteEflg, Controller, OvrBits
  <2>2. QED BY <2>1 DEF RegisterWrite, BusOff
<1>4. ASSUME NEW e \in EflgValues, SetEflg(e) PROVE RegisterWrite
  <2>1. m'.rxbuf = m.rxbuf /\ out' = <<>>
    BY <1>0, <1>4 DEF SetEflg, WriteEflg, Controller
  <2>2. QED BY <2>1 DEF RegisterWrite
<1>5. ASSUME NEW n, NEW f, AbortTx(n) \/ LoadTxBuffer(n, f) PROVE RegisterWrite
  BY <1>0, <1>2, <1>5 DEF AbortTx, CancelTx, LoadTxBuffer, LoadTx, Controller
<1>6. ASSUME NEW b, NEW i, ReadRxBuffer(b) \/ SetInte(i) \/ SetIntf(i) \/ ClearIntf(i) PROVE RegisterWrite
  BY <1>0, <1>2, <1>6 DEF ReadRxBuffer, ReadRx, SetInte, WriteCaninte, SetIntf, ClearIntf, WriteCanintf,
     UpdateIntPin, Controller
<1>7. ASSUME NEW v, SetRxbCtrl(v[1], v[2], v[3]) \/ SetFilters(v[1], v[2]) PROVE RegisterWrite
  BY <1>0, <1>2, <1>7 DEF SetRxbCtrl, WriteRxbCtrl, SetFilters, WriteFilters, Controller
<1>8. QED
  BY <1>1, <1>3, <1>4, <1>5, <1>6, <1>7 DEF Firmware, Reset

\* An injected error leaves the receive buffers alone.
LEMMA ErrorEventsRxbuf ==
  ASSUME NEW c \in Controller, NEW count
  PROVE  \A d \in {InjectTxErrors(c, count), InjectRxErrors(c, count), ForceBusOff(c)} :
           d.rxbuf = c.rxbuf
BY DEF InjectTxErrors, InjectRxErrors, ForceBusOff, RaiseErrorFlags, UpdateErrorState, UpdateIntPin, Controller

LEMMA EnvironmentSteps ==
  ASSUME TypeOK, Environment
  PROVE  /\ out' = <<>>
         /\ m'.rxbuf = m.rxbuf \/ (Traffic(m, m') /\ ~BusOff(m))
<1>0. m \in Controller
  BY DEF TypeOK
<1>1. ASSUME NEW f \in BusFrames, Receive(f) PROVE Traffic(m, m') /\ (BusOff(m) => m' = m)
  BY <1>0, <1>1, InputsAssumption, RxFrameTraffic DEF Receive
<1>2. ASSUME NEW k, TxErrors(k) \/ RxErrors(k) \/ ForceOff PROVE m'.rxbuf = m.rxbuf
  BY <1>0, <1>2, ErrorEventsRxbuf DEF TxErrors, RxErrors, ForceOff
<1>3. ASSUME Recover PROVE m'.rxbuf = m.rxbuf
  BY <1>0, <1>3, RecoverRecovers DEF Recover
<1>4. out' = <<>>
  BY DEF Environment, Receive, TxErrors, RxErrors, ForceOff, Recover, Quiet
<1>5. m'.rxbuf = m.rxbuf \/ (Traffic(m, m') /\ ~BusOff(m))
  <2>1. CASE \E f \in BusFrames : Receive(f)
    BY <1>1, <2>1
  <2>2. CASE (\E k \in ErrorCounts : TxErrors(k)) \/ (\E k \in ErrorCounts : RxErrors(k)) \/ ForceOff
    BY <1>2, <2>2
  <2>3. QED BY <1>3, <2>1, <2>2 DEF Environment
<1>6. QED BY <1>4, <1>5

\* A frame that waits in a receive buffer survives all traffic, also what an RTS
\* of three buffers loops back; only a reset discards it.
THEOREM FullBufferAlwaysKept == Spec => FullBufferKept
<1> DEFINE Kept == \A b \in RxBufs : Full(m, b) /\ m'.rxbuf[b] # m.rxbuf[b] => m' = ResetState
<1>1. TypeOK /\ [Next]_vars => [Kept]_vars
  <2> SUFFICES ASSUME TypeOK, Next PROVE Kept
    OBVIOUS
  <2>1. Traffic(m, m') => Kept
    BY DEF Traffic
  <2>2. ASSUME NEW mask \in RtsMasks, RequestToSend(mask) PROVE Kept
    BY <2>1, <2>2, RtsTraffic DEF RequestToSend, TypeOK
  <2>3. QED BY <2>1, <2>2, FirmwareSteps, EnvironmentSteps DEF Next, RegisterWrite
<1>2. QED BY <1>1, TypeCorrect, PTL DEF Spec, FullBufferKept

\* In bus-off, and in every mode but Normal, the controller sends nothing, and in
\* bus-off it receives nothing, whatever the firmware requests and the bus brings.
THEOREM BusOffAlwaysSilent == Spec => BusOffSilent
<1> DEFINE Silent == /\ out' # <<>> => m.mode = "NORMAL" /\ ~BusOff(m)
                     /\ BusOff(m) /\ m' # ResetState => m'.rxbuf = m.rxbuf
<1>1. TypeOK /\ [Next]_vars => [Silent]_vars
  <2> SUFFICES ASSUME TypeOK, Next PROVE Silent
    OBVIOUS
  <2>1. ASSUME NEW mask \in RtsMasks, RequestToSend(mask) PROVE Silent
    BY <2>1, RtsTraffic DEF RequestToSend, TypeOK
  <2>2. QED BY <2>1, FirmwareSteps, EnvironmentSteps DEF Next, RegisterWrite
<1>2. QED BY <1>1, TypeCorrect, PTL DEF Spec, BusOffSilent

\* Whichever buffers an RTS command requests and whatever completing one does to
\* the flags and counters, each requested buffer is pending or reported complete
\* afterwards, and one that was pending before is not sent again.
THEOREM CompletionAlwaysReported == Spec => CompletionReported
<1> DEFINE Reported ==
      \A mask \in RtsMasks : RequestToSend(mask) =>
        \A n \in mask : /\ n \notin m'.txreq => TxIf(n) \in m'.intf
                        /\ n \in m.txreq => n \in m'.txreq
<1>1. TypeOK /\ [Next]_vars => [Reported]_vars
  <2> SUFFICES ASSUME TypeOK, NEW mask \in RtsMasks, RequestToSend(mask), NEW n \in mask
               PROVE  /\ n \notin m'.txreq => TxIf(n) \in m'.intf
                      /\ n \in m.txreq => n \in m'.txreq
    OBVIOUS
  <2>1. n \in TxBufs
    BY InputsAssumption
  <2>2. QED BY <2>1, RtsTraffic DEF RequestToSend, TypeOK
<1>2. QED BY <1>1, TypeCorrect, PTL DEF Spec, CompletionReported

-----------------------------------------------------------------------------
(* The edges of bus-off.  With derived error bits, bus-off is a full TEC.  *)

LEMMA BusOffMeans ==
  ASSUME NEW c \in Controller, EflgOk(c)
  PROVE  BusOff(c) <=> c.tec = BusOffLimit
BY DEF EflgOk, BusOff, DerivedErrBits, ErrBits

LEMMA ErrorEventsEdges ==
  ASSUME NEW c \in Controller, NEW count \in Nat
  PROVE  /\ {"ERRIF", "MERRF"} \subseteq InjectTxErrors(c, count).intf
         /\ c.tec = BusOffLimit => InjectTxErrors(c, count).tec = BusOffLimit
         /\ InjectRxErrors(c, count).tec = c.tec
         /\ {"ERRIF", "MERRF"} \subseteq ForceBusOff(c).intf
         /\ ForceBusOff(c).tec = BusOffLimit
<1> DEFINE k == TxErrorStep * count
<1>1. k \in Nat
  BY LimitsAssumption
<1> HIDE DEF k
<1>2. SaturatingAdd(BusOffLimit, k) = BusOffLimit
  BY <1>1, LimitsAssumption DEF SaturatingAdd
<1>3. /\ InjectTxErrors(c, count).tec = SaturatingAdd(c.tec, k)
      /\ {"ERRIF", "MERRF"} \subseteq InjectTxErrors(c, count).intf
  BY DEF InjectTxErrors, RaiseErrorFlags, UpdateErrorState, UpdateIntPin, Controller, k
<1>4. /\ InjectRxErrors(c, count).tec = c.tec
      /\ {"ERRIF", "MERRF"} \subseteq ForceBusOff(c).intf
      /\ ForceBusOff(c).tec = BusOffLimit
  BY DEF InjectRxErrors, ForceBusOff, RaiseErrorFlags, UpdateErrorState, UpdateIntPin, Controller
<1>5. QED BY <1>2, <1>3, <1>4

\* If the firmware writes EFLG only to clear overrun bits, every way into bus-off
\* leaves ERRIF and MERRF pending and every way out leaves both counters at zero.
THEOREM BusOffEdgesAlwaysSeen == (EflgValues = {}) /\ Spec => BusOffEdges
<1> SUFFICES ASSUME EflgValues = {} PROVE Spec => BusOffEdges
  OBVIOUS
<1> DEFINE Edges == /\ ~BusOff(m) /\ BusOff(m') => {"ERRIF", "MERRF"} \subseteq m'.intf
                    /\ BusOff(m) /\ ~BusOff(m') => m'.tec = 0 /\ m'.rec = 0
<1>1. TypeOK /\ TypeOK' /\ EflgDerived /\ EflgDerived' /\ [Next]_vars => [Edges]_vars
  <2> SUFFICES ASSUME TypeOK, TypeOK', EflgOk(m), EflgOk(m'), Next PROVE Edges
    BY DEF EflgDerived, EflgOk
  <2>1. /\ m \in Controller /\ m' \in Controller
        /\ BusOff(m) <=> m.tec = BusOffLimit
        /\ BusOff(m') <=> m'.tec = BusOffLimit
    BY BusOffMeans DEF TypeOK
  \* Traffic never enters bus-off.
  <2>2. ASSUME Traffic(m, m'), BusOff(m) => BusOff(m') PROVE Edges
    <3>1. m.tec \in Nat /\ m'.tec \in Nat /\ m'.tec <= m.tec /\ m.tec <= BusOffLimit /\ BusOffLimit \in Nat
      BY <2>1, <2>2, TecNat, LimitsAssumption DEF Traffic
    <3>2. m'.tec = BusOffLimit => m.tec = BusOffLimit
      BY <3>1
    <3>3. QED BY <2>1, <2>2, <3>2
  <2>3. CASE Firmware
    <3>1. CASE m' = ResetState
      BY <2>1, <3>1, LimitsAssumption DEF ResetState
    <3>2. ASSUME NEW mask \in RtsMasks, RequestToSend(mask) PROVE Edges
      <4>1. Traffic(m, m') /\ (BusOff(m) => BusOff(m'))
        BY <2>1, <3>2, RtsTraffic DEF RequestToSend
      <4>2. QED BY <2>2, <4>1
    <3>3. CASE RegisterWrite
      BY <3>3 DEF RegisterWrite, Recovered, BusOff
    <3>4. QED BY <2>3, <3>1, <3>2, <3>3, FirmwareSteps
  <2>4. ASSUME NEW f \in BusFrames, Receive(f) PROVE Edges
    <3>1. f \in Frames
      BY InputsAssumption
    <3>2. Traffic(m, m') /\ (BusOff(m) => m' = m)
      BY <2>1, <2>4, <3>1, RxFrameTraffic DEF Receive
    <3>3. QED BY <2>2, <3>2
  <2>5. ASSUME NEW k \in ErrorCounts, TxErrors(k) \/ RxErrors(k) PROVE Edges
    <3>1. k \in Nat
      BY InputsAssumption
    <3>2. QED BY <2>1, <2>5, <3>1, ErrorEventsEdges DEF TxErrors, RxErrors
  <2>6. CASE ForceOff
    BY <2>1, <2>6, ErrorEventsEdges DEF ForceOff
  <2>7. CASE Recover
    BY <2>1, <2>7, RecoverRecovers DEF Recover, Recovered
  <2>8. QED BY <2>3, <2>4, <2>5, <2>6, <2>7 DEF Next, Environment
<1>2. Spec => []EflgDerived
  BY EflgAlwaysDerived
<1>3. QED BY <1>1, <1>2, TypeCorrect, PTL DEF Spec, BusOffEdges
=============================================================================
