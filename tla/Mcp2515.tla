------------------------------ MODULE Mcp2515 ------------------------------
(***************************************************************************)
(* One MCP2515 controller (mcp2515/mcp2515.c) and everything that can      *)
(* happen to it: the firmware's SPI commands, frames that arrive from the  *)
(* bus, and the error events an operator injects.  Each action is one      *)
(* complete call into the controller, made under the AVR lock.             *)
(*                                                                         *)
(* The CONSTANT sets of inputs say which commands the environment uses, so *)
(* that a run can aim at one part of the controller.                       *)
(***************************************************************************)
EXTENDS Mcp2515Core

CONSTANTS
  ReqopValues,   \* REQOP values written to CANCTRL ("INVALID" for 5..7)
  RtsMasks,      \* buffer sets of the RTS command
  TxLoads,       \* frames loaded into transmit buffers
  BusFrames,     \* frames that arrive from the bus
  InteValues,    \* values written to CANINTE
  IntfValues,    \* values written to CANINTF
  IntfClears,    \* flag sets cleared in CANINTF with BIT MODIFY
  EflgValues,    \* values written to EFLG; {} for firmware that only clears
                 \* its overflow bits
  RxbCtrlValues, \* <<buffer, RXM, BUKT>> written to RXBnCTRL
  FilterValues,  \* <<buffer, matched frames>> programmed in the filters
  ErrorCounts    \* counts of injected errors

ASSUME InputsAssumption ==
  /\ ReqopValues \subseteq Modes \cup {"INVALID"}
  /\ RtsMasks \subseteq SUBSET TxBufs
  /\ TxLoads \subseteq Frames
  /\ BusFrames \subseteq Frames
  /\ InteValues \subseteq SUBSET IntBits
  /\ IntfValues \subseteq SUBSET IntBits
  /\ IntfClears \subseteq SUBSET IntBits
  /\ EflgValues \subseteq SUBSET (OvrBits \cup ErrBits)
  /\ RxbCtrlValues \subseteq RxBufs \X RxModes \X BOOLEAN
  /\ FilterValues \subseteq RxBufs \X SUBSET Frames
  /\ ErrorCounts \subseteq Nat \ {0}

VARIABLES
  m,     \* the controller
  out    \* frames the last step handed to the bus (on_tx), in order

vars == <<m, out>>

Init == m = ResetState /\ out = <<>>

-----------------------------------------------------------------------------
(* Firmware, over SPI.                                                     *)

Quiet == out' = <<>>

Reset == m' = ResetState /\ Quiet

SetMode(reqop) == m' = WriteCanctrl(m, reqop) /\ Quiet

RequestToSend(mask) == m' = Rts(m, mask) /\ out' = RtsEmitted(m, mask)

AbortTx(n) == m' = CancelTx(m, n) /\ Quiet

LoadTxBuffer(n, f) == m' = LoadTx(m, n, f) /\ Quiet

ReadRxBuffer(b) == m' = ReadRx(m, b) /\ Quiet

SetInte(flags) == m' = WriteCaninte(m, flags) /\ Quiet

SetIntf(flags) == m' = WriteCanintf(m, flags) /\ Quiet

ClearIntf(flags) == m' = WriteCanintf(m, m.intf \ flags) /\ Quiet

ClearOverrun(o) == m' = WriteEflg(m, m.eflg \ {o}) /\ Quiet

SetEflg(flags) == m' = WriteEflg(m, flags) /\ Quiet

SetRxbCtrl(b, rxm, bukt) == m' = WriteRxbCtrl(m, b, rxm, bukt) /\ Quiet

SetFilters(b, matched) == m' = WriteFilters(m, b, matched) /\ Quiet

Firmware ==
  \/ Reset
  \/ \E r \in ReqopValues : SetMode(r)
  \/ \E mask \in RtsMasks : RequestToSend(mask)
  \/ \E mask \in RtsMasks : \E n \in mask : AbortTx(n)
  \/ \E mask \in RtsMasks : \E n \in mask, f \in TxLoads : LoadTxBuffer(n, f)
  \/ \E b \in RxBufs : ReadRxBuffer(b)
  \/ \E i \in InteValues : SetInte(i)
  \/ \E i \in IntfValues : SetIntf(i)
  \/ \E i \in IntfClears : ClearIntf(i)
  \/ \E o \in OvrBits : ClearOverrun(o)
  \/ \E e \in EflgValues : SetEflg(e)
  \/ \E v \in RxbCtrlValues : SetRxbCtrl(v[1], v[2], v[3])
  \/ \E v \in FilterValues : SetFilters(v[1], v[2])

-----------------------------------------------------------------------------
(* The bus and the operator.                                               *)

Receive(f) == m' = RxFrame(m, f) /\ Quiet

TxErrors(count) == m' = InjectTxErrors(m, count) /\ Quiet

RxErrors(count) == m' = InjectRxErrors(m, count) /\ Quiet

ForceOff == m' = ForceBusOff(m) /\ Quiet

Recover == m' = RecoverBusOff(m) /\ Quiet

Environment ==
  \/ \E f \in BusFrames : Receive(f)
  \/ \E k \in ErrorCounts : TxErrors(k)
  \/ \E k \in ErrorCounts : RxErrors(k)
  \/ ForceOff
  \/ Recover

Next == Firmware \/ Environment

Spec == Init /\ [][Next]_vars

-----------------------------------------------------------------------------
(* Properties.                                                             *)

\* Every register holds a value it can hold, and only existing frames leave.
TypeOK == m \in Controller /\ out \in Seq(Frames)

\* The INT pin follows CANINTF and CANINTE through every path that changes
\* one of them: writes, reads that clear a flag, reception, transmission,
\* loopback and error injection each have to re-evaluate it (update_int_pin).
IntCoherent == m.int = (m.intf \cap m.inte # {})

\* Firmware that only clears overflow bits sees an EFLG whose error bits are
\* exactly what TEC and REC imply, after any mix of errors, successful
\* transmissions and receptions, and recoveries (comment at mcp2515.c:779).
EflgDerived == m.eflg \cap ErrBits = DerivedErrBits(m.tec, m.rec)

\* A frame waiting in a receive buffer (RXnIF set) is never overwritten by
\* later traffic, from the bus or looped back; only a reset discards it.
FullBufferKept ==
  [][\A b \in RxBufs :
       Full(m, b) /\ m'.rxbuf[b] # m.rxbuf[b] => m' = ResetState]_vars

\* Frames leave the controller only in Normal mode and never in bus-off; a
\* controller that is in bus-off takes nothing into its receive buffers either.
BusOffSilent ==
  [][/\ out' # <<>> => m.mode = "NORMAL" /\ ~BusOff(m)
     /\ BusOff(m) /\ m' # ResetState => m'.rxbuf = m.rxbuf]_vars

\* The step into bus-off leaves ERRIF and MERRF pending for the firmware, and
\* the step out of it leaves no residue: both counters are zero.
BusOffEdges ==
  [][/\ ~BusOff(m) /\ BusOff(m') => {"ERRIF", "MERRF"} \subseteq m'.intf
     /\ BusOff(m) /\ ~BusOff(m') => m'.tec = 0 /\ m'.rec = 0]_vars

\* After an RTS command each requested buffer either is still pending or has
\* its TXnIF set, whatever the other buffers of the same command did to the
\* counters and flags; a buffer that was already pending is not sent again.
CompletionReported ==
  [][\A mask \in RtsMasks : RequestToSend(mask) =>
       \A n \in mask :
         /\ n \notin m'.txreq => TxIf(n) \in m'.intf
         /\ n \in m.txreq => n \in m'.txreq]_vars
=============================================================================
