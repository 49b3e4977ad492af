---------------------------- MODULE Mcp2515Core ----------------------------
(***************************************************************************)
(* The MCP2515 register file as a value and the controller's handlers as   *)
(* functions from controller to controller (mcp2515/mcp2515.c).  A         *)
(* register whose bits the code tests one by one is the set of its bits    *)
(* that are 1; a frame (id, EXIDE, RTR, DLC and data) is one value.        *)
(* Mcp2515 turns these functions into a state machine; every function is   *)
(* one call under the AVR lock, so each is one atomic step there.          *)
(*                                                                         *)
(* A definition named Op_What is a variant of Op with a plausible bug; the *)
(* properties are shown to detect each of them.  Nothing else uses it.     *)
(***************************************************************************)
EXTENDS Naturals, Sequences

CONSTANTS
  Frames,        \* the frames that exist
  ExtFrames,     \* those with a 29-bit identifier
  ZeroFrame,     \* what an all-zero buffer decodes to (standard id 0, DLC 0)
  WarnLimit,     \* error counter of the EWARN/TXWAR/RXWAR bits: 96
  PassiveLimit,  \* error counter of the TXEP/RXEP bits: 128
  BusOffLimit,   \* the saturated counter, which is bus-off: 255
  TxErrorStep    \* what one transmit error adds to TEC: 8

ASSUME FramesAssumption ==
  /\ ExtFrames \subseteq Frames
  /\ ZeroFrame \in Frames \ ExtFrames

ASSUME LimitsAssumption ==
  /\ WarnLimit \in Nat /\ PassiveLimit \in Nat /\ BusOffLimit \in Nat
  /\ 0 < WarnLimit /\ WarnLimit < PassiveLimit /\ PassiveLimit < BusOffLimit
  /\ TxErrorStep \in Nat \ {0}

Modes   == {"NORMAL", "SLEEP", "LOOPBACK", "LISTENONLY", "CONFIG"}
TxBufs  == 0..2
RxBufs  == 0..1
RxModes == {"FILTERED", "STD", "EXT", "ANY"}
RxIf(b) == IF b = 0 THEN "RX0IF" ELSE "RX1IF"
TxIf(n) == IF n = 0 THEN "TX0IF" ELSE IF n = 1 THEN "TX1IF" ELSE "TX2IF"
IntBits == {"RX0IF", "RX1IF", "TX0IF", "TX1IF", "TX2IF", "ERRIF", "WAKIF", "MERRF"}
OvrBits == {"RX0OVR", "RX1OVR"}
ErrBits == {"EWARN", "RXWAR", "TXWAR", "RXEP", "TXEP", "TXBO"}

\* accept[0] stands for RXF0, RXF1 under RXM0 and accept[1] for RXF2..RXF5
\* under RXM1: the set of frames that one of the buffer's filters matches.
Controller ==
  [mode   : Modes,
   txreq  : SUBSET TxBufs,              \* buffers whose TXBnCTRL.TXREQ is 1
   txbuf  : [TxBufs -> Frames],
   rxbuf  : [RxBufs -> Frames],
   rxm    : [RxBufs -> RxModes],
   bukt   : BOOLEAN,
   accept : [RxBufs -> SUBSET Frames],
   intf   : SUBSET IntBits,             \* CANINTF
   inte   : SUBSET IntBits,             \* CANINTE
   int    : BOOLEAN,                    \* int_asserted, the INT pin driven low
   tec    : 0..BusOffLimit,
   rec    : 0..BusOffLimit,
   eflg   : SUBSET (OvrBits \cup ErrBits)]

-----------------------------------------------------------------------------
(* Reset.  All-zero filters and masks match every standard frame and no    *)
(* extended one.                                                           *)

ResetState ==
  [mode   |-> "CONFIG",
   txreq  |-> {},
   txbuf  |-> [n \in TxBufs |-> ZeroFrame],
   rxbuf  |-> [b \in RxBufs |-> ZeroFrame],
   rxm    |-> [b \in RxBufs |-> "FILTERED"],
   bukt   |-> FALSE,
   accept |-> [b \in RxBufs |-> Frames \ ExtFrames],
   intf   |-> {},
   inte   |-> {},
   int    |-> FALSE,
   tec    |-> 0,
   rec    |-> 0,
   eflg   |-> {}]

-----------------------------------------------------------------------------
(* The INT pin and the error state.                                        *)

UpdateIntPin(c) == [c EXCEPT !.int = (c.intf \cap c.inte # {})]

DerivedErrBits(tec, rec) ==
  { e \in ErrBits :
      \/ e = "EWARN" /\ (tec >= WarnLimit \/ rec >= WarnLimit)
      \/ e = "TXWAR" /\ tec >= WarnLimit
      \/ e = "RXWAR" /\ rec >= WarnLimit
      \/ e = "TXEP"  /\ tec >= PassiveLimit
      \/ e = "RXEP"  /\ rec >= PassiveLimit
      \/ e = "TXBO"  /\ tec = BusOffLimit }

UpdateErrorState(c) ==
  [c EXCEPT !.eflg = (c.eflg \cap OvrBits) \cup DerivedErrBits(c.tec, c.rec)]

BusOff(c) == "TXBO" \in c.eflg

SaturatingAdd(a, b) == IF a + b > BusOffLimit THEN BusOffLimit ELSE a + b

\* Mutant: the flags are raised without re-evaluating the INT pin.
RaiseErrorFlags_NoPin(c, flags) == [c EXCEPT !.intf = @ \cup flags]

RaiseErrorFlags(c, flags) == UpdateIntPin([c EXCEPT !.intf = @ \cup flags])

InjectTxErrors(c, count) ==
  RaiseErrorFlags(
    UpdateErrorState([c EXCEPT !.tec = SaturatingAdd(@, TxErrorStep * count)]),
    {"ERRIF", "MERRF"})

InjectRxErrors(c, count) ==
  RaiseErrorFlags(
    UpdateErrorState([c EXCEPT !.rec = SaturatingAdd(@, count)]), {"ERRIF"})

ForceBusOff(c) ==
  RaiseErrorFlags(
    UpdateErrorState([c EXCEPT !.tec = BusOffLimit]), {"ERRIF", "MERRF"})

\* Mutant: recovery resets TEC but leaves REC.
RecoverBusOff_TecOnly(c) == UpdateErrorState([c EXCEPT !.tec = 0])

RecoverBusOff(c) == UpdateErrorState([c EXCEPT !.tec = 0, !.rec = 0])

-----------------------------------------------------------------------------
(* Reception: acceptance filters, routing to RXB0 or RXB1, overrun flags.  *)

Full(c, b) == RxIf(b) \in c.intf

TypeAdmitted(rxm, f) ==
  /\ rxm = "STD" => f \notin ExtFrames
  /\ rxm = "EXT" => f \in ExtFrames

\* find_matching_filter tries RXF0, RXF1 first: a frame that both buffers'
\* filters match belongs to RXB0.
MatchedBuf(c, f) ==
  { b \in RxBufs : f \in c.accept[b] /\ (b = 1 => f \notin c.accept[0]) }

Rxb0Takes(c, f) ==
  /\ ~Full(c, 0)
  /\ TypeAdmitted(c.rxm[0], f)
  /\ c.rxm[0] = "ANY" \/ 0 \in MatchedBuf(c, f)

\* Mutant: the busy test of RXB1 is lost.
Rxb1Takes_Busy(c, f) ==
  /\ ~Rxb0Takes(c, f) /\ TypeAdmitted(c.rxm[1], f)
  /\ c.rxm[1] = "ANY" \/ 1 \in MatchedBuf(c, f) \/ (0 \in MatchedBuf(c, f) /\ c.bukt)

Rxb1Takes(c, f) ==
  /\ ~Rxb0Takes(c, f)
  /\ TypeAdmitted(c.rxm[1], f)
  /\ ~Full(c, 1)
  /\ \/ c.rxm[1] = "ANY"
     \/ 1 \in MatchedBuf(c, f)
     \/ 0 \in MatchedBuf(c, f) /\ c.bukt

Accepts(c, f) == Rxb0Takes(c, f) \/ Rxb1Takes(c, f)

Deposit(c, b, f) ==
  UpdateIntPin([c EXCEPT !.rxbuf[b] = f, !.intf = @ \cup {RxIf(b)}])

Overruns(c, f) ==
  { o \in OvrBits :
      \/ /\ o = "RX0OVR"
         /\ Full(c, 0)
         /\ Full(c, 1) \/ ~TypeAdmitted(c.rxm[1], f)
      \/ o = "RX1OVR" /\ Full(c, 1) /\ TypeAdmitted(c.rxm[1], f) }

RouteInbound(c, f) ==
  IF Rxb0Takes(c, f) THEN Deposit(c, 0, f)
  ELSE IF Rxb1Takes(c, f) THEN Deposit(c, 1, f)
  ELSE [c EXCEPT !.eflg = @ \cup Overruns(c, f)]

\* Mutant: a controller in bus-off keeps listening.
Deaf_ModeOnly(c) == c.mode \in {"SLEEP", "CONFIG"}

Deaf(c) == c.mode \in {"SLEEP", "CONFIG"} \/ BusOff(c)

\* Mutant: REC falls without recomputing EFLG.
RxFrame_StaleEflg(c, f) ==
  IF Deaf(c) THEN c
  ELSE [RouteInbound(c, f) EXCEPT !.rec = IF Accepts(c, f) /\ @ > 0 THEN @ - 1 ELSE @]

RxFrame(c, f) ==
  IF Deaf(c) THEN c
  ELSE LET r == RouteInbound(c, f)
       IN IF Accepts(c, f) /\ c.rec > 0
          THEN UpdateErrorState([r EXCEPT !.rec = @ - 1])
          ELSE r

-----------------------------------------------------------------------------
(* Transmission.  Emitted is what the on_tx callback hands to the bus.     *)

\* mark_tx_complete and the decrement of TEC that both deliveries make.
CompleteTx(c, n) ==
  LET d == [c EXCEPT !.txreq = @ \ {n}, !.intf = @ \cup {TxIf(n)}]
  IN IF c.tec > 0 THEN UpdateErrorState([d EXCEPT !.tec = @ - 1]) ELSE d

DeliverLoopback(c, n) == UpdateIntPin(RouteInbound(CompleteTx(c, n), c.txbuf[n]))

DeliverNormal(c, n) == UpdateIntPin(CompleteTx(c, n))

\* Mutant: a level instead of an edge transmits.
Transmits_Level(c, n) == ~BusOff(c) /\ c.mode \in {"NORMAL", "LOOPBACK"}

\* Writing TXBnCTRL with TXREQ = 1: only a 0 -> 1 edge transmits.
Transmits(c, n) == n \notin c.txreq /\ ~BusOff(c) /\ c.mode \in {"NORMAL", "LOOPBACK"}

RequestTx(c, n) ==
  LET d == [c EXCEPT !.txreq = @ \cup {n}]
  IN IF ~Transmits(c, n) THEN d
     ELSE IF c.mode = "LOOPBACK" THEN DeliverLoopback(d, n)
     ELSE DeliverNormal(d, n)

Emitted(c, n) ==
  IF Transmits(c, n) /\ c.mode = "NORMAL" THEN <<c.txbuf[n]>> ELSE <<>>

\* The RTS command requests the selected buffers in the order 0, 1, 2.
RequestIf(c, n, mask) == IF n \in mask THEN RequestTx(c, n) ELSE c
EmittedIf(c, n, mask) == IF n \in mask THEN Emitted(c, n) ELSE <<>>

Rts(c, mask) == RequestIf(RequestIf(RequestIf(c, 0, mask), 1, mask), 2, mask)

RtsEmitted(c, mask) ==
  LET c1 == RequestIf(c, 0, mask)
      c2 == RequestIf(c1, 1, mask)
  IN EmittedIf(c, 0, mask) \o EmittedIf(c1, 1, mask) \o EmittedIf(c2, 2, mask)

CancelTx(c, n) == [c EXCEPT !.txreq = @ \ {n}]

-----------------------------------------------------------------------------
(* The other register writes of apply_reg_write.                           *)

\* REQOP values 5..7 name no mode: the write stores them and changes no mode.
WriteCanctrl(c, reqop) ==
  LET d == IF reqop \in Modes THEN [c EXCEPT !.mode = reqop] ELSE c
  IN IF BusOff(c) THEN RecoverBusOff(d) ELSE d

WriteCanintf(c, flags) == UpdateIntPin([c EXCEPT !.intf = flags])

WriteCaninte(c, flags) == UpdateIntPin([c EXCEPT !.inte = flags])

\* EFLG has no case of its own in apply_reg_write: the plain write stores it.
WriteEflg(c, flags) == [c EXCEPT !.eflg = flags]

WriteRxbCtrl(c, b, rxm, bukt) ==
  [c EXCEPT !.rxm[b] = rxm, !.bukt = IF b = 0 THEN bukt ELSE @]

WriteFilters(c, b, matched) == [c EXCEPT !.accept[b] = matched]

LoadTx(c, n, f) == [c EXCEPT !.txbuf[n] = f]

\* READ RX BUFFER up to its last byte, which clears RXnIF.
ReadRx(c, b) == UpdateIntPin([c EXCEPT !.intf = @ \ {RxIf(b)}])
=============================================================================
