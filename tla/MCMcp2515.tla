----------------------------- MODULE MCMcp2515 -----------------------------
(***************************************************************************)
(* Instances of Mcp2515.  Std and Ext are the two kinds of frame the       *)
(* filters tell apart; Zero is the all-zero standard frame.                *)
(***************************************************************************)
EXTENDS Mcp2515

Std == 1
Ext == 2

MCFrames      == {0, Std, Ext}
MCExtFrames   == {Ext}

\* Error counters: one buffer, every counter value up to a small limit.
ErrReqop      == {"CONFIG", "NORMAL", "LOOPBACK", "LISTENONLY", "INVALID"}
ErrRts        == {{0}}
ErrBus        == {Std}
ErrInte       == {{"ERRIF"}, {"MERRF", "TX0IF"}}
ErrClears     == {{"RX0IF", "TX0IF", "WAKIF"}, {"ERRIF", "MERRF"}}
ErrCounts     == {1, 2}

\* Buffers: two transmit buffers in one command, sent or looped back, while the
\* bus delivers both kinds of frame to receive buffers in every receive mode.
BufReqop      == {"NORMAL", "LOOPBACK"}
TxRts         == {{0, 2}}
TxFrames      == {Std}
TxClears      == {{"TX0IF", "TX1IF", "TX2IF"}}
RxBus         == {Std, Ext}
BufRxbCtrl    == {<<0, "STD", TRUE>>, <<0, "STD", FALSE>>, <<1, "ANY", FALSE>>}
BufFilters    == {<<0, {Ext}>>, <<1, {Ext}>>}

\* CANINTF and EFLG written directly by the firmware.
FreeEflg      == {{"TXBO"}}
FreeIntf      == {{"WAKIF", "TX0IF"}}

None          == {}
=============================================================================
