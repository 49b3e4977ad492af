---------------------------- MODULE CommandPipe ----------------------------
(***************************************************************************)
(* What the command queue of the engine promises: commands are applied one *)
(* at a time in the order they were accepted, each once, and a command is  *)
(* refused only when Cap others are waiting.                               *)
(***************************************************************************)
EXTENDS Naturals, Sequences

CONSTANTS
  Commands,
  Cap

VARIABLES
  pending,   \* accepted commands, in order
  applied,   \* commands applied so far, in order
  refused    \* commands refused because the pipe was full

pipeVars == <<pending, applied, refused>>

PipeInit == pending = <<>> /\ applied = <<>> /\ refused = {}

Accept(c) ==
  /\ Len(pending) < Cap
  /\ pending' = Append(pending, c)
  /\ UNCHANGED <<applied, refused>>

Refuse(c) ==
  /\ Len(pending) = Cap
  /\ refused' = refused \cup {c}
  /\ UNCHANGED <<pending, applied>>

ApplyNext ==
  /\ pending # <<>>
  /\ applied' = Append(applied, Head(pending))
  /\ pending' = Tail(pending)
  /\ UNCHANGED refused

PipeNext == ApplyNext \/ \E c \in Commands : Accept(c) \/ Refuse(c)

PipeSpec == PipeInit /\ [][PipeNext]_pipeVars
=============================================================================
