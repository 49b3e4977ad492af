------------------------- MODULE ChipControlProofs -------------------------
(***************************************************************************)
(* Theorems about the control of the chips, for every number of chips and  *)
(* any commands.  The invariant adds to what is claimed: where a chip may  *)
(* be when a pause holds, that nothing has strayed, and how far the join   *)
(* has come.                                                               *)
(***************************************************************************)
EXTENDS ChipControl, TLAPS

\* A chip on its way to a batch may still run that one, if it has run none yet.
PauseCounted ==
  \A c \in Chips :
    IF PauseHolds THEN late[c] + (IF pc[c] = "batch" THEN 1 ELSE 0) <= 1 ELSE late[c] = 0

EjectCounted == \A c \in Chips : ~strayed[c] /\ (asked[c] = "eject" => ~running[c])

JoinCounted ==
  /\ main \in {"test", "pop"} => next = 0
  /\ main = "freed" => next = N
  /\ main \in {"join", "freed"} => \A c \in Chips : c < next => pc[c] = "exit"

-----------------------------------------------------------------------------
(* Type correctness.                                                       *)

LEMMA ControlTypeInit == Init => TypeOK
<1> SUFFICES ASSUME Init PROVE TypeOK
  OBVIOUS
<1>1. running \in [Chips -> BOOLEAN] /\ strayed \in [Chips -> BOOLEAN]
      /\ paceInit \in [Chips -> BOOLEAN] /\ \A c \in Chips : core[c] = "run"
  BY DEF Init
<1>2. /\ core \in [Chips -> {"run", "halt"}]
      /\ pc \in [Chips -> {"top", "flasher", "check", "batch", "pace", "anchor", "exit"}]
      /\ asked \in [Chips -> {"nothing", "eject", "reset"}]
      /\ late \in [Chips -> Nat]
  BY DEF Init
<1>3. /\ pausedAll = FALSE /\ stop = FALSE /\ realTime = Paced /\ Paced \in BOOLEAN
      /\ main = "test" /\ next \in 0..N
  BY ControlAssumption DEF Init
<1>4. QED BY <1>1, <1>2, <1>3 DEF TypeOK

\* The steps of a chip thread.
LEMMA ChipTyped ==
  ASSUME TypeOK, NEW c \in Chips, Chip(c)
  PROVE  TypeOK'
<1> USE DEF At, shared, chip, mainPos, history
<1>1. CASE LoopTop(c)
  BY <1>1 DEF TypeOK, LoopTop
<1>2. CASE PopFlasher(c)
  BY <1>2 DEF TypeOK, PopFlasher, FlasherReset, ResetCore, Unanchor
<1>3. CASE CheckHeld(c)
  BY <1>3 DEF TypeOK, CheckHeld, Held
<1>4. CASE Batch(c)
  <2>1. pc' \in [Chips -> {"top", "flasher", "check", "batch", "pace", "anchor", "exit"}]
    BY <1>4 DEF TypeOK, Batch
  <2>2. late' \in [Chips -> Nat] /\ strayed' \in [Chips -> BOOLEAN]
    <3>1. late \in [Chips -> Nat] /\ strayed \in [Chips -> BOOLEAN]
      BY DEF TypeOK
    <3>2. late' = late \/ late' = [late EXCEPT ![c] = late[c] + 1]
      BY <1>4 DEF Batch
    <3>3. strayed' = strayed \/ strayed' = [strayed EXCEPT ![c] = strayed[c] \/ asked[c] = "eject"]
      BY <1>4 DEF Batch
    <3>4. late' \in [Chips -> Nat]
      BY <3>1, <3>2
    <3>5. (strayed[c] \/ asked[c] = "eject") \in BOOLEAN
      OBVIOUS
    <3>6. strayed' \in [Chips -> BOOLEAN]
      BY <3>1, <3>3, <3>5, Zenon
    <3>7. QED BY <3>4, <3>6
  <2>3. /\ running' \in [Chips -> BOOLEAN] /\ core' \in [Chips -> {"run", "halt"}]
        /\ asked' \in [Chips -> {"nothing", "eject", "reset"}]
        /\ \A d \in Chips : running'[d] => core'[d] = "run"
    BY <1>4 DEF TypeOK, Batch, Halt, Ask
  <2>4. UNCHANGED <<shared, paceInit, mainPos>>
    BY <1>4 DEF Batch
  <2>5. QED BY <2>1, <2>2, <2>3, <2>4 DEF TypeOK
<1>5. CASE Pace(c)
  BY <1>5 DEF TypeOK, Pace
<1>6. CASE Anchor(c)
  BY <1>6 DEF TypeOK, Anchor
<1>7. QED BY <1>1, <1>2, <1>3, <1>4, <1>5, <1>6 DEF Chip

\* The steps of the main thread that touch what the chip threads see.
LEMMA OperatorTyped ==
  ASSUME TypeOK, NEW c \in Chips, Load(c) \/ Unload(c) \/ Reset(c)
  PROVE  TypeOK'
<1>1. UNCHANGED <<pausedAll, stop, realTime, pc, main, next, late, strayed>>
  BY DEF Load, Unload, Reset, Command, shared
<1>2. paceInit' \in [Chips -> BOOLEAN]
  BY DEF TypeOK, Load, Unload, Reset, ResetCore, Unanchor
<1>3. asked' \in [Chips -> {"nothing", "eject", "reset"}]
  BY DEF TypeOK, Load, Unload, Reset, Ask
<1>4. /\ running' \in [Chips -> BOOLEAN] /\ core' \in [Chips -> {"run", "halt"}]
      /\ \A d \in Chips : running'[d] => core'[d] = "run"
  <2>1. CASE Load(c)
    <3>1. running \in [Chips -> BOOLEAN] /\ core \in [Chips -> {"run", "halt"}]
          /\ \A d \in Chips : running[d] => core[d] = "run"
      BY DEF TypeOK
    <3>2. \/ running' = [running EXCEPT ![c] = TRUE] /\ core' = [core EXCEPT ![c] = "run"]
          \/ running' = running /\ core' = core
      BY <2>1 DEF Load
    <3>3. QED BY <3>1, <3>2
  <2>2. CASE Unload(c)
    BY <2>2 DEF TypeOK, Unload
  <2>3. CASE Reset(c)
    BY <2>3 DEF TypeOK, Reset, ResetCore
  <2>4. QED BY <2>1, <2>2, <2>3
<1>5. QED BY <1>1, <1>2, <1>3, <1>4 DEF TypeOK

LEMMA ControlTypeStep ==
  ASSUME TypeOK, [Next]_vars
  PROVE  TypeOK'
<1> USE ControlAssumption DEF shared, chip, mainPos, history
<1>1. ASSUME NEW c \in Chips, Chip(c) PROVE TypeOK'
  BY <1>1, ChipTyped
<1>2. ASSUME NEW c \in Chips, OneChipCommand(c) PROVE TypeOK'
  BY <1>2, OperatorTyped DEF OneChipCommand
<1>3. CASE Pause
  BY <1>3 DEF TypeOK, Pause, Enter
<1>4. CASE SetSpeed
  BY <1>4 DEF TypeOK, SetSpeed, Enter
<1>5. CASE Resume
  BY <1>5 DEF TypeOK, Resume
<1>6. CASE Sigint
  BY <1>6 DEF TypeOK, Sigint
<1>7. CASE UnanchorNext
  <2>1. next' \in 0..N /\ paceInit' \in [Chips -> BOOLEAN]
    <3>1. next < N /\ next' = next + 1 /\ paceInit' = [paceInit EXCEPT ![next] = FALSE]
      BY <1>7 DEF UnanchorNext, Unanchor
    <3>2. next \in 0..N /\ paceInit \in [Chips -> BOOLEAN]
      BY DEF TypeOK
    <3>3. next' \in 0..N
      BY <3>1, <3>2
    <3>4. paceInit' \in [Chips -> BOOLEAN]
      BY <3>1, <3>2, Zenon
    <3>5. QED BY <3>3, <3>4
  <2>2. UNCHANGED <<pausedAll, stop, realTime, running, core, pc, main, late, asked, strayed>>
    BY <1>7 DEF UnanchorNext
  <2>3. QED BY <2>1, <2>2 DEF TypeOK
<1>8. CASE Return
  BY <1>8 DEF TypeOK, Return
<1>9. CASE TestStop \/ NothingToPop
  BY <1>9 DEF TypeOK, TestStop, NothingToPop
<1>10. CASE Join
  BY <1>10 DEF TypeOK, Join
<1>11. CASE FreeChips
  BY <1>11 DEF TypeOK, FreeChips
<1>12. CASE UNCHANGED vars
  BY <1>12 DEF TypeOK, vars
<1>13. QED
  BY <1>1, <1>2, <1>3, <1>4, <1>5, <1>6, <1>7, <1>8, <1>9, <1>10, <1>11, <1>12
  DEF Next, OperatorCommand, Loop

\* Whatever the operator, the flashers and the batches do, a chip whose core has
\* halted is never marked running.
THEOREM ControlTypeCorrect == Spec => []TypeOK
BY ControlTypeInit, ControlTypeStep, PTL DEF Spec

-----------------------------------------------------------------------------
(* The pause.                                                              *)

LEMMA PauseStep ==
  ASSUME TypeOK, PauseCounted, [Next]_vars
  PROVE  PauseCounted'
<1> USE DEF shared, chip, mainPos, history
\* Steps that leave the pause and the counts alone and send nobody to a batch.
<1>still. ASSUME UNCHANGED <<pausedAll, late>>, PauseHolds' = PauseHolds,
                 \A d \in Chips : pc'[d] = "batch" => pc[d] = "batch"
          PROVE  PauseCounted'
  BY <1>still DEF PauseCounted, TypeOK
\* Steps after which nothing is counted.
<1>zero. ASSUME \A d \in Chips : late'[d] = 0 PROVE PauseCounted'
  BY <1>zero DEF PauseCounted
<1>1. ASSUME NEW c \in Chips, LoopTop(c) \/ PopFlasher(c) \/ Pace(c) \/ Anchor(c)
      PROVE  PauseCounted'
  BY <1>still, <1>1 DEF LoopTop, PopFlasher, Pace, Anchor, At, PauseHolds, TypeOK
<1>2. ASSUME NEW c \in Chips, CheckHeld(c) PROVE PauseCounted'
  <2>1. UNCHANGED <<pausedAll, late, main>>
    BY <1>2 DEF CheckHeld
  <2>2. CASE pausedAll
    BY <1>still, <1>2, <2>1, <2>2 DEF CheckHeld, Held, At, PauseHolds, TypeOK
  <2>3. CASE ~pausedAll
    BY <2>1, <2>3, <1>zero DEF PauseCounted, PauseHolds
  <2>4. QED BY <2>2, <2>3
<1>3. ASSUME NEW c \in Chips, Batch(c) PROVE PauseCounted'
  <2>1. PauseHolds' = PauseHolds /\ pc[c] = "batch" /\ pc' = [pc EXCEPT ![c] = "pace"]
    BY <1>3 DEF Batch, At, PauseHolds
  <2>2. late' = late \/ (PauseHolds /\ late' = [late EXCEPT ![c] = late[c] + 1])
    BY <1>3 DEF Batch
  <2>3. late \in [Chips -> Nat] /\ pc \in [Chips -> {"top", "flasher", "check", "batch",
                                                    "pace", "anchor", "exit"}]
    BY DEF TypeOK
  <2>4. CASE late' = late
    BY <1>3, <1>still, <2>1, <2>3, <2>4 DEF Batch
  <2>5. CASE PauseHolds /\ late' = [late EXCEPT ![c] = late[c] + 1]
    <3>1. ASSUME NEW d \in Chips
          PROVE  late'[d] + (IF pc'[d] = "batch" THEN 1 ELSE 0) <= 1
      <4>1. late[d] + (IF pc[d] = "batch" THEN 1 ELSE 0) <= 1
        BY <2>5 DEF PauseCounted
      <4>2. CASE d = c
        BY <2>1, <2>3, <2>5, <4>1, <4>2
      <4>3. CASE d # c
        BY <2>1, <2>3, <2>5, <4>1, <4>3
      <4>4. QED BY <4>2, <4>3
    <3>2. QED BY <2>1, <2>5, <3>1 DEF PauseCounted
  <2>6. QED BY <2>2, <2>4, <2>5
<1>4. ASSUME NEW c \in Chips, OneChipCommand(c) PROVE PauseCounted'
  BY <1>still, <1>4 DEF OneChipCommand, Load, Unload, Reset, Command, PauseHolds
<1>5. CASE Pause \/ Resume
  BY <1>zero, <1>5 DEF Pause, Resume
<1>6. CASE SetSpeed
  BY <1>still, <1>6 DEF SetSpeed, Command, Enter, PauseHolds
<1>7. CASE Sigint \/ TestStop \/ NothingToPop \/ UnanchorNext \/ Join \/ FreeChips \/ UNCHANGED vars
  BY <1>still, <1>7 DEF Sigint, TestStop, NothingToPop, UnanchorNext, Join, FreeChips, vars, PauseHolds
\* The pause begins to hold with nothing counted yet.
<1>8. CASE Return
  <2>1. late' = late /\ pausedAll' = pausedAll /\ pc' = pc /\ main' = "pop"
        /\ main \in {"pause", "speed"}
    BY <1>8 DEF Return
  <2>2. CASE main = "pause"
    BY <1>zero, <2>1, <2>2 DEF PauseCounted, PauseHolds
  <2>3. CASE main = "speed"
    BY <1>still, <2>1, <2>3 DEF PauseHolds
  <2>4. QED BY <2>1, <2>2, <2>3
<1>9. QED
  BY <1>1, <1>2, <1>3, <1>4, <1>5, <1>6, <1>7, <1>8 DEF Next, OperatorCommand, Chip, Loop

\* After the pause command has returned no chip runs more than the one batch its
\* thread had already decided on, however many chips there are.
THEOREM PauseAlwaysTakesHold == Spec => []PauseTakesHold
<1>1. Init => TypeOK /\ PauseCounted
  BY ControlTypeInit DEF Init, PauseCounted
<1>2. TypeOK /\ PauseCounted /\ [Next]_vars => (TypeOK /\ PauseCounted)'
  BY ControlTypeStep, PauseStep
<1>3. TypeOK /\ PauseCounted => PauseTakesHold
  BY DEF TypeOK, PauseCounted, PauseTakesHold
<1>4. QED BY <1>1, <1>2, <1>3, PTL DEF Spec

-----------------------------------------------------------------------------
(* The eject.                                                              *)

LEMMA EjectStep ==
  ASSUME TypeOK, EjectCounted, [Next]_vars
  PROVE  EjectCounted'
<1> USE DEF shared, chip, mainPos, history
<1>still. ASSUME UNCHANGED <<running, asked, strayed>> PROVE EjectCounted'
  BY <1>still DEF EjectCounted
<1>1. ASSUME NEW c \in Chips, LoopTop(c) \/ CheckHeld(c) \/ Pace(c) \/ Anchor(c)
      PROVE  EjectCounted'
  BY <1>still, <1>1 DEF LoopTop, CheckHeld, Pace, Anchor
<1>2. ASSUME NEW c \in Chips, PopFlasher(c) PROVE EjectCounted'
  BY <1>still, <1>2 DEF PopFlasher, FlasherReset
<1>3. ASSUME NEW c \in Chips, Batch(c) PROVE EjectCounted'
  <2>1. CASE MayStep(c)
    <3>1. asked[c] # "eject"
      BY <2>1 DEF EjectCounted, MayStep
    <3>2. strayed' = [strayed EXCEPT ![c] = strayed[c] \/ asked[c] = "eject"]
      BY <1>3, <2>1 DEF Batch
    <3>3. \A d \in Chips : ~strayed'[d]
      BY <3>1, <3>2 DEF EjectCounted, TypeOK
    <3>4. \A d \in Chips : asked'[d] = "eject" => ~running'[d]
      BY <1>3, <2>1 DEF Batch, Halt, Ask, EjectCounted, TypeOK
    <3>5. QED BY <3>3, <3>4 DEF EjectCounted
  <2>2. CASE ~MayStep(c)
    BY <1>still, <1>3, <2>2 DEF Batch
  <2>3. QED BY <2>1, <2>2
<1>4. ASSUME NEW c \in Chips, Load(c) PROVE EjectCounted'
  BY <1>4 DEF Load, Ask, EjectCounted, TypeOK
<1>5. ASSUME NEW c \in Chips, Unload(c) PROVE EjectCounted'
  BY <1>5 DEF Unload, Ask, EjectCounted, TypeOK
<1>6. ASSUME NEW c \in Chips, Reset(c) PROVE EjectCounted'
  BY <1>6 DEF Reset, Ask, EjectCounted, TypeOK
<1>7. CASE Pause \/ SetSpeed \/ Resume \/ Sigint \/ Loop \/ UNCHANGED vars
  BY <1>still, <1>7
  DEF Pause, SetSpeed, Resume, Sigint, Loop, TestStop, NothingToPop, UnanchorNext, Return, Join,
      FreeChips, vars
<1>8. QED
  BY <1>1, <1>2, <1>3, <1>4, <1>5, <1>6, <1>7 DEF Next, OperatorCommand, Chip, OneChipCommand

\* An ejected chip executes nothing until a file is loaded or a reset given: the
\* second test, under the lock, catches the thread that had passed the first.
THEOREM EjectAlwaysTakesHold == Spec => []EjectTakesHold
<1>1. Init => TypeOK /\ EjectCounted
  BY ControlTypeInit DEF Init, EjectCounted
<1>2. TypeOK /\ EjectCounted /\ [Next]_vars => (TypeOK /\ EjectCounted)'
  BY ControlTypeStep, EjectStep
<1>3. EjectCounted => EjectTakesHold
  BY DEF EjectCounted, EjectTakesHold
<1>4. QED BY <1>1, <1>2, <1>3, PTL DEF Spec

-----------------------------------------------------------------------------
(* The shutdown.                                                           *)

LEMMA JoinStep ==
  ASSUME TypeOK, JoinCounted, [Next]_vars
  PROVE  JoinCounted'
<1> USE ControlAssumption DEF shared, chip, mainPos, history
\* A thread that has left its loop stays out.
<1>still. ASSUME UNCHANGED <<main, next>>,
                 \A d \in Chips : pc[d] = "exit" => pc'[d] = "exit"
          PROVE  JoinCounted'
  BY <1>still DEF JoinCounted
<1>1. ASSUME NEW c \in Chips, Chip(c) PROVE JoinCounted'
  <2>1. UNCHANGED <<main, next>> /\ pc[c] # "exit"
        /\ \E to : pc' = [pc EXCEPT ![c] = to]
    BY <1>1 DEF Chip, LoopTop, PopFlasher, CheckHeld, Batch, Pace, Anchor, At
  <2>2. QED BY <1>still, <2>1 DEF TypeOK
<1>2. ASSUME NEW c \in Chips, OneChipCommand(c) PROVE JoinCounted'
  BY <1>still, <1>2 DEF OneChipCommand, Load, Unload, Reset, Command
<1>3. CASE Resume \/ Sigint \/ UNCHANGED vars
  BY <1>still, <1>3 DEF Resume, Sigint, Command, vars
<1>4. CASE Pause \/ SetSpeed \/ UnanchorNext \/ Return
  BY <1>4 DEF Pause, SetSpeed, Enter, UnanchorNext, Return, JoinCounted
<1>5. CASE TestStop \/ NothingToPop
  <2>1. next' = 0 /\ main' \in {"test", "pop", "join"}
    BY <1>5 DEF TestStop, NothingToPop, JoinCounted
  <2>2. \A c \in Chips : ~(c < 0)
    BY DEF Chips
  <2>3. QED BY <2>1, <2>2 DEF JoinCounted
<1>6. CASE Join
  <2>1. pc[next] = "exit" /\ next' = next + 1 /\ main = "join" /\ main' = main /\ pc' = pc
    BY <1>6 DEF Join, Joinable
  <2>2. \A c \in Chips : c < next + 1 => c < next \/ c = next
    BY DEF TypeOK, Chips
  <2>3. QED BY <2>1, <2>2 DEF JoinCounted
<1>7. CASE FreeChips
  BY <1>7 DEF FreeChips, JoinCounted
<1>8. QED
  BY <1>1, <1>2, <1>3, <1>4, <1>5, <1>6, <1>7 DEF Next, OperatorCommand, Loop

\* The chips are freed only after the last of their threads has left its loop.
THEOREM TeardownAlwaysSafe == Spec => []SafeTeardown
<1>1. Init => TypeOK /\ JoinCounted
  BY ControlTypeInit DEF Init, JoinCounted
<1>2. TypeOK /\ JoinCounted /\ [Next]_vars => (TypeOK /\ JoinCounted)'
  BY ControlTypeStep, JoinStep
<1>3. JoinCounted => SafeTeardown
  BY ControlAssumption DEF JoinCounted, SafeTeardown, Chips
<1>4. QED BY <1>1, <1>2, <1>3, PTL DEF Spec
=============================================================================
