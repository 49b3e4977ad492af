---------------------------- MODULE ChipControl ----------------------------
(***************************************************************************)
(* Operator control of the chips: the main thread pauses, resumes, loads,  *)
(* ejects and resets chips and sets the speed (cmd.c, sim_loop.c, chip.c)  *)
(* while one thread per chip polls, runs batches and paces itself          *)
(* (sim_loop.c).  A section under a chip's avr_lock is one step; what the  *)
(* chip thread reads outside the lock is a step of its own: the test of    *)
(* the pause, the test before pacing, and the new anchor of the pacing.    *)
(***************************************************************************)
EXTENDS Naturals

CONSTANTS
  N,       \* number of chips, 5 in the code
  Paced    \* the engine was started with --speed

ASSUME ControlAssumption == N \in Nat \ {0} /\ Paced \in BOOLEAN

Chips == 0..(N - 1)

VARIABLES
  pausedAll,  \* g_paused_all
  stop,       \* g_stop_req
  realTime,   \* g_speed > 0: the chips are paced
  running,    \* chip_t.running
  core,       \* avr->state: "run", or "halt" for cpu_Done and cpu_Crashed
  paceInit,   \* chip_t.pace_init: the chip has an anchor to pace itself against
  pc,         \* where each chip thread is in its loop
  main,       \* where the main thread is: at the test of the stop request ("test"),
              \* popping commands ("pop"), or in a loop over the chips
  next,       \* the next chip of that loop
  late,       \* history: batches run since the pause command returned
  asked,      \* history: "eject" after an unload, "reset" if a reset followed
  strayed     \* history: has executed instructions after an unload

shared  == <<pausedAll, stop, realTime>>
chip    == <<running, core, paceInit>>
mainPos == <<main, next>>
history == <<late, asked, strayed>>
vars    == <<pausedAll, stop, realTime, running, core, paceInit, pc, main, next,
             late, asked, strayed>>

\* Chips with a boot loader or a file from the command line run from the start.
Init ==
  /\ pausedAll = FALSE /\ stop = FALSE /\ realTime = Paced
  /\ running \in [Chips -> BOOLEAN]
  /\ core = [c \in Chips |-> "run"]
  /\ paceInit = [c \in Chips |-> FALSE]
  /\ pc = [c \in Chips |-> "top"]
  /\ main = "test" /\ next = 0
  /\ late = [c \in Chips |-> 0]
  /\ asked = [c \in Chips |-> "nothing"] /\ strayed = [c \in Chips |-> FALSE]

-----------------------------------------------------------------------------
(* The thread of chip c.                                                   *)

At(c, from, to) == pc[c] = from /\ pc' = [pc EXCEPT ![c] = to]

Unanchor(c) == paceInit' = [paceInit EXCEPT ![c] = FALSE]

LoopTop(c) ==
  /\ At(c, "top", IF stop THEN "exit" ELSE "flasher")
  /\ UNCHANGED <<shared, chip, mainPos, history>>

\* chip_reset and chip_soft_reset revive a halted core; they do not touch running.
ResetCore(c) == core' = [core EXCEPT ![c] = "run"] /\ Unanchor(c)

FlasherReset(c) == running[c] /\ ResetCore(c) /\ UNCHANGED running

\* A flasher has connected or has left since the last turn, or neither.
PopFlasher(c) ==
  /\ At(c, "flasher", "check")
  /\ FlasherReset(c) \/ UNCHANGED chip
  /\ UNCHANGED <<shared, mainPos, history>>

\* Mutants: the pause is not looked at, and a chip that is held sleeps for good.
Held_NoPause(c) == ~running[c]
CheckHeld_Parks(c) ==
  /\ At(c, "check", IF pausedAll \/ ~running[c] THEN "parked" ELSE "batch")
  /\ UNCHANGED <<shared, chip, mainPos, history>>

Held(c) == pausedAll \/ ~running[c]

\* Read without the lock.
CheckHeld(c) ==
  /\ At(c, "check", IF Held(c) THEN "top" ELSE "batch")
  /\ UNCHANGED <<shared, chip, mainPos, history>>

\* Mutants: the batch trusts the test made before the lock was taken, and a core
\* that halts leaves its chip running.
MayStep_Trusting(c) == TRUE
Halt_KeepsRunning(c) == core' = [core EXCEPT ![c] = "halt"] /\ UNCHANGED <<running, asked>>

\* Tested again under the lock, before the batch and in every chip_step.
MayStep(c) == running[c]

Ask(c, what) == asked' = [asked EXCEPT ![c] = what]

Halt(c) ==
  /\ core' = [core EXCEPT ![c] = "halt"]
  /\ running' = [running EXCEPT ![c] = FALSE]
  /\ Ask(c, "nothing")

PauseHolds == pausedAll /\ main # "pause"

Batch(c) ==
  /\ At(c, "batch", "pace")
  /\ IF MayStep(c)
     THEN /\ Halt(c) \/ UNCHANGED <<running, core, asked>>
          /\ late' = IF PauseHolds THEN [late EXCEPT ![c] = @ + 1] ELSE late
          /\ strayed' = [strayed EXCEPT ![c] = @ \/ asked[c] = "eject"]
     ELSE UNCHANGED <<running, core, history>>
  /\ UNCHANGED <<shared, paceInit, mainPos>>

\* A chip without an anchor takes one; the others sleep if they are ahead.
Pace(c) ==
  /\ At(c, "pace", IF running[c] /\ realTime /\ ~paceInit[c] THEN "anchor" ELSE "top")
  /\ UNCHANGED <<shared, chip, mainPos, history>>

\* Written without the lock.
Anchor(c) ==
  /\ At(c, "anchor", "top")
  /\ paceInit' = [paceInit EXCEPT ![c] = TRUE]
  /\ UNCHANGED <<shared, running, core, mainPos, history>>

Chip(c) ==
  \/ LoopTop(c) \/ PopFlasher(c) \/ CheckHeld(c) \/ Batch(c)
  \/ Pace(c) \/ Anchor(c)

-----------------------------------------------------------------------------
(* The main thread.  Which commands are in the queue is up to the operator.  *)

TestStop ==
  /\ main = "test"
  /\ main' = IF stop THEN "join" ELSE "pop"
  /\ UNCHANGED <<shared, chip, pc, next, history>>

\* Only an empty queue leads back to the test.
NothingToPop ==
  /\ main = "pop" /\ main' = "test"
  /\ UNCHANGED <<shared, chip, pc, next, history>>

Command == main = "pop"

\* A loop over all chips, one lock at a time.
Enter(loop) == main' = loop /\ UNCHANGED next

Pause ==
  /\ Command /\ Enter("pause")
  /\ pausedAll' = TRUE
  /\ late' = [c \in Chips |-> 0]
  /\ UNCHANGED <<stop, realTime, chip, pc, asked, strayed>>

SetSpeed ==
  /\ Command /\ Enter("speed")
  /\ realTime' \in BOOLEAN
  /\ UNCHANGED <<pausedAll, stop, chip, pc, history>>

UnanchorNext ==
  /\ main \in {"pause", "speed"} /\ next < N
  /\ Unanchor(next)
  /\ next' = next + 1
  /\ UNCHANGED <<shared, running, core, pc, main, history>>

Return ==
  /\ main \in {"pause", "speed"} /\ next = N
  /\ main' = "pop" /\ next' = 0
  /\ UNCHANGED <<shared, chip, pc, history>>

Resume ==
  /\ Command
  /\ pausedAll' = FALSE
  /\ late' = [c \in Chips |-> 0]
  /\ UNCHANGED <<stop, realTime, chip, pc, main, next, asked, strayed>>

\* A file that cannot be read or parsed leaves all but the anchor alone.
Load(c) ==
  /\ Command
  /\ \/ /\ running' = [running EXCEPT ![c] = TRUE]
        /\ core' = [core EXCEPT ![c] = "run"]
        /\ Ask(c, "nothing")
     \/ UNCHANGED <<running, core, asked>>
  /\ Unanchor(c)
  /\ UNCHANGED <<shared, pc, main, next, late, strayed>>

Unload(c) ==
  /\ Command
  /\ running' = [running EXCEPT ![c] = FALSE]
  /\ Unanchor(c)
  /\ Ask(c, "eject")
  /\ UNCHANGED <<shared, core, pc, main, next, late, strayed>>

Reset(c) ==
  /\ Command
  /\ ResetCore(c)
  /\ IF asked[c] = "eject" THEN Ask(c, "reset") ELSE UNCHANGED asked
  /\ UNCHANGED <<shared, running, pc, main, next, late, strayed>>

Sigint ==
  /\ ~stop /\ stop' = TRUE
  /\ UNCHANGED <<pausedAll, realTime, chip, pc, mainPos, history>>

\* Mutant: the main thread does not wait for the chip threads.
Joinable_Any == TRUE

Joinable == pc[next] = "exit"

Join ==
  /\ main = "join" /\ next < N
  /\ Joinable
  /\ next' = next + 1
  /\ UNCHANGED <<shared, chip, pc, main, history>>

\* chip_free of every chip: nothing but the main thread is left to look.
FreeChips ==
  /\ main = "join" /\ next = N
  /\ main' = "freed"
  /\ UNCHANGED <<shared, chip, pc, next, history>>

OneChipCommand(c) == Load(c) \/ Unload(c) \/ Reset(c)

Loop == TestStop \/ NothingToPop \/ UnanchorNext \/ Return \/ Join \/ FreeChips

OperatorCommand == Pause \/ SetSpeed \/ Resume \/ \E c \in Chips : OneChipCommand(c)

Next ==
  \/ \E c \in Chips : Chip(c)
  \/ OperatorCommand \/ Loop \/ Sigint

Spec == Init /\ [][Next]_vars

\* Threads keep running, and the main thread pops as long as there are commands.
Fairness == WF_vars(OperatorCommand \/ Loop) /\ \A c \in Chips : WF_vars(Chip(c))

FairSpec == Spec /\ Fairness

-----------------------------------------------------------------------------
(* Properties.                                                             *)

\* Every variable holds a value the code can give it, and a chip whose core has
\* halted is not marked running, whoever has reset it since.
TypeOK ==
  /\ pausedAll \in BOOLEAN /\ stop \in BOOLEAN /\ realTime \in BOOLEAN
  /\ running \in [Chips -> BOOLEAN]
  /\ core \in [Chips -> {"run", "halt"}]
  /\ paceInit \in [Chips -> BOOLEAN]
  /\ pc \in [Chips -> {"top", "flasher", "check", "batch", "pace", "anchor", "exit"}]
  /\ main \in {"test", "pop", "pause", "speed", "join", "freed"}
  /\ next \in 0..N
  /\ late \in [Chips -> Nat]
  /\ asked \in [Chips -> {"nothing", "eject", "reset"}] /\ strayed \in [Chips -> BOOLEAN]
  /\ \A c \in Chips : running[c] => core[c] = "run"

\* Once the pause command has returned every chip runs at most the one batch its
\* thread was already on the way to, until the resume.
PauseTakesHold == \A c \in Chips : late[c] <= 1

\* An ejected chip executes nothing, not even the batch its thread was on the way
\* to, and no flasher that connects or leaves, no resume and no file that fails to
\* load starts it.
EjectTakesHold == \A c \in Chips : asked[c] = "eject" => ~running[c] /\ ~strayed[c]

\* No chip is freed while its thread may still use it.
SafeTeardown == main = "freed" => \A c \in Chips : pc[c] = "exit"

\* A chip that runs and is not held goes on to its next batch, however often it
\* was paused, ejected and loaded before.
RunningChipAdvances ==
  \A c \in Chips :
    (running[c] /\ ~pausedAll) ~> (pc[c] = "batch" \/ ~running[c] \/ pausedAll \/ stop)

\* A stop request ends every thread, paused or not, once the commands cease: the
\* inner loop of main.c pops until the queue is empty and does not look at the
\* request, so commands that never cease can delay the stop without end.
StopEndsAll == <>[][~OperatorCommand]_vars => (stop ~> main = "freed")

\* main.c:63-64: "shutdown is driven by SIGINT".  Without the condition it is not.
SigintStops == stop ~> main = "freed"

\* "sim_loop_pause_all() — also resets pace_init on all chips": while a pause
\* holds no chip keeps an anchor, or it would make up the pause at full speed.
PauseResetsPacing == PauseHolds => \A c \in Chips : ~paceInit[c]

\* "Flash is NOT cleared — if you want to restart the same firmware, send reset."
ResetRestartsEjected == \A c \in Chips : asked[c] = "reset" => running[c]
=============================================================================
