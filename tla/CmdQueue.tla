------------------------------ MODULE CmdQueue ------------------------------
(***************************************************************************)
(* Operator commands on their way into the engine: the reader of stdin and *)
(* the scenario threads parse lines and push commands into a ring buffer   *)
(* (cmd.c), the main thread pops and applies them (main.c) and may thereby *)
(* start another scenario (script.c).  Every access to the ring is one     *)
(* critical section under g_q_mutex, so it is one step.                    *)
(*                                                                         *)
(* A command is the producer that parsed it and the number of the line.    *)
(* Its payload is heap memory whose ownership moves with the command.      *)
(***************************************************************************)
EXTENDS Naturals, Sequences, FiniteSets

CONSTANTS
  Reader,     \* the thread that reads stdin
  Scripts,    \* the scenario threads that may be started
  NoCmd,
  Cap,        \* CMD_QUEUE_CAP, 256 in the code
  Lines       \* bound of the model: lines each producer reads

ASSUME QueueAssumption ==
  /\ Reader \notin Scripts
  /\ Cap \in Nat \ {0}
  /\ Lines \in Nat
  /\ NoCmd \notin [by : {Reader} \cup Scripts, line : 1..Lines]

Producers == {Reader} \cup Scripts
Cmds      == [by : Producers, line : 1..Lines]

VARIABLES
  cells, head, tail, count,  \* g_q, g_q_head, g_q_tail, g_q_count
  where,    \* where each producer is: "off", "read", "push" or "done"
  read,     \* lines each producer has read
  main,     \* where the main thread is: "test", "pop", "apply" or "left"
  current,  \* the command the main thread has popped
  stop,     \* g_stop_req
  applied,  \* history: the commands popped for cmd_apply, in order
  refused,  \* history: the commands dropped because the ring was full
  freed     \* history: how often each command's payload has been freed

ringVars == <<cells, head, tail, count>>
vars == <<cells, head, tail, count, where, read, main, current, stop, applied, refused, freed>>

Init ==
  /\ cells = [i \in 0..(Cap - 1) |-> NoCmd]
  /\ head = 0 /\ tail = 0 /\ count = 0
  /\ where \in { w \in [Producers -> {"read", "off"}] : w[Reader] = "read" }
  /\ read = [p \in Producers |-> 0]
  /\ main = "test" /\ current = NoCmd
  /\ stop = FALSE
  /\ applied = <<>> /\ refused = {}
  /\ freed = [c \in Cmds |-> 0]

-----------------------------------------------------------------------------
(* Producers.                                                              *)

Held(p) == [by |-> p, line |-> read[p]]

Free(c) == freed' = [freed EXCEPT ![c] = @ + 1]

\* A line is a command, or blank, a comment or unparsable.  A scenario looks at
\* the stop request before each line and again after its wait.
ReadLine(p) ==
  /\ where[p] = "read"
  /\ read[p] < Lines
  /\ p = Reader \/ ~stop
  /\ read' = [read EXCEPT ![p] = @ + 1]
  /\ \E next \in {"read", "push"} : where' = [where EXCEPT ![p] = next]
  /\ UNCHANGED <<ringVars, main, current, stop, applied, refused, freed>>

\* End of input, or the scenario notices the stop request.
Retire(p) ==
  /\ where[p] = "read"
  /\ where' = [where EXCEPT ![p] = "done"]
  /\ UNCHANGED <<ringVars, read, main, current, stop, applied, refused, freed>>

\* Mutant: the ring keeps one place free.
Full_Early == count = Cap - 1

Full == count = Cap

\* Mutant: the dropped command leaks.
DropHeld_Leak(p) == refused' = refused \cup {Held(p)} /\ UNCHANGED freed

DropHeld(p) == refused' = refused \cup {Held(p)} /\ Free(Held(p))

Push(p) ==
  /\ where[p] = "push"
  /\ IF Full
     THEN DropHeld(p) /\ UNCHANGED ringVars
     ELSE /\ cells' = [cells EXCEPT ![tail] = Held(p)]
          /\ tail' = (tail + 1) % Cap
          /\ count' = count + 1
          /\ UNCHANGED <<head, refused, freed>>
  /\ where' = [where EXCEPT ![p] = "read"]
  /\ UNCHANGED <<read, main, current, stop, applied>>

-----------------------------------------------------------------------------
(* The main thread and the signal handler.                                 *)

Sigint ==
  /\ ~stop /\ stop' = TRUE
  /\ UNCHANGED <<ringVars, where, read, main, current, applied, refused, freed>>

TestStop ==
  /\ main = "test"
  /\ main' = IF stop THEN "left" ELSE "pop"
  /\ UNCHANGED <<ringVars, where, read, current, stop, applied, refused, freed>>

TakeHead ==
  /\ current' = cells[head]
  /\ head' = (head + 1) % Cap
  /\ UNCHANGED tail

\* Mutant: the last command stays in the ring.
HasCommand_NotLast == count > 1

HasCommand == count > 0

Pop ==
  /\ main = "pop"
  /\ HasCommand
  /\ TakeHead
  /\ count' = count - 1
  /\ applied' = Append(applied, current')
  /\ main' = "apply"
  /\ UNCHANGED <<cells, where, read, stop, refused, freed>>

\* The inner loop ends only when the ring is empty; then the thread sleeps.
NothingToPop ==
  /\ main = "pop"
  /\ ~HasCommand
  /\ main' = "test"
  /\ UNCHANGED <<ringVars, where, read, current, stop, applied, refused, freed>>

\* cmd_apply frees the payload of every command; run_script starts a thread.
Apply ==
  /\ main = "apply"
  /\ Free(current)
  /\ current' = NoCmd
  /\ main' = "pop"
  /\ \/ UNCHANGED where
     \/ \E s \in Scripts : where[s] = "off" /\ where' = [where EXCEPT ![s] = "read"]
  /\ UNCHANGED <<ringVars, read, stop, applied, refused>>

-----------------------------------------------------------------------------

Produce(p) == ReadLine(p) \/ Retire(p) \/ Push(p)

MainThread == TestStop \/ Pop \/ NothingToPop \/ Apply

\* After the main thread has left its loop the process ends.
Next ==
  /\ main # "left"
  /\ MainThread \/ Sigint \/ \E p \in Producers : Produce(p)

Spec == Init /\ [][Next]_vars

\* The main thread keeps running, and a producer finishes a push it has begun.
Fairness == WF_vars(MainThread) /\ \A p \in Producers : WF_vars(Push(p))

FairSpec == Spec /\ Fairness

-----------------------------------------------------------------------------
(* Properties.                                                             *)

\* The commands waiting in the ring, oldest first.
Waiting == [i \in 1..count |-> cells[(head + i - 1) % Cap]]

RingOK ==
  /\ cells \in [0..(Cap - 1) -> Cmds \cup {NoCmd}]
  /\ head \in 0..(Cap - 1) /\ tail \in 0..(Cap - 1) /\ count \in 0..Cap
  /\ tail = (head + count) % Cap
  /\ \A i \in 1..count : Waiting[i] \in Cmds

ThreadsOK ==
  /\ where \in [Producers -> {"off", "read", "push", "done"}]
  /\ read \in [Producers -> 0..Lines]
  /\ \A p \in Producers : where[p] = "push" => read[p] > 0
  /\ main \in {"test", "pop", "apply", "left"}
  /\ current \in Cmds \cup {NoCmd} /\ (main = "apply" => current \in Cmds)
  /\ stop \in BOOLEAN
  /\ applied \in Seq(Cmds)
  /\ refused \subseteq Cmds
  /\ freed \in [Cmds -> Nat]

\* Every variable holds a value the code can give it; head, tail and count
\* describe the same part of the ring, and it holds commands.
TypeOK == RingOK /\ ThreadsOK

\* The ring and its users keep the promise of CommandPipe through every
\* wrap-around of head and tail: nothing is lost, duplicated or reordered, and
\* nothing is refused while there is room.
Pipe == INSTANCE CommandPipe WITH Commands <- Cmds, pending <- Waiting
ImplementsPipe == Pipe!PipeSpec

\* The payload of a command has exactly one owner from the moment it is parsed
\* until it is freed, and is freed once: its producer, a place of the ring or the
\* main thread.
Owners(c) ==
  Cardinality({ i \in 1..count : Waiting[i] = c })
  + Cardinality({ p \in Producers : where[p] = "push" /\ Held(p) = c })
  + (IF main = "apply" /\ current = c THEN 1 ELSE 0)

OwnedOnce ==
  \A c \in Cmds :
    /\ Owners(c) + freed[c] <= 1
    /\ c \in refused \/ (\E i \in DOMAIN applied : applied[i] = c) => Owners(c) + freed[c] = 1

\* The commands of one producer are applied in the order of its lines, whatever
\* the others push in between and whichever are refused.
LinesInOrder ==
  \A i, j \in DOMAIN applied :
    i < j /\ applied[i].by = applied[j].by => applied[i].line < applied[j].line

\* An accepted command is eventually applied unless the engine is told to stop.
AcceptedIsApplied ==
  \A c \in Cmds :
    (\E i \in 1..count : Waiting[i] = c)
      ~> (stop \/ \E i \in DOMAIN applied : applied[i] = c)
=============================================================================
