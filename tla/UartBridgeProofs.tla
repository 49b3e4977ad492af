------------------------- MODULE UartBridgeProofs -------------------------
(***************************************************************************)
(* Theorems about the virtual-COM bridges, for every set of chips and any  *)
(* number of flashes, scripts and ChipBridge objects.  The invariant adds  *)
(* to what is claimed who may hold a bridge: what is free is closed and in *)
(* nobody's hands, what is being started is in one pair of hands, and what *)
(* was told to stop and still runs is in the hands of the one who joins it.*)
(***************************************************************************)
EXTENDS UartBridge, TLAPS, WellFoundedInduction, FiniteSetTheorems

BridgeTyped ==
  /\ pc \in [Bridge -> {"free"} \cup Opening \cup Supervisor \cup Over]
  /\ supervised \in [Bridge -> BOOLEAN]
  /\ stop \in [Bridge -> BOOLEAN]
  /\ sock \in [Bridge -> BOOLEAN]
  /\ ser \in [Bridge -> BOOLEAN]
  /\ tcp2com \in [Bridge -> BOOLEAN]
  /\ com2tcp \in [Bridge -> BOOLEAN]
  /\ slot \in [Chip -> Bridge \cup {Avrdude, NoOne}]

ProgramTyped ==
  /\ engine \in BOOLEAN
  /\ bridges \in [Chip -> Bridge \cup {NoOne}]
  /\ gui \in [at: {"idle", "next", "joining", "clear", "create", "opening",
                   "pausing", "closed", "raised"},
              job: Jobs, chip: Chip \cup {NoOne}]
  /\ guiAt \in Bridge \cup {NoOne}
  /\ visited \in SUBSET Bridge
  /\ size \in Nat
  /\ opening \in SUBSET Bridge
  /\ avr \in [Chip -> {"none", "launch", "session", "ended", "joining", "create",
                     "opening"}]
  /\ avrAt \in [Chip -> Bridge \cup {NoOne}]
  /\ restore \in [Chip -> BOOLEAN]
  /\ script \in {"none", "install", "remove"}
  /\ paired \in BOOLEAN
  /\ timer \in BOOLEAN
  /\ restarts \in Nat
  /\ flashes \in 0..MaxFlashes
  /\ scripts \in 0..MaxScripts

\* A free object holds nothing, and nobody refers to it.
FreeIsClosed ==
  \A b \in Bridge : pc[b] = "free" =>
     /\ ~stop[b] /\ ~sock[b] /\ ~ser[b] /\ b \notin Held
     /\ \A c \in Chip : slot[c] # b

\* What the dictionary and the threads refer to.
RefersToOwn ==
  /\ \A c \in Chip : /\ bridges[c] # NoOne => Of(bridges[c]) = c
                     /\ avrAt[c] # NoOne => Of(avrAt[c]) = c
                     /\ avrAt[c] # NoOne <=> avr[c] \in {"joining", "opening"}
  /\ guiAt # NoOne <=> gui.at \in {"joining", "pausing"}
  /\ opening # {} => gui.at = "opening"

\* The bridge that _pause_bridge has popped.
PausingOne ==
  gui.at = "pausing" => /\ gui.chip \in Chip
                        /\ Of(guiAt) = gui.chip
                        /\ bridges[gui.chip] = NoOne
                        /\ avr[gui.chip] = "none"

\* The run of the script that removeComPorts starts after its stop().
RemoveIsDue == gui.job = "remove" => scripts < MaxScripts

\* A bridge that start() opens is known to its starter only.
OpeningUnshared ==
  /\ \A b \in opening : /\ ~stop[b] /\ b \notin Active
                        /\ \A c \in Chip : avrAt[c] # b
  /\ \A c \in Chip : avr[c] = "opening" =>
        ~stop[avrAt[c]] /\ avrAt[c] \notin Active /\ avrAt[c] # guiAt

\* A bridge that was told to stop and still runs is being joined.
Joining(b) == b = guiAt \/ \E c \in Chip : avr[c] = "joining" /\ avrAt[c] = b
StoppingIsJoined == \A b \in Bridge : stop[b] => Joining(b) \/ ThreadsDead(b)

BridgeInv ==
  /\ TypeOK
  /\ FreshWorkers
  /\ FreeIsClosed
  /\ RefersToOwn
  /\ PausingOne
  /\ RemoveIsDue
  /\ OpeningUnshared
  /\ StoppingIsJoined
  /\ StopIsComplete

LEMMA TypeSplit == TypeOK <=> BridgeTyped /\ ProgramTyped
  BY DEF TypeOK, BridgeTyped, ProgramTyped

-----------------------------------------------------------------------------
(* The operators the actions are built from.                               *)

LEMMA OfIsChip == \A b \in Bridge : Of(b) \in Chip
  BY DEF Bridge, Of

\* The allocator returns an object that is free.
LEMMA FreshIsFree ==
  ASSUME NEW c \in Chip, Free(c) # {}
  PROVE  Fresh(c) \in Bridge /\ Of(Fresh(c)) = c /\ pc[Fresh(c)] = "free"
<1> DEFINE T == {b[2] : b \in Free(c)}
           R == OpToRel(<, Nat)
<1>1. T \subseteq Nat /\ T # {}
  BY BoundsAssumption DEF Free, Bridge
<1>2. \A i, j \in Nat : j < i => <<j, i>> \in R
  BY DEF OpToRel
<1>3. IsWellFoundedOn(R, Nat)
  BY NatLessThanWellFounded
<1>4. PICK m \in T : \A j \in T : ~(<<j, m>> \in R)
  <2> HIDE DEF T, R
  <2>1. QED BY <1>1, <1>3, WFMin
<1>5. ASSUME NEW j \in T PROVE m <= j
  <2> HIDE DEF T, R
  <2>1. m \in Nat /\ j \in Nat
    BY <1>1
  <2>2. ~(j < m)
    BY <1>2, <1>4, <2>1
  <2>3. QED BY <2>1, <2>2
<1>6. PICK b \in Free(c) : b[2] = m
  OBVIOUS
<1>7. \A f \in Free(c) : b[2] <= f[2]
  BY <1>5, <1>6
<1>8. Fresh(c) \in Free(c)
  <2> HIDE DEF T, R
  <2>1. QED BY <1>7 DEF Fresh
<1>9. QED BY <1>8 DEF Free

LEMMA ActiveIsFinite ==
  ASSUME ProgramTyped
  PROVE  IsFiniteSet(Active) /\ Cardinality(Active) \in Nat /\ Active \subseteq Bridge
<1> DEFINE f == [c \in Chip |-> bridges[c]]
           T == {bridges[c] : c \in Chip}
<1>1. f \in Surjection(Chip, T)
  BY DEF Surjection
<1>2. IsFiniteSet(T)
  <2> HIDE DEF f, T
  <2>1. QED BY <1>1, ChipAssumption, FS_Surjection
<1>3. Active \in SUBSET T
  BY DEF Active
<1>4. IsFiniteSet(Active)
  BY <1>2, <1>3, FS_Subset
<1>5. QED BY <1>4, FS_CardinalityType DEF Active, ProgramTyped

\* Collecting what nobody refers to.
LEMMA ReleaseTyped ==
  ASSUME BridgeTyped, NEW S, Release(S)
  PROVE  BridgeTyped'
<1> DEFINE dead == {b \in S \cap Bridge : ThreadsDead(b) /\ b \notin Held'}
<1> HIDE DEF dead
<1>1. /\ pc' = [b \in Bridge |-> IF b \in dead THEN "free" ELSE pc[b]]
      /\ supervised' = [b \in Bridge |-> IF b \in dead THEN FALSE ELSE supervised[b]]
      /\ stop' = [b \in Bridge |-> IF b \in dead THEN FALSE ELSE stop[b]]
      /\ sock' = [b \in Bridge |-> IF b \in dead THEN FALSE ELSE sock[b]]
      /\ ser' = [b \in Bridge |-> IF b \in dead THEN FALSE ELSE ser[b]]
      /\ slot' = [c \in Chip |-> IF slot[c] \in dead THEN NoOne ELSE slot[c]]
      /\ tcp2com' = tcp2com /\ com2tcp' = com2tcp
  BY DEF Release, Vacate, dead
<1>2. pc' \in [Bridge -> {"free"} \cup Opening \cup Supervisor \cup Over]
  BY <1>1 DEF BridgeTyped
<1>3. slot' \in [Chip -> Bridge \cup {Avrdude, NoOne}]
  BY <1>1 DEF BridgeTyped
<1>4. supervised' \in [Bridge -> BOOLEAN] /\ stop' \in [Bridge -> BOOLEAN]
  BY <1>1, Zenon DEF BridgeTyped
<1>5. sock' \in [Bridge -> BOOLEAN] /\ ser' \in [Bridge -> BOOLEAN]
  BY <1>1, Zenon DEF BridgeTyped
<1>6. QED BY <1>1, <1>2, <1>3, <1>4, <1>5 DEF BridgeTyped

LEMMA ReleaseKeepsWorkers ==
  ASSUME BridgeTyped, FreshWorkers, NEW S, Release(S)
  PROVE  FreshWorkers'
<1> SUFFICES ASSUME NEW b \in Bridge,
                    pc'[b] \in {"free", "failed", "nap", "retry", "backoff"} \cup Opening
             PROVE  ~tcp2com'[b] /\ ~com2tcp'[b]
  BY DEF FreshWorkers
<1>1. tcp2com' = tcp2com /\ com2tcp' = com2tcp
  BY DEF Release
<1>2. pc'[b] = pc[b] \/ ThreadsDead(b)
  BY DEF Release
<1>3. QED BY <1>1, <1>2 DEF FreshWorkers, ThreadsDead

LEMMA ReleaseKeepsFree ==
  ASSUME BridgeTyped, FreeIsClosed, NEW S, Release(S), Held' \cap Bridge \subseteq Held
  PROVE  FreeIsClosed'
<1> SUFFICES ASSUME NEW b \in Bridge, pc'[b] = "free"
             PROVE  /\ ~stop'[b] /\ ~sock'[b] /\ ~ser'[b] /\ b \notin Held'
                    /\ \A c \in Chip : slot'[c] # b
  BY DEF FreeIsClosed
<1>0. b # NoOne
  BY NamesAssumption
<1>1. CASE b \in {d \in S \cap Bridge : ThreadsDead(d) /\ d \notin Held'}
  <2>1. ~stop'[b] /\ ~sock'[b] /\ ~ser'[b] /\ b \notin Held'
    BY <1>1 DEF Release
  <2>2. \A c \in Chip : slot'[c] # b
    BY <1>0, <1>1 DEF Release, Vacate
  <2>3. QED BY <2>1, <2>2
<1>2. CASE ~(b \in {d \in S \cap Bridge : ThreadsDead(d) /\ d \notin Held'})
  <2>1. /\ pc'[b] = pc[b] /\ stop'[b] = stop[b] /\ sock'[b] = sock[b] /\ ser'[b] = ser[b]
    BY <1>2 DEF Release
  <2>2. \A c \in Chip : slot'[c] = b => slot[c] = b
    BY <1>0 DEF Release, Vacate
  <2>3. QED BY <2>1, <2>2 DEF FreeIsClosed
<1>3. QED BY <1>1, <1>2

\* Whoever drops a bridge that was told to stop has joined it.
LEMMA ReleaseCompletes ==
  ASSUME BridgeTyped, StopIsComplete, NEW S, Release(S), Held \cap Bridge \subseteq Held' \cup S,
         \A b \in Bridge : stop[b] /\ b \notin Held' => ThreadsDead(b)
  PROVE  StopIsComplete'
<1> SUFFICES ASSUME NEW b \in Bridge, stop'[b], b \notin Held' PROVE FALSE
  BY DEF StopIsComplete
<1>1. stop[b]
  BY DEF Release
<1>2. b \in S /\ ThreadsDead(b)
  BY <1>1 DEF StopIsComplete
<1>3. ~stop'[b]
  BY <1>2 DEF Release
<1>4. QED BY <1>3

LEMMA ReleaseKeepsStopping ==
  ASSUME BridgeTyped, StoppingIsJoined, NEW S, Release(S),
         \A b \in Bridge : stop[b] /\ Joining(b) => Joining(b)' \/ ThreadsDead(b)
  PROVE  StoppingIsJoined'
<1> SUFFICES ASSUME NEW b \in Bridge, stop'[b] PROVE Joining(b)' \/ ThreadsDead(b)'
  BY DEF StoppingIsJoined
<1>1. stop[b] /\ pc'[b] = pc[b] /\ tcp2com' = tcp2com /\ com2tcp' = com2tcp
  BY DEF Release
<1>2. Joining(b)' \/ ThreadsDead(b)
  BY <1>1 DEF StoppingIsJoined
<1>3. ThreadsDead(b) => ThreadsDead(b)'
  BY <1>1 DEF ThreadsDead
<1>4. QED BY <1>2, <1>3

-----------------------------------------------------------------------------
(* The start.                                                              *)

LEMMA InitInv == Init => BridgeInv
<1> SUFFICES ASSUME Init PROVE BridgeInv
  OBVIOUS
<1>1. Active = {} /\ Held \cap Bridge = {} /\ \A b \in Bridge : b \notin Held
  BY NamesAssumption DEF Init, Active, Held
<1>2. BridgeTyped
  BY DEF Init, BridgeTyped
<1>3. ProgramTyped
  BY BoundsAssumption DEF Init, ProgramTyped, Idle, Jobs
<1>4. FreshWorkers /\ FreeIsClosed /\ StoppingIsJoined /\ StopIsComplete
  BY <1>1, NamesAssumption DEF Init, FreshWorkers, FreeIsClosed, StoppingIsJoined, StopIsComplete
<1>5. RefersToOwn /\ PausingOne /\ RemoveIsDue /\ OpeningUnshared
  BY <1>1 DEF Init, RefersToOwn, PausingOne, RemoveIsDue, OpeningUnshared, Idle
<1>6. QED BY <1>2, <1>3, <1>4, <1>5, TypeSplit DEF BridgeInv

-----------------------------------------------------------------------------
(* The threads of one bridge.                                              *)

\* What the program refers to does not depend on the bridges' own threads.
LEMMA ProgramUnchanged ==
  ASSUME BridgeInv, UNCHANGED programVars
  PROVE  ProgramTyped' /\ RefersToOwn' /\ PausingOne' /\ RemoveIsDue' /\ Held' = Held /\ Active' = Active
<1>1. ProgramTyped
  BY TypeSplit DEF BridgeInv
<1>2. UNCHANGED <<engine, bridges, gui, guiAt, visited, size, opening, avr, avrAt, restore,
                  script, paired, timer, restarts, flashes, scripts>>
  BY DEF programVars, guiVars, avrVars, comVars
<1>3. Held' = Held /\ Active' = Active
  BY <1>2 DEF Held, Active
<1>4. ProgramTyped' /\ RefersToOwn' /\ PausingOne' /\ RemoveIsDue'
  BY <1>1, <1>2 DEF BridgeInv, ProgramTyped, RefersToOwn, PausingOne, RemoveIsDue
<1>5. QED BY <1>3, <1>4

\* The step of a thread of bridge b keeps the invariant when it leaves the
\* other bridges alone, does not touch the stop event and kills no worker
\* but of a bridge that is past opening.
LEMMA OwnStep ==
  ASSUME BridgeInv, UNCHANGED programVars, NEW b \in Bridge,
         BridgeTyped', UNCHANGED stop, pc[b] # "free", pc'[b] # "free",
         \A d \in Bridge \ {b} :
            /\ pc'[d] = pc[d] /\ sock'[d] = sock[d] /\ ser'[d] = ser[d]
            /\ tcp2com'[d] = tcp2com[d] /\ com2tcp'[d] = com2tcp[d],
         \A c \in Chip : slot'[c] \in {slot[c], b, NoOne},
         pc'[b] \in {"failed", "nap", "retry", "backoff"} \cup Opening
            => ~tcp2com'[b] /\ ~com2tcp'[b],
         ThreadsDead(b) => ThreadsDead(b)'
  PROVE  BridgeInv'
<1>1. /\ ProgramTyped' /\ RefersToOwn' /\ PausingOne' /\ RemoveIsDue' /\ Held' = Held /\ Active' = Active
      /\ UNCHANGED <<bridges, guiAt, opening, avr, avrAt>>
  BY ProgramUnchanged DEF programVars, guiVars, avrVars
<1>2. TypeOK'
  BY <1>1, TypeSplit DEF BridgeTyped, ProgramTyped, TypeOK
<1>3. FreshWorkers'
  <2> SUFFICES ASSUME NEW d \in Bridge,
                      pc'[d] \in {"free", "failed", "nap", "retry", "backoff"} \cup Opening
               PROVE  ~tcp2com'[d] /\ ~com2tcp'[d]
    BY DEF FreshWorkers
  <2>1. CASE d = b
    BY <2>1
  <2>2. CASE d # b
    BY <2>2 DEF BridgeInv, FreshWorkers
  <2>3. QED BY <2>1, <2>2
<1>4. FreeIsClosed'
  <2> SUFFICES ASSUME NEW d \in Bridge, pc'[d] = "free"
               PROVE  /\ ~stop'[d] /\ ~sock'[d] /\ ~ser'[d] /\ d \notin Held'
                      /\ \A c \in Chip : slot'[c] # d
    BY DEF FreeIsClosed
  <2>1. d # b /\ d # NoOne /\ pc[d] = "free"
    BY NamesAssumption
  <2>2. QED BY <1>1, <2>1 DEF BridgeInv, FreeIsClosed
<1>5. OpeningUnshared'
  BY <1>1 DEF BridgeInv, OpeningUnshared
<1>6. StoppingIsJoined'
  <2> SUFFICES ASSUME NEW d \in Bridge, stop'[d] PROVE Joining(d)' \/ ThreadsDead(d)'
    BY DEF StoppingIsJoined
  <2>1. Joining(d) \/ ThreadsDead(d)
    BY DEF BridgeInv, StoppingIsJoined
  <2>2. Joining(d) => Joining(d)'
    BY <1>1 DEF Joining
  <2>3. ThreadsDead(d) => ThreadsDead(d)'
    BY DEF ThreadsDead
  <2>4. QED BY <2>1, <2>2, <2>3
<1>7. StopIsComplete'
  BY <1>1 DEF BridgeInv, StopIsComplete
<1>8. QED BY <1>1, <1>2, <1>3, <1>4, <1>5, <1>6, <1>7 DEF BridgeInv

\* Functions on bridges, updated at one place.
LEMMA FlagUpdate ==
  ASSUME NEW f \in [Bridge -> BOOLEAN], NEW b \in Bridge, NEW v \in BOOLEAN
  PROVE  /\ [f EXCEPT ![b] = v] \in [Bridge -> BOOLEAN]
         /\ [f EXCEPT ![b] = v][b] = v
         /\ \A d \in Bridge \ {b} : [f EXCEPT ![b] = v][d] = f[d]
  BY Zenon

LEMMA FlagMayUpdate ==
  ASSUME NEW f \in [Bridge -> BOOLEAN], NEW g, NEW b \in Bridge, NEW v \in BOOLEAN,
         g = f \/ g = [f EXCEPT ![b] = v]
  PROVE  g \in [Bridge -> BOOLEAN] /\ \A d \in Bridge \ {b} : g[d] = f[d]
<1>1. CASE g = f
  BY <1>1
<1>2. CASE g = [f EXCEPT ![b] = v]
  BY <1>2, FlagUpdate
<1>3. QED BY <1>1, <1>2

LEMMA PlaceUpdate ==
  ASSUME BridgeTyped, NEW b \in Bridge, NEW p \in {"free"} \cup Opening \cup Supervisor \cup Over
  PROVE  /\ [pc EXCEPT ![b] = p] \in [Bridge -> {"free"} \cup Opening \cup Supervisor \cup Over]
         /\ [pc EXCEPT ![b] = p][b] = p
         /\ \A d \in Bridge \ {b} : [pc EXCEPT ![b] = p][d] = pc[d]
  BY DEF BridgeTyped

LEMMA CloseIoTyped ==
  ASSUME BridgeTyped, NEW b \in Bridge, CloseIo(b)
  PROVE  /\ sock' \in [Bridge -> BOOLEAN] /\ ser' \in [Bridge -> BOOLEAN]
         /\ slot' \in [Chip -> Bridge \cup {Avrdude, NoOne}]
         /\ ~sock'[b] /\ ~ser'[b]
         /\ \A d \in Bridge \ {b} : sock'[d] = sock[d] /\ ser'[d] = ser[d]
         /\ \A c \in Chip : slot'[c] \in {slot[c], NoOne}
<1>1. /\ sock' = [sock EXCEPT ![b] = FALSE] /\ sock \in [Bridge -> BOOLEAN]
      /\ ser' = [ser EXCEPT ![b] = FALSE] /\ ser \in [Bridge -> BOOLEAN]
  BY DEF CloseIo, BridgeTyped
<1>2. /\ sock' \in [Bridge -> BOOLEAN] /\ ~sock'[b]
      /\ \A d \in Bridge \ {b} : sock'[d] = sock[d]
  BY <1>1, FlagUpdate
<1>3. /\ ser' \in [Bridge -> BOOLEAN] /\ ~ser'[b]
      /\ \A d \in Bridge \ {b} : ser'[d] = ser[d]
  BY <1>1, FlagUpdate
<1>4. slot' = [c \in Chip |-> IF slot[c] \in {b} THEN NoOne ELSE slot[c]]
  BY DEF CloseIo, Vacate
<1>5. QED BY <1>2, <1>3, <1>4 DEF BridgeTyped

LEMMA OpenSerialKeeps ==
  ASSUME BridgeInv, NEW b \in Bridge, OpenSerial(b)
  PROVE  BridgeInv'
<1>0. BridgeTyped /\ FreshWorkers
  BY TypeSplit DEF BridgeInv
<1>1. /\ pc[b] = "serial" /\ UNCHANGED <<supervised, stop, sock, tcp2com, com2tcp, slot, programVars>>
      /\ ser' = ser \/ ser' = [ser EXCEPT ![b] = TRUE]
  BY DEF OpenSerial
<1>2. PICK p \in {"connect", "backoff", "failed"} : pc' = [pc EXCEPT ![b] = p]
  BY DEF OpenSerial, AfterFailure
<1>3. /\ pc' \in [Bridge -> {"free"} \cup Opening \cup Supervisor \cup Over]
      /\ pc'[b] = p /\ \A d \in Bridge \ {b} : pc'[d] = pc[d]
  BY <1>0, <1>2, PlaceUpdate DEF Opening, Supervisor, Over
<1>4. ser' \in [Bridge -> BOOLEAN] /\ \A d \in Bridge \ {b} : ser'[d] = ser[d]
  <2>1. ser \in [Bridge -> BOOLEAN]
    BY <1>0 DEF BridgeTyped
  <2>2. QED BY <1>1, <2>1, FlagMayUpdate
<1>5. BridgeTyped'
  BY <1>0, <1>1, <1>3, <1>4 DEF BridgeTyped
<1>6. ~tcp2com'[b] /\ ~com2tcp'[b] /\ ~ThreadsDead(b)
  BY <1>0, <1>1 DEF FreshWorkers, Opening, ThreadsDead, Over
<1>7. QED BY <1>1, <1>3, <1>4, <1>5, <1>6, OwnStep

LEMMA OpenSocketKeeps ==
  ASSUME BridgeInv, NEW b \in Bridge, OpenSocket(b)
  PROVE  BridgeInv'
<1>0. BridgeTyped /\ FreshWorkers
  BY TypeSplit DEF BridgeInv
<1>1. /\ pc[b] = "connect" /\ UNCHANGED <<supervised, stop, tcp2com, com2tcp, programVars>>
      /\ ser' = ser \/ ser' = [ser EXCEPT ![b] = FALSE]
      /\ sock' = sock \/ sock' = [sock EXCEPT ![b] = TRUE]
      /\ slot' = slot \/ slot' = [slot EXCEPT ![Of(b)] = b]
  BY DEF OpenSocket
<1>2. PICK p \in {"spawn", "backoff", "failed"} : pc' = [pc EXCEPT ![b] = p]
  BY DEF OpenSocket, AfterFailure
<1>3. /\ pc' \in [Bridge -> {"free"} \cup Opening \cup Supervisor \cup Over]
      /\ pc'[b] = p /\ \A d \in Bridge \ {b} : pc'[d] = pc[d]
  BY <1>0, <1>2, PlaceUpdate DEF Opening, Supervisor, Over
<1>4. /\ ser' \in [Bridge -> BOOLEAN] /\ \A d \in Bridge \ {b} : ser'[d] = ser[d]
      /\ sock' \in [Bridge -> BOOLEAN] /\ \A d \in Bridge \ {b} : sock'[d] = sock[d]
  <2>1. ser \in [Bridge -> BOOLEAN] /\ sock \in [Bridge -> BOOLEAN]
    BY <1>0 DEF BridgeTyped
  <2>2. ser' \in [Bridge -> BOOLEAN] /\ \A d \in Bridge \ {b} : ser'[d] = ser[d]
    BY <1>1, <2>1, FlagMayUpdate
  <2>3. sock' \in [Bridge -> BOOLEAN] /\ \A d \in Bridge \ {b} : sock'[d] = sock[d]
    BY <1>1, <2>1, FlagMayUpdate
  <2>4. QED BY <2>2, <2>3
<1>5. /\ slot' \in [Chip -> Bridge \cup {Avrdude, NoOne}]
      /\ \A c \in Chip : slot'[c] \in {slot[c], b, NoOne}
  BY <1>0, <1>1, OfIsChip DEF BridgeTyped
<1>6. BridgeTyped'
  BY <1>0, <1>1, <1>3, <1>4, <1>5 DEF BridgeTyped
<1>7. ~tcp2com'[b] /\ ~com2tcp'[b] /\ ~ThreadsDead(b)
  BY <1>0, <1>1 DEF FreshWorkers, Opening, ThreadsDead, Over
<1>8. QED BY <1>1, <1>3, <1>4, <1>5, <1>6, <1>7, OwnStep

LEMMA SpawnKeeps ==
  ASSUME BridgeInv, NEW b \in Bridge, Spawn(b)
  PROVE  BridgeInv'
<1>0. BridgeTyped
  BY TypeSplit DEF BridgeInv
<1>1. /\ pc[b] = "spawn" /\ pc' = [pc EXCEPT ![b] = "watch"]
      /\ UNCHANGED <<stop, sock, ser, slot, programVars>>
      /\ tcp2com' = [tcp2com EXCEPT ![b] = TRUE]
      /\ com2tcp' = [com2tcp EXCEPT ![b] = TRUE]
      /\ supervised' = [supervised EXCEPT ![b] = TRUE]
  BY DEF Spawn
<1>2. /\ pc' \in [Bridge -> {"free"} \cup Opening \cup Supervisor \cup Over]
      /\ pc'[b] = "watch" /\ \A d \in Bridge \ {b} : pc'[d] = pc[d]
  BY <1>0, <1>1, PlaceUpdate DEF Supervisor
<1>3. /\ tcp2com' \in [Bridge -> BOOLEAN] /\ \A d \in Bridge \ {b} : tcp2com'[d] = tcp2com[d]
      /\ com2tcp' \in [Bridge -> BOOLEAN] /\ \A d \in Bridge \ {b} : com2tcp'[d] = com2tcp[d]
      /\ supervised' \in [Bridge -> BOOLEAN]
  BY <1>0, <1>1, FlagUpdate DEF BridgeTyped
<1>4. BridgeTyped'
  BY <1>0, <1>1, <1>2, <1>3 DEF BridgeTyped
<1>5. ~ThreadsDead(b)
  BY <1>1 DEF ThreadsDead, Over
<1>6. pc'[b] \notin {"failed", "nap", "retry", "backoff"} \cup Opening
  BY <1>2 DEF Opening
<1>7. QED BY <1>1, <1>2, <1>3, <1>4, <1>5, <1>6, OwnStep

\* A worker of b ends.
LEMMA WorkersKeep ==
  ASSUME BridgeInv, NEW b \in Bridge, WorkerStep(b) \/ ComToTcpSendFails(b)
  PROVE  BridgeInv'
<1>0. BridgeTyped /\ FreshWorkers
  BY TypeSplit DEF BridgeInv
<1>1. /\ UNCHANGED <<pc, supervised, stop, sock, ser, slot, programVars>>
      /\ tcp2com[b] \/ com2tcp[b]
      /\ tcp2com' = tcp2com \/ tcp2com' = [tcp2com EXCEPT ![b] = FALSE]
      /\ com2tcp' = com2tcp \/ com2tcp' = [com2tcp EXCEPT ![b] = FALSE]
  BY DEF WorkerStep, TcpToComEnds, ComToTcpEnds, ComToTcpSendFails
<1>2. tcp2com \in [Bridge -> BOOLEAN] /\ com2tcp \in [Bridge -> BOOLEAN]
  BY <1>0 DEF BridgeTyped
<1>3. tcp2com' \in [Bridge -> BOOLEAN] /\ \A d \in Bridge \ {b} : tcp2com'[d] = tcp2com[d]
  BY <1>1, <1>2, FlagMayUpdate
<1>4. com2tcp' \in [Bridge -> BOOLEAN] /\ \A d \in Bridge \ {b} : com2tcp'[d] = com2tcp[d]
  BY <1>1, <1>2, FlagMayUpdate
<1>5. BridgeTyped'
  BY <1>0, <1>1, <1>3, <1>4 DEF BridgeTyped
<1>6. pc[b] \notin {"free", "failed", "nap", "retry", "backoff"} \cup Opening
  BY <1>0, <1>1 DEF FreshWorkers
<1>7. ~ThreadsDead(b)
  BY <1>1 DEF ThreadsDead
<1>8. QED BY <1>1, <1>3, <1>4, <1>5, <1>6, <1>7, OwnStep

\* The supervisor of b.
LEMMA SupervisorKeeps ==
  ASSUME BridgeInv, NEW b \in Bridge,
         SuperviseDeath(b) \/ SuperviseJoin(b) \/ SuperviseWakes(b) \/ SuperviseRetry(b) \/ SuperviseStops(b)
  PROVE  BridgeInv'
<1>0. BridgeTyped /\ FreshWorkers
  BY TypeSplit DEF BridgeInv
<1>1. /\ UNCHANGED <<supervised, stop, tcp2com, com2tcp, programVars>>
      /\ pc[b] \in Supervisor
  BY DEF SuperviseDeath, SuperviseJoin, SuperviseWakes, SuperviseRetry, SuperviseStops, StopSeenAt, Supervisor
<1>2. PICK p \in {"join", "nap", "retry", "serial", "exited"} :
         /\ pc' = [pc EXCEPT ![b] = p]
         /\ p \in {"nap", "retry", "serial"} => ~tcp2com[b] /\ ~com2tcp[b]
  <2>1. CASE SuperviseDeath(b)
    BY <2>1 DEF SuperviseDeath
  <2>2. CASE SuperviseJoin(b)
    BY <2>2 DEF SuperviseJoin, WorkersJoined
  <2>3. CASE SuperviseWakes(b)
    BY <1>0, <2>3 DEF SuperviseWakes, FreshWorkers
  <2>4. CASE SuperviseRetry(b)
    BY <1>0, <2>4 DEF SuperviseRetry, FreshWorkers
  <2>5. CASE SuperviseStops(b)
    BY <2>5 DEF SuperviseStops
  <2>6. QED BY <2>1, <2>2, <2>3, <2>4, <2>5
<1>3. /\ pc' \in [Bridge -> {"free"} \cup Opening \cup Supervisor \cup Over]
      /\ pc'[b] = p /\ \A d \in Bridge \ {b} : pc'[d] = pc[d]
  BY <1>0, <1>2, PlaceUpdate DEF Opening, Supervisor, Over
<1>4. /\ sock' \in [Bridge -> BOOLEAN] /\ ser' \in [Bridge -> BOOLEAN]
      /\ slot' \in [Chip -> Bridge \cup {Avrdude, NoOne}]
      /\ \A d \in Bridge \ {b} : sock'[d] = sock[d] /\ ser'[d] = ser[d]
      /\ \A c \in Chip : slot'[c] \in {slot[c], NoOne}
  <2>1. CASE SuperviseDeath(b)
    BY <1>0, <2>1, CloseIoTyped DEF SuperviseDeath
  <2>2. CASE UNCHANGED <<sock, ser, slot>>
    BY <1>0, <2>2 DEF BridgeTyped
  <2>3. QED BY <2>1, <2>2 DEF SuperviseJoin, SuperviseWakes, SuperviseRetry, SuperviseStops
<1>5. BridgeTyped'
  BY <1>0, <1>1, <1>3, <1>4 DEF BridgeTyped
<1>6. pc[b] # "free" /\ pc'[b] # "free" /\ ~ThreadsDead(b)
  BY <1>1, <1>3 DEF Supervisor, ThreadsDead, Over
<1>7. pc'[b] \in {"failed", "nap", "retry", "backoff"} \cup Opening => ~tcp2com'[b] /\ ~com2tcp'[b]
  BY <1>1, <1>2, <1>3 DEF Opening
<1>8. QED BY <1>1, <1>3, <1>4, <1>5, <1>6, <1>7, OwnStep

-----------------------------------------------------------------------------
(* The steps of the program that leave the bridges and their holders alone. *)

LEMMA QuietStep ==
  ASSUME BridgeInv, UNCHANGED <<bridgeVars, bridges, guiAt, opening, avrAt>>,
         ProgramTyped', RefersToOwn', PausingOne', RemoveIsDue',
         slot' \in [Chip -> Bridge \cup {Avrdude, NoOne}],
         \A c \in Chip : slot'[c] \in {slot[c], Avrdude, NoOne},
         \A c \in Chip : \A p \in {"joining", "opening"} : avr'[c] = p <=> avr[c] = p
  PROVE  BridgeInv'
<1>1. UNCHANGED <<pc, supervised, stop, sock, ser, tcp2com, com2tcp>>
  BY DEF bridgeVars
<1>2. Held' = Held /\ Active' = Active
  BY DEF Held, Active
<1>3. BridgeTyped'
  BY <1>1, TypeSplit DEF BridgeInv, BridgeTyped
<1>4. TypeOK'
  BY <1>3, TypeSplit DEF BridgeTyped, ProgramTyped, TypeOK
<1>5. FreshWorkers' /\ StopIsComplete'
  BY <1>1, <1>2 DEF BridgeInv, FreshWorkers, StopIsComplete
<1>6. FreeIsClosed'
  <2>1. \A b \in Bridge : b # Avrdude /\ b # NoOne
    BY NamesAssumption
  <2>2. QED BY <1>1, <1>2, <2>1 DEF BridgeInv, FreeIsClosed
<1>7. OpeningUnshared'
  BY <1>1, <1>2 DEF BridgeInv, OpeningUnshared
<1>8. StoppingIsJoined'
  BY <1>1 DEF BridgeInv, StoppingIsJoined, Joining, ThreadsDead
<1>9. QED BY <1>2, <1>4, <1>5, <1>6, <1>7, <1>8 DEF BridgeInv

LEMMA StopAllKeeps ==
  ASSUME BridgeInv,
         TimerFires \/ RestartRuns \/ RemoveComPorts \/ CloseEvent
  PROVE  BridgeInv'
<1>0. BridgeTyped /\ ProgramTyped
  BY TypeSplit DEF BridgeInv
<1>1. PICK job \in {"start", "restart", "remove", "close"} :
        gui = Idle /\ StopAll(job) /\ (job = "remove" => scripts < MaxScripts)
  BY DEF TimerFires, RestartRuns, RemoveComPorts, CloseEvent
<1>2. /\ UNCHANGED <<bridgeVars, slot, engine, bridges, avrVars, script, paired, flashes, scripts>>
      /\ timer' \in BOOLEAN /\ restarts' \in Nat
  <2>1. CASE TimerFires
    BY <1>0, <2>1 DEF TimerFires, ProgramTyped
  <2>2. CASE RestartRuns
    BY <1>0, <2>2 DEF RestartRuns, ProgramTyped
  <2>3. CASE RemoveComPorts \/ CloseEvent
    BY <1>0, <2>3 DEF RemoveComPorts, CloseEvent, comVars, ProgramTyped
  <2>4. QED BY <2>1, <2>2, <2>3
<1>3. /\ gui' = [at |-> "next", job |-> job, chip |-> NoOne] /\ guiAt' = guiAt /\ opening' = opening
      /\ visited' = {} /\ size' \in Nat
  BY <1>0, <1>1, ActiveIsFinite DEF StopAll, At
<1>4. UNCHANGED <<avr, avrAt, restore>>
  BY <1>2 DEF avrVars
<1>5. ProgramTyped'
  BY <1>0, <1>2, <1>3, <1>4 DEF ProgramTyped, Jobs
<1>6. RefersToOwn' /\ PausingOne' /\ RemoveIsDue'
  BY <1>1, <1>2, <1>3, <1>4 DEF BridgeInv, RefersToOwn, PausingOne, RemoveIsDue, Idle
<1>7. QED BY <1>0, <1>2, <1>3, <1>4, <1>5, <1>6, QuietStep DEF BridgeTyped

LEMMA ScriptsKeep ==
  ASSUME BridgeInv, InstallComPorts \/ ScriptEnds
  PROVE  BridgeInv'
<1>0. BridgeTyped /\ ProgramTyped
  BY TypeSplit DEF BridgeInv
<1>1. /\ UNCHANGED <<bridgeVars, slot, engine, bridges, gui, guiAt, visited, size, opening, avr, avrAt,
                     restore, timer, flashes>>
      /\ script' \in {"none", "install"} /\ paired' \in BOOLEAN /\ restarts' \in Nat
      /\ scripts' \in 0..MaxScripts
      /\ gui = Idle \/ scripts' = scripts
  <2>1. CASE InstallComPorts
    <3>1. scripts' \in 0..MaxScripts
      BY <1>0, <2>1, BoundsAssumption DEF InstallComPorts, ProgramTyped
    <3>2. QED BY <1>0, <2>1, <3>1 DEF InstallComPorts, guiVars, avrVars, ProgramTyped
  <2>2. CASE ScriptEnds
    <3>1. paired' \in BOOLEAN
      BY <1>0, <2>2 DEF ScriptEnds, ProgramTyped
    <3>2. restarts' \in Nat
      BY <1>0, <2>2 DEF ScriptEnds, ProgramTyped
    <3>3. QED BY <1>0, <2>2, <3>1, <3>2 DEF ScriptEnds, guiVars, avrVars, ProgramTyped
  <2>3. QED BY <2>1, <2>2
<1>2. ProgramTyped'
  BY <1>0, <1>1 DEF ProgramTyped
<1>3. RefersToOwn' /\ PausingOne' /\ RemoveIsDue'
  BY <1>1 DEF BridgeInv, RefersToOwn, PausingOne, RemoveIsDue, Idle
<1>4. QED BY <1>0, <1>1, <1>2, <1>3, QuietStep DEF BridgeTyped

\* The loop over the dictionary ends, or is aborted.
LEMMA StopLoopLeft ==
  ASSUME BridgeInv, StopRaises \/ StopLoopEnds
  PROVE  BridgeInv'
<1>0. BridgeTyped /\ ProgramTyped
  BY TypeSplit DEF BridgeInv
<1>1. /\ UNCHANGED <<bridgeVars, slot, engine, bridges, guiAt, visited, size, opening, avr, avrAt,
                     restore, script, paired, timer, restarts, flashes, scripts>>
      /\ gui.at = "next"
  BY DEF StopRaises, StopLoopEnds, avrVars, comVars
<1>2. PICK p \in {"raised", "clear"} : gui' = [gui EXCEPT !.at = p]
  BY DEF StopRaises, StopLoopEnds
<1>3. gui'.at = p /\ gui'.job = gui.job /\ gui'.chip = gui.chip
  BY <1>0, <1>2 DEF ProgramTyped
<1>4. ProgramTyped'
  BY <1>0, <1>1, <1>2 DEF ProgramTyped
<1>5. RefersToOwn' /\ PausingOne' /\ RemoveIsDue'
  BY <1>1, <1>3 DEF BridgeInv, RefersToOwn, PausingOne, RemoveIsDue
<1>6. QED BY <1>0, <1>1, <1>4, <1>5, QuietStep DEF BridgeTyped

\* avrdude comes and goes, outsiders come, the engine ends.
LEMMA SlotUsersKeep ==
  ASSUME BridgeInv,
         \/ \E c \in Chip : AvrdudeConnects(c) \/ AvrdudeExits(c) \/ OutsiderConnects(c)
         \/ EngineEnds
  PROVE  BridgeInv'
<1>0. BridgeTyped /\ ProgramTyped
  BY TypeSplit DEF BridgeInv
<1>1. CASE \E c \in Chip : AvrdudeConnects(c) \/ AvrdudeExits(c)
  <2>1. PICK c \in Chip : AvrdudeConnects(c) \/ AvrdudeExits(c)
    BY <1>1
  <2>2. /\ UNCHANGED <<bridgeVars, engine, bridges, gui, guiAt, visited, size, opening, avrAt,
                       restore, script, paired, timer, restarts, flashes, scripts>>
        /\ avr[c] \in {"launch", "session"}
    BY <2>1 DEF AvrdudeConnects, AvrdudeExits, guiVars, comVars
  <2>3. PICK p \in {"session", "ended"} : avr' = [avr EXCEPT ![c] = p]
    BY <2>1 DEF AvrdudeConnects, AvrdudeExits
  <2>4. /\ slot' \in [Chip -> Bridge \cup {Avrdude, NoOne}]
        /\ \A d \in Chip : slot'[d] \in {slot[d], Avrdude, NoOne}
    BY <1>0, <2>1 DEF AvrdudeConnects, AvrdudeExits, BridgeTyped
  <2>5. /\ avr' \in [Chip -> {"none", "launch", "session", "ended", "joining", "create", "opening"}]
        /\ avr'[c] = p /\ \A d \in Chip \ {c} : avr'[d] = avr[d]
    BY <1>0, <2>3 DEF ProgramTyped
  <2>6. ProgramTyped'
    BY <1>0, <2>2, <2>5 DEF ProgramTyped
  <2>7. \A d \in Chip : \A q \in {"joining", "opening"} : avr'[d] = q <=> avr[d] = q
    BY <2>2, <2>5
  <2>8. RefersToOwn' /\ PausingOne' /\ RemoveIsDue'
    BY <2>2, <2>5, <2>7 DEF BridgeInv, RefersToOwn, PausingOne, RemoveIsDue
  <2>9. QED BY <2>2, <2>4, <2>6, <2>7, <2>8, QuietStep
<1>2. CASE EngineEnds \/ \E c \in Chip : OutsiderConnects(c)
  <2>1. /\ UNCHANGED <<bridgeVars, bridges, gui, guiAt, visited, size, opening, avr, avrAt,
                       restore, script, paired, timer, restarts, flashes, scripts>>
        /\ engine' \in BOOLEAN
    BY <1>0, <1>2 DEF EngineEnds, OutsiderConnects, programVars, guiVars, avrVars, comVars, ProgramTyped
  <2>2. /\ slot' \in [Chip -> Bridge \cup {Avrdude, NoOne}]
        /\ \A d \in Chip : slot'[d] \in {slot[d], Avrdude, NoOne}
    BY <1>0, <1>2 DEF EngineEnds, OutsiderConnects, BridgeTyped
  <2>3. ProgramTyped' /\ RefersToOwn' /\ PausingOne' /\ RemoveIsDue'
    BY <1>0, <2>1 DEF BridgeInv, ProgramTyped, RefersToOwn, PausingOne, RemoveIsDue
  <2>4. QED BY <2>1, <2>2, <2>3, QuietStep
<1>3. QED BY <1>1, <1>2

-----------------------------------------------------------------------------
(* A thread begins to stop a bridge.                                       *)

LEMMA BeginStopKeeps ==
  ASSUME BridgeInv, NEW b \in Bridge, b \in Held, BeginStop(b),
         UNCHANGED <<pc, supervised, tcp2com, com2tcp>>,
         Held' \cap Bridge = Held \cap Bridge,
         Joining(b)', \A d \in Bridge : Joining(d) => Joining(d)'
  PROVE  /\ BridgeTyped' /\ FreshWorkers' /\ FreeIsClosed' /\ StoppingIsJoined' /\ StopIsComplete'
         /\ \A d \in Bridge \ {b} : stop'[d] = stop[d]
<1>0. BridgeTyped
  BY TypeSplit DEF BridgeInv
<1>1. /\ sock' \in [Bridge -> BOOLEAN] /\ ser' \in [Bridge -> BOOLEAN]
      /\ slot' \in [Chip -> Bridge \cup {Avrdude, NoOne}]
      /\ \A d \in Bridge \ {b} : sock'[d] = sock[d] /\ ser'[d] = ser[d]
      /\ \A c \in Chip : slot'[c] \in {slot[c], NoOne}
  BY <1>0, CloseIoTyped DEF BeginStop
<1>2. stop' \in [Bridge -> BOOLEAN] /\ \A d \in Bridge \ {b} : stop'[d] = stop[d]
  BY <1>0, FlagUpdate DEF BeginStop, BridgeTyped
<1>3. BridgeTyped'
  BY <1>0, <1>1, <1>2 DEF BridgeTyped
<1>4. FreshWorkers'
  BY DEF BridgeInv, FreshWorkers
<1>5. FreeIsClosed'
  <2> SUFFICES ASSUME NEW d \in Bridge, pc'[d] = "free"
               PROVE  /\ ~stop'[d] /\ ~sock'[d] /\ ~ser'[d] /\ d \notin Held'
                      /\ \A c \in Chip : slot'[c] # d
    BY DEF FreeIsClosed
  <2>1. d # NoOne /\ d # b
    BY NamesAssumption DEF BridgeInv, FreeIsClosed
  <2>2. QED BY <1>1, <1>2, <2>1 DEF BridgeInv, FreeIsClosed
<1>6. StoppingIsJoined'
  BY <1>2 DEF BridgeInv, StoppingIsJoined, ThreadsDead
<1>7. StopIsComplete'
  BY <1>2 DEF BridgeInv, StopIsComplete
<1>8. QED BY <1>2, <1>3, <1>4, <1>5, <1>6, <1>7

LEMMA StopNextKeeps ==
  ASSUME BridgeInv, StopNext
  PROVE  BridgeInv'
<1>0. BridgeTyped /\ ProgramTyped
  BY TypeSplit DEF BridgeInv
<1>1. PICK b \in Active \ visited : BeginStop(b) /\ guiAt' = b
  BY DEF StopNext
<1>2. b \in Bridge /\ b # NoOne
  BY <1>0, NamesAssumption DEF Active, ProgramTyped
<1>3. /\ gui.at = "next" /\ gui' = [gui EXCEPT !.at = "joining"]
      /\ UNCHANGED <<pc, supervised, tcp2com, com2tcp, engine, bridges, visited, size,
                     opening, avr, avrAt, restore, script, paired, timer, restarts, flashes, scripts>>
  BY DEF StopNext, avrVars, comVars
<1>4. gui'.at = "joining" /\ gui'.job = gui.job
  BY <1>0, <1>3 DEF ProgramTyped
<1>5. guiAt = NoOne /\ opening = {}
  BY <1>3 DEF BridgeInv, RefersToOwn
<1>6. Active' = Active /\ b \in Held /\ Held' \cap Bridge = Held \cap Bridge
  BY <1>1, <1>2, <1>3, <1>5, NamesAssumption DEF Held, Active
<1>7. Joining(b)' /\ \A d \in Bridge : Joining(d) => Joining(d)'
  BY <1>1, <1>3, <1>5, NamesAssumption DEF Joining
<1>8. /\ BridgeTyped' /\ FreshWorkers' /\ FreeIsClosed' /\ StoppingIsJoined' /\ StopIsComplete'
      /\ \A d \in Bridge \ {b} : stop'[d] = stop[d]
  BY <1>1, <1>2, <1>3, <1>6, <1>7, BeginStopKeeps
<1>9. ProgramTyped'
  BY <1>0, <1>1, <1>2, <1>3 DEF ProgramTyped
<1>10. RefersToOwn' /\ PausingOne' /\ RemoveIsDue'
  BY <1>1, <1>2, <1>3, <1>4, <1>5 DEF BridgeInv, RefersToOwn, PausingOne, RemoveIsDue
<1>11. OpeningUnshared'
  <2>1. \A c \in Chip : avr[c] = "opening" => avrAt[c] \in Bridge /\ avrAt[c] # b
    BY <1>0, <1>1 DEF BridgeInv, RefersToOwn, OpeningUnshared, ProgramTyped
  <2>2. QED BY <1>1, <1>3, <1>5, <1>6, <1>8, <2>1 DEF BridgeInv, OpeningUnshared
<1>12. QED BY <1>8, <1>9, <1>10, <1>11, TypeSplit DEF BridgeInv, BridgeTyped, ProgramTyped, TypeOK

LEMMA FlashChipKeeps ==
  ASSUME BridgeInv, NEW c \in Chip, FlashChip(c)
  PROVE  BridgeInv'
<1>0. BridgeTyped /\ ProgramTyped
  BY TypeSplit DEF BridgeInv
<1>1. /\ gui = Idle /\ avr[c] = "none" /\ flashes' \in 0..MaxFlashes
      /\ UNCHANGED <<pc, supervised, tcp2com, com2tcp, engine, visited, size, opening,
                     avrAt, script, paired, timer, restarts, scripts>>
  BY <1>0, BoundsAssumption DEF FlashChip, ProgramTyped
<1>2. guiAt = NoOne /\ opening = {} /\ gui.at = "idle" /\ gui.job = "none"
  BY <1>1 DEF BridgeInv, RefersToOwn, Idle
<1>3. CASE ToPause(c) = NoOne
  <2>1. /\ avr' = [avr EXCEPT ![c] = "launch"] /\ restore' = [restore EXCEPT ![c] = FALSE]
        /\ UNCHANGED <<stop, sock, ser, slot, bridges, gui, guiAt>>
    BY <1>3 DEF FlashChip
  <2>2. /\ avr' \in [Chip -> {"none", "launch", "session", "ended", "joining", "create", "opening"}]
        /\ avr'[c] = "launch" /\ \A d \in Chip \ {c} : avr'[d] = avr[d]
    BY <1>0, <2>1 DEF ProgramTyped
  <2>3. restore' \in [Chip -> BOOLEAN]
    BY <1>0, <2>1, Zenon DEF ProgramTyped
  <2>4. ProgramTyped'
    BY <1>0, <1>1, <2>1, <2>2, <2>3 DEF ProgramTyped
  <2>5. RefersToOwn' /\ PausingOne' /\ RemoveIsDue'
    BY <1>1, <1>2, <2>1, <2>2 DEF BridgeInv, RefersToOwn, PausingOne, RemoveIsDue
  <2>6. \A d \in Chip : \A p \in {"joining", "opening"} : avr'[d] = p <=> avr[d] = p
    BY <1>1, <2>2
  <2>7. QED BY <1>0, <1>1, <2>1, <2>4, <2>5, <2>6, QuietStep DEF bridgeVars, BridgeTyped
<1>4. CASE ToPause(c) # NoOne
  <2>0. PICK b \in Bridge : b = bridges[c] /\ b # NoOne
    BY <1>0, <1>4 DEF ToPause, ProgramTyped
  <2>1. /\ BeginStop(b) /\ guiAt' = b /\ bridges' = [bridges EXCEPT ![c] = NoOne]
        /\ gui' = [at |-> "pausing", job |-> "flash", chip |-> c]
        /\ UNCHANGED <<avr, restore>>
    BY <1>4, <2>0 DEF FlashChip, StopChip, At
  <2>2. b \in Bridge /\ b # NoOne /\ Of(b) = c /\ b \in Active
    BY <2>0 DEF BridgeInv, RefersToOwn, Active
  <2>3. bridges'[c] = NoOne /\ \A d \in Chip \ {c} : bridges'[d] = bridges[d]
    BY <1>0, <2>1 DEF ProgramTyped
  <2>5. Active' \subseteq Active /\ b \in Held /\ Held' \cap Bridge = Held \cap Bridge
    BY <1>1, <1>2, <2>1, <2>2, <2>3, <2>0, NamesAssumption DEF Held, Active
  <2>6. Joining(b)' /\ \A d \in Bridge : Joining(d) => Joining(d)'
    BY <1>1, <1>2, <2>1, NamesAssumption DEF Joining
  <2>7. /\ BridgeTyped' /\ FreshWorkers' /\ FreeIsClosed' /\ StoppingIsJoined' /\ StopIsComplete'
        /\ \A d \in Bridge \ {b} : stop'[d] = stop[d]
    BY <1>1, <2>1, <2>2, <2>5, <2>6, BeginStopKeeps
  <2>8. ProgramTyped'
    BY <1>0, <1>1, <2>1, <2>2 DEF ProgramTyped, Jobs
  <2>9. RefersToOwn' /\ PausingOne' /\ RemoveIsDue'
    BY <1>1, <1>2, <2>1, <2>2, <2>3 DEF BridgeInv, RefersToOwn, PausingOne, RemoveIsDue
  <2>10. OpeningUnshared'
    <3>1. \A d \in Chip : avr[d] = "opening" => avrAt[d] \in Bridge /\ avrAt[d] # b
      BY <1>0, <2>2 DEF BridgeInv, RefersToOwn, OpeningUnshared, ProgramTyped
    <3>2. QED BY <1>1, <1>2, <2>1, <2>5, <2>7, <3>1 DEF BridgeInv, OpeningUnshared
  <2>11. QED BY <2>7, <2>8, <2>9, <2>10, TypeSplit DEF BridgeInv, BridgeTyped, ProgramTyped, TypeOK
<1>5. QED BY <1>3, <1>4

LEMMA ResumeBeginsKeeps ==
  ASSUME BridgeInv, NEW c \in Chip, ResumeBegins(c)
  PROVE  BridgeInv'
<1>0. BridgeTyped /\ ProgramTyped
  BY TypeSplit DEF BridgeInv
<1>1. /\ avr[c] = "ended"
      /\ UNCHANGED <<pc, supervised, tcp2com, com2tcp, engine, bridges, gui, guiAt, visited, size, opening,
                     restore, script, paired, timer, restarts, flashes, scripts>>
  BY DEF ResumeBegins, guiVars, comVars
<1>2. avrAt[c] = NoOne /\ (gui.at = "pausing" => gui.chip # c)
  BY <1>1 DEF BridgeInv, RefersToOwn, PausingOne
<1>3. PICK p \in {"none", "create", "joining"} : avr' = [avr EXCEPT ![c] = p]
  BY DEF ResumeBegins
<1>4. /\ avr' \in [Chip -> {"none", "launch", "session", "ended", "joining", "create", "opening"}]
      /\ avr'[c] = p /\ \A d \in Chip \ {c} : avr'[d] = avr[d]
  BY <1>0, <1>3 DEF ProgramTyped
<1>5. CASE p # "joining"
  <2>1. UNCHANGED <<stop, sock, ser, slot, avrAt>>
    BY <1>4, <1>5 DEF ResumeBegins, ProgramTyped
  <2>2. ProgramTyped'
    BY <1>0, <1>1, <1>4, <2>1 DEF ProgramTyped
  <2>3. RefersToOwn' /\ PausingOne' /\ RemoveIsDue'
    BY <1>1, <1>2, <1>4, <1>5, <2>1 DEF BridgeInv, RefersToOwn, PausingOne, RemoveIsDue
  <2>4. \A d \in Chip : \A q \in {"joining", "opening"} : avr'[d] = q <=> avr[d] = q
    BY <1>1, <1>4, <1>5
  <2>5. QED BY <1>0, <1>1, <2>1, <2>2, <2>3, <2>4, QuietStep DEF bridgeVars, BridgeTyped
<1>6. CASE p = "joining"
  <2>0. /\ BeginStop(bridges[c]) /\ avrAt' = [avrAt EXCEPT ![c] = bridges[c]]
        /\ bridges[c] # NoOne
    BY <1>0, <1>4, <1>6 DEF ResumeBegins, ProgramTyped
  <2>1. PICK b \in Bridge : b = bridges[c] /\ BeginStop(b) /\ avrAt' = [avrAt EXCEPT ![c] = b] /\ b # NoOne
    BY <1>0, <2>0 DEF ProgramTyped
  <2>2. b \in Bridge /\ Of(b) = c /\ b \in Active
    BY <2>1 DEF BridgeInv, RefersToOwn, Active
  <2>3. /\ avrAt' \in [Chip -> Bridge \cup {NoOne}]
        /\ avrAt'[c] = b /\ \A d \in Chip \ {c} : avrAt'[d] = avrAt[d]
    BY <1>0, <2>1, <2>2 DEF ProgramTyped
  <2>4. Active' = Active /\ b \in Held /\ Held' \cap Bridge = Held \cap Bridge
    BY <1>1, <1>2, <2>2, <2>3, NamesAssumption DEF Held, Active
  <2>5. Joining(b)' /\ \A d \in Bridge : Joining(d) => Joining(d)'
    BY <1>1, <1>2, <1>4, <1>6, <2>3, NamesAssumption DEF Joining
  <2>6. /\ BridgeTyped' /\ FreshWorkers' /\ FreeIsClosed' /\ StoppingIsJoined' /\ StopIsComplete'
        /\ \A d \in Bridge \ {b} : stop'[d] = stop[d]
    BY <1>1, <2>1, <2>2, <2>4, <2>5, BeginStopKeeps
  <2>7. ProgramTyped'
    BY <1>0, <1>1, <1>4, <2>3 DEF ProgramTyped
  <2>8. RefersToOwn' /\ PausingOne' /\ RemoveIsDue'
    BY <1>1, <1>2, <1>4, <1>6, <2>1, <2>2, <2>3 DEF BridgeInv, RefersToOwn, PausingOne, RemoveIsDue
  <2>9. OpeningUnshared'
    <3>1. \A d \in Chip : avr[d] = "opening" => avrAt[d] \in Bridge /\ avrAt[d] # b
      BY <1>0, <2>2 DEF BridgeInv, RefersToOwn, OpeningUnshared, ProgramTyped
    <3>2. \A d \in opening : d \in Bridge /\ d # b
      BY <1>0, <2>2 DEF BridgeInv, OpeningUnshared, ProgramTyped
    <3>3. QED BY <1>1, <1>4, <1>6, <2>3, <2>4, <2>6, <3>1, <3>2 DEF BridgeInv, OpeningUnshared
  <2>10. QED BY <2>6, <2>7, <2>8, <2>9, TypeSplit DEF BridgeInv, BridgeTyped, ProgramTyped, TypeOK
<1>7. QED BY <1>5, <1>6

-----------------------------------------------------------------------------
(* A thread drops bridges: the actions that end with Release.              *)

LEMMA ReleaseKeeps ==
  ASSUME BridgeInv, NEW S, Release(S),
         Held' \cap Bridge \subseteq Held, Held \cap Bridge \subseteq Held' \cup S,
         \A b \in Bridge : stop[b] /\ b \in S /\ b \notin Held' => ThreadsDead(b),
         \A b \in Bridge : stop[b] /\ Joining(b) => Joining(b)' \/ ThreadsDead(b)
  PROVE  /\ BridgeTyped' /\ FreshWorkers' /\ FreeIsClosed' /\ StoppingIsJoined' /\ StopIsComplete'
         /\ \A b \in Bridge : stop'[b] => stop[b]
<1>0. BridgeTyped /\ FreshWorkers /\ FreeIsClosed /\ StoppingIsJoined /\ StopIsComplete
  BY TypeSplit DEF BridgeInv
<1>1. \A b \in Bridge : stop[b] /\ b \notin Held' => ThreadsDead(b)
  BY <1>0 DEF StopIsComplete
<1>2. \A b \in Bridge : stop'[b] => stop[b]
  BY DEF Release
<1>3. BridgeTyped' /\ FreshWorkers'
  BY <1>0, ReleaseTyped, ReleaseKeepsWorkers
<1>4. FreeIsClosed' /\ StopIsComplete'
  BY <1>0, <1>1, ReleaseKeepsFree, ReleaseCompletes
<1>5. StoppingIsJoined'
  BY <1>0, ReleaseKeepsStopping
<1>6. QED BY <1>2, <1>3, <1>4, <1>5

LEMMA StopJoinedKeeps ==
  ASSUME BridgeInv, StopJoined
  PROVE  BridgeInv'
<1>0. BridgeTyped /\ ProgramTyped
  BY TypeSplit DEF BridgeInv
<1>1. /\ gui.at = "joining" /\ ThreadsDead(guiAt) /\ Release({guiAt})
      /\ visited' = visited \cup {guiAt} /\ guiAt' = NoOne /\ gui' = [gui EXCEPT !.at = "next"]
      /\ UNCHANGED <<engine, bridges, size, opening, avr, avrAt, restore,
                     script, paired, timer, restarts, flashes, scripts>>
  BY DEF StopJoined, Joined, avrVars, comVars
<1>2. gui'.at = "next" /\ gui'.job = gui.job
  BY <1>0, <1>1 DEF ProgramTyped
<1>3. guiAt \in Bridge /\ opening = {}
  BY <1>0, <1>1 DEF BridgeInv, RefersToOwn, ProgramTyped
<1>4. Active' = Active /\ Held' \cap Bridge \subseteq Held /\ Held \cap Bridge \subseteq Held' \cup {guiAt}
  BY <1>1, NamesAssumption DEF Held, Active
<1>5. \A b \in Bridge : Joining(b) => Joining(b)' \/ ThreadsDead(b)
  BY <1>1 DEF Joining
<1>6. /\ BridgeTyped' /\ FreshWorkers' /\ FreeIsClosed' /\ StoppingIsJoined' /\ StopIsComplete'
      /\ \A b \in Bridge : stop'[b] => stop[b]
  BY <1>1, <1>4, <1>5, ReleaseKeeps
<1>7. ProgramTyped'
  BY <1>0, <1>1, <1>3 DEF ProgramTyped
<1>8. RefersToOwn' /\ PausingOne' /\ RemoveIsDue'
  BY <1>1, <1>2, <1>3 DEF BridgeInv, RefersToOwn, PausingOne, RemoveIsDue
<1>9. OpeningUnshared'
  <2>1. \A c \in Chip : avr[c] = "opening" => avrAt[c] \in Bridge /\ avrAt[c] # NoOne
    BY <1>0 DEF BridgeInv, RefersToOwn, ProgramTyped
  <2>2. QED BY <1>1, <1>3, <1>4, <1>6, <2>1 DEF BridgeInv, OpeningUnshared
<1>10. QED BY <1>6, <1>7, <1>8, <1>9, TypeSplit DEF BridgeInv, BridgeTyped, ProgramTyped, TypeOK

LEMMA StopClearsKeeps ==
  ASSUME BridgeInv, StopClears
  PROVE  BridgeInv'
<1>0. BridgeTyped /\ ProgramTyped
  BY TypeSplit DEF BridgeInv
<1>1. /\ gui.at = "clear" /\ Release(Active) /\ bridges' = [c \in Chip |-> NoOne]
      /\ visited' = {} /\ size' = 0
      /\ UNCHANGED <<guiAt, opening, avr, avrAt, restore, paired, timer, restarts, flashes>>
      /\ engine' = (engine /\ gui.job # "close")
  BY DEF StopClears, avrVars
<1>2. /\ gui' \in {[at |-> "next", job |-> "start", chip |-> NoOne],
                   [at |-> "create", job |-> "start", chip |-> NoOne],
                   [at |-> "idle", job |-> "none", chip |-> NoOne],
                   [at |-> "closed", job |-> "close", chip |-> NoOne]}
  BY DEF StopClears, Idle, At
<1>3. script' \in {"none", "install", "remove"} /\ scripts' \in 0..MaxScripts
  <2>1. CASE gui.job = "remove"
    BY <1>0, <2>1, BoundsAssumption DEF StopClears, BridgeInv, RemoveIsDue, ProgramTyped
  <2>2. CASE gui.job # "remove"
    BY <1>0, <2>2 DEF StopClears, ProgramTyped
  <2>3. QED BY <2>1, <2>2
<1>4. guiAt = NoOne /\ opening = {}
  BY <1>1 DEF BridgeInv, RefersToOwn
<1>5. Active' = {} /\ Held' \cap Bridge \subseteq Held /\ Held \cap Bridge \subseteq Held' \cup Active
  BY <1>1, NamesAssumption DEF Held, Active
<1>6. \A b \in Bridge : Joining(b) => Joining(b)' /\ b \in Held'
  BY <1>1, <1>4, NamesAssumption DEF Joining, Held
<1>7. \A b \in Bridge : stop[b] /\ b \notin Held' => ThreadsDead(b)
  BY <1>6 DEF BridgeInv, StoppingIsJoined
<1>8. /\ BridgeTyped' /\ FreshWorkers' /\ FreeIsClosed' /\ StoppingIsJoined' /\ StopIsComplete'
      /\ \A b \in Bridge : stop'[b] => stop[b]
  BY <1>1, <1>5, <1>6, <1>7, ReleaseKeeps
<1>9. ProgramTyped'
  BY <1>0, <1>1, <1>2, <1>3 DEF ProgramTyped, Jobs
<1>10. RefersToOwn' /\ PausingOne' /\ RemoveIsDue'
  BY <1>1, <1>2, <1>4 DEF BridgeInv, RefersToOwn, PausingOne, RemoveIsDue
<1>11. OpeningUnshared'
  <2>1. \A c \in Chip : avr[c] = "opening" => avrAt[c] \in Bridge
    BY <1>0 DEF BridgeInv, RefersToOwn, ProgramTyped
  <2>2. QED BY <1>1, <1>4, <1>5, <1>8, <2>1 DEF BridgeInv, OpeningUnshared
<1>12. QED BY <1>8, <1>9, <1>10, <1>11, TypeSplit DEF BridgeInv, BridgeTyped, ProgramTyped, TypeOK

LEMMA PausedKeeps ==
  ASSUME BridgeInv, Paused
  PROVE  BridgeInv'
<1>0. BridgeTyped /\ ProgramTyped
  BY TypeSplit DEF BridgeInv
<1>1. /\ gui.at = "pausing" /\ ThreadsDead(guiAt) /\ Release({guiAt})
      /\ guiAt' = NoOne /\ gui' = [at |-> "idle", job |-> "none", chip |-> NoOne]
      /\ avr' = [avr EXCEPT ![gui.chip] = "launch"] /\ restore' = [restore EXCEPT ![gui.chip] = TRUE]
      /\ UNCHANGED <<engine, bridges, visited, size, opening, avrAt,
                     script, paired, timer, restarts, flashes, scripts>>
  BY DEF Paused, Joined, Idle, comVars
<1>2. PICK c \in Chip : c = gui.chip /\ avr[c] = "none"
  BY <1>1 DEF BridgeInv, PausingOne
<1>3. /\ avr' \in [Chip -> {"none", "launch", "session", "ended", "joining", "create", "opening"}]
      /\ avr'[c] = "launch" /\ \A d \in Chip \ {c} : avr'[d] = avr[d]
  BY <1>0, <1>1, <1>2 DEF ProgramTyped
<1>4. restore' \in [Chip -> BOOLEAN]
  BY <1>0, <1>1, Zenon DEF ProgramTyped
<1>5. guiAt \in Bridge /\ opening = {}
  BY <1>0, <1>1 DEF BridgeInv, RefersToOwn, ProgramTyped
<1>6. Active' = Active /\ Held' \cap Bridge \subseteq Held /\ Held \cap Bridge \subseteq Held' \cup {guiAt}
  BY <1>1, NamesAssumption DEF Held, Active
<1>7. \A b \in Bridge : Joining(b) => Joining(b)' \/ ThreadsDead(b)
  BY <1>1, <1>2, <1>3 DEF Joining
<1>8. /\ BridgeTyped' /\ FreshWorkers' /\ FreeIsClosed' /\ StoppingIsJoined' /\ StopIsComplete'
      /\ \A b \in Bridge : stop'[b] => stop[b]
  BY <1>1, <1>6, <1>7, ReleaseKeeps
<1>9. ProgramTyped'
  BY <1>0, <1>1, <1>3, <1>4 DEF ProgramTyped, Jobs
<1>10. RefersToOwn' /\ PausingOne' /\ RemoveIsDue'
  BY <1>1, <1>2, <1>3, <1>5 DEF BridgeInv, RefersToOwn, PausingOne, RemoveIsDue
<1>11. OpeningUnshared'
  <2>1. \A d \in Chip : avr[d] = "opening" => avrAt[d] \in Bridge /\ avrAt[d] # NoOne
    BY <1>0 DEF BridgeInv, RefersToOwn, ProgramTyped
  <2>2. QED BY <1>1, <1>2, <1>3, <1>5, <1>6, <1>8, <2>1 DEF BridgeInv, OpeningUnshared
<1>12. QED BY <1>8, <1>9, <1>10, <1>11, TypeSplit DEF BridgeInv, BridgeTyped, ProgramTyped, TypeOK

LEMMA TakeResultKeeps ==
  ASSUME BridgeInv, TakeResult
  PROVE  BridgeInv'
<1>0. BridgeTyped /\ ProgramTyped
  BY TypeSplit DEF BridgeInv
<1>1. PICK b \in opening :
        /\ Started(b) /\ opening' = opening \ {b}
        /\ bridges' = (IF supervised[b] THEN [bridges EXCEPT ![Of(b)] = b] ELSE bridges)
        /\ UNCHANGED <<guiAt, avrAt>> /\ Release({b, bridges[Of(b)]})
  BY DEF TakeResult
<1>2. /\ gui.at = "opening" /\ gui' \in {gui, [at |-> "idle", job |-> "none", chip |-> NoOne]}
      /\ opening' # {} => gui' = gui
      /\ UNCHANGED <<engine, visited, size, avr, restore, script, paired, timer, restarts, flashes, scripts>>
  BY DEF TakeResult, Idle, comVars
<1>3. b \in Bridge /\ Of(b) \in Chip /\ b # NoOne /\ guiAt = NoOne
  BY <1>0, <1>2, OfIsChip, NamesAssumption DEF BridgeInv, RefersToOwn, ProgramTyped
<1>4. PICK c \in Chip : c = Of(b)
  BY <1>3
<1>5. PICK e \in Bridge \cup {NoOne} : e = bridges[c]
  BY <1>0 DEF ProgramTyped
<1>6. /\ bridges' \in [Chip -> Bridge \cup {NoOne}]
      /\ bridges'[c] \in {b, e} /\ \A d \in Chip \ {c} : bridges'[d] = bridges[d]
  BY <1>0, <1>1, <1>3, <1>4, <1>5 DEF ProgramTyped
<1>7. /\ Active' \subseteq Active \cup {b} /\ Active \subseteq Active' \cup {b, e}
  BY <1>3, <1>5, <1>6 DEF Active
<1>8. /\ Held' \cap Bridge \subseteq Held
      /\ Held \cap Bridge \subseteq Held' \cup {b, e}
  BY <1>1, <1>7 DEF Held
<1>9. \A d \in Bridge : Joining(d) => Joining(d)' /\ d \in Held'
  BY <1>1, <1>2, <1>3, NamesAssumption DEF Joining, Held
<1>10. \A d \in Bridge : stop[d] /\ d \notin Held' => ThreadsDead(d)
  BY <1>9 DEF BridgeInv, StoppingIsJoined
<1>11. Release({b, e})
  BY <1>1, <1>4, <1>5
<1>12. /\ BridgeTyped' /\ FreshWorkers' /\ FreeIsClosed' /\ StoppingIsJoined' /\ StopIsComplete'
       /\ \A d \in Bridge : stop'[d] => stop[d]
  BY <1>8, <1>9, <1>10, <1>11, ReleaseKeeps
<1>13. ProgramTyped'
  BY <1>0, <1>1, <1>2, <1>6 DEF ProgramTyped, Jobs
<1>14. RefersToOwn' /\ PausingOne' /\ RemoveIsDue'
  BY <1>1, <1>2, <1>3, <1>4, <1>5, <1>6 DEF BridgeInv, RefersToOwn, PausingOne, RemoveIsDue
<1>15. OpeningUnshared'
  <2>1. \A d \in Chip : avr[d] = "opening" => avrAt[d] \in Bridge /\ avrAt[d] # b
    BY <1>0, <1>1 DEF BridgeInv, RefersToOwn, OpeningUnshared, ProgramTyped
  <2>2. opening' \subseteq opening /\ b \notin opening' /\ opening' \subseteq Bridge
    BY <1>0, <1>1 DEF ProgramTyped
  <2>3. QED BY <1>1, <1>2, <1>7, <1>12, <2>1, <2>2 DEF BridgeInv, OpeningUnshared
<1>16. QED BY <1>12, <1>13, <1>14, <1>15, TypeSplit DEF BridgeInv, BridgeTyped, ProgramTyped, TypeOK

LEMMA ResumeReplacesKeeps ==
  ASSUME BridgeInv, NEW c \in Chip, ResumeReplaces(c)
  PROVE  BridgeInv'
<1>0. BridgeTyped /\ ProgramTyped
  BY TypeSplit DEF BridgeInv
<1>1. /\ avr[c] = "joining" /\ ThreadsDead(avrAt[c]) /\ Release({avrAt[c], bridges[c]})
      /\ avrAt' = [avrAt EXCEPT ![c] = NoOne] /\ bridges' = [bridges EXCEPT ![c] = NoOne]
      /\ UNCHANGED <<engine, gui, guiAt, visited, size, opening, restore,
                     script, paired, timer, restarts, flashes, scripts>>
  BY DEF ResumeReplaces, Joined, comVars
<1>2. PICK p \in {"none", "create"} : avr' = [avr EXCEPT ![c] = p]
  BY DEF ResumeReplaces
<1>3. /\ avr' \in [Chip -> {"none", "launch", "session", "ended", "joining", "create", "opening"}]
      /\ avr'[c] = p /\ \A d \in Chip \ {c} : avr'[d] = avr[d]
  BY <1>0, <1>2 DEF ProgramTyped
<1>4. PICK a \in Bridge, e \in Bridge \cup {NoOne} : a = avrAt[c] /\ e = bridges[c]
  BY <1>0, <1>1 DEF BridgeInv, RefersToOwn, ProgramTyped
<1>5. /\ avrAt' \in [Chip -> Bridge \cup {NoOne}] /\ bridges' \in [Chip -> Bridge \cup {NoOne}]
      /\ avrAt'[c] = NoOne /\ \A d \in Chip \ {c} : avrAt'[d] = avrAt[d]
      /\ bridges'[c] = NoOne /\ \A d \in Chip \ {c} : bridges'[d] = bridges[d]
  BY <1>0, <1>1 DEF ProgramTyped
<1>6. Active' \subseteq Active /\ Active \subseteq Active' \cup {e}
  BY <1>4, <1>5 DEF Active
<1>7. Held' \cap Bridge \subseteq Held /\ Held \cap Bridge \subseteq Held' \cup {a, e}
  BY <1>1, <1>4, <1>5, <1>6, NamesAssumption DEF Held
<1>8. \A d \in Bridge : Joining(d) => (Joining(d)' /\ d \in Held') \/ ThreadsDead(d)
  BY <1>1, <1>3, <1>5 DEF Joining, Held
<1>9. \A d \in Bridge : stop[d] /\ d \notin Held' => ThreadsDead(d)
  BY <1>8 DEF BridgeInv, StoppingIsJoined
<1>10. /\ BridgeTyped' /\ FreshWorkers' /\ FreeIsClosed' /\ StoppingIsJoined' /\ StopIsComplete'
       /\ \A d \in Bridge : stop'[d] => stop[d]
  <2>1. Release({a, e})
    BY <1>1, <1>4
  <2>2. QED BY <1>7, <1>8, <1>9, <2>1, ReleaseKeeps
<1>11. ProgramTyped'
  BY <1>0, <1>1, <1>3, <1>5 DEF ProgramTyped
<1>12. RefersToOwn' /\ PausingOne' /\ RemoveIsDue'
  BY <1>1, <1>3, <1>5 DEF BridgeInv, RefersToOwn, PausingOne, RemoveIsDue
<1>13. OpeningUnshared'
  <2>1. \A d \in Chip : avr[d] = "opening" => avrAt[d] \in Bridge
    BY <1>0 DEF BridgeInv, RefersToOwn, ProgramTyped
  <2>2. \A d \in opening : d \in Bridge /\ d # NoOne
    BY <1>0, NamesAssumption DEF ProgramTyped
  <2>3. QED BY <1>1, <1>3, <1>5, <1>6, <1>10, <2>1, <2>2 DEF BridgeInv, OpeningUnshared
<1>14. QED BY <1>10, <1>11, <1>12, <1>13, TypeSplit DEF BridgeInv, BridgeTyped, ProgramTyped, TypeOK

LEMMA ResumeEndsKeeps ==
  ASSUME BridgeInv, NEW c \in Chip, ResumeEnds(c)
  PROVE  BridgeInv'
<1>0. BridgeTyped /\ ProgramTyped
  BY TypeSplit DEF BridgeInv
<1>1. /\ avr[c] = "opening" /\ Release({avrAt[c], bridges[c]})
      /\ avrAt' = [avrAt EXCEPT ![c] = NoOne] /\ avr' = [avr EXCEPT ![c] = "none"]
      /\ UNCHANGED <<engine, gui, guiAt, visited, size, opening, restore,
                     script, paired, timer, restarts, flashes, scripts>>
  BY DEF ResumeEnds, comVars
<1>2. PICK a \in Bridge, e \in Bridge \cup {NoOne} : a = avrAt[c] /\ e = bridges[c]
  BY <1>0, <1>1 DEF BridgeInv, RefersToOwn, ProgramTyped
<1>3. /\ avr' \in [Chip -> {"none", "launch", "session", "ended", "joining", "create", "opening"}]
      /\ avr'[c] = "none" /\ \A d \in Chip \ {c} : avr'[d] = avr[d]
  BY <1>0, <1>1 DEF ProgramTyped
<1>4. bridges' \in {bridges, [bridges EXCEPT ![c] = a]}
  BY <1>2 DEF ResumeEnds
<1>5. /\ avrAt' \in [Chip -> Bridge \cup {NoOne}] /\ bridges' \in [Chip -> Bridge \cup {NoOne}]
      /\ avrAt'[c] = NoOne /\ \A d \in Chip \ {c} : avrAt'[d] = avrAt[d]
      /\ bridges'[c] \in {a, e} /\ \A d \in Chip \ {c} : bridges'[d] = bridges[d]
  BY <1>0, <1>1, <1>2, <1>4 DEF ProgramTyped
<1>6. /\ Of(a) = c /\ ~stop[a] /\ a # guiAt /\ a # NoOne /\ a \notin opening
      /\ \A d \in Chip \ {c} : avrAt[d] # a
  BY <1>1, <1>2, NamesAssumption DEF BridgeInv, RefersToOwn, OpeningUnshared
<1>7. Active' \subseteq Active \cup {a} /\ Active \subseteq Active' \cup {e}
  BY <1>2, <1>5, <1>6 DEF Active
<1>8. Held' \cap Bridge \subseteq Held /\ Held \cap Bridge \subseteq Held' \cup {a, e}
  <2>1. a \in Held
    BY <1>2 DEF Held
  <2>2. QED BY <1>1, <1>2, <1>5, <1>7, <2>1, NamesAssumption DEF Held
<1>9. \A d \in Bridge : Joining(d) => Joining(d)' /\ d \in Held'
  BY <1>1, <1>3, <1>5 DEF Joining, Held
<1>10. \A d \in Bridge : stop[d] /\ d \notin Held' => ThreadsDead(d)
  BY <1>9 DEF BridgeInv, StoppingIsJoined
<1>11. /\ BridgeTyped' /\ FreshWorkers' /\ FreeIsClosed' /\ StoppingIsJoined' /\ StopIsComplete'
       /\ \A d \in Bridge : stop'[d] => stop[d]
  <2>1. Release({a, e})
    BY <1>1, <1>2
  <2>2. QED BY <1>8, <1>9, <1>10, <2>1, ReleaseKeeps
<1>12. ProgramTyped'
  BY <1>0, <1>1, <1>3, <1>5 DEF ProgramTyped
<1>13. RefersToOwn' /\ PausingOne' /\ RemoveIsDue'
  BY <1>1, <1>2, <1>3, <1>5, <1>6 DEF BridgeInv, RefersToOwn, PausingOne, RemoveIsDue
<1>14. OpeningUnshared'
  <2>1. \A d \in Chip : avr[d] = "opening" => avrAt[d] \in Bridge
    BY <1>0 DEF BridgeInv, RefersToOwn, ProgramTyped
  <2>2. \A d \in opening : d \in Bridge /\ d # NoOne /\ d # a
    BY <1>0, <1>6, NamesAssumption DEF ProgramTyped
  <2>3. QED BY <1>1, <1>3, <1>5, <1>6, <1>7, <1>11, <2>1, <2>2 DEF BridgeInv, OpeningUnshared
<1>15. QED BY <1>11, <1>12, <1>13, <1>14, TypeSplit DEF BridgeInv, BridgeTyped, ProgramTyped, TypeOK

-----------------------------------------------------------------------------
(* A thread makes new bridges.                                             *)

LEMMA NewBridgesKeep ==
  ASSUME BridgeInv, NEW S \in SUBSET Bridge, NewBridges(S), \A b \in S : pc[b] = "free",
         UNCHANGED <<supervised, stop, sock, ser, tcp2com, com2tcp, slot>>,
         Held' \cap Bridge \subseteq Held \cup S, Held \cap Bridge \subseteq Held',
         \A b \in Bridge : Joining(b) => Joining(b)'
  PROVE  BridgeTyped' /\ FreshWorkers' /\ FreeIsClosed' /\ StoppingIsJoined' /\ StopIsComplete'
<1>0. BridgeTyped
  BY TypeSplit DEF BridgeInv
<1>1. pc' = [b \in Bridge |-> IF b \in S THEN "serial" ELSE pc[b]]
  BY DEF NewBridges
<1>2. BridgeTyped'
  BY <1>0, <1>1 DEF BridgeTyped, Opening
<1>3. FreshWorkers'
  BY <1>1 DEF BridgeInv, FreshWorkers
<1>4. FreeIsClosed'
  BY <1>1 DEF BridgeInv, FreeIsClosed
<1>5. StoppingIsJoined'
  BY <1>1 DEF BridgeInv, StoppingIsJoined, FreeIsClosed, ThreadsDead
<1>6. StopIsComplete'
  BY DEF BridgeInv, StopIsComplete
<1>7. QED BY <1>2, <1>3, <1>4, <1>5, <1>6

LEMMA CreateAllKeeps ==
  ASSUME BridgeInv, CreateAll
  PROVE  BridgeInv'
<1>0. BridgeTyped /\ ProgramTyped
  BY TypeSplit DEF BridgeInv
<1>1. /\ gui.at = "create" /\ gui' = [gui EXCEPT !.at = "opening"]
      /\ opening' = {Fresh(c) : c \in Chip} /\ NewBridges(opening')
      /\ UNCHANGED <<supervised, stop, sock, ser, tcp2com, com2tcp, slot, engine, bridges,
                     guiAt, visited, size, avr, avrAt, restore, script, paired, timer, restarts, flashes, scripts>>
      /\ \A c \in Chip : Free(c) # {}
  BY DEF CreateAll, avrVars, comVars
<1>2. gui'.at = "opening" /\ gui'.job = gui.job /\ guiAt = NoOne /\ opening = {}
  BY <1>0, <1>1 DEF BridgeInv, RefersToOwn, ProgramTyped
<1>3. \A b \in opening' : b \in Bridge /\ pc[b] = "free"
  BY <1>1, FreshIsFree
<1>4. \A b \in opening' : ~stop[b] /\ b \notin Held
  BY <1>3 DEF BridgeInv, FreeIsClosed
<1>5. Active' = Active /\ Held' = Held \cup opening'
  BY <1>1, <1>2 DEF Held, Active
<1>6. \A b \in Bridge : Joining(b) => Joining(b)'
  BY <1>1 DEF Joining
<1>7. BridgeTyped' /\ FreshWorkers' /\ FreeIsClosed' /\ StoppingIsJoined' /\ StopIsComplete'
  BY <1>1, <1>3, <1>5, <1>6, NewBridgesKeep
<1>8. ProgramTyped'
  BY <1>0, <1>1, <1>3 DEF ProgramTyped
<1>9. RefersToOwn' /\ PausingOne' /\ RemoveIsDue'
  BY <1>1, <1>2 DEF BridgeInv, RefersToOwn, PausingOne, RemoveIsDue
<1>10. OpeningUnshared'
  <2>1. \A b \in opening' : b \notin Active /\ \A c \in Chip : avrAt[c] # b
    BY <1>4 DEF Held
  <2>2. QED BY <1>1, <1>4, <1>5, <2>1 DEF BridgeInv, OpeningUnshared
<1>11. QED BY <1>7, <1>8, <1>9, <1>10, TypeSplit DEF BridgeInv, BridgeTyped, ProgramTyped, TypeOK

LEMMA ResumeCreatesKeeps ==
  ASSUME BridgeInv, NEW c \in Chip, ResumeCreates(c)
  PROVE  BridgeInv'
<1>0. BridgeTyped /\ ProgramTyped
  BY TypeSplit DEF BridgeInv
<1>1. PICK a \in Bridge : a = Fresh(c) /\ Of(a) = c /\ pc[a] = "free"
  BY FreshIsFree DEF ResumeCreates
<1>2. /\ avr[c] = "create" /\ avrAt' = [avrAt EXCEPT ![c] = a] /\ NewBridges({a})
      /\ avr' = [avr EXCEPT ![c] = "opening"]
      /\ UNCHANGED <<supervised, stop, sock, ser, tcp2com, com2tcp, slot, engine, bridges,
                     gui, guiAt, visited, size, opening, restore, script, paired, timer, restarts, flashes, scripts>>
  BY <1>1 DEF ResumeCreates, guiVars, comVars
<1>3. /\ avr' \in [Chip -> {"none", "launch", "session", "ended", "joining", "create", "opening"}]
      /\ avr'[c] = "opening" /\ \A d \in Chip \ {c} : avr'[d] = avr[d]
  BY <1>0, <1>2 DEF ProgramTyped
<1>4. /\ avrAt' \in [Chip -> Bridge \cup {NoOne}] /\ avrAt[c] = NoOne
      /\ avrAt'[c] = a /\ \A d \in Chip \ {c} : avrAt'[d] = avrAt[d]
  BY <1>0, <1>2 DEF BridgeInv, RefersToOwn, ProgramTyped
<1>5. ~stop[a] /\ a \notin Held /\ a # NoOne
  BY <1>1, NamesAssumption DEF BridgeInv, FreeIsClosed
<1>6. /\ Active' = Active /\ Held' \cap Bridge \subseteq Held \cup {a}
      /\ Held \cap Bridge \subseteq Held'
  BY <1>2, <1>4, NamesAssumption DEF Held, Active
<1>7. \A b \in Bridge : Joining(b) => Joining(b)'
  BY <1>2, <1>3, <1>4, NamesAssumption DEF Joining
<1>8. BridgeTyped' /\ FreshWorkers' /\ FreeIsClosed' /\ StoppingIsJoined' /\ StopIsComplete'
  <2>1. \A b \in {a} : pc[b] = "free"
    BY <1>1
  <2>2. QED BY <1>2, <1>6, <1>7, <2>1, NewBridgesKeep
<1>9. ProgramTyped'
  BY <1>0, <1>2, <1>3, <1>4 DEF ProgramTyped
<1>10. RefersToOwn' /\ PausingOne' /\ RemoveIsDue'
  BY <1>1, <1>2, <1>3, <1>4, <1>5 DEF BridgeInv, RefersToOwn, PausingOne, RemoveIsDue
<1>11. OpeningUnshared'
  <2>1. \A b \in opening : b # a
    BY <1>5 DEF Held
  <2>2. a \notin Active /\ a # guiAt
    BY <1>5 DEF Held
  <2>3. QED BY <1>2, <1>3, <1>4, <1>5, <1>6, <2>1, <2>2 DEF BridgeInv, OpeningUnshared
<1>12. QED BY <1>8, <1>9, <1>10, <1>11, TypeSplit DEF BridgeInv, BridgeTyped, ProgramTyped, TypeOK

-----------------------------------------------------------------------------
(* The invariant, and what follows from it.                                *)

LEMMA NextInv == BridgeInv /\ [Next]_vars => BridgeInv'
<1> SUFFICES ASSUME BridgeInv, [Next]_vars PROVE BridgeInv'
  OBVIOUS
<1>1. ASSUME NEW b \in Bridge, BridgeStep(b) \/ WorkerStep(b) \/ ComToTcpSendFails(b)
      PROVE  BridgeInv'
  <2>1. CASE BridgeStep(b)
    BY <2>1, OpenSerialKeeps, OpenSocketKeeps, SpawnKeeps, SupervisorKeeps DEF BridgeStep
  <2>2. CASE WorkerStep(b) \/ ComToTcpSendFails(b)
    BY <2>2, WorkersKeep
  <2>3. QED BY <1>1, <2>1, <2>2
<1>2. CASE GuiOwn
  BY <1>2, StopNextKeeps, StopJoinedKeeps, StopLoopLeft, StopClearsKeeps, CreateAllKeeps,
     TakeResultKeeps, PausedKeeps, StopAllKeeps DEF GuiOwn
<1>3. ASSUME NEW c \in Chip, AvrStep(c) \/ OutsiderConnects(c)
      PROVE  BridgeInv'
  BY <1>3, SlotUsersKeep, ResumeBeginsKeeps, ResumeReplacesKeeps, ResumeCreatesKeeps,
     ResumeEndsKeeps DEF AvrStep
<1>4. CASE Operator
  BY <1>4, ScriptsKeep, StopAllKeeps, FlashChipKeeps DEF Operator
<1>5. CASE ScriptEnds \/ EngineEnds
  BY <1>5, ScriptsKeep, SlotUsersKeep
<1>6. CASE UNCHANGED vars
  <2>1. UNCHANGED programVars /\ UNCHANGED <<pc, supervised, stop, sock, ser, tcp2com, com2tcp, slot>>
    BY <1>6 DEF vars, programVars, bridgeVars
  <2>2. ProgramTyped' /\ RefersToOwn' /\ PausingOne' /\ RemoveIsDue' /\ Held' = Held /\ Active' = Active
    BY <2>1, ProgramUnchanged
  <2>3. UNCHANGED <<bridges, guiAt, opening, avr, avrAt>>
    BY <2>1 DEF programVars, guiVars, avrVars
  <2>4. BridgeTyped'
    BY <2>1, TypeSplit DEF BridgeInv, BridgeTyped
  <2>5. FreshWorkers' /\ FreeIsClosed' /\ StopIsComplete' /\ OpeningUnshared'
    BY <2>1, <2>2, <2>3 DEF BridgeInv, FreshWorkers, FreeIsClosed, StopIsComplete, OpeningUnshared
  <2>6. StoppingIsJoined'
    BY <2>1, <2>3 DEF BridgeInv, StoppingIsJoined, Joining, ThreadsDead
  <2>7. QED BY <2>2, <2>4, <2>5, <2>6, TypeSplit DEF BridgeInv, BridgeTyped, ProgramTyped, TypeOK
<1>7. QED BY <1>1, <1>2, <1>3, <1>4, <1>5, <1>6 DEF Next, ProcessEnds

LEMMA InvAlways == Spec => []BridgeInv
  BY InitInv, NextInv, PTL DEF Spec

\* Every variable keeps its type: in particular no count of scripts and
\* flashes passes its bound and the slot always belongs to a known client.
THEOREM BridgeTypeCorrect == Spec => []TypeOK
<1>1. BridgeInv => TypeOK
  BY DEF BridgeInv
<1>2. QED BY <1>1, InvAlways, PTL

\* The supervisor never waits, reopens or spawns with workers of an earlier
\* connection alive (ChipBridge._supervise and _open_and_spawn).
THEOREM WorkersAlwaysFresh == Spec => []FreshWorkers
<1>1. BridgeInv => FreshWorkers
  BY DEF BridgeInv
<1>2. QED BY <1>1, InvAlways, PTL

\* A bridge that was told to stop stays in somebody's hands until all its
\* threads are dead (ChipBridge.stop), whoever stopped it.
THEOREM StopIsAlwaysComplete == Spec => []StopIsComplete
<1>1. BridgeInv => StopIsComplete
  BY DEF BridgeInv
<1>2. QED BY <1>1, InvAlways, PTL

\* The only two ways in which avrdude is launched for a chip.
LEMMA LaunchedBy ==
  ASSUME BridgeInv, [Next]_vars, NEW c \in Chip, avr[c] = "none", avr'[c] = "launch"
  PROVE  FlashChip(c) \/ (Paused /\ gui.chip = c)
<1>0. ProgramTyped
  BY TypeSplit DEF BridgeInv
<1>1. ASSUME NEW b \in Bridge, BridgeStep(b) \/ WorkerStep(b) \/ ComToTcpSendFails(b)
      PROVE  FALSE
  <2>1. UNCHANGED programVars
    BY <1>1 DEF BridgeStep, WorkerStep, ComToTcpSendFails, TcpToComEnds, ComToTcpEnds, OpenSerial,
       OpenSocket, Spawn, SuperviseDeath, SuperviseJoin, SuperviseWakes, SuperviseRetry, SuperviseStops
  <2>2. QED BY <2>1 DEF programVars, avrVars
<1>2. CASE GuiOwn /\ ~Paused
  <2>1. avr' = avr
    BY <1>2 DEF GuiOwn, StopNext, StopJoined, StopRaises, StopLoopEnds, StopClears, CreateAll,
       TakeResult, TimerFires, RestartRuns, avrVars
  <2>2. QED BY <2>1
<1>3. CASE Paused
  <2>1. avr' = [avr EXCEPT ![gui.chip] = "launch"]
    BY <1>3 DEF Paused
  <2>2. QED BY <1>0, <1>3, <2>1 DEF ProgramTyped
<1>4. ASSUME NEW d \in Chip, AvrStep(d) \/ OutsiderConnects(d)
      PROVE  FALSE
  <2>1. CASE OutsiderConnects(d)
    BY <2>1 DEF OutsiderConnects, programVars, avrVars
  <2>2. CASE AvrStep(d)
    <3>1. PICK p \in {"none", "session", "ended", "joining", "create", "opening"} :
            avr' = [avr EXCEPT ![d] = p]
      BY <2>2 DEF AvrStep, AvrdudeConnects, AvrdudeExits, ResumeBegins, ResumeReplaces,
         ResumeCreates, ResumeEnds
    <3>2. QED BY <1>0, <3>1 DEF ProgramTyped
  <2>3. QED BY <1>4, <2>1, <2>2
<1>5. CASE Operator
  <2>1. CASE InstallComPorts \/ RemoveComPorts \/ CloseEvent
    BY <2>1 DEF InstallComPorts, RemoveComPorts, CloseEvent, avrVars
  <2>2. ASSUME NEW d \in Chip, FlashChip(d) PROVE d = c
    BY <1>0, <2>2 DEF FlashChip, ProgramTyped
  <2>3. QED BY <1>5, <2>1, <2>2 DEF Operator
<1>6. CASE ScriptEnds \/ EngineEnds \/ UNCHANGED vars
  BY <1>6 DEF ScriptEnds, EngineEnds, vars, programVars, avrVars
<1>7. QED BY <1>1, <1>2, <1>3, <1>4, <1>5, <1>6 DEF Next, ProcessEnds

LEMMA LaunchFindsSlotFree ==
  ASSUME BridgeInv, [Next]_vars, NEW c \in Chip, avr[c] = "none", avr'[c] = "launch",
         NEW b \in Bridge, Of(b) = c, ~Stray(b)
  PROVE  slot'[c] # b /\ ~ser'[b] /\ ~tcp2com'[b] /\ ~com2tcp'[b]
<1>0. BridgeTyped /\ ProgramTyped /\ b # NoOne
  BY TypeSplit, NamesAssumption DEF BridgeInv
<1>1. avrAt[c] = NoOne /\ \A d \in Chip : avrAt[d] # b
  BY <1>0 DEF BridgeInv, RefersToOwn
<1>2. pc[b] = "free" => slot[c] # b /\ ~ser[b] /\ ~tcp2com[b] /\ ~com2tcp[b]
  BY DEF BridgeInv, FreeIsClosed, FreshWorkers
<1>3. CASE FlashChip(c)
  <2>1. /\ gui.at = "idle" /\ guiAt = NoOne /\ opening = {}
    BY <1>3 DEF FlashChip, Idle, BridgeInv, RefersToOwn
  <2>2. bridges[c] = NoOne /\ UNCHANGED <<ser, slot, tcp2com, com2tcp>>
    BY <1>0, <1>3 DEF FlashChip, ToPause, ProgramTyped
  <2>3. b \notin Held
    BY <1>0, <1>1, <2>1, <2>2 DEF Held, Active, BridgeInv, RefersToOwn
  <2>4. QED BY <1>2, <2>2, <2>3 DEF Stray
<1>4. CASE Paused /\ gui.chip = c
  <2>1. /\ gui.at = "pausing" /\ ThreadsDead(guiAt) /\ Release({guiAt}) /\ guiAt' = NoOne
        /\ UNCHANGED <<bridges, opening, avrAt>>
    BY <1>4 DEF Paused, Joined
  <2>2. bridges[c] = NoOne /\ opening = {}
    BY <1>4, <2>1 DEF BridgeInv, PausingOne, RefersToOwn
  <2>3. b \in Held => b = guiAt
    BY <1>0, <1>1, <2>2 DEF Held, Active, BridgeInv, RefersToOwn
  <2>4. b \notin Held'
    BY <1>0, <1>1, <2>1, <2>2 DEF Held, Active, BridgeInv, RefersToOwn
  <2>5. tcp2com' = tcp2com /\ com2tcp' = com2tcp
    BY <2>1 DEF Release
  <2>6. CASE b = guiAt
    <3>1. ~tcp2com[b] /\ ~com2tcp[b]
      BY <2>1, <2>6 DEF ThreadsDead
    <3>2. b \in {d \in {guiAt} \cap Bridge : ThreadsDead(d) /\ d \notin Held'}
      BY <2>1, <2>4, <2>6
    <3>3. ~ser'[b]
      BY <2>1, <3>2 DEF Release
    <3>4. slot'[c] # b
      BY <1>0, <2>1, <3>2 DEF Release, Vacate
    <3>5. QED BY <2>5, <3>1, <3>3, <3>4
  <2>7. CASE b # guiAt
    <3>1. pc[b] = "free"
      BY <2>3, <2>7 DEF Stray
    <3>2. ser'[b] => ser[b]
      BY <2>1 DEF Release
    <3>3. slot'[c] = b => slot[c] = b
      BY <1>0, <2>1 DEF Release, Vacate
    <3>4. QED BY <1>2, <2>5, <3>1, <3>2, <3>3
  <2>8. QED BY <2>6, <2>7
<1>5. QED BY <1>3, <1>4, LaunchedBy

\* When flashChipAvrdude starts avrdude, no bridge of that chip that the
\* program knows of holds the slot, has the port open or copies bytes.
THEOREM AvrdudeAlwaysFindsSlotFree == Spec => AvrdudeFindsSlotFree
<1>1. BridgeInv /\ [Next]_vars =>
        [\A c \in Chip :
           avr[c] = "none" /\ avr'[c] = "launch" =>
              \A b \in Bridge : Of(b) = c /\ ~Stray(b) =>
                 slot'[c] # b /\ ~ser'[b] /\ ~tcp2com'[b] /\ ~com2tcp'[b]]_vars
  BY LaunchFindsSlotFree
<1>2. QED BY <1>1, InvAlways, PTL DEF Spec, AvrdudeFindsSlotFree
=============================================================================
