-------------------------- MODULE CalibrateProofs --------------------------
(***************************************************************************)
(* Theorems about the calibration window, for every list of items, every   *)
(* set of values the spin boxes can show and every step size.              *)
(***************************************************************************)
EXTENDS Calibrate, TLAPS, WellFoundedInduction

-----------------------------------------------------------------------------
(* The operators the handlers are built from.                              *)

\* Every set of naturals that is not empty has a first element.
LEMMA FirstIsLeast ==
  ASSUME NEW S, S \subseteq Nat, S # {}
  PROVE  First(S) \in S /\ \A j \in S : First(S) <= j
<1> DEFINE R == OpToRel(<, Nat)
<1>1. \A i, j \in Nat : j < i => <<j, i>> \in R
  BY DEF OpToRel
<1>2. IsWellFoundedOn(R, Nat)
  BY NatLessThanWellFounded
<1> HIDE DEF R
<1>3. PICK i \in S : \A j \in S : ~(<<j, i>> \in R)
  BY <1>2, WFMin
<1>4. ASSUME NEW j \in S PROVE i <= j
  <2>1. i \in Nat /\ j \in Nat
    OBVIOUS
  <2>2. ~(j < i)
    BY <1>1, <1>3, <2>1
  <2>3. QED BY <2>1, <2>2
<1>5. QED
  BY <1>3, <1>4 DEF First

\* A spin box shows a value it can show, and such a value as it is.
LEMMA ShownIsShowable ==
  ASSUME NEW f \in Fields, NEW v \in Int
  PROVE  /\ Shown(f, v) \in Steps[f]
         /\ v \in Steps[f] => Shown(f, v) = v
<1> DEFINE T == {Distance(s, v) : s \in Steps[f]}
<1>0. Steps[f] \subseteq Int /\ 0 \in Steps[f]
  BY SpinAssumption
<1>1. T \subseteq Nat /\ T # {}
  BY <1>0 DEF Distance
<1>2. First(T) \in T /\ \A d \in T : First(T) <= d
  <2> HIDE DEF T
  <2>1. QED BY <1>1, FirstIsLeast
<1>3. PICK s \in Steps[f] : Distance(s, v) = First(T)
  BY <1>2
<1>4. \A t \in Steps[f] : Distance(s, v) <= Distance(t, v)
  BY <1>2, <1>3
<1>5. Shown(f, v) \in Steps[f] /\ \A t \in Steps[f] : Distance(Shown(f, v), v) <= Distance(t, v)
  <2> HIDE DEF T
  <2>1. QED BY <1>4 DEF Shown
<1>6. ASSUME v \in Steps[f] PROVE Shown(f, v) = v
  <2>1. Distance(Shown(f, v), v) <= Distance(v, v)
    BY <1>5, <1>6
  <2>2. QED BY <1>0, <1>5, <2>1 DEF Distance
<1>7. QED BY <1>5, <1>6

\* _advance finds an item that is not placed, or there is none.
LEMMA AdvanceFinds ==
  ASSUME NEW c, NEW from \in Int
  PROVE  IF \A j \in Item : Placed(c, j)
           THEN Advance(c, from) = Done
           ELSE Advance(c, from) \in Item /\ ~Placed(c, Advance(c, from))
<1> DEFINE free == {i \in Item : ~Placed(c, i)}
           after == {i \in free : i > from}
<1>1. Item \subseteq Nat
  BY KindAssumption DEF Item, N
<1>2. free \subseteq Nat /\ after \subseteq Nat /\ after \subseteq free
  BY <1>1
<1>3. Advance(c, from) = IF after # {} THEN First(after) ELSE IF free # {} THEN First(free) ELSE Done
  BY DEF Advance
<1>4. CASE free = {}
  BY <1>3, <1>4
<1>5. CASE free # {}
  <2>1. Advance(c, from) \in free
    <3> HIDE DEF free, after
    <3>1. QED BY <1>2, <1>3, <1>5, FirstIsLeast
  <2>2. QED BY <2>1, <1>5
<1>6. QED BY <1>4, <1>5

LEMMA AdvanceTyped ==
  ASSUME NEW c, NEW from \in Int
  PROVE  Advance(c, from) \in 1..Done
<1>1. N \in Nat
  BY KindAssumption DEF N
<1>2. QED BY <1>1, AdvanceFinds DEF Item, Done

\* An entry that has the fields of a kind is not an empty one.
LEMMA EntryIsPlaced ==
  ASSUME NEW kind, NEW e, DOMAIN e = FieldsOf(kind)
  PROVE  e # Unplaced
<1>1. "x" \in FieldsOf(kind)
  BY DEF FieldsOf
<1>2. DOMAIN Unplaced = {}
  BY DEF Unplaced
<1>3. QED BY <1>1, <1>2

\* refresh_property_editor makes the boxes show the item of coords and index.
Shows(c, i, sp, en) ==
  IF i = Done \/ ~Placed(c, i)
    THEN en = {}
    ELSE en = FieldsOf(Kind[i]) /\ \A f \in en : sp[f] = Shown(f, c[i][f])

Showable(sp) == sp \in [Fields -> Int] /\ \A f \in Fields : sp[f] \in Steps[f]

LEMMA KindFields == \A i \in Item : FieldsOf(Kind[i]) \subseteq Fields
  BY DEF FieldsOf, Fields

LEMMA RefreshShows ==
  ASSUME NEW c, WellFormed(c), NEW i \in 1..Done
  PROVE  /\ Shows(c, i, Refreshed(c, i).spin, Refreshed(c, i).enabled)
         /\ Showable(Refreshed(c, i).spin)
         /\ Refreshed(c, i).enabled \subseteq Fields
<1>1. CASE i = Done \/ ~Placed(c, i)
  BY <1>1, SpinAssumption DEF Refreshed, Shows, Showable
<1>2. CASE ~(i = Done \/ ~Placed(c, i))
  <2>0. i \in Item
    BY <1>2, KindAssumption DEF Item, Done, N
  <2>1. /\ Refreshed(c, i).spin = [f \in Fields |-> Shown(f, IF f \in DOMAIN c[i] THEN c[i][f] ELSE Default[f])]
        /\ Refreshed(c, i).enabled = FieldsOf(Kind[i])
    BY <1>2 DEF Refreshed
  <2>2. c[i] \in [FieldsOf(Kind[i]) -> Int]
    BY <1>2, <2>0 DEF WellFormed
  <2>3. \A f \in Fields : (IF f \in DOMAIN c[i] THEN c[i][f] ELSE Default[f]) \in Int
    BY <2>2, SpinAssumption
  <2>4. \A f \in Fields : Shown(f, IF f \in DOMAIN c[i] THEN c[i][f] ELSE Default[f]) \in Steps[f]
    BY <2>3, ShownIsShowable
  <2>5. Showable(Refreshed(c, i).spin)
    BY <2>1, <2>4, SpinAssumption DEF Showable
  <2>6. FieldsOf(Kind[i]) \subseteq Fields
    BY <2>0, KindFields
  <2>7. \A f \in FieldsOf(Kind[i]) : Refreshed(c, i).spin[f] = Shown(f, c[i][f])
    BY <2>1, <2>2, <2>6
  <2>8. QED BY <1>2, <2>1, <2>5, <2>6, <2>7 DEF Shows
<1>3. QED BY <1>1, <1>2

-----------------------------------------------------------------------------
(* The invariant: what the boxes hold is well formed and can be shown, and  *)
(* the two copies of the coordinates are fresh.                             *)

EditInv ==
  /\ TypeOK
  /\ Showable(spin)
  /\ Shows(coords, index, spin, enabled)
  /\ ListIsTrue

\* Coordinates in which item i has the fields of its kind.
LEMMA WellFormedWith ==
  ASSUME NEW c, WellFormed(c), NEW i \in Item, NEW e \in [FieldsOf(Kind[i]) -> Int]
  PROVE  /\ WellFormed([c EXCEPT ![i] = e])
         /\ Placed([c EXCEPT ![i] = e], i)
         /\ \A j \in Item \ {i} : Placed([c EXCEPT ![i] = e], j) <=> Placed(c, j)
<1>1. [c EXCEPT ![i] = e][i] = e /\ \A j \in Item \ {i} : [c EXCEPT ![i] = e][j] = c[j]
  BY DEF WellFormed
<1>2. DOMAIN [c EXCEPT ![i] = e] = Item
  BY DEF WellFormed
<1>3. e # Unplaced
  BY EntryIsPlaced
<1>4. QED BY <1>1, <1>2, <1>3 DEF WellFormed, Placed

LEMMA NoCoordsWellFormed == WellFormed(NoCoords) /\ \A i \in Item : ~Placed(NoCoords, i)
  BY DEF WellFormed, NoCoords, Placed

\* The sizes of an item that is placed for the first time.
LEMMA LastTyped ==
  ASSUME NEW c, WellFormed(c), NEW f \in Fields
  PROVE  Last(c, f) \in Int
<1> DEFINE S == {i \in Item : f \in DOMAIN c[i]}
<1>1. CASE S = {}
  BY <1>1, SpinAssumption DEF Last
<1>2. CASE S # {}
  <2>1. S \subseteq Nat
    BY KindAssumption DEF Item, N
  <2>2. First(S) \in S
    <3> HIDE DEF S
    <3>1. QED BY <1>2, <2>1, FirstIsLeast
  <2>3. c[First(S)] # Unplaced
    BY <2>2 DEF Unplaced
  <2>4. c[First(S)] \in [FieldsOf(Kind[First(S)]) -> Int]
    BY <2>2, <2>3 DEF WellFormed, Placed
  <2>5. c[First(S)][f] \in Int
    BY <2>2, <2>4
  <2>6. QED BY <1>2, <2>5 DEF Last
<1>3. QED BY <1>1, <1>2

LEMMA InitEditInv == Init => EditInv
<1> SUFFICES ASSUME Init PROVE EditInv
  OBVIOUS
<1>1. WellFormed(coords) /\ (file \in {NoFile, BadFile} \/ WellFormed(file))
  <2>1. CASE file \in {NoFile, BadFile}
    BY <2>1, NoCoordsWellFormed DEF Init
  <2>2. CASE ~(file \in {NoFile, BadFile})
    <3>1. PICK S \in SUBSET Item, x \in Clicks :
            file = [i \in Item |-> IF i \in S THEN NewEntry(Kind[i], x) ELSE Unplaced]
      BY <2>2 DEF Init
    <3>2. \A i \in Item : NewEntry(Kind[i], x) \in [FieldsOf(Kind[i]) -> Int]
      BY SpinAssumption, StepAssumption, KindFields DEF NewEntry
    <3>3. WellFormed(file)
      BY <3>1, <3>2 DEF WellFormed, Placed
    <3>4. QED BY <2>2, <3>3 DEF Init
  <2>3. QED BY <2>1, <2>2
<1>2. index \in 1..Done
  <2>1. 1 \in 1..Done
    BY KindAssumption DEF Done, N
  <2>2. QED BY <2>1, AdvanceTyped DEF Init
<1>3. /\ Showable(spin) /\ Shows(coords, index, spin, enabled) /\ enabled \subseteq Fields
  BY <1>1, <1>2, RefreshShows DEF Init
<1>4. marks = {i \in Item : Placed(coords, i)}
  BY DEF Init
<1>5. ASSUME index = Done PROVE \A i \in Item : Placed(coords, i)
  <2>1. CASE file = NoFile
    <3>1. N = 0
      BY <1>5, <2>1, KindAssumption DEF Init, Done, N
    <3>2. QED BY <3>1 DEF Item
  <2>2. CASE file # NoFile
    <3>1. index = Advance(coords, 1)
      BY <2>2 DEF Init
    <3>2. Done \notin Item
      BY KindAssumption DEF Done, Item, N
    <3>3. QED BY <1>5, <3>1, <3>2, AdvanceFinds
  <2>3. QED BY <2>1, <2>2
<1>6. ListIsTrue
  BY <1>4, <1>5 DEF ListIsTrue
<1>7. edits \in 0..MaxEdits
  BY StepAssumption DEF Init
<1>8. spin \in [Fields -> Int] /\ marks \subseteq Item
  BY <1>3, <1>4 DEF Showable
<1>9. QED BY <1>1, <1>2, <1>3, <1>6, <1>7, <1>8 DEF EditInv, TypeOK

-----------------------------------------------------------------------------
(* Every handler keeps it.                                                 *)

\* The end of a handler that refreshes the list and the editor.
LEMMA Refreshing ==
  ASSUME WellFormed(coords'), file' = file \/ WellFormed(file'), EditInv,
         index' \in 1..Done, edits' \in 0..MaxEdits,
         RefreshEditor(coords', index'),
         marks' = {i \in Item : Placed(coords', i)},
         index' = Done => \A i \in Item : Placed(coords', i)
  PROVE  EditInv'
<1>1. /\ Shows(coords', index', spin', enabled')
      /\ Showable(spin') /\ enabled' \subseteq Fields
  BY RefreshShows DEF RefreshEditor
<1>2. ListIsTrue'
  BY DEF ListIsTrue
<1>3. TypeOK'
  BY <1>1 DEF TypeOK, EditInv, Showable
<1>4. QED BY <1>1, <1>2, <1>3 DEF EditInv

LEMMA PlaceAtKeeps ==
  ASSUME EditInv, NEW x \in Clicks, PlaceAt(x)
  PROVE  EditInv'
<1> DEFINE old   == coords[index]
           entry == [f \in FieldsOf(Kind[index]) |->
                       IF f = "x" THEN x ELSE IF f \in DOMAIN old THEN old[f] ELSE Last(coords, f)]
<1>1. index \in Item /\ WellFormed(coords)
  BY KindAssumption DEF EditInv, TypeOK, PlaceAt, Item, Done, N
<1>2. entry \in [FieldsOf(Kind[index]) -> Int]
  <2>1. ASSUME NEW f \in FieldsOf(Kind[index]) PROVE entry[f] \in Int
    <3>1. f \in Fields /\ x \in Int
      BY <1>1, KindFields, StepAssumption
    <3>2. Last(coords, f) \in Int
      BY <1>1, <3>1, LastTyped
    <3>3. ASSUME f \in DOMAIN old PROVE old[f] \in Int
      <4>1. old # Unplaced
        BY <3>3 DEF Unplaced
      <4>2. QED BY <1>1, <3>3, <4>1 DEF WellFormed, Placed
    <3>4. QED BY <3>1, <3>2, <3>3
  <2>2. QED BY <2>1
<1>3. coords' = [coords EXCEPT ![index] = entry] /\ index' = Advance(coords', index)
  BY DEF PlaceAt
<1>4. WellFormed(coords')
  BY <1>1, <1>2, <1>3, WellFormedWith
<1>5. index' \in 1..Done /\ (index' = Done => \A i \in Item : Placed(coords', i))
  <2>1. index \in Int /\ Done \notin Item
    BY KindAssumption DEF EditInv, TypeOK, Done, Item, N
  <2>2. QED BY <1>3, <2>1, AdvanceTyped, AdvanceFinds
<1>6. RefreshEditor(coords', index') /\ marks' = {i \in Item : Placed(coords', i)}
  BY <1>3 DEF PlaceAt, RefreshList
<1>7. file' = file /\ edits' \in 0..MaxEdits
  BY DEF PlaceAt, EditInv, TypeOK
<1>8. QED BY <1>4, <1>5, <1>6, <1>7, Refreshing

\* The keys that change the current item.
LEMMA KeyEditKeeps ==
  ASSUME EditInv, KeyWorks, NEW e \in [FieldsOf(Kind[index]) -> Int], KeyEdit(e)
  PROVE  EditInv'
<1>1. index \in Item /\ WellFormed(coords)
  BY KindAssumption DEF EditInv, TypeOK, KeyWorks, Item, Done, N
<1>2. coords' = [coords EXCEPT ![index] = e] /\ index' = index
  BY DEF KeyEdit
<1>3. WellFormed(coords') /\ \A j \in Item : Placed(coords', j) <=> Placed(coords, j)
  BY <1>1, <1>2, WellFormedWith DEF KeyWorks
<1>4. RefreshEditor(coords', index') /\ marks' = {i \in Item : Placed(coords', i)}
  BY <1>2, <1>3 DEF KeyEdit, EditInv, ListIsTrue
<1>5. index' \in 1..Done /\ (index' = Done => \A i \in Item : Placed(coords', i))
  BY <1>2, <1>3 DEF EditInv, TypeOK, ListIsTrue
<1>6. file' = file /\ edits' \in 0..MaxEdits
  BY StepAssumption DEF KeyEdit, KeyWorks, EditInv, TypeOK
<1>7. QED BY <1>3, <1>4, <1>5, <1>6, Refreshing

LEMMA KeysKeep ==
  ASSUME EditInv, Arrow \/ Scale \/ Rotate
  PROVE  EditInv'
<1>1. ASSUME KeyWorks PROVE coords[index] \in [FieldsOf(Kind[index]) -> Int]
  BY <1>1, KindAssumption DEF EditInv, TypeOK, WellFormed, KeyWorks, Item, Done, N
<1>2. CASE Arrow
  <2>1. PICK n \in Nudges : \E d \in {-n, n} : KeyEdit([coords[index] EXCEPT !["x"] = @ + d])
    BY <1>2 DEF Arrow
  <2>2. PICK d \in {-n, n} : KeyEdit([coords[index] EXCEPT !["x"] = @ + d])
    BY <2>1
  <2>3. "x" \in FieldsOf(Kind[index]) /\ d \in Int
    BY <2>1, <2>2, StepAssumption DEF FieldsOf
  <2>4. [coords[index] EXCEPT !["x"] = @ + d] \in [FieldsOf(Kind[index]) -> Int]
    BY <1>1, <1>2, <2>3 DEF Arrow
  <2>5. QED BY <1>2, <2>2, <2>4, KeyEditKeeps DEF Arrow
<1>3. CASE Scale
  <2>1. PICK up \in BOOLEAN :
          KeyEdit([f \in DOMAIN coords[index] |->
                     IF f \in {"w", "r"} THEN Scaled(coords[index][f], up) ELSE coords[index][f]])
    BY <1>3 DEF Scale
  <2>2. \A v \in Int : Scaled(v, up) \in Int
    BY DEF Scaled
  <2>3. [f \in DOMAIN coords[index] |->
           IF f \in {"w", "r"} THEN Scaled(coords[index][f], up) ELSE coords[index][f]]
          \in [FieldsOf(Kind[index]) -> Int]
    BY <1>1, <1>3, <2>2 DEF Scale
  <2>4. QED BY <1>3, <2>1, <2>3, KeyEditKeeps DEF Scale
<1>4. CASE Rotate
  <2>1. PICK d \in {-Turn, Turn} : KeyEdit([coords[index] EXCEPT !["rot"] = @ + d])
    BY <1>4 DEF Rotate
  <2>2. d \in Int /\ "rot" \in DOMAIN coords[index]
    BY <1>4, StepAssumption DEF Rotate
  <2>3. [coords[index] EXCEPT !["rot"] = @ + d] \in [FieldsOf(Kind[index]) -> Int]
    BY <1>1, <1>4, <2>2 DEF Rotate
  <2>4. QED BY <1>4, <2>1, <2>3, KeyEditKeeps DEF Rotate
<1>5. QED BY <1>2, <1>3, <1>4

\* A box that is edited already shows what the coordinates become, and so do
\* the boxes whose values are written back with it.
LEMMA SpinEditKeeps ==
  ASSUME EditInv, NEW f \in Fields, NEW v \in Steps[f], SpinEdit(f, v)
  PROVE  EditInv'
<1> DEFINE entry == [g \in FieldsOf(Kind[index]) |-> spin'[g]]
<1>1. /\ index # Done /\ Placed(coords, index) /\ enabled = FieldsOf(Kind[index])
      /\ index \in Item /\ WellFormed(coords)
  BY KindAssumption DEF SpinEdit, EditInv, TypeOK, Shows, Item, Done, N
<1>2. spin' = [spin EXCEPT ![f] = v] /\ v \in Int /\ Showable(spin')
  BY SpinAssumption DEF SpinEdit, EditInv, Showable
<1>3. entry \in [FieldsOf(Kind[index]) -> Int]
  BY <1>1, <1>2, KindFields DEF Showable
<1>4. coords' = [coords EXCEPT ![index] = entry] /\ index' = index
  BY DEF SpinEdit
<1>5. /\ WellFormed(coords') /\ Placed(coords', index) /\ coords'[index] = entry
      /\ \A j \in Item : Placed(coords', j) <=> Placed(coords, j)
  <2> HIDE DEF entry
  <2>1. coords'[index] = entry
    BY <1>1, <1>4 DEF WellFormed
  <2>2. WellFormed(coords') /\ Placed(coords', index)
    BY <1>1, <1>3, <1>4, WellFormedWith
  <2>3. \A j \in Item : Placed(coords', j) <=> Placed(coords, j)
    BY <1>1, <1>3, <1>4, <2>2, WellFormedWith
  <2>4. QED BY <2>1, <2>2, <2>3
<1>6. Shows(coords', index', spin', enabled')
  <2>1. ASSUME NEW g \in FieldsOf(Kind[index]) PROVE spin'[g] = Shown(g, coords'[index][g])
    <3>1. g \in Fields
      BY <1>1, KindFields
    <3>2. spin'[g] \in Steps[g] /\ spin'[g] \in Int
      BY <1>2, <3>1 DEF Showable
    <3>3. Shown(g, spin'[g]) = spin'[g]
      BY <3>1, <3>2, ShownIsShowable
    <3>4. QED BY <1>5, <3>3
  <2>2. QED BY <1>1, <1>4, <1>5, <2>1 DEF Shows, SpinEdit
<1>7. ListIsTrue'
  BY <1>4, <1>5 DEF SpinEdit, EditInv, ListIsTrue
<1>8. TypeOK'
  <2>1. edits' \in 0..MaxEdits
    BY StepAssumption DEF SpinEdit, EditInv, TypeOK
  <2>2. QED BY <1>2, <1>4, <1>5, <2>1 DEF SpinEdit, EditInv, TypeOK, Showable
<1>9. QED BY <1>2, <1>6, <1>7, <1>8 DEF EditInv

\* Another item becomes current.
LEMMA SelectKeeps ==
  ASSUME EditInv, CycleItem \/ \E i \in Item : ListClick(i)
  PROVE  EditInv'
<1>1. /\ index' \in Item /\ RefreshEditor(coords', index')
      /\ UNCHANGED <<coords, marks, file, edits>>
  <2>1. CASE CycleItem
    <3>1. \A i \in Around : i \in Item
      BY <2>1, KindAssumption DEF Around, CycleItem, TabWorks, EditInv, TypeOK, Item, Done, N
    <3>2. QED BY <2>1, <3>1 DEF CycleItem, RefreshEditor
  <2>2. CASE \E i \in Item : ListClick(i)
    BY <2>2 DEF ListClick, RefreshEditor
  <2>3. QED BY <2>1, <2>2
<1>2. index' \in 1..Done /\ index' # Done
  BY <1>1, KindAssumption DEF Item, Done, N
<1>3. marks' = {i \in Item : Placed(coords', i)}
  BY <1>1 DEF EditInv, ListIsTrue
<1>4. WellFormed(coords') /\ edits' \in 0..MaxEdits
  BY <1>1 DEF EditInv, TypeOK
<1>5. QED BY <1>1, <1>2, <1>3, <1>4, Refreshing

LEMMA SaveKeeps ==
  ASSUME EditInv, Save
  PROVE  EditInv'
<1>1. UNCHANGED <<coords, index, spin, enabled, marks, edits>> /\ file' = coords
  BY DEF Save
<1>2. QED BY <1>1 DEF EditInv, TypeOK, ListIsTrue

LEMMA ResetKeeps ==
  ASSUME EditInv, Reset
  PROVE  EditInv'
<1>1. coords' = NoCoords /\ index' = 1 /\ file' = file /\ edits' = edits
  BY DEF Reset
<1>2. RefreshEditor(coords', index') /\ marks' = {i \in Item : Placed(coords', i)}
  BY <1>1 DEF Reset, RefreshList
<1>3. index' \in 1..Done /\ (index' = Done => \A i \in Item : Placed(coords', i))
  BY <1>1, KindAssumption DEF Item, Done, N
<1>4. WellFormed(coords') /\ edits' \in 0..MaxEdits
  BY <1>1, NoCoordsWellFormed DEF EditInv, TypeOK
<1>5. QED BY <1>1, <1>2, <1>3, <1>4, Refreshing

LEMMA ReloadKeeps ==
  ASSUME EditInv, Reload
  PROVE  EditInv'
<1>1. coords' = Loaded /\ index' = IndexLoaded /\ file' = file /\ edits' = edits
  BY DEF Reload
<1>2. RefreshEditor(coords', index') /\ marks' = {i \in Item : Placed(coords', i)}
  BY DEF Reload, RefreshList
<1>3. WellFormed(coords') /\ edits' \in 0..MaxEdits
  BY <1>1, NoCoordsWellFormed DEF EditInv, TypeOK, Loaded
<1>4. index' \in 1..Done /\ (index' = Done => \A i \in Item : Placed(coords', i))
  <2>1. CASE file = NoFile
    BY <1>1, <2>1 DEF IndexLoaded, Loaded, EditInv, TypeOK, ListIsTrue
  <2>2. CASE file # NoFile
    <3>1. index' = Advance(coords', index) /\ index \in Int /\ Done \notin Item
      BY <1>1, <2>2, KindAssumption DEF IndexLoaded, EditInv, TypeOK, Done, Item, N
    <3>2. QED BY <3>1, AdvanceTyped, AdvanceFinds
  <2>3. QED BY <2>1, <2>2
<1>5. QED BY <1>1, <1>2, <1>3, <1>4, Refreshing

LEMMA NextKeepsEditInv == EditInv /\ [Next]_vars => EditInv'
<1> SUFFICES ASSUME EditInv, [Next]_vars PROVE EditInv'
  OBVIOUS
<1>1. CASE MousePress
  BY <1>1, PlaceAtKeeps DEF MousePress
<1>2. CASE Arrow \/ Scale \/ Rotate
  BY <1>2, KeysKeep
<1>3. CASE \E f \in Fields : \E v \in Steps[f] : SpinEdit(f, v)
  BY <1>3, SpinEditKeeps
<1>4. CASE CycleItem \/ \E i \in Item : ListClick(i)
  BY <1>4, SelectKeeps
<1>5. CASE Save
  BY <1>5, SaveKeeps
<1>6. CASE Reset
  BY <1>6, ResetKeeps
<1>7. CASE Reload
  BY <1>7, ReloadKeeps
<1>8. CASE UNCHANGED vars
  BY <1>8 DEF vars, EditInv, TypeOK, ListIsTrue
<1>9. QED
  BY <1>1, <1>2, <1>3, <1>4, <1>5, <1>6, <1>7, <1>8 DEF Next

-----------------------------------------------------------------------------
(* The theorems.                                                           *)

LEMMA EditInvAlways == Spec => []EditInv
<1>1. QED
  BY InitEditInv, NextKeepsEditInv, PTL DEF Spec

\* Type correctness: the coordinates of a placed item are those of its kind,
\* whatever was loaded (_set, _load_existing).
THEOREM CalibrateTypeCorrect == Spec => []TypeOK
<1>1. EditInv => TypeOK
  BY DEF EditInv
<1>2. QED
  BY <1>1, EditInvAlways, PTL

\* The spin boxes always show the current item, so that an edit of one of
\* them never writes another item's values (refresh_property_editor,
\* _on_property_changed).
THEOREM EditorAlwaysShowsItem == Spec => []EditorShowsItem
<1>1. EditInv => EditorShowsItem
  BY DEF EditInv, Shows, EditorShowsItem
<1>2. QED
  BY <1>1, EditInvAlways, PTL

\* The list always marks the placed items (_refresh_list).
THEOREM ListIsAlwaysTrue == Spec => []ListIsTrue
<1>1. EditInv => ListIsTrue
  BY DEF EditInv
<1>2. QED
  BY <1>1, EditInvAlways, PTL

\* A click moves on to what is left to place (place_at, _advance).
THEOREM ClicksMoveOn == Spec => ClickMovesOn
<1> DEFINE MovesOn ==
      \A i \in Item :
        (index = i /\ index' # i /\ coords'[i] # coords[i] /\ Placed(coords', i))
        => IF \A j \in Item : Placed(coords', j)
             THEN index' = Done
             ELSE index' \in Item /\ ~Placed(coords', index')
<1>1. TypeOK /\ [Next]_vars => [MovesOn]_vars
  <2> SUFFICES ASSUME TypeOK, Next PROVE MovesOn
    OBVIOUS
  <2>1. CASE coords' = coords \/ index' = index
    BY <2>1
  <2>2. CASE index' = Advance(coords', index)
    BY <2>2, AdvanceFinds DEF TypeOK
  <2>3. CASE Reset
    BY <2>3, NoCoordsWellFormed DEF Reset
  <2>4. coords' = coords \/ index' = index \/ index' = Advance(coords', index) \/ Reset
    BY DEF Next, MousePress, PlaceAt, Arrow, Scale, Rotate, KeyEdit, CycleItem, SpinEdit, ListClick,
           Save, Reload, Loaded, IndexLoaded
  <2>5. QED BY <2>1, <2>2, <2>3, <2>4
<1>2. QED
  BY <1>1, CalibrateTypeCorrect, PTL DEF Spec, ClickMovesOn
=============================================================================
