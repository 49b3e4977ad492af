----------------------------- MODULE Calibrate -----------------------------
(***************************************************************************)
(* scripts/calibrate-nano.py: the operator places the LEDs and pads of the *)
(* Nano picture by clicking, and tunes them with keys or with spin boxes.  *)
(* The window keeps the coordinates, the index of the current item, and    *)
(* two copies that every handler must refresh: the values in the spin      *)
(* boxes and the marks in the item list.                                   *)
(*                                                                         *)
(* Numbers are integers in units of the last decimal the coordinates are   *)
(* rounded to.  y behaves as x and h as w, and they are left out.  Items   *)
(* are numbered from 1, where the code counts from 0.                      *)
(***************************************************************************)
EXTENDS Integers, Sequences

CONSTANTS Kind,     \* ITEMS: the kind of each item, "led" or "pad"
          Steps,    \* what each spin box can show: its range, to its decimals
          Default,  \* LED_DEFAULT_W, PAD_DEFAULT_R, LED_DEFAULT_ROT
          Nudges,   \* one pixel and, with Shift, five, in units
          Turn,     \* five degrees, in units
          Clicks,   \* where the operator clicks
          NoFile, BadFile, \* arduino-coords.json is absent, or cannot be read
          MaxEdits  \* bound: keys and spin boxes used

N == Len(Kind)
Item == 1..N
Done == N + 1       \* current_index = len(ITEMS)

Fields == {"x", "w", "rot", "r"}
FieldsOf(kind) == IF kind = "led" THEN {"x", "w", "rot"} ELSE {"x", "r"}

ASSUME KindAssumption == Kind \in Seq({"led", "pad"})
ASSUME SpinAssumption == /\ Steps \in [Fields -> SUBSET Int]
                         /\ \A f \in Fields : 0 \in Steps[f]
                         /\ Default \in [Fields -> Int]
ASSUME StepAssumption == /\ Nudges \subseteq Int /\ Turn \in Int /\ Clicks \subseteq Int
                         /\ MaxEdits \in Nat

VARIABLES coords,  \* the entry of each item
          index,   \* current_index
          spin,    \* the values in the spin boxes
          enabled, \* the spin boxes that can be edited
          marks,   \* the items the list marks as placed
          file,    \* arduino-coords.json
          edits    \* keys and spin boxes used so far

vars == <<coords, index, spin, enabled, marks, file, edits>>

\* An item that has not been placed has no field.
Unplaced == [f \in {} |-> 0]
NoCoords == [i \in Item |-> Unplaced]

Placed(c, i) == c[i] # Unplaced

\* An item placed with the sizes of a first placement.
NewEntry(kind, x) == [f \in FieldsOf(kind) |-> IF f = "x" THEN x ELSE Default[f]]

Distance(v, w) == IF v <= w THEN w - v ELSE v - w

\* What a spin box holds after setValue: rounded to its decimals and clamped
\* to its range, that is the nearest value it can show.
Shown(f, v) == CHOOSE s \in Steps[f] : \A t \in Steps[f] : Distance(s, v) <= Distance(t, v)

\* refresh_property_editor; the signals of the boxes are blocked meanwhile.
Refreshed(c, i) ==
  IF i = Done \/ ~Placed(c, i)
    THEN [spin |-> [f \in Fields |-> 0], enabled |-> {}]
    ELSE [spin    |-> [f \in Fields |-> Shown(f, IF f \in DOMAIN c[i] THEN c[i][f] ELSE Default[f])],
          enabled |-> FieldsOf(Kind[i])]

RefreshEditor(c, i) == /\ spin' = Refreshed(c, i).spin
                       /\ enabled' = Refreshed(c, i).enabled

RefreshList(c) == marks' = {i \in Item : Placed(c, i)}

First(S) == CHOOSE i \in S : \A j \in S : i <= j

\* Mutant: the items before the current one are forgotten.
Advance_NoWrap(c, from) ==
  LET free == {i \in Item : ~Placed(c, i) /\ i > from}
  IN IF free = {} THEN Done ELSE First(free)

\* _advance: the next item that is not placed, from the start if need be.
Advance(c, from) ==
  LET free  == {i \in Item : ~Placed(c, i)}
      after == {i \in free : i > from}
  IN IF after # {} THEN First(after) ELSE IF free # {} THEN First(free) ELSE Done

\* _last_led_w, _last_led_rot, _last_pad_r: the value of the first item that
\* has one.
Last(c, f) ==
  LET S == {i \in Item : f \in DOMAIN c[i]}
  IN IF S = {} THEN Default[f] ELSE c[First(S)][f]

\* place_at: an item that is placed again keeps its size and rotation.
PlaceAt(x) ==
  /\ index # Done
  /\ LET old   == coords[index]
         entry == [f \in FieldsOf(Kind[index]) |->
                     IF f = "x" THEN x ELSE IF f \in DOMAIN old THEN old[f] ELSE Last(coords, f)]
         c     == [coords EXCEPT ![index] = entry]
         next  == Advance(c, index)
     IN /\ coords' = c
        /\ index' = next
        /\ RefreshList(c)
        /\ RefreshEditor(c, next)
  /\ UNCHANGED <<file, edits>>

\* mousePressEvent: a click inside the picture.
MousePress == \E x \in Clicks : PlaceAt(x)

\* ---------------------------------------------------------------- the keys

\* keyPressEvent returns early unless the current item is placed.
KeyWorks == index # Done /\ Placed(coords, index) /\ edits < MaxEdits

KeyEdit(entry) ==
  LET c == [coords EXCEPT ![index] = entry]
  IN /\ coords' = c
     /\ RefreshEditor(c, index)
     /\ edits' = edits + 1
     /\ UNCHANGED <<index, marks, file>>

Arrow == KeyWorks /\ \E n \in Nudges : \E d \in {-n, n} :
           KeyEdit([coords[index] EXCEPT !["x"] = @ + d])

\* _scale: by 1.1 or 1 / 1.1, rounded.
Scaled(v, up) == IF up THEN (11 * v + 5) \div 10 ELSE (20 * v + 11) \div 22

Scale == KeyWorks /\ \E up \in BOOLEAN :
           KeyEdit([f \in DOMAIN coords[index] |->
                      IF f \in {"w", "r"} THEN Scaled(coords[index][f], up) ELSE coords[index][f]])

Rotate == /\ KeyWorks
          /\ "rot" \in DOMAIN coords[index]
          /\ \E d \in {-Turn, Turn} : KeyEdit([coords[index] EXCEPT !["rot"] = @ + d])

\* Tab and Shift+Tab go to the items around the current one.
TabWorks == index # Done /\ Placed(coords, index)
Around == {IF index = N THEN 1 ELSE index + 1, IF index = 1 THEN N ELSE index - 1}

\* Mutant: the spin boxes keep the values of the item before.
CycleItem_Stale ==
  /\ TabWorks
  /\ \E to \in Around :
       index' = to
  /\ UNCHANGED <<coords, spin, enabled, marks, file, edits>>

CycleItem ==
  /\ TabWorks
  /\ \E to \in Around :
       /\ index' = to
       /\ RefreshEditor(coords, to)
  /\ UNCHANGED <<coords, marks, file, edits>>

\* ------------------------------------------------------- editor and buttons

\* _on_property_changed: one box is edited, and every field is overwritten
\* with what its box shows.
SpinEdit(f, v) ==
  /\ edits < MaxEdits
  /\ f \in enabled
  /\ v # spin[f]
  /\ spin' = [spin EXCEPT ![f] = v]
  /\ coords' = [coords EXCEPT ![index] = [g \in FieldsOf(Kind[index]) |-> spin'[g]]]
  /\ edits' = edits + 1
  /\ UNCHANGED <<index, enabled, marks, file>>

ListClick(i) ==
  /\ index' = i
  /\ RefreshEditor(coords, i)
  /\ UNCHANGED <<coords, marks, file, edits>>

Save ==
  /\ file' = coords
  /\ UNCHANGED <<coords, index, spin, enabled, marks, edits>>

\* Mutant: the current item stays what it was.
Reset_KeepIndex ==
  /\ coords' = NoCoords
  /\ index' = index
  /\ RefreshList(coords')
  /\ RefreshEditor(coords', index)
  /\ UNCHANGED <<file, edits>>

\* The operator confirms.
Reset ==
  /\ coords' = NoCoords
  /\ index' = 1
  /\ RefreshList(coords')
  /\ RefreshEditor(coords', 1)
  /\ UNCHANGED <<file, edits>>

\* _load_existing: nothing without a file, no coordinates from a bad one.
Loaded == IF file = NoFile THEN coords ELSE IF file = BadFile THEN NoCoords ELSE file

IndexLoaded == IF file = NoFile THEN index ELSE Advance(Loaded, index)

Reload ==
  /\ coords' = Loaded
  /\ index' = IndexLoaded
  /\ RefreshList(coords')
  /\ RefreshEditor(coords', index')
  /\ UNCHANGED <<file, edits>>

\* The window opens with the items an earlier session placed and saved.
Init ==
  /\ file \in {NoFile, BadFile} \cup
       {[i \in Item |-> IF i \in S THEN NewEntry(Kind[i], x) ELSE Unplaced] :
          S \in SUBSET Item, x \in Clicks}
  /\ coords = IF file \in {NoFile, BadFile} THEN NoCoords ELSE file
  /\ index = IF file = NoFile THEN 1 ELSE Advance(coords, 1)
  /\ spin = Refreshed(coords, index).spin
  /\ enabled = Refreshed(coords, index).enabled
  /\ marks = {i \in Item : Placed(coords, i)}
  /\ edits = 0

Next ==
  \/ MousePress
  \/ Arrow \/ Scale \/ Rotate \/ CycleItem
  \/ \E f \in Fields : \E v \in Steps[f] : SpinEdit(f, v)
  \/ \E i \in Item : ListClick(i)
  \/ Save \/ Reset \/ Reload

Spec == Init /\ [][Next]_vars

\* --------------------------------------------------------------- properties

\* Coordinates that the window can hold: a placed item has the fields of its
\* kind.
WellFormed(c) ==
  /\ DOMAIN c = Item
  /\ \A i \in Item : Placed(c, i) => c[i] \in [FieldsOf(Kind[i]) -> Int]

TypeOK ==
  /\ WellFormed(coords)
  /\ file \in {NoFile, BadFile} \/ WellFormed(file)
  /\ index \in 1..Done
  /\ spin \in [Fields -> Int]
  /\ enabled \subseteq Fields
  /\ marks \subseteq Item
  /\ edits \in 0..MaxEdits

\* Whatever moved the item or its values, the spin boxes show the current
\* item: an edit of one box then writes the others back as they are, up to
\* their decimals and range, and not the values of another item
\* (refresh_property_editor is called by every handler that needs it).
EditorShowsItem ==
  IF index = Done \/ ~Placed(coords, index)
    THEN enabled = {}
    ELSE /\ enabled = FieldsOf(Kind[index])
         /\ \A f \in enabled : spin[f] = Shown(f, coords[index][f])

\* The list marks exactly the placed items, and no item is current only when
\* all are placed, after loads, resets and clicks in any order.
ListIsTrue ==
  /\ marks = {i \in Item : Placed(coords, i)}
  /\ index = Done => marks = Item

\* A click that places the current item moves on to one that is not placed,
\* before it or after it, and to none only when all are placed: the operator
\* never has to look for what is missing (_advance).
ClickMovesOn ==
  [][\A i \in Item :
       (index = i /\ index' # i /\ coords'[i] # coords[i] /\ Placed(coords', i))
       => IF \A j \in Item : Placed(coords', j)
            THEN index' = Done
            ELSE index' \in Item /\ ~Placed(coords', index')]_vars
=============================================================================
