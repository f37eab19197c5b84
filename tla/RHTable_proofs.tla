--------------------------- MODULE RHTable_proofs ---------------------------
(***************************************************************************)
(* Theorems about RHTable, for all keys, hashes and bounds.  The types hold*)
(* for every capacity.  All else is about tables of at most DistanceLimit  *)
(* slots (DistancesFit): in larger ones a distance of 16 bits is cut off.  *)
(* The safety invariants follow from one inductive invariant, Sound, which *)
(* is about a table none of whose key copies failed.  Its parts say        *)
(*   - which slots and data indexes the entry in hand stands for,          *)
(*   - how many slots are in use, so that one stays empty,                 *)
(*   - which keys the data indexes in use hold,                            *)
(*   - how far a running resize has got,                                   *)
(*   - that entries and probes are where the hash of their key puts them.  *)
(* The second half is the refinement of Dict.                              *)
(***************************************************************************)
EXTENDS RHTable, FiniteSetTheorems, TLAPS

HeldEntry == [data_index : Nat, distance : Distances, occupied : BOOLEAN, finger_print : Nat]

USE DEF Distances, HeldEntry

(* A distance, counted on, is a distance.                                   *)
LEMMA FurtherType ==
    ASSUME NEW d \in Nat
    PROVE  Further(d) \in Distances
BY ConstantsAssumption DEF Further

(* Home slots lie inside the table.                                         *)
LEMMA HomeInTable ==
    ASSUME NEW h \in Nat, NEW c \in Nat, c > 0
    PROVE  Home(h, c) \in Slots(c)
BY DEF Home, Slots

(* A table that has just been allocated has its arrays' types.              *)
LEMMA FreshType ==
    ASSUME NEW c \in Nat
    PROVE  /\ FreshEntries(c) \in [Slots(c) -> Entry(c)]
           /\ [i \in Slots(c) |-> NoKey] \in [Slots(c) -> Keys \cup {NoKey}]
           /\ [i \in Slots(c) |-> NoValue] \in [Slots(c) -> Values \cup {NoValue}]
BY ConstantsAssumption DEF FreshEntries, FreeEntry, Entry, Slots

(* The next slot lies inside the table, whatever slot the probe is at.      *)
LEMMA NextInTable ==
    ASSUME capacity \in Nat, NEW p \in Slots(capacity)
    PROVE  NextSlot(p) \in Slots(capacity)
BY DEF NextSlot, Slots

LEMMA NoHandType ==
    NoHand \in HeldEntry
BY ConstantsAssumption DEF NoHand, FreeEntry, HeldEntry

LEMMA InitType == Init => TypeOK
<1> SUFFICES ASSUME Init PROVE TypeOK
  OBVIOUS
<1>1. TableType /\ ResizeType
  BY FreshType DEF Init, TableType, ResizeType
<1>2. CallType
  BY DEF Init, CallType, CallStates, Codes, NoIndex
<1>3. WalkType
  BY NoHandType, ConstantsAssumption DEF Init, WalkType
<1>4. in_hand \in BOOLEAN
  BY DEF Init
<1> QED
  BY <1>1, <1>2, <1>3, <1>4 DEF Init, TypeOK, Keyed, Probing, Resizing

(* What a returning function leaves behind is well typed.                   *)
LEMMA ReturnType ==
    ASSUME TypeOK, NEW code \in Codes, NEW i, Return(code, i),
           capacity' \in Nat, i \in Slots(capacity') \cup {NoIndex},
           seen' \subseteq Keys \cup {NoKey}, failures' \in Nat
    PROVE  /\ CallType' /\ WalkType' /\ in_hand' \in BOOLEAN
           /\ pc' = "idle"
<1>1. CallType'
  BY DEF TypeOK, CallType, CallStates, Return
<1>2. WalkType'
  BY NoHandType, ConstantsAssumption DEF WalkType, Return
<1>3. in_hand' \in BOOLEAN
  BY DEF Return
<1> QED
  BY <1>1, <1>2, <1>3 DEF Return, Keyed, Probing, Resizing

(* So is what a starting function sets up.                                  *)
LEMMA BeginType ==
    ASSUME TypeOK, NEW f \in CallStates, NEW k \in Keys \cup {NoKey},
           NEW v \in Values \cup {NoValue}, NEW start \in 0 .. capacity',
           NEW e \in HeldEntry,
           Begin(f, k, v, start, e), capacity' \in Nat,
           seen' \subseteq Keys \cup {NoKey}, failures' \in Nat
    PROVE  /\ CallType' /\ WalkType' /\ in_hand' \in BOOLEAN
           /\ hole' = 0 /\ pos' = start /\ hand' = e /\ pc' = f /\ key' = k
<1>1. CallType'
  BY DEF TypeOK, CallType, Begin
<1>2. WalkType'
  BY ConstantsAssumption DEF TypeOK, WalkType, Begin
<1>3. in_hand' \in BOOLEAN
  BY DEF Begin
<1> QED
  BY <1>1, <1>2, <1>3 DEF Begin

LEMMA NewEntryType ==
    ASSUME NEW f \in Nat
    PROVE  /\ NewEntry(f) \in HeldEntry
           /\ NewEntry(f).data_index = 0
BY ConstantsAssumption DEF NewEntry

(* Variables a step leaves alone keep their types.                          *)
LEMMA TableFrame ==
    ASSUME TypeOK, UNCHANGED <<array_vars, size, capacity>>
    PROVE  TableType'
BY DEF TypeOK, TableType, array_vars

LEMMA ResizeFrame ==
    ASSUME TypeOK, UNCHANGED <<old_vars, entry_index>>
    PROVE  ResizeType'
BY DEF TypeOK, ResizeType, old_vars

LEMMA CallFrame ==
    ASSUME TypeOK, UNCHANGED <<capacity, pc, key, value, seen, failures, reply_vars>>
    PROVE  CallType'
BY DEF TypeOK, CallType, reply_vars

(* The slot a probe looks at, and what is in it.                            *)
LEMMA CurrentType ==
    ASSUME TypeOK, Probing
    PROVE  /\ pos \in Slots(capacity)
           /\ hole \in Slots(capacity)
           /\ NextSlot(pos) \in Slots(capacity)
           /\ Current \in Entry(capacity)
           /\ Current.data_index \in Slots(capacity)
           /\ Current \in HeldEntry
<1>1. pos \in Slots(capacity) /\ hole \in Slots(capacity)
  BY DEF TypeOK, TableType, WalkType, Slots
<1>2. NextSlot(pos) \in Slots(capacity)
  BY <1>1, NextInTable DEF TypeOK, TableType
<1>3. Current \in Entry(capacity)
  BY <1>1 DEF TypeOK, TableType, Current
<1> QED
  BY <1>1, <1>2, <1>3 DEF Entry, Slots

(* One slot further, with nothing else changed.                             *)
LEMMA WalkKeepsType ==
    ASSUME TypeOK, Probing, Walk,
           UNCHANGED <<array_vars, size, capacity, old_vars, entry_index,
                       pc, key, value, seen, failures, reply_vars>>
    PROVE  TypeOK'
<1>1. TableType' /\ ResizeType' /\ CallType'
  BY TableFrame, ResizeFrame, CallFrame
<1>0. pos' \in Slots(capacity) /\ distance' \in Distances
  BY CurrentType, FurtherType DEF TypeOK, WalkType, Walk
<1>2. WalkType' /\ pos' < capacity' /\ hand'.data_index < capacity' /\ hole' < capacity'
  BY <1>0, CurrentType DEF TypeOK, TableType, WalkType, Walk, Slots
<1>3. in_hand' \in BOOLEAN
  BY DEF TypeOK, Walk
<1> QED
  BY <1>1, <1>2, <1>3 DEF TypeOK, Keyed, Probing, Resizing, old_vars

LEMMA HandEntryType ==
    ASSUME TypeOK, Probing
    PROVE  [hand EXCEPT !.distance = distance] \in Entry(capacity)
BY SMTT(60) DEF TypeOK, WalkType, TableType, Entry, Slots

LEMMA SwapWalkType ==
    ASSUME TypeOK, Probing, Swap, UNCHANGED capacity
    PROVE  /\ entries' \in [Slots(capacity) -> Entry(capacity)]
           /\ WalkType' /\ in_hand' \in BOOLEAN
           /\ pos' < capacity /\ hand'.data_index < capacity /\ hole' < capacity
<1>1. entries' \in [Slots(capacity) -> Entry(capacity)]
  BY HandEntryType DEF TypeOK, TableType, Swap
<1>2. pos' \in 0 .. capacity /\ pos' < capacity
  BY CurrentType DEF TypeOK, TableType, Swap, Slots
<1>3. distance' \in Distances
  BY CurrentType, FurtherType DEF Swap
<1>4. /\ hand' \in HeldEntry
      /\ hand'.data_index < capacity
  <2>1. hand' = Current
    BY DEF Swap
  <2> QED
    BY <2>1, CurrentType DEF Slots, TypeOK, TableType
<1>5. hole' \in Nat /\ hole' < capacity
  <2>1. hole' = hole \/ hole' = pos
    BY DEF Swap, FirstSwap
  <2> QED
    BY <2>1, CurrentType DEF Slots, TypeOK, TableType
<1>6. in_hand' \in BOOLEAN
  BY DEF Swap
<1> QED
  BY <1>1, <1>2, <1>3, <1>4, <1>5, <1>6 DEF WalkType

LEMMA SwapKeepsType ==
    ASSUME TypeOK, Probing, Swap,
           UNCHANGED <<entry_keys, entry_data, size, capacity, old_vars, entry_index,
                       pc, key, value, seen, failures, reply_vars>>
    PROVE  TypeOK'
<1>1. TableType'
  BY SwapWalkType DEF TypeOK, TableType
<1>2. ResizeType' /\ CallType'
  BY ResizeFrame, CallFrame
<1> QED
  BY <1>1, <1>2, SwapWalkType DEF TypeOK, Keyed, Probing, Resizing, old_vars

LEMMA PlacedType ==
    ASSUME TypeOK, Probing
    PROVE  Placed \in [Slots(capacity) -> Entry(capacity)]
<1>1. Filled \in [Slots(capacity) -> Entry(capacity)]
  BY HandEntryType DEF TypeOK, TableType, Filled
<1>2. Current.data_index \in Slots(capacity) /\ FirstSwap \in Slots(capacity)
  BY CurrentType DEF FirstSwap
<1>3. [Filled[FirstSwap] EXCEPT !.data_index = Current.data_index] \in Entry(capacity)
  BY <1>1, <1>2 DEF Entry
<1> QED
  BY <1>1, <1>3 DEF Placed

(* The keys an iteration adds are keys or NoKey.                            *)
LEMMA IterSeenType ==
    ASSUME TypeOK, NEW n \in 0 .. capacity
    PROVE  IterSeen(n) \subseteq Keys \cup {NoKey}
<1>1. CASE n = capacity
  BY <1>1 DEF IterSeen
<1>2. CASE n # capacity
  <2>1. n \in Slots(capacity)
    BY <1>2 DEF TypeOK, TableType, Slots
  <2>2. entries[n].data_index \in Slots(capacity)
    BY <2>1 DEF TypeOK, TableType, Entry
  <2> QED
    BY <2>2, <1>2 DEF IterSeen, TypeOK, TableType
<1> QED
  BY <1>1, <1>2

(* Every call and every iteration of every loop keeps the types.            *)
LEMMA StepType == TypeOK /\ [Next]_vars => TypeOK'
<1> SUFFICES ASSUME TypeOK, [Next]_vars PROVE TypeOK'
  OBVIOUS
<1> USE ConstantsAssumption
<1>a. /\ NoIndex \in Slots(capacity') \cup {NoIndex}
      /\ seen \subseteq Keys \cup {NoKey} /\ failures \in Nat
      /\ size \in Nat /\ capacity \in Nat
  BY DEF TypeOK, CallType, TableType
<1>b. NoHand \in HeldEntry
      /\ NoHand.data_index = 0
  BY NoHandType DEF NoHand, FreeEntry
<1>1. CASE InitTable
  <2>1. TableType'
    BY <1>1, FreshType DEF TypeOK, TableType, InitTable, array_vars
  <2>2. ResizeType'
    BY <1>1, ResizeFrame DEF InitTable
  <2>3. CallType' /\ WalkType'
    BY <1>1 DEF TypeOK, CallType, WalkType, TableType, InitTable, NoWalk, walk_vars, Codes, NoIndex, array_vars, initialized
  <2>4. in_hand' \in BOOLEAN
    BY <1>1 DEF TypeOK, InitTable, NoWalk, walk_vars
  <2> QED
    BY <1>1, <2>1, <2>2, <2>3, <2>4 DEF TypeOK, InitTable, NoWalk, Keyed, Probing, Resizing
<1>2. ASSUME NEW k \in Keys, NEW v \in Values, Insert(k, v) PROVE TypeOK'
  <2>1. TableType' /\ ResizeType'
    BY <1>2, TableFrame, ResizeFrame DEF Insert
  <2>2. CASE NoWalk /\ ret' = "TABLE_FULL" /\ data_out' = NoIndex
    <3>1. CallType' /\ WalkType'
      BY <1>2, <2>2 DEF TypeOK, CallType, WalkType, Insert, NoWalk, walk_vars, Codes
    <3>2. in_hand' \in BOOLEAN
      BY <2>2 DEF TypeOK, NoWalk, walk_vars
    <3> QED
      BY <1>2, <2>1, <2>2, <3>1, <3>2 DEF TypeOK, Insert, NoWalk, Keyed, Probing, Resizing
  <2>3. CASE Begin("insert", k, v, Home(Hash[k], capacity), NewEntry(Finger[k]))
    <3>1. Home(Hash[k], capacity) \in Slots(capacity)
      BY <1>2, <1>a, HomeInTable DEF Insert, initialized
    <3>2. Home(Hash[k], capacity) \in 0 .. capacity'
      BY <1>2, <1>a, <3>1 DEF Insert, Slots
    <3>3. /\ CallType' /\ WalkType' /\ in_hand' \in BOOLEAN
          /\ hole' = 0 /\ pos' = Home(Hash[k], capacity) /\ hand'.data_index = 0 /\ key' = k
      BY <1>2, <2>3, <3>2, <1>a, <1>b, BeginType, NewEntryType DEF Insert, CallStates
    <3>4. pos' < capacity' /\ hole' < capacity' /\ hand'.data_index < capacity'
      BY <1>2, <1>a, <3>1, <3>3 DEF Insert, initialized, Slots
    <3>5. pc' = "insert"
      BY <2>3 DEF Begin
    <3> QED
      BY <2>1, <3>3, <3>4, <3>5 DEF TypeOK, Keyed, Probing, Resizing
  <2> QED
    BY <1>2, <2>2, <2>3 DEF Insert
<1>3. ASSUME NEW k \in Keys, Delete(k) PROVE TypeOK'
  <2>1. TableType' /\ ResizeType'
    BY <1>3, TableFrame, ResizeFrame DEF Delete
  <2>2. CASE NoWalk /\ ret' = "TABLE_EMPTY" /\ data_out' = NoIndex
    <3>1. CallType' /\ WalkType'
      BY <1>3, <2>2 DEF TypeOK, CallType, WalkType, Delete, NoWalk, walk_vars, Codes
    <3>2. in_hand' \in BOOLEAN
      BY <2>2 DEF TypeOK, NoWalk, walk_vars
    <3> QED
      BY <1>3, <2>1, <2>2, <3>1, <3>2 DEF TypeOK, Delete, NoWalk, Keyed, Probing, Resizing
  <2>3. CASE Begin("delete", k, NoValue, Home(Hash[k], capacity), NoHand)
    <3>1. Home(Hash[k], capacity) \in Slots(capacity)
      BY <1>3, <1>a, HomeInTable DEF Delete, initialized
    <3>2. Home(Hash[k], capacity) \in 0 .. capacity'
      BY <1>3, <1>a, <3>1 DEF Delete, Slots
    <3>3. /\ CallType' /\ WalkType' /\ in_hand' \in BOOLEAN
          /\ hole' = 0 /\ pos' = Home(Hash[k], capacity) /\ hand'.data_index = 0 /\ key' = k
      BY <1>3, <2>3, <3>2, <1>a, <1>b, BeginType, NewEntryType DEF Delete, CallStates
    <3>4. pos' < capacity' /\ hole' < capacity' /\ hand'.data_index < capacity'
      BY <1>3, <1>a, <3>1, <3>3 DEF Delete, initialized, Slots
    <3>5. pc' = "delete" /\ size' > 0
      BY <1>3, <1>a, <2>3 DEF Begin, Delete, NoWalk
    <3> QED
      BY <2>1, <3>3, <3>4, <3>5 DEF TypeOK, Keyed, Probing, Resizing
  <2> QED
    BY <1>3, <2>2, <2>3 DEF Delete
<1>4. ASSUME NEW k \in Keys, LookUp(k) PROVE TypeOK'
  <2>1. TableType' /\ ResizeType'
    BY <1>4, TableFrame, ResizeFrame DEF LookUp
  <2>2. Home(Hash[k], capacity) \in Slots(capacity)
    BY <1>4, <1>a, HomeInTable DEF LookUp, initialized
  <2>3. Home(Hash[k], capacity) \in 0 .. capacity'
    BY <1>4, <1>a, <2>2 DEF LookUp, Slots
  <2>4. /\ CallType' /\ WalkType' /\ in_hand' \in BOOLEAN
        /\ hole' = 0 /\ pos' = Home(Hash[k], capacity) /\ hand' = NoHand /\ pc' = "look_up" /\ key' = k
    BY <1>4, <2>3, <1>a, <1>b, BeginType DEF LookUp, CallStates
  <2>5. pos' < capacity' /\ hole' < capacity' /\ hand'.data_index < capacity'
    BY <1>4, <1>a, <1>b, <2>2, <2>4 DEF LookUp, initialized, Slots
  <2> QED
    BY <2>1, <2>4, <2>5 DEF TypeOK, Keyed, Probing, Resizing
<1>5. CASE InsertDuplicate
  <2>1. TableType' /\ ResizeType'
    BY <1>5, TableFrame, ResizeFrame DEF InsertDuplicate
  <2>2. /\ CallType' /\ WalkType' /\ in_hand' \in BOOLEAN
        /\ pc' = "idle"
    BY <1>5, <1>a, ReturnType, CurrentType DEF InsertDuplicate, Codes, Probing, Finding
  <2> QED
    BY <2>1, <2>2 DEF TypeOK, Keyed, Probing, Resizing
<1>6. CASE LookUpFound
  <2>1. TableType' /\ ResizeType'
    BY <1>6, TableFrame, ResizeFrame DEF LookUpFound
  <2>2. /\ CallType' /\ WalkType' /\ in_hand' \in BOOLEAN
        /\ pc' = "idle"
    BY <1>6, <1>a, ReturnType, CurrentType DEF LookUpFound, Codes, Probing, Finding
  <2> QED
    BY <2>1, <2>2 DEF TypeOK, Keyed, Probing, Resizing
<1>7. CASE NotFound
  <2>1. TableType' /\ ResizeType'
    BY <1>7, TableFrame, ResizeFrame DEF NotFound
  <2>2. /\ CallType' /\ WalkType' /\ in_hand' \in BOOLEAN
        /\ pc' = "idle"
    BY <1>7, <1>a, ReturnType DEF NotFound, Codes
  <2> QED
    BY <2>1, <2>2 DEF TypeOK, Keyed, Probing, Resizing
<1>8. CASE InsertWalk
  BY <1>8, WalkKeepsType DEF InsertWalk, Probing, Finding
<1>9. CASE FindWalk
  BY <1>9, WalkKeepsType DEF FindWalk, Probing, Finding
<1>10. CASE RehashWalk
  BY <1>10, WalkKeepsType DEF RehashWalk, Probing, Finding
<1>11. CASE InsertSwap
  BY <1>11, SwapKeepsType DEF InsertSwap, Probing, Finding
<1>12. CASE RehashSwap
  BY <1>12, SwapKeepsType DEF RehashSwap, Probing, Finding
<1>13. CASE InsertPlace
  <2>1. TableType'
    <3>1. entries' \in [Slots(capacity') -> Entry(capacity')] /\ capacity' = capacity
      BY <1>13, PlacedType DEF InsertPlace, Lost, Probing
    <3>2. CASE /\ entry_keys' = [entry_keys EXCEPT ![Current.data_index] = key]
               /\ entry_data' = [entry_data EXCEPT ![Current.data_index] = value]
               /\ size' = size + 1
      <4>1. Current.data_index \in Slots(capacity) /\ key \in Keys
        BY <1>13, CurrentType DEF InsertPlace, Probing, Keyed, TypeOK
      <4> QED
        BY <1>a, <3>1, <3>2, <4>1 DEF TypeOK, TableType, CallType
    <3>3. CASE UNCHANGED <<entry_keys, entry_data, size>>
      BY <1>13, <3>1, <3>3 DEF TypeOK, TableType
    <3> QED
      BY <1>13, <3>2, <3>3 DEF InsertPlace
  <2>2. ResizeType'
    BY <1>13, ResizeFrame DEF InsertPlace
  <2>3. /\ CallType' /\ WalkType' /\ in_hand' \in BOOLEAN
        /\ pc' = "idle"
    <3>1. CASE Return("SUCCESS", Current.data_index) /\ UNCHANGED failures
      BY <1>13, <3>1, <1>a, ReturnType, CurrentType DEF InsertPlace, Codes, Probing
    <3>2. CASE Return("ALLOC_FAIL", NoIndex) /\ failures' = failures + 1
      BY <1>13, <3>2, <1>a, ReturnType DEF InsertPlace, Codes
    <3> QED
      BY <1>13, <3>1, <3>2 DEF InsertPlace
  <2> QED
    BY <2>1, <2>2, <2>3 DEF TypeOK, Keyed, Probing, Resizing
<1>14. CASE DeleteFound
  <2> Probing
    BY <1>14 DEF DeleteFound, Probing
  <2>1. TableType'
    BY <1>14, CurrentType DEF DeleteFound, TypeOK, TableType
  <2>2. ResizeType'
    BY <1>14, ResizeFrame DEF DeleteFound
  <2>3. CallType'
    BY <1>14 DEF DeleteFound, TypeOK, CallType, CallStates, reply_vars
  <2>4. /\ hand' \in HeldEntry
        /\ hand'.data_index < capacity
    BY <1>14, <1>a, CurrentType DEF DeleteFound, Freed, FreeEntry, Slots
  <2>5. WalkType' /\ pos' < capacity /\ hole' < capacity
    BY <1>14, <1>a, <2>4, CurrentType DEF DeleteFound, WalkType, Slots
  <2>6. in_hand' \in BOOLEAN /\ capacity' = capacity /\ pc' = "shift_back"
    BY <1>14 DEF DeleteFound
  <2> QED
    BY <2>1, <2>2, <2>3, <2>4, <2>5, <2>6 DEF TypeOK, Keyed, Resizing
<1>15. CASE ShiftMove
  <2> Probing
    BY <1>15 DEF ShiftMove, Probing
  <2>1. Closer(Current) \in Entry(capacity)
    BY <1>15, CurrentType DEF ShiftMove, Closer, Entry
  <2>2. TableType'
    BY <1>15, <2>1, CurrentType DEF ShiftMove, TypeOK, TableType
  <2>3. ResizeType' /\ CallType'
    BY <1>15, ResizeFrame, CallFrame DEF ShiftMove
  <2>4. WalkType' /\ pos' < capacity /\ hole' < capacity
    BY <1>15, <1>a, CurrentType DEF ShiftMove, TypeOK, WalkType, Slots
  <2>5. in_hand' \in BOOLEAN
    BY <1>15 DEF ShiftMove, TypeOK
  <2> QED
    BY <1>15, <2>2, <2>3, <2>4, <2>5 DEF ShiftMove, TypeOK, Keyed, Probing, Resizing
<1>16. CASE ShiftStop
  <2> Probing
    BY <1>16 DEF ShiftStop, Probing
  <2>1. hand \in Entry(capacity)
    BY DEF TypeOK, WalkType, TableType, Entry, Slots
  <2>2. TableType'
    BY <1>16, <2>1, CurrentType DEF ShiftStop, TypeOK, TableType
  <2>3. ResizeType'
    BY <1>16, ResizeFrame DEF ShiftStop
  <2>4. /\ CallType' /\ WalkType' /\ in_hand' \in BOOLEAN
        /\ pc' = "idle"
    BY <1>16, <1>a, ReturnType DEF ShiftStop, Codes
  <2> QED
    BY <2>2, <2>3, <2>4 DEF TypeOK, Keyed, Probing, Resizing
<1>17. CASE Resize
  <2>1. CASE NoWalk /\ ret' = "ALLOC_FAIL" /\ data_out' = NoIndex
                 /\ UNCHANGED <<array_vars, capacity, old_vars, entry_index>>
    <3>1. TableType' /\ ResizeType'
      BY <1>17, <2>1, TableFrame, ResizeFrame DEF Resize
    <3>2. CallType' /\ WalkType'
      BY <1>17, <2>1 DEF TypeOK, CallType, WalkType, Resize, NoWalk, walk_vars, Codes
    <3>3. in_hand' \in BOOLEAN
      BY <2>1 DEF TypeOK, NoWalk, walk_vars
    <3> QED
      BY <1>17, <2>1, <3>1, <3>2, <3>3 DEF TypeOK, Resize, NoWalk, Keyed, Probing, Resizing
  <2>2. CASE /\ old_entries' = entries
             /\ old_keys' = entry_keys
             /\ old_data' = entry_data
             /\ old_capacity' = capacity
             /\ entries' = FreshEntries(2 * capacity)
             /\ entry_keys' = [j \in Slots(2 * capacity) |-> NoKey]
             /\ entry_data' = [j \in Slots(2 * capacity) |-> NoValue]
             /\ capacity' = 2 * capacity
             /\ entry_index' = 0
             /\ Begin("resize", NoKey, NoValue, 0, NoHand)
    <3>1. 2 * capacity \in Nat /\ 0 \in 0 .. 2 * capacity /\ 0 \in 0 .. capacity
      BY <1>a
    <3>2. TableType'
      BY <1>17, <2>2, <1>a, <3>1, FreshType DEF Resize, TableType
    <3>3. ResizeType'
      BY <2>2, <3>1 DEF TypeOK, TableType, ResizeType
    <3>4. /\ CallType' /\ WalkType' /\ in_hand' \in BOOLEAN /\ pc' = "resize"
      BY <1>17, <2>2, <3>1, <1>a, <1>b, BeginType DEF Resize, CallStates
    <3> QED
      BY <2>2, <3>2, <3>3, <3>4 DEF TypeOK, Keyed, Probing, Resizing
  <2> QED
    BY <1>17, <2>1, <2>2 DEF Resize
<1>18. CASE ResizeSkip
  <2>1. TableType'
    BY <1>18, TableFrame DEF ResizeSkip
  <2>2. ResizeType'
    BY <1>18 DEF ResizeSkip, TypeOK, ResizeType, old_vars
  <2>3. CallType' /\ WalkType'
    BY <1>18 DEF ResizeSkip, TypeOK, CallType, WalkType, NoWalk, walk_vars, reply_vars
  <2>4. in_hand' \in BOOLEAN
    BY <1>18 DEF ResizeSkip, TypeOK, NoWalk, walk_vars
  <2> QED
    BY <1>18, <2>1, <2>2, <2>3, <2>4 DEF ResizeSkip, TypeOK, NoWalk, old_vars, Keyed, Probing, Resizing
<1>19. CASE ResizeEntry
  <2>1. TableType' /\ ResizeType'
    BY <1>19, TableFrame, ResizeFrame DEF ResizeEntry
  <2>2. PICK k \in Keys : Begin("rehash_insert", NoKey, NoValue, Home(Hash[k], capacity), NewEntry(Finger[k]))
    BY <1>19 DEF ResizeEntry
  <2>3. capacity > 0
    BY <1>19, <1>a DEF ResizeEntry, TypeOK, ResizeType, Resizing
  <2>4. TypeOK'
    <3>1. Home(Hash[k], capacity) \in Slots(capacity)
      BY <1>a, <2>3, HomeInTable
    <3>2. Home(Hash[k], capacity) \in 0 .. capacity'
      BY <1>19, <1>a, <3>1 DEF ResizeEntry, Slots
    <3>3. /\ CallType' /\ WalkType' /\ in_hand' \in BOOLEAN
          /\ hole' = 0 /\ pos' = Home(Hash[k], capacity) /\ hand'.data_index = 0
      BY <1>19, <2>2, <3>2, <1>a, BeginType, NewEntryType DEF ResizeEntry, CallStates
    <3>4. pos' < capacity' /\ hole' < capacity' /\ hand'.data_index < capacity'
      BY <1>19, <1>a, <2>3, <3>1, <3>3 DEF ResizeEntry, Slots
    <3>5. /\ pc' = "rehash_insert" /\ entry_index' < old_capacity'
          /\ capacity' = 2 * old_capacity'
      BY <1>19, <2>2 DEF ResizeEntry, Begin, old_vars, TypeOK, Resizing
    <3> QED
      BY <2>1, <3>3, <3>4, <3>5 DEF TypeOK, Keyed, Resizing
  <2> QED
    BY <2>4
<1>20. CASE RehashPlace
  <2> Probing
    BY <1>20 DEF RehashPlace, Probing
  <2>1. OldEntry.data_index \in Slots(old_capacity)
    BY <1>20 DEF RehashPlace, OldEntry, TypeOK, ResizeType, Entry, Slots
  <2>2. TableType'
    BY <1>20, <2>1, CurrentType, PlacedType DEF RehashPlace, TypeOK, TableType, ResizeType
  <2>3. ResizeType'
    BY <1>20 DEF RehashPlace, TypeOK, ResizeType, old_vars
  <2>4. CallType'
    BY <1>20 DEF RehashPlace, TypeOK, CallType, CallStates, reply_vars
  <2>5. WalkType'
    BY <1>20, <1>a, <1>b DEF RehashPlace, WalkType
  <2>6. in_hand' \in BOOLEAN
    BY <1>20 DEF RehashPlace
  <2> QED
    BY <1>20, <2>2, <2>3, <2>4, <2>5, <2>6 DEF RehashPlace, TypeOK, old_vars, Keyed, Probing, Resizing
<1>21. CASE ResizeDone
  <2>1. TableType'
    BY <1>21, TableFrame DEF ResizeDone
  <2>2. ResizeType'
    BY <1>21, FreshType DEF ResizeDone, ResizeType
  <2>3. /\ CallType' /\ WalkType' /\ in_hand' \in BOOLEAN
        /\ pc' = "idle"
    BY <1>21, <1>a, ReturnType DEF ResizeDone, Codes
  <2> QED
    BY <2>1, <2>2, <2>3 DEF TypeOK, Keyed, Probing, Resizing
<1>22. ASSUME NEW f \in {"clear", "free"}, Clear(f) PROVE TypeOK'
  <2>1. TableType' /\ ResizeType'
    BY <1>22, TableFrame, ResizeFrame DEF Clear
  <2>2. CallType' /\ WalkType' /\ in_hand' \in BOOLEAN /\ pc' = f
    <3>1. 0 \in 0 .. capacity' /\ capacity' = capacity
      BY <1>22, <1>a DEF Clear
    <3> QED
      BY <1>22, <3>1, <1>a, <1>b, BeginType DEF Clear, CallStates
  <2> QED
    BY <1>22, <2>1, <2>2 DEF TypeOK, Keyed, Probing, Resizing
<1>23. CASE ClearSlot
  <2>1. pos \in Slots(capacity) /\ Current \in Entry(capacity)
    BY <1>23 DEF ClearSlot, TypeOK, TableType, WalkType, Slots, Current
  <2>2. Current.data_index \in Slots(capacity)
    BY <2>1 DEF Entry
  <2>3. Freed(Current) \in Entry(capacity)
    BY <2>2 DEF Freed, FreeEntry, Entry
  <2>4. TableType'
    BY <1>23, <2>1, <2>2, <2>3 DEF ClearSlot, TypeOK, TableType, array_vars
  <2>5. ResizeType' /\ CallType'
    BY <1>23, ResizeFrame, CallFrame DEF ClearSlot
  <2>6. WalkType'
    BY <1>23, <1>a DEF ClearSlot, TypeOK, WalkType
  <2>7. in_hand' \in BOOLEAN
    BY <1>23 DEF ClearSlot, TypeOK
  <2> QED
    BY <1>23, <2>4, <2>5, <2>6, <2>7 DEF ClearSlot, Clearing, TypeOK, Keyed, Probing, Resizing
<1>24. CASE ClearDone
  <2>1. TableType'
    BY <1>24, FreshType DEF ClearDone, TypeOK, TableType, array_vars
  <2>2. ResizeType'
    BY <1>24, ResizeFrame DEF ClearDone
  <2>3. /\ CallType' /\ WalkType' /\ in_hand' \in BOOLEAN
        /\ pc' = "idle"
    <3>1. capacity' \in Nat
      BY <2>1 DEF TableType
    <3> QED
      BY <1>24, <1>a, <3>1, ReturnType DEF ClearDone, Codes
  <2> QED
    BY <2>1, <2>2, <2>3 DEF TypeOK, Keyed, Probing, Resizing
<1>25. CASE IterInit
  <2>1. TableType' /\ ResizeType'
    BY <1>25, TableFrame, ResizeFrame DEF IterInit
  <2>2. PICK n \in 0 .. capacity : /\ IsNextOccupied(0, n)
                                 /\ Begin("iterate", NoKey, NoValue, n, NoHand)
                                 /\ seen' = IterSeen(n)
    BY <1>25 DEF IterInit
  <2>3. seen' \subseteq Keys \cup {NoKey}
    BY <2>2, IterSeenType DEF Slots
  <2>4. CallType' /\ WalkType' /\ in_hand' \in BOOLEAN /\ pc' = "iterate"
    BY <1>25, <2>2, <2>3, <1>a, <1>b, BeginType DEF IterInit, CallStates
  <2> QED
    BY <2>1, <2>4 DEF TypeOK, Keyed, Probing, Resizing
<1>26. CASE IterNext
  <2>1. TableType' /\ ResizeType'
    BY <1>26, TableFrame, ResizeFrame DEF IterNext
  <2>2. PICK n \in IterFrom .. capacity : pos' = n /\ seen' = seen \cup IterSeen(n)
    BY <1>26 DEF IterNext
  <2>3. n \in 0 .. capacity
    BY <1>a, <2>2 DEF TypeOK, WalkType, IterFrom
  <2>4. CallType'
    BY <1>26, <2>2, <2>3, IterSeenType DEF IterNext, TypeOK, CallType, reply_vars
  <2>5. WalkType'
    BY <1>26, <2>2, <2>3 DEF IterNext, TypeOK, WalkType
  <2>6. in_hand' \in BOOLEAN
    BY <1>26 DEF IterNext, TypeOK
  <2> QED
    BY <1>26, <2>1, <2>4, <2>5, <2>6 DEF IterNext, TypeOK, Keyed, Probing, Resizing
<1>27. CASE IterEnd
  <2>1. TableType' /\ ResizeType'
    BY <1>27, TableFrame, ResizeFrame DEF IterEnd
  <2>2. /\ CallType' /\ WalkType' /\ in_hand' \in BOOLEAN
        /\ pc' = "idle"
    BY <1>27, <1>a, ReturnType DEF IterEnd, Codes
  <2> QED
    BY <2>1, <2>2 DEF TypeOK, Keyed, Probing, Resizing
<1>28. ASSUME NEW v \in Values, Write(v) PROVE TypeOK'
  <2>1. TableType'
    BY <1>28 DEF Write, TypeOK, TableType, CallType
  <2>2. ResizeType'
    BY <1>28, ResizeFrame DEF Write
  <2>3. CallType' /\ WalkType'
    BY <1>28 DEF Write, TypeOK, CallType, WalkType, NoWalk, walk_vars, reply_vars
  <2>4. in_hand' \in BOOLEAN
    BY <1>28 DEF Write, TypeOK, NoWalk, walk_vars
  <2> QED
    BY <1>28, <2>1, <2>2, <2>3, <2>4 DEF Write, TypeOK, NoWalk, Keyed, Probing, Resizing
<1>29. CASE Crash
  <2>1. TableType' /\ ResizeType'
    BY <1>29, TableFrame, ResizeFrame DEF Crash
  <2>2. CallType' /\ WalkType'
    BY <1>29 DEF Crash, TypeOK, CallType, CallStates, WalkType, walk_vars, reply_vars
  <2>3. in_hand' \in BOOLEAN
    BY <1>29 DEF Crash, TypeOK, walk_vars
  <2> QED
    BY <1>29, <2>1, <2>2, <2>3 DEF Crash, TypeOK, Keyed, Probing, Resizing
<1>30. CASE UNCHANGED vars
  <2>1. TableType' /\ ResizeType' /\ CallType'
    BY <1>30, TableFrame, ResizeFrame, CallFrame DEF vars, array_vars, old_vars, reply_vars
  <2>2. WalkType' /\ in_hand' = in_hand
    BY <1>30 DEF vars, TypeOK, WalkType
  <2> QED
    BY <1>30, <2>1, <2>2 DEF vars, TypeOK, Keyed, Probing, Resizing
<1> QED
  BY <1>1, <1>2, <1>3, <1>4, <1>5, <1>6, <1>7, <1>8, <1>9, <1>10, <1>11, <1>12, <1>13, <1>14, <1>15, <1>16, <1>17, <1>18, <1>19, <1>20, <1>21, <1>22, <1>23, <1>24, <1>25, <1>26, <1>27, <1>28, <1>29, <1>30 DEF Next, Call, Step

(* The table, its resize and its probes are well typed in every reachable   *)
(* state; in particular no probe, swap, shift or rehash of                  *)
(* robin_hood_table.c indexes outside the arrays of the table.              *)
THEOREM TypeCorrect == Spec => []TypeOK
<1>1. Init => TypeOK
  BY InitType
<1>2. TypeOK /\ [Next]_vars => TypeOK'
  BY StepType
<1> QED
  BY <1>1, <1>2, PTL DEF Spec

-----------------------------------------------------------------------------
(* The inductive invariant                                                  *)

Placing  == pc \in {"insert", "rehash_insert"}
Shifting == pc = "shift_back"

Occupied    == {p \in Slots(capacity) : entries[p].occupied}
OldOccupied == {p \in Slots(old_capacity) : old_entries[p].occupied}
Moved       == {p \in OldOccupied : p < entry_index}

Distinct == \A p, q \in Slots(capacity) : IndexAt(p) = IndexAt(q) => p = q

(* While an entry is in hand, the slot it came from is in use, and so are   *)
(* the slots from there to the probe: the probe has not come round to it.   *)
HandSound ==
    /\ in_hand => /\ Placing \/ Shifting
                  /\ hole # pos
                  /\ entries[hole].occupied
    /\ Placing => hand.occupied
    /\ Placing /\ in_hand => \A p \in Slots(capacity) :
                                 Offset(hole, p) < Offset(hole, pos) => entries[p].occupied
    /\ Shifting => in_hand /\ ~hand.occupied /\ pos = NextSlot(hole)

Counted ==
    /\ capacity > 0 => Cardinality(Occupied) < capacity
    /\ ~Resizing /\ ~Clearing => Cardinality(Occupied) = IF Shifting THEN size + 1 ELSE size
    /\ Resizing => /\ Cardinality(Occupied) = Cardinality(Moved)
                   /\ Cardinality(OldOccupied) = size
    /\ pc = "insert" => size + 1 < capacity
    /\ Clearing => \A p \in Slots(capacity) : p < pos => ~entries[p].occupied

OldKey  == old_keys[OldEntry.data_index]
NewKey  == IF pc = "insert" THEN key ELSE OldKey
HandKey == IF in_hand THEN entry_keys[hand.data_index] ELSE NewKey
KeyAt(p) == entry_keys[entries[p].data_index]

KeysOfTheirOwn(indexes, keys) ==
    /\ \A i \in indexes : keys[i] \in Keys
    /\ \A i, j \in indexes : keys[i] = keys[j] => i = j

KeysSound ==
    /\ pc # "crashed"
    /\ KeysOfTheirOwn(Indexes, entry_keys)
    /\ \A i \in Slots(capacity) \ Indexes : entry_keys[i] = NoKey
    /\ pc = "insert" /\ in_hand => \A i \in Indexes : entry_keys[i] # key
    /\ data_out # NoIndex => pc = "idle" /\ data_out \in Indexes

Pairs(indexes, keys, data) == {<<keys[i], data[i]>> : i \in indexes}
MovedIndexes == {old_entries[p].data_index : p \in Moved}

OldSound == Resizing =>
    /\ \A p, q \in Slots(old_capacity) :
          old_entries[p].data_index = old_entries[q].data_index => p = q
    /\ KeysOfTheirOwn(OldIndexes, old_keys)
    /\ pc = "rehash_insert" => OldEntry.occupied
    /\ Pairs(Indexes, entry_keys, entry_data) = Pairs(MovedIndexes, old_keys, old_data)

HomeFor(k) == Home(Hash[k], capacity)

InPlace(p, k) ==
    /\ entries[p].finger_print = Finger[k]
    /\ entries[p].distance = Offset(HomeFor(k), p)
    /\ PathHeld(HomeFor(k), entries[p].distance)

OnRoute(k) ==
    /\ distance = Offset(HomeFor(k), pos)
    /\ PathHeld(HomeFor(k), distance)

Routed == ~Clearing =>
    /\ \A p \in RealSlots : InPlace(p, KeyAt(p))
    /\ Placing /\ in_hand => InPlace(hole, NewKey)
    /\ Placing => OnRoute(HandKey) /\ hand.finger_print = Finger[HandKey]
    /\ Finding => OnRoute(key)
    /\ Keyed /\ ~in_hand => \A p \in RealSlots :
          KeyAt(p) = key => Offset(HomeFor(key), p) >= distance

Visited == {p \in RealSlots : p <= pos}
IterSound == pc = "iterate" => seen = {KeyAt(p) : p \in Visited}

(* No distance of a slot is cut off.                                        *)
Fits == capacity <= DistanceLimit

Sound == /\ HandSound /\ Distinct /\ Counted /\ KeysSound
         /\ OldSound /\ Routed /\ IterSound
IInv == failures = 0 => Sound

-----------------------------------------------------------------------------
(* Offsets from a home slot.                                                *)

LEMMA OffsetInTable ==
    ASSUME capacity \in Nat, NEW h \in Slots(capacity), NEW p \in Slots(capacity)
    PROVE  /\ Offset(h, p) \in Slots(capacity)
           /\ Offset(h, h) = 0
           /\ Offset(h, p) = 0 => p = h
BY DEF Offset, Slots

(* A probe that goes on is one slot further from home, or back at home.     *)
LEMMA OffsetOfNext ==
    ASSUME capacity \in Nat, NEW h \in Slots(capacity), NEW p \in Slots(capacity)
    PROVE  Offset(h, NextSlot(p)) = IF Offset(h, p) + 1 = capacity THEN 0 ELSE Offset(h, p) + 1
BY DEF Offset, Slots, NextSlot

LEMMA OffsetInjective ==
    ASSUME capacity \in Nat, NEW h \in Slots(capacity),
           NEW p \in Slots(capacity), NEW q \in Slots(capacity),
           Offset(h, p) = Offset(h, q)
    PROVE  p = q
BY DEF Offset, Slots

LEMMA NextIsAnother ==
    ASSUME capacity \in Nat, capacity > 1, NEW p \in Slots(capacity)
    PROVE  NextSlot(p) # p
BY DEF Slots, NextSlot

-----------------------------------------------------------------------------
(* Counting slots.                                                          *)

LEMMA SlotsFinite ==
    ASSUME NEW c \in Nat, NEW S \in SUBSET Slots(c)
    PROVE  /\ IsFiniteSet(S)
           /\ Cardinality(S) \in Nat
           /\ Cardinality(S) <= c
           /\ S # Slots(c) => Cardinality(S) < c
           /\ Cardinality(S) < c => \E p \in Slots(c) : p \notin S
<1>1. IsFiniteSet(Slots(c)) /\ Cardinality(Slots(c)) = c
  BY FS_Interval DEF Slots
<1>2. IsFiniteSet(S) /\ Cardinality(S) <= c /\ (Cardinality(S) = c => S = Slots(c))
  BY <1>1, FS_Subset
<1>3. Cardinality(S) \in Nat
  BY <1>2, FS_CardinalityType
<1>4. S # Slots(c) => Cardinality(S) < c
  BY <1>2, <1>3
<1>5. Cardinality(S) < c => S # Slots(c)
  BY <1>1, <1>3
<1> QED
  BY <1>2, <1>3, <1>4, <1>5

LEMMA CardinalityAdds ==
    ASSUME NEW c \in Nat, NEW S \in SUBSET Slots(c), NEW x, x \notin S
    PROVE  Cardinality(S \cup {x}) = Cardinality(S) + 1
BY SlotsFinite, FS_AddElement

LEMMA CardinalityDrops ==
    ASSUME NEW c \in Nat, NEW S \in SUBSET Slots(c), NEW x \in S
    PROVE  Cardinality(S \ {x}) = Cardinality(S) - 1
BY SlotsFinite, FS_RemoveElement

-----------------------------------------------------------------------------
(* What the types say of a slot.                                            *)

LEMMA SlotType ==
    ASSUME TypeOK, NEW p \in Slots(capacity)
    PROVE  /\ entries[p].data_index \in Slots(capacity)
           /\ entries[p].distance \in Nat
           /\ entries[p].occupied \in BOOLEAN
           /\ KeyAt(p) \in Keys \cup {NoKey}
BY DEF TypeOK, TableType, Entry, KeyAt

LEMMA HandType ==
    ASSUME TypeOK
    PROVE  /\ capacity \in Nat /\ size \in Nat /\ old_capacity \in Nat
           /\ distance \in Nat /\ in_hand \in BOOLEAN
           /\ hand.data_index \in Nat /\ hand.occupied \in BOOLEAN
           /\ Probing => hand.data_index \in Slots(capacity)
BY DEF TypeOK, TableType, ResizeType, WalkType, Slots

LEMMA HomeType ==
    ASSUME TypeOK, capacity > 0, NEW k \in Keys
    PROVE  HomeFor(k) \in Slots(capacity)
BY HandType, HomeInTable, ConstantsAssumption DEF HomeFor

(* One slot is empty: this ends every probe.                                *)
LEMMA SlotFree ==
    ASSUME TypeOK, Counted, capacity > 0
    PROVE  /\ \E p \in Slots(capacity) : ~entries[p].occupied
           /\ \A p \in Slots(capacity) : entries[p].occupied => capacity > 1
<1>1. PICK p \in Slots(capacity) : p \notin Occupied
  BY HandType, SlotsFinite DEF Counted, Occupied
<1>2. ~entries[p].occupied
  BY <1>1 DEF Occupied
<1> QED
  BY <1>1, <1>2, HandType DEF Slots

(* The data indexes in use are those of the slots in use, but for the slot  *)
(* whose entry is being deleted.                                            *)
LEMMA IndexesAreOfSlots ==
    HandSound /\ TypeOK =>
        Indexes = {IndexAt(p) : p \in IF Shifting THEN Occupied \ {hole} ELSE Occupied}
<1> SUFFICES ASSUME HandSound, TypeOK
             PROVE  Indexes = {IndexAt(p) : p \in IF Shifting THEN Occupied \ {hole} ELSE Occupied}
  OBVIOUS
<1>1. CASE ~in_hand
  BY <1>1 DEF Indexes, RealSlots, Occupied, IndexAt, HandSound
<1>2. CASE in_hand /\ Shifting
  BY <1>2 DEF Indexes, RealSlots, Occupied, IndexAt, HandSound
<1>3. CASE in_hand /\ ~Shifting
  <2>1. Placing /\ hand.occupied /\ hole \in Slots(capacity) /\ entries[hole].occupied
    BY <1>3, CurrentType DEF HandSound, Placing, Probing
  <2> QED
    BY <1>3, <2>1 DEF Indexes, RealSlots, Occupied, IndexAt
<1> QED
  BY <1>1, <1>2, <1>3, HandType

-----------------------------------------------------------------------------
(* Steps that leave the arrays and the entry in hand alone.                 *)

LEMMA SameEntries ==
    ASSUME UNCHANGED <<array_vars, capacity>>,
           \/ ~in_hand /\ ~in_hand'
           \/ UNCHANGED <<in_hand, hand, hole, pc>>
    PROVE  /\ Occupied' = Occupied
           /\ RealSlots' = RealSlots
           /\ Indexes' = Indexes
           /\ Distinct => Distinct'
           /\ \A p : KeyAt(p)' = KeyAt(p)
           /\ \A h, p : Offset(h, p)' = Offset(h, p)
           /\ \A k : HomeFor(k)' = HomeFor(k)
           /\ \A h, d : PathHeld(h, d)' <=> PathHeld(h, d)
           /\ \A p, k : InPlace(p, k)' <=> InPlace(p, k)
<1> USE DEF array_vars
<1>1. RealSlots' = RealSlots /\ Occupied' = Occupied
  BY DEF RealSlots, Occupied
<1>2. Indexes' = Indexes
  BY <1>1 DEF Indexes
<1>3. Distinct => Distinct'
  BY DEF Distinct, IndexAt
<1>4. \A p : KeyAt(p)' = KeyAt(p)
  BY DEF KeyAt
<1>5. \A h, p : Offset(h, p)' = Offset(h, p)
  BY DEF Offset
<1>6. \A k : HomeFor(k)' = HomeFor(k)
  BY DEF HomeFor
<1>7. \A h, d : PathHeld(h, d)' <=> PathHeld(h, d)
  BY <1>5 DEF PathHeld
<1>8. \A p, k : InPlace(p, k)' <=> InPlace(p, k)
  BY <1>5, <1>6, <1>7 DEF InPlace, PathHeld
<1> QED
  BY <1>1, <1>2, <1>3, <1>4, <1>5, <1>6, <1>7, <1>8

(* A call that is refused or answered at once changes none of it.           *)
LEMMA RefusedKeepsSound ==
    ASSUME TypeOK, Sound, pc = "idle", NoWalk, data_out' = NoIndex,
           UNCHANGED <<array_vars, size, capacity, old_vars, entry_index, seen, failures>>
    PROVE  Sound'
<1>1. ~in_hand /\ ~in_hand' /\ pc' = "idle"
  BY DEF Sound, HandSound, Placing, Shifting, NoWalk, walk_vars
<1>2. HandSound'
  BY <1>1 DEF HandSound, Placing, Shifting
<1>3. Distinct' /\ Counted'
  BY <1>1, SameEntries DEF Sound, Counted, Resizing, Clearing, Shifting
<1>4. KeysSound' /\ OldSound' /\ IterSound'
  BY <1>1, SameEntries DEF Sound, KeysSound, KeysOfTheirOwn, OldSound, IterSound, Resizing, array_vars
<1>5. Routed'
  BY <1>1, SameEntries DEF Sound, Routed, Placing, Finding, Keyed, Clearing
<1> QED
  BY <1>2, <1>3, <1>4, <1>5 DEF Sound

(* The path of no slots.                                                    *)
LEMMA NoPath ==
    ASSUME capacity \in Nat, NEW h \in Slots(capacity)
    PROVE  PathHeld(h, 0)
BY OffsetInTable DEF PathHeld, Slots

(* A call begins at the home of its key, or at the first slot.              *)
LEMMA BeginKeepsSound ==
    ASSUME TypeOK, Sound, pc = "idle", initialized,
           NEW f \in {"insert", "look_up", "delete", "clear", "free"},
           NEW k \in Keys \cup {NoKey}, NEW v, NEW start, NEW e,
           Begin(f, k, v, start, e),
           UNCHANGED <<array_vars, size, capacity, old_vars, entry_index>>,
           f \in {"insert", "look_up", "delete"} => k \in Keys /\ start = HomeFor(k),
           f = "insert" => ~TableFull /\ e = NewEntry(Finger[k]),
           f \in {"clear", "free"} => start = 0
    PROVE  Sound'
<1>1. ~in_hand /\ ~in_hand' /\ pc' = f /\ key' = k /\ pos' = start /\ hand' = e /\ distance' = 0
  BY DEF Sound, HandSound, Placing, Shifting, Begin
<1>2. HandSound'
  BY <1>1 DEF HandSound, Placing, Shifting, NewEntry
<1>3. Distinct' /\ Counted'
  <2>1. f = "insert" => size + 1 < capacity
    BY HandType DEF TableFull
  <2>2. f \in {"clear", "free"} => \A p \in Slots(capacity) : ~(p < start)
    BY DEF Slots
  <2> QED
    BY <1>1, <2>1, <2>2, SameEntries DEF Sound, Counted, Resizing, Clearing, Shifting
<1>4. KeysSound' /\ OldSound' /\ IterSound'
  BY <1>1, SameEntries DEF Sound, KeysSound, KeysOfTheirOwn, OldSound, IterSound, Resizing, array_vars, Begin
<1>5. Routed'
  <2>1. CASE f \in {"clear", "free"}
    BY <2>1, <1>1 DEF Routed, Clearing
  <2>2. CASE f \in {"insert", "look_up", "delete"}
    <3>1. k \in Keys /\ HomeFor(k) \in Slots(capacity)
      BY <2>2, HandType, HomeType DEF initialized
    <3>2. Offset(HomeFor(k), start) = 0 /\ PathHeld(HomeFor(k), 0)
      BY <2>2, <3>1, HandType, OffsetInTable, NoPath
    <3>3. OnRoute(k)'
      BY <1>1, <2>2, <3>1, <3>2, SameEntries DEF OnRoute
    <3>4. \A p \in RealSlots : InPlace(p, KeyAt(p))
      BY DEF Sound, Routed, Clearing
    <3>5. \A p \in RealSlots : Offset(HomeFor(k), p) >= 0
      BY <3>1, HandType, OffsetInTable DEF Slots, RealSlots
    <3>6. f = "insert" => HandKey' = k /\ hand'.finger_print = Finger[k]
      BY <1>1 DEF HandKey, NewKey, NewEntry
    <3> QED
      BY <1>1, <2>2, <3>3, <3>4, <3>5, <3>6, SameEntries DEF Routed, Placing, Finding, Keyed, OnRoute
  <2> QED
    BY <2>1, <2>2
<1> QED
  BY <1>2, <1>3, <1>4, <1>5 DEF Sound

(* The slot a probe looks at, when it is in use, holds one of the entries   *)
(* of the table.                                                            *)
LEMMA CurrentIsReal ==
    ASSUME TypeOK, Sound, Probing, Current.occupied
    PROVE  /\ pos \in RealSlots
           /\ Current.data_index \in Indexes
           /\ KeyAt(pos) = entry_keys[Current.data_index]
           /\ KeyAt(pos) \in Keys
           /\ capacity > 1
<1>1. pos \in Slots(capacity) /\ capacity > 0
  BY CurrentType, HandType DEF Slots
<1>2. pos \in RealSlots /\ Current.data_index \in Indexes
  BY <1>1 DEF RealSlots, Indexes, Current, Sound, HandSound
<1>3. capacity > 1
  BY <1>1, SlotFree DEF Sound, Current
<1> QED
  BY <1>2, <1>3 DEF Current, KeyAt, Sound, KeysSound, KeysOfTheirOwn

(* sb_cmp says that the keys are the same only when they are, and then no   *)
(* entry has been displaced yet.                                            *)
LEMMA MatchesItsKey ==
    ASSUME TypeOK, Sound, Keyed, Current.occupied
    PROVE  /\ KeyMatches(Current) => KeyAt(pos) = key /\ ~in_hand
           /\ KeyDiffers(Current) => KeyAt(pos) # key
<1>0. Probing
  BY DEF Keyed, Probing
<1>1. /\ pos \in RealSlots /\ Current.data_index \in Indexes
      /\ KeyAt(pos) = entry_keys[Current.data_index] /\ KeyAt(pos) \in Keys
  BY <1>0, CurrentIsReal
<1>2. KeyAt(pos) # NoKey
  BY <1>1, ConstantsAssumption
<1>3. KeyMatches(Current) => KeyAt(pos) = key
  BY <1>1, <1>2 DEF KeyMatches
<1>4. in_hand => pc = "insert" /\ KeyAt(pos) # key
  BY <1>1 DEF Sound, HandSound, Keyed, Placing, Shifting, KeysSound
<1>5. Current.finger_print = Finger[KeyAt(pos)]
  BY <1>1 DEF Sound, Routed, Keyed, Clearing, InPlace, Current
<1>6. KeyDiffers(Current) => KeyAt(pos) # key
  BY <1>1, <1>5 DEF KeyDiffers
<1> QED
  BY <1>3, <1>4, <1>6

(* A call returns without having changed the arrays.                        *)
LEMMA ReturnKeepsSound ==
    ASSUME TypeOK, Sound, ~in_hand,
           pc \in {"insert", "look_up", "delete", "iterate"},
           NEW code, NEW i \in Indexes \cup {NoIndex}, Return(code, i),
           UNCHANGED <<array_vars, size, capacity, old_vars, entry_index>>
    PROVE  Sound'
<1>1. ~in_hand' /\ pc' = "idle" /\ data_out' = i
  BY DEF Return
<1>2. HandSound'
  BY <1>1 DEF HandSound, Placing, Shifting
<1>3. Distinct' /\ Counted'
  BY <1>1, SameEntries DEF Sound, Counted, Resizing, Clearing, Shifting
<1>4. KeysSound' /\ OldSound' /\ IterSound'
  BY <1>1, SameEntries DEF Sound, KeysSound, KeysOfTheirOwn, OldSound, IterSound, Resizing, array_vars
<1>5. Routed'
  BY <1>1, SameEntries DEF Sound, Routed, Placing, Finding, Keyed, Clearing
<1> QED
  BY <1>2, <1>3, <1>4, <1>5 DEF Sound

-----------------------------------------------------------------------------
(* Probes that go on.                                                       *)

(* A run of slots in use from h to p ends before it is back at h.           *)
LEMMA RunGrows ==
    ASSUME TypeOK, Counted, NEW h \in Slots(capacity), NEW p \in Slots(capacity),
           entries[p].occupied,
           \A q \in Slots(capacity) : Offset(h, q) < Offset(h, p) => entries[q].occupied
    PROVE  /\ NextSlot(p) \in Slots(capacity)
           /\ NextSlot(p) # h
           /\ Offset(h, NextSlot(p)) = Offset(h, p) + 1
           /\ \A q \in Slots(capacity) :
                 Offset(h, q) < Offset(h, p) + 1 => entries[q].occupied
<1>1. capacity \in Nat /\ capacity > 0
  BY HandType DEF Slots
<1>2. \A q \in Slots(capacity) : Offset(h, q) \in Slots(capacity)
  BY <1>1, OffsetInTable
<1>3. ASSUME NEW q \in Slots(capacity), Offset(h, q) <= Offset(h, p)
      PROVE  entries[q].occupied
  <2>1. CASE Offset(h, q) = Offset(h, p)
    BY <2>1, <1>1, OffsetInjective
  <2>2. CASE Offset(h, q) < Offset(h, p)
    BY <2>2
  <2> QED
    BY <1>2, <1>3, <2>1, <2>2 DEF Slots
<1>4. Offset(h, p) + 1 # capacity
  <2>1. PICK q \in Slots(capacity) : ~entries[q].occupied
    BY <1>1, SlotFree
  <2>2. Offset(h, q) > Offset(h, p)
    BY <2>1, <1>2, <1>3 DEF Slots
  <2> QED
    BY <2>2, <1>1, <1>2 DEF Slots
<1>5. NextSlot(p) \in Slots(capacity) /\ Offset(h, NextSlot(p)) = Offset(h, p) + 1
  BY <1>1, <1>4, OffsetOfNext, NextInTable
<1>6. NextSlot(p) # h
  BY <1>1, <1>2, <1>5, OffsetInTable DEF Slots
<1> QED
  BY <1>1, <1>2, <1>3, <1>5, <1>6 DEF Slots

(* The path of a probe that goes on past slot p.                            *)
LEMMA PathGrows ==
    ASSUME TypeOK, Counted, ~Shifting, NEW h \in Slots(capacity),
           NEW p \in Slots(capacity), entries[p].occupied,
           PathHeld(h, Offset(h, p))
    PROVE  /\ NextSlot(p) \in Slots(capacity)
           /\ Offset(h, NextSlot(p)) = Offset(h, p) + 1
           /\ Offset(h, p) + 1 < capacity
           /\ entries[p].distance >= Offset(h, p) => PathHeld(h, Offset(h, p) + 1)
<1>1. capacity \in Nat /\ \A q \in Slots(capacity) : Offset(h, q) \in Nat
  BY HandType, OffsetInTable DEF Slots
<1>2. \A q \in Slots(capacity) : Offset(h, q) < Offset(h, p) =>
          entries[q].occupied /\ entries[q].distance >= Offset(h, q)
  BY DEF PathHeld, Shifting
<1>3. /\ NextSlot(p) \in Slots(capacity)
      /\ Offset(h, NextSlot(p)) = Offset(h, p) + 1
  BY <1>2, RunGrows
<1>4. Offset(h, p) + 1 < capacity
  BY <1>1, <1>3, OffsetInTable DEF Slots
<1>5. ASSUME entries[p].distance >= Offset(h, p),
             NEW q \in Slots(capacity), Offset(h, q) < Offset(h, p) + 1
      PROVE  entries[q].occupied /\ entries[q].distance >= Offset(h, q)
  <2>1. CASE Offset(h, q) = Offset(h, p)
    BY <2>1, <1>1, <1>5, OffsetInjective
  <2>2. CASE Offset(h, q) < Offset(h, p)
    BY <2>2, <1>2
  <2> QED
    BY <1>1, <1>5, <2>1, <2>2
<1> QED
  BY <1>3, <1>4, <1>5 DEF PathHeld

(* The keys that probes look for are keys.                                  *)
LEMMA ProbedKeys ==
    ASSUME TypeOK, Sound, Probing
    PROVE  /\ capacity > 0
           /\ Finding => key \in Keys
           /\ Placing => NewKey \in Keys /\ HandKey \in Keys
           /\ Placing /\ in_hand => hand.data_index \in Indexes
           /\ pc = "rehash_insert" => OldEntry.data_index \in OldIndexes
<1>1. capacity > 0
  BY CurrentType, HandType DEF Slots
<1>2. Keyed => key \in Keys
  BY DEF TypeOK
<1>3. ASSUME pc = "rehash_insert" PROVE OldEntry.data_index \in OldIndexes
  <2>1. entry_index \in Slots(old_capacity)
    BY <1>3 DEF TypeOK, ResizeType, Slots
  <2> QED
    BY <1>3, <2>1 DEF OldIndexes, OldEntry, Sound, OldSound, Resizing
<1>4. Placing => NewKey \in Keys
  BY <1>2, <1>3 DEF Placing, NewKey, OldKey, Keyed, Sound, OldSound, Resizing, KeysOfTheirOwn
<1>5. Placing /\ in_hand => hand.data_index \in Indexes
  BY DEF Sound, HandSound, Indexes
<1> QED
  BY <1>1, <1>2, <1>3, <1>4, <1>5 DEF Finding, Keyed, HandKey, Sound, KeysSound, KeysOfTheirOwn

(* Neither the distance of a probe that goes on nor that of the entry it    *)
(* takes along is cut off: a slot is empty, so both have not been round.    *)
LEMMA NotCutOff ==
    ASSUME capacity \in Nat, Fits, NEW d \in Nat, d + 1 < capacity
    PROVE  Further(d) = d + 1
BY ConstantsAssumption DEF Further, Fits

LEMMA WalkNotCutOff ==
    ASSUME TypeOK, Sound, Fits, Placing \/ Finding, Current.occupied
    PROVE  Further(distance) = distance + 1
<1>0. Probing /\ ~Shifting /\ ~Clearing
  BY DEF Placing, Finding, Probing, Shifting, Clearing
<1> DEFINE k == IF Placing THEN HandKey ELSE key
<1>1. pos \in Slots(capacity) /\ capacity \in Nat /\ entries[pos].occupied /\ distance \in Nat
  BY <1>0, CurrentType, HandType DEF Current
<1>2. k \in Keys /\ HomeFor(k) \in Slots(capacity) /\ OnRoute(k)
  BY <1>0, ProbedKeys, HomeType DEF Sound, Routed
<1>3. distance + 1 < capacity
  BY <1>0, <1>1, <1>2, PathGrows DEF Sound, OnRoute
<1> QED
  BY <1>1, <1>3, NotCutOff

LEMMA SwapNotCutOff ==
    ASSUME TypeOK, Sound, Fits, Placing, Current.occupied
    PROVE  Further(entries[pos].distance) = entries[pos].distance + 1
<1>0. Probing /\ ~Shifting /\ ~Clearing
  BY DEF Placing, Probing, Shifting, Clearing
<1>1. /\ pos \in Slots(capacity) /\ capacity \in Nat
      /\ entries[pos].occupied /\ entries[pos].distance \in Nat
  BY <1>0, CurrentType, HandType, SlotType DEF Current
<1>2. pos \in RealSlots /\ KeyAt(pos) \in Keys
  BY <1>0, CurrentIsReal
<1>3. HomeFor(KeyAt(pos)) \in Slots(capacity) /\ InPlace(pos, KeyAt(pos))
  BY <1>0, <1>2, HomeType, ProbedKeys DEF Sound, Routed
<1>4. entries[pos].distance + 1 < capacity
  BY <1>0, <1>1, <1>3, PathGrows DEF Sound, InPlace
<1> QED
  BY <1>1, <1>4, NotCutOff

(* The probe passes an entry that is not its key's and not closer to home.  *)
LEMMA WalkKeepsSound ==
    ASSUME TypeOK, Sound, Fits, Placing \/ Finding, Current.occupied, ~Richer, Walk,
           Keyed => KeyAt(pos) # key,
           UNCHANGED <<array_vars, size, capacity, old_vars, entry_index,
                       pc, key, value, seen, failures, reply_vars>>
    PROVE  Sound'
<1>0. Probing /\ ~Shifting /\ ~Clearing
  BY DEF Placing, Finding, Probing, Shifting, Clearing
<1> DEFINE k == IF Placing THEN HandKey ELSE key
<1>1. /\ pos \in Slots(capacity) /\ hole \in Slots(capacity) /\ capacity \in Nat
      /\ entries[pos].occupied /\ entries[pos].distance \in Nat /\ distance \in Nat
      /\ entries[pos].distance >= distance
  BY <1>0, CurrentType, HandType, SlotType DEF Current, Richer
<1>2. UNCHANGED <<in_hand, hand, hole, pc>> /\ distance' = distance + 1 /\ pos' = NextSlot(pos)
  BY WalkNotCutOff DEF Walk
<1>3. HandSound'
  <2>1. in_hand => /\ NextSlot(pos) # hole
                   /\ Placing => \A p \in Slots(capacity) :
                          Offset(hole, p) < Offset(hole, NextSlot(pos)) => entries[p].occupied
    BY <1>0, <1>1, RunGrows DEF Sound, HandSound
  <2>2. (\A h, p : Offset(h, p)' = Offset(h, p)) /\ UNCHANGED <<entries, capacity>>
    BY <1>2, SameEntries DEF array_vars
  <2> QED
    BY <1>0, <1>2, <2>1, <2>2 DEF Sound, HandSound, Placing, Shifting
<1>4. Distinct' /\ Counted'
  BY <1>0, <1>2, SameEntries DEF Sound, Counted, Resizing, Clearing, Shifting, Moved, OldOccupied, old_vars
<1>5. KeysSound' /\ IterSound'
  BY <1>0, <1>2, SameEntries DEF Sound, KeysSound, KeysOfTheirOwn, IterSound, array_vars, Placing, Finding, reply_vars
<1>6. OldSound'
  BY <1>2, SameEntries DEF Sound, OldSound, Resizing, array_vars, old_vars, MovedIndexes, Moved, OldOccupied, OldEntry, OldIndexes, KeysOfTheirOwn
<1>7. Routed'
  <2>1. k \in Keys /\ HomeFor(k) \in Slots(capacity) /\ OnRoute(k)
    BY <1>0, ProbedKeys, HomeType DEF Sound, Routed
  <2>2. /\ Offset(HomeFor(k), NextSlot(pos)) = distance + 1
        /\ PathHeld(HomeFor(k), distance + 1)
    BY <1>0, <1>1, <2>1, PathGrows DEF Sound, OnRoute
  <2>3. HandKey' = HandKey /\ NewKey' = NewKey
    BY <1>2 DEF HandKey, NewKey, OldKey, OldEntry, old_vars, array_vars
  <2>4. \A j : OnRoute(j)' <=> /\ distance + 1 = Offset(HomeFor(j), NextSlot(pos))
                               /\ PathHeld(HomeFor(j), distance + 1)
    BY <1>2, SameEntries DEF OnRoute
  <2>5. ASSUME Keyed, ~in_hand, NEW p \in RealSlots, KeyAt(p) = key
        PROVE  Offset(HomeFor(key), p) >= distance + 1
    <3>1. p \in Slots(capacity) /\ p # pos /\ Offset(HomeFor(key), p) >= distance
      BY <1>0, <2>5 DEF Sound, Routed, RealSlots
    <3>2. k = key
      BY <2>5 DEF HandKey, NewKey, Keyed, Placing
    <3>3. Offset(HomeFor(key), p) # Offset(HomeFor(key), pos)
      BY <1>1, <2>1, <3>1, <3>2, OffsetInjective
    <3>4. Offset(HomeFor(key), p) \in Nat /\ distance = Offset(HomeFor(key), pos)
      <4>1. HomeFor(key) \in Slots(capacity) /\ OnRoute(key)
        BY <2>1, <3>2
      <4> QED
        BY <1>1, <3>1, <4>1, OffsetInTable DEF Slots, OnRoute
    <3> QED
      BY <1>1, <3>1, <3>3, <3>4
  <2>6. \A p \in RealSlots : InPlace(p, KeyAt(p))
    BY <1>0 DEF Sound, Routed
  <2>7. Placing => OnRoute(HandKey)' /\ hand'.finger_print = Finger[HandKey']
    BY <1>0, <1>2, <2>2, <2>3, <2>4 DEF Sound, Routed
  <2>8. Finding => OnRoute(key)'
    BY <1>0, <2>2, <2>4 DEF Placing, Finding
  <2>9. Placing /\ in_hand => InPlace(hole, NewKey)
    BY <1>0 DEF Sound, Routed
  <2> QED
    BY <1>0, <1>2, <2>3, <2>5, <2>6, <2>7, <2>8, <2>9, SameEntries
    DEF Routed, Placing, Finding, Keyed, Clearing
<1> QED
  BY <1>3, <1>4, <1>5, <1>6, <1>7 DEF Sound

-----------------------------------------------------------------------------
(* Swaps.                                                                   *)

(* A probe that meets an empty slot or an entry closer to its home than the *)
(* probe has proved that the key is not in the table.                       *)
LEMMA KeyIsAbsent ==
    ASSUME TypeOK, Sound, Keyed, ~in_hand,
           ~Current.occupied \/ (Richer /\ KeyAt(pos) # key)
    PROVE  \A i \in Indexes : entry_keys[i] # key
<1>0. Probing /\ ~Shifting /\ ~Clearing /\ (Placing \/ Finding)
  BY DEF Placing, Finding, Probing, Shifting, Clearing, Keyed
<1>1. key \in Keys /\ HomeFor(key) \in Slots(capacity) /\ OnRoute(key) /\ capacity \in Nat
  <2>1. Placing => HandKey = key
    BY DEF HandKey, NewKey, Keyed, Placing
  <2> QED
    BY <1>0, <2>1, ProbedKeys, HomeType, HandType DEF Sound, Routed, Keyed, TypeOK
<1>2. pos \in Slots(capacity) /\ distance \in Nat
  BY <1>0, CurrentType, HandType
<1>3. SUFFICES ASSUME NEW p \in RealSlots, KeyAt(p) = key PROVE FALSE
  BY DEF Indexes, KeyAt
<1>4. /\ p \in Slots(capacity) /\ InPlace(p, key) /\ Offset(HomeFor(key), p) >= distance
      /\ entries[p].occupied
  BY <1>0, <1>3 DEF Sound, Routed, RealSlots
<1>5. p # pos
  BY <1>3, <1>4 DEF Current
<1>6. Offset(HomeFor(key), pos) < Offset(HomeFor(key), p)
  <2>1. distance = Offset(HomeFor(key), pos)
    BY <1>1 DEF OnRoute
  <2>2. Offset(HomeFor(key), p) # distance
    BY <1>1, <1>2, <1>4, <1>5, <2>1, OffsetInjective
  <2>3. Offset(HomeFor(key), p) \in Nat
    BY <1>1, <1>4, OffsetInTable DEF Slots
  <2> QED
    BY <1>2, <1>4, <2>1, <2>2, <2>3
<1>7. entries[pos].occupied /\ entries[pos].distance >= distance
  BY <1>0, <1>1, <1>2, <1>4, <1>6 DEF InPlace, PathHeld, OnRoute, Shifting
<1>8. entries[pos].distance \in Nat
  BY <1>2, SlotType
<1> QED
  BY <1>2, <1>7, <1>8 DEF Current, Richer

(* Entries may replace others that were closer to home.                     *)
LEMMA PathsKept ==
    ASSUME TypeOK, TypeOK', UNCHANGED capacity, ~Shifting, ~Shifting',
           \A p \in Slots(capacity) : entries[p].occupied =>
               entries'[p].occupied /\ entries'[p].distance >= entries[p].distance
    PROVE  \A h \in Slots(capacity), d \in Nat : PathHeld(h, d) => PathHeld(h, d)'
<1> SUFFICES ASSUME NEW h \in Slots(capacity), NEW d \in Nat, PathHeld(h, d)
             PROVE  PathHeld(h, d)'
  OBVIOUS
<1>1. \A p : Offset(h, p)' = Offset(h, p)
  BY DEF Offset
<1>2. ASSUME NEW p \in Slots(capacity), Offset(h, p) < d
      PROVE  entries'[p].occupied /\ entries'[p].distance >= Offset(h, p)
  <2>1. entries[p].occupied /\ entries[p].distance >= Offset(h, p)
    BY <1>2 DEF PathHeld, Shifting
  <2>2. entries[p].distance \in Nat
    BY <1>2, SlotType
  <2>5. Offset(h, p) \in Nat
    <3>1. capacity \in Nat
      BY HandType
    <3> QED
      BY <1>2, <3>1, OffsetInTable DEF Slots
  <2>3. entries'[p] \in Entry(capacity)
    BY DEF TypeOK, TableType
  <2>4. entries'[p].distance \in Nat
    BY <2>3 DEF Entry
  <2> QED
    BY <1>2, <2>1, <2>2, <2>4, <2>5
<1> QED
  BY <1>1, <1>2 DEF PathHeld

LEMMA SwapEffect ==
    ASSUME TypeOK, Probing, Swap, UNCHANGED capacity
    PROVE  /\ entries'[pos] = [hand EXCEPT !.distance = distance]
           /\ entries'[pos].data_index = hand.data_index
           /\ entries'[pos].distance = distance
           /\ entries'[pos].occupied = hand.occupied
           /\ entries'[pos].finger_print = hand.finger_print
           /\ \A p \in Slots(capacity) \ {pos} : entries'[p] = entries[p]
           /\ hole' = FirstSwap /\ FirstSwap \in Slots(capacity)
           /\ in_hand' /\ hand' = entries[pos]
           /\ pos' = NextSlot(pos) /\ distance' = Further(entries[pos].distance)
<1>1. entries'[pos] = [hand EXCEPT !.distance = distance]
      /\ \A p \in Slots(capacity) \ {pos} : entries'[p] = entries[p]
  BY CurrentType DEF Swap, TypeOK, TableType
<1>2. hand \in HeldEntry
  BY DEF TypeOK, WalkType
<1>3. FirstSwap \in Slots(capacity)
  BY CurrentType DEF FirstSwap
<1> QED
  BY <1>1, <1>2, <1>3 DEF Swap, Current

LEMMA SwapKeepsSound ==
    ASSUME TypeOK, TypeOK', Sound, Fits, Placing, Current.occupied, Richer, Swap,
           Keyed => KeyAt(pos) # key,
           UNCHANGED <<entry_keys, entry_data, size, capacity, old_vars, entry_index,
                       pc, key, value, seen, failures, reply_vars>>
    PROVE  Sound'
<1>0. /\ Probing /\ ~Shifting /\ ~Shifting' /\ ~Clearing /\ ~Finding /\ pc # "iterate"
      /\ Placing' /\ Probing' /\ pc' = pc
  BY DEF Placing, Probing, Shifting, Clearing, Finding
<1> DEFINE H == FirstSwap
<1>1. /\ pos \in Slots(capacity) /\ hole \in Slots(capacity) /\ capacity \in Nat
      /\ entries[pos].occupied /\ entries[pos].distance \in Nat /\ distance \in Nat
      /\ entries[pos].distance < distance
  BY <1>0, CurrentType, HandType, SlotType DEF Current, Richer
<1>2. /\ entries'[pos].data_index = hand.data_index
      /\ entries'[pos].distance = distance
      /\ entries'[pos].occupied /\ hand.occupied
      /\ entries'[pos].finger_print = hand.finger_print
      /\ \A p \in Slots(capacity) \ {pos} : entries'[p] = entries[p]
      /\ hole' = H /\ H \in Slots(capacity)
      /\ in_hand' /\ hand' = entries[pos]
      /\ pos' = NextSlot(pos) /\ distance' = entries[pos].distance + 1
  BY <1>0, SwapEffect, SwapNotCutOff DEF Sound, HandSound
<1>3. Occupied' = Occupied
  BY <1>1, <1>2 DEF Occupied
<1>4. /\ H # NextSlot(pos) /\ entries[H].occupied
      /\ \A p \in Slots(capacity) : Offset(H, p) < Offset(H, NextSlot(pos)) => entries[p].occupied
  <2>1. \A p \in Slots(capacity) : Offset(H, p) < Offset(H, pos) => entries[p].occupied
    <3>1. CASE in_hand
      BY <1>0, <3>1 DEF FirstSwap, Sound, HandSound
    <3>2. CASE ~in_hand
      BY <1>1, <3>2, OffsetInTable DEF FirstSwap, Slots
    <3> QED
      BY <3>1, <3>2
  <2>2. entries[H].occupied
    BY <1>1 DEF FirstSwap, Sound, HandSound
  <2> QED
    BY <1>1, <1>2, <2>1, <2>2, RunGrows DEF Sound
<1>5. HandSound'
  <2>1. \A h, p : Offset(h, p)' = Offset(h, p)
    BY DEF Offset
  <2>2. \A p \in Slots(capacity) : entries'[p].occupied <=> entries[p].occupied
    BY <1>1, <1>2
  <2> HIDE DEF H
  <2> QED
    BY <1>0, <1>1, <1>2, <1>4, <2>1, <2>2 DEF HandSound
<1>6. in_hand => hole # pos
  BY DEF Sound, HandSound
<1>7. \A p \in Slots(capacity) : IndexAt(p)' = IF in_hand /\ p = hole THEN IndexAt(pos)
                                               ELSE IF in_hand /\ p = pos THEN IndexAt(hole)
                                               ELSE IndexAt(p)
  BY <1>1, <1>2, <1>6 DEF IndexAt, FirstSwap
<1>8. Distinct'
  BY <1>1, <1>6, <1>7 DEF Distinct, Sound
<1>9. Indexes' = Indexes
  <2>1. Indexes = {IndexAt(p) : p \in Occupied}
    BY <1>0, IndexesAreOfSlots DEF Sound
  <2>2. Indexes' = {IndexAt(p)' : p \in Occupied'}
    <3>1. (HandSound /\ TypeOK =>
             Indexes = {IndexAt(p) : p \in IF Shifting THEN Occupied \ {hole} ELSE Occupied})'
      BY IndexesAreOfSlots, PTL
    <3> QED
      BY <1>0, <1>5, <3>1
  <2>3. Occupied \subseteq Slots(capacity) /\ pos \in Occupied
    BY <1>1 DEF Occupied
  <2>4. in_hand => hole \in Occupied
    BY <1>1 DEF Occupied, Sound, HandSound
  <2> QED
    BY <1>3, <1>6, <1>7, <2>1, <2>2, <2>3, <2>4
<1>10. Counted'
  BY <1>0, <1>3 DEF Sound, Counted, Resizing, Clearing, Shifting, Moved, OldOccupied, old_vars, Placing
<1>11. KeysSound'
  <2>1. pc = "insert" => \A i \in Indexes : entry_keys[i] # key
    <3>1. CASE in_hand
      BY <3>1 DEF Sound, KeysSound
    <3>2. CASE ~in_hand
      BY <3>2, KeyIsAbsent DEF Keyed
    <3> QED
      BY <3>1, <3>2
  <2> QED
    BY <1>9, <2>1 DEF Sound, KeysSound, KeysOfTheirOwn, reply_vars
<1>12. OldSound'
  BY <1>9 DEF Sound, OldSound, Resizing, old_vars, MovedIndexes, Moved, OldOccupied, OldEntry, OldIndexes, KeysOfTheirOwn, Pairs
<1>13. IterSound'
  BY <1>0 DEF IterSound
<1>14. Routed'
  <2>1. /\ NewKey' = NewKey
        /\ \A k : HomeFor(k)' = HomeFor(k)
        /\ \A h, p : Offset(h, p)' = Offset(h, p)
    BY DEF NewKey, OldKey, OldEntry, HomeFor, old_vars, Offset
  <2>2. \A h \in Slots(capacity), d \in Nat : PathHeld(h, d) => PathHeld(h, d)'
    BY <1>0, <1>1, <1>2, PathsKept, SlotType
  <2>3. ASSUME NEW p \in Slots(capacity), p # pos, NEW k \in Keys, InPlace(p, k)
        PROVE  InPlace(p, k)'
    <3>1. HomeFor(k) \in Slots(capacity) /\ entries[p].distance \in Nat
      BY <1>0, <2>3, HomeType, ProbedKeys, SlotType
    <3>2. ASSUME NEW h, h = HomeFor(k), NEW d, d = entries[p].distance
          PROVE  PathHeld(h, d)'
      BY <2>2, <2>3, <3>1, <3>2 DEF InPlace
    <3> QED
      BY <1>2, <2>1, <2>3, <3>2 DEF InPlace
  <2>4. ASSUME NEW k, k = HandKey, NEW p, p = pos
        PROVE  InPlace(p, k)'
    <3>1. k \in Keys /\ HomeFor(k) \in Slots(capacity) /\ OnRoute(k) /\ hand.finger_print = Finger[k]
      BY <1>0, <2>4, ProbedKeys, HomeType DEF Sound, Routed
    <3>2. ASSUME NEW h, h = HomeFor(k), NEW d, d = distance
          PROVE  PathHeld(h, d)'
      BY <1>1, <2>2, <3>1, <3>2 DEF OnRoute
    <3> QED
      BY <1>2, <2>1, <2>4, <3>1, <3>2 DEF InPlace, OnRoute
  <2>5. ASSUME NEW p \in RealSlots'
        PROVE  InPlace(p, KeyAt(p))'
    <3>1. p \in Slots(capacity) /\ p # H /\ entries'[p].occupied
      BY <1>2 DEF RealSlots
    <3>2. CASE p # pos
      <4>1. p \in RealSlots /\ KeyAt(p)' = KeyAt(p) /\ entries[p].occupied
        BY <1>2, <3>1, <3>2 DEF RealSlots, FirstSwap, KeyAt
      <4>2. KeyAt(p) \in Keys
        BY <4>1 DEF RealSlots, Indexes, Sound, KeysSound, KeysOfTheirOwn, KeyAt
      <4>3. InPlace(p, KeyAt(p))
        BY <1>0, <4>1 DEF Sound, Routed
      <4>4. ASSUME NEW k \in Keys, k = KeyAt(p)
            PROVE  InPlace(p, k)'
        BY <2>3, <3>1, <3>2, <4>3, <4>4
      <4> QED
        BY <4>1, <4>2, <4>4 DEF InPlace
    <3>3. CASE p = pos
      <4>1. in_hand /\ KeyAt(p)' = HandKey
        BY <1>2, <3>1, <3>3 DEF FirstSwap, KeyAt, HandKey
      <4> QED
        BY <2>4, <3>3, <4>1 DEF InPlace
    <3> QED
      BY <3>2, <3>3
  <2>6. InPlace(hole, NewKey)'
    <3>1. CASE in_hand
      <4>1. /\ InPlace(hole, NewKey) /\ NewKey \in Keys /\ hole # pos /\ hole' = hole
        BY <1>0, <1>2, <1>6, <3>1, ProbedKeys DEF Sound, Routed, FirstSwap
      <4>2. ASSUME NEW k \in Keys, k = NewKey, NEW p, p = hole
            PROVE  InPlace(p, k)'
        BY <1>1, <2>3, <4>1, <4>2
      <4> QED
        BY <2>1, <4>1, <4>2 DEF InPlace
    <3>2. CASE ~in_hand
      <4>1. HandKey = NewKey /\ hole' = pos
        BY <1>2, <3>2 DEF HandKey, FirstSwap
      <4> QED
        BY <2>1, <2>4, <4>1 DEF InPlace
    <3> QED
      BY <3>1, <3>2
  <2>7. OnRoute(HandKey)' /\ hand'.finger_print = Finger[HandKey']
    <3>1. /\ pos \in RealSlots /\ KeyAt(pos) \in Keys
          /\ HandKey' = KeyAt(pos)
      BY <1>0, <1>2, CurrentIsReal DEF HandKey, KeyAt
    <3>2. ASSUME NEW k \in Keys, k = KeyAt(pos)
          PROVE  OnRoute(k)' /\ hand'.finger_print = Finger[k]
      <4>1. HomeFor(k) \in Slots(capacity) /\ InPlace(pos, k)
        BY <1>0, <3>1, <3>2, HomeType, ProbedKeys DEF Sound, Routed
      <4>2. /\ Offset(HomeFor(k), NextSlot(pos)) = entries[pos].distance + 1
            /\ PathHeld(HomeFor(k), entries[pos].distance + 1)
        BY <1>0, <1>1, <4>1, PathGrows DEF Sound, InPlace
      <4>3. ASSUME NEW h, h = HomeFor(k), NEW d, d = entries[pos].distance + 1
            PROVE  PathHeld(h, d)'
        BY <1>1, <2>2, <4>1, <4>2, <4>3
      <4> QED
        BY <1>2, <2>1, <3>2, <4>1, <4>2, <4>3 DEF OnRoute, InPlace
    <3> QED
      BY <3>1, <3>2 DEF OnRoute
  <2> QED
    BY <1>0, <1>2, <2>5, <2>6, <2>7 DEF Routed, Placing, Finding, Keyed, Clearing
<1> QED
  BY <1>5, <1>8, <1>10, <1>11, <1>12, <1>13, <1>14 DEF Sound

-----------------------------------------------------------------------------
(* The end of an insertion.                                                 *)

LEMMA PlacedEffect ==
    ASSUME TypeOK, Sound, Placing, ~Current.occupied, entries' = Placed
    PROVE  /\ FirstSwap \in Slots(capacity) /\ pos \in Slots(capacity)
           /\ in_hand => hole # pos
           /\ entries'[pos].occupied
           /\ entries'[pos].distance = distance
           /\ entries'[pos].finger_print = hand.finger_print
           /\ \A p \in Slots(capacity) \ {pos} :
                 /\ entries'[p].occupied <=> entries[p].occupied
                 /\ entries'[p].distance = entries[p].distance
                 /\ entries'[p].finger_print = entries[p].finger_print
           /\ \A p \in Slots(capacity) :
                 entries'[p].data_index = IF p = FirstSwap THEN Current.data_index
                                          ELSE IF p = pos THEN hand.data_index
                                          ELSE entries[p].data_index
<1>0. Probing
  BY DEF Placing, Probing
<1>1. /\ pos \in Slots(capacity) /\ hole \in Slots(capacity) /\ FirstSwap \in Slots(capacity)
      /\ Current.data_index \in Slots(capacity)
  BY <1>0, CurrentType DEF FirstSwap
<1>2. in_hand => hole # pos
  BY DEF Sound, HandSound
<1>3. hand.occupied /\ hand \in HeldEntry
  BY DEF Sound, HandSound, TypeOK, WalkType
<1>4. entries \in [Slots(capacity) -> Entry(capacity)]
  BY DEF TypeOK, TableType
<1> DEFINE e == [hand EXCEPT !.distance = distance]
<1>5. /\ e.occupied /\ e.distance = distance
      /\ e.finger_print = hand.finger_print /\ e.data_index = hand.data_index
      /\ e \in Entry(capacity)
  BY <1>0, <1>3, HandEntryType
<1> HIDE DEF e
<1>6. Filled = [entries EXCEPT ![pos] = e]
  BY DEF Filled, e
<1>7. Placed = [Filled EXCEPT ![FirstSwap] = [@ EXCEPT !.data_index = Current.data_index]]
  BY DEF Placed
<1>8. \A p \in Slots(capacity) : Filled[p] = (IF p = pos THEN e ELSE entries[p]) /\ Filled[p] \in Entry(capacity)
  BY <1>1, <1>4, <1>5, <1>6
<1>9. \A p \in Slots(capacity) :
         entries'[p] = IF p = FirstSwap THEN [Filled[p] EXCEPT !.data_index = Current.data_index]
                                        ELSE Filled[p]
  BY <1>1, <1>4, <1>6, <1>7
<1>10. \A p \in Slots(capacity) :
         /\ entries'[p].occupied <=> Filled[p].occupied
         /\ entries'[p].distance = Filled[p].distance
         /\ entries'[p].finger_print = Filled[p].finger_print
         /\ entries'[p].data_index = IF p = FirstSwap THEN Current.data_index ELSE Filled[p].data_index
  BY <1>8, <1>9 DEF Entry
<1> QED
  BY <1>1, <1>2, <1>5, <1>8, <1>10

(* The data index of the empty slot joins those in use.                     *)
LEMMA PlacedIndexes ==
    ASSUME TypeOK, TypeOK', Sound, Placing, ~Current.occupied, entries' = Placed,
           UNCHANGED capacity, ~in_hand', pc' \in {"idle", "resize"}
    PROVE  /\ HandSound' /\ Distinct'
           /\ pos \notin Occupied /\ Occupied' = Occupied \cup {pos}
           /\ Current.data_index \notin Indexes
           /\ Indexes' = Indexes \cup {Current.data_index}
<1>0. Probing /\ ~Shifting /\ ~Shifting' /\ ~Placing'
  BY DEF Placing, Probing, Shifting
<1>1. /\ pos \in Slots(capacity) /\ hole \in Slots(capacity) /\ in_hand \in BOOLEAN
      /\ ~entries[pos].occupied /\ (in_hand => hole # pos)
  BY <1>0, CurrentType, HandType, PlacedEffect DEF Current
<1>2. HandSound'
  BY <1>0 DEF HandSound
<1>3. pos \notin Occupied /\ Occupied' = Occupied \cup {pos}
  <2>1. \A p \in Slots(capacity) : entries'[p].occupied <=> (p = pos \/ entries[p].occupied)
    BY <1>1, PlacedEffect
  <2> QED
    BY <1>1, <2>1 DEF Occupied
<1>4. \A p \in Slots(capacity) : IndexAt(p)' = IF in_hand /\ p = hole THEN IndexAt(pos)
                                               ELSE IF in_hand /\ p = pos THEN IndexAt(hole)
                                               ELSE IndexAt(p)
  BY <1>1, PlacedEffect DEF IndexAt, FirstSwap, Current
<1>5. Distinct'
  BY <1>1, <1>4 DEF Distinct, Sound
<1>6. Indexes = {IndexAt(p) : p \in Occupied}
  BY <1>0, IndexesAreOfSlots DEF Sound
<1>7. Indexes' = {IndexAt(p)' : p \in Occupied'}
  <2>1. (HandSound /\ TypeOK =>
           Indexes = {IndexAt(p) : p \in IF Shifting THEN Occupied \ {hole} ELSE Occupied})'
    BY IndexesAreOfSlots, PTL
  <2> QED
    BY <1>0, <1>2, <2>1
<1>8. IndexAt(pos) = Current.data_index
  BY <1>1 DEF IndexAt, Current
<1>9. Occupied \subseteq Slots(capacity) /\ (in_hand => hole \in Occupied)
  BY <1>1 DEF Occupied, Sound, HandSound
<1>10. Current.data_index \notin Indexes
  BY <1>1, <1>3, <1>6, <1>8, <1>9 DEF Distinct, Sound
<1>11. Indexes' = Indexes \cup {Current.data_index}
  BY <1>1, <1>3, <1>4, <1>6, <1>7, <1>8, <1>9
<1> QED
  BY <1>2, <1>3, <1>5, <1>10, <1>11

LEMMA PlacedRoutes ==
    ASSUME TypeOK, TypeOK', Sound, Placing, ~Current.occupied, entries' = Placed,
           entry_keys' = [entry_keys EXCEPT ![Current.data_index] = NewKey],
           UNCHANGED capacity, ~in_hand', pc' \in {"idle", "resize"}
    PROVE  Routed'
<1>0. Probing /\ ~Shifting /\ ~Shifting' /\ ~Placing' /\ ~Finding' /\ ~Keyed' /\ ~Clearing
  BY DEF Placing, Probing, Shifting, Finding, Keyed, Clearing
<1>1. /\ pos \in Slots(capacity) /\ hole \in Slots(capacity) /\ in_hand \in BOOLEAN
      /\ Current.data_index \in Slots(capacity)
      /\ ~entries[pos].occupied /\ (in_hand => hole # pos)
      /\ NewKey \in Keys /\ HandKey \in Keys /\ capacity > 0
  BY <1>0, CurrentType, HandType, PlacedEffect, ProbedKeys DEF Current
<1>2. /\ \A k : HomeFor(k)' = HomeFor(k)
      /\ \A h, p : Offset(h, p)' = Offset(h, p)
  BY DEF HomeFor, Offset
<1>3. \A h \in Slots(capacity), d \in Nat : PathHeld(h, d) => PathHeld(h, d)'
  <2>1. ASSUME NEW p \in Slots(capacity), entries[p].occupied
        PROVE  entries'[p].occupied /\ entries'[p].distance >= entries[p].distance
    <3>1. p # pos /\ entries[p].distance \in Nat
      BY <1>1, <2>1, SlotType
    <3> QED
      BY <2>1, <3>1, PlacedEffect
  <2> QED
    BY <1>0, <2>1, PathsKept
<1>4. ASSUME NEW p \in Slots(capacity), p # pos, NEW k \in Keys, InPlace(p, k)
      PROVE  InPlace(p, k)'
  <2>1. HomeFor(k) \in Slots(capacity) /\ entries[p].distance \in Nat
    BY <1>1, <1>4, HomeType, SlotType
  <2>2. ASSUME NEW h, h = HomeFor(k), NEW d, d = entries[p].distance
        PROVE  PathHeld(h, d)'
    BY <1>3, <1>4, <2>1, <2>2 DEF InPlace
  <2> QED
    BY <1>2, <1>4, <2>2, PlacedEffect DEF InPlace
<1>5. ASSUME NEW k, k = HandKey, NEW p, p = pos
      PROVE  InPlace(p, k)'
  <2>1. k \in Keys /\ HomeFor(k) \in Slots(capacity) /\ OnRoute(k) /\ hand.finger_print = Finger[k]
    BY <1>0, <1>1, <1>5, HomeType DEF Sound, Routed
  <2>2. ASSUME NEW h, h = HomeFor(k), NEW d, d = distance
        PROVE  PathHeld(h, d)'
    BY <1>3, <2>1, <2>2, HandType DEF OnRoute
  <2> QED
    BY <1>2, <1>5, <2>1, <2>2, PlacedEffect DEF InPlace, OnRoute
<1>6. entry_keys'[Current.data_index] = NewKey
      /\ \A i \in Indexes : entry_keys'[i] = entry_keys[i]
  BY <1>1, PlacedIndexes DEF TypeOK, TableType
<1>7. ASSUME NEW p \in RealSlots'
      PROVE  InPlace(p, KeyAt(p))'
  <2>1. p \in Slots(capacity) /\ entries'[p].occupied
    BY DEF RealSlots
  <2>2. CASE p = FirstSwap
    <3>0. entries'[p].data_index = Current.data_index
      BY <2>1, <2>2, PlacedEffect
    <3>1. KeyAt(p)' = NewKey
      BY <1>6, <3>0 DEF KeyAt
    <3>2. CASE in_hand
      <4>1. p = hole /\ p # pos /\ InPlace(p, NewKey)
        BY <1>0, <1>1, <2>2, <3>2 DEF FirstSwap, Sound, Routed
      <4>2. ASSUME NEW k \in Keys, k = NewKey PROVE InPlace(p, k)'
        BY <1>4, <2>1, <4>1, <4>2
      <4> QED
        BY <1>1, <3>1, <4>2 DEF InPlace
    <3>3. CASE ~in_hand
      <4>1. p = pos /\ HandKey = NewKey
        BY <2>2, <3>3 DEF FirstSwap, HandKey
      <4> QED
        BY <1>5, <3>1, <4>1 DEF InPlace
    <3> QED
      BY <3>2, <3>3
  <2>3. CASE p # FirstSwap /\ p = pos
    <3>1. in_hand /\ entries'[p].data_index = hand.data_index
      BY <2>1, <2>3, PlacedEffect DEF FirstSwap
    <3>2. KeyAt(p)' = HandKey
      BY <1>0, <1>6, <3>1, ProbedKeys DEF KeyAt, HandKey
    <3> QED
      BY <1>5, <2>3, <3>2 DEF InPlace
  <2>4. CASE p # FirstSwap /\ p # pos
    <3>1. p \in RealSlots /\ entries'[p].data_index = entries[p].data_index
      BY <2>1, <2>4, PlacedEffect DEF RealSlots, FirstSwap
    <3>2. entries[p].data_index \in Indexes /\ KeyAt(p)' = KeyAt(p)
      BY <1>6, <3>1 DEF Indexes, KeyAt
    <3>3. KeyAt(p) \in Keys /\ InPlace(p, KeyAt(p))
      BY <1>0, <3>1, <3>2 DEF Sound, KeysSound, KeysOfTheirOwn, KeyAt, Routed
    <3>4. ASSUME NEW k \in Keys, k = KeyAt(p) PROVE InPlace(p, k)'
      BY <1>4, <2>1, <2>4, <3>3, <3>4
    <3> QED
      BY <3>2, <3>3, <3>4 DEF InPlace
  <2> QED
    BY <2>2, <2>3, <2>4
<1> QED
  BY <1>0, <1>7 DEF Routed

LEMMA InsertPlaceKeepsSound ==
    ASSUME TypeOK, TypeOK', Sound, InsertPlace, failures' = failures
    PROVE  Sound'
<1>0. /\ pc = "insert" /\ pc' = "idle" /\ ~in_hand' /\ Placing /\ Keyed /\ Probing
      /\ ~Current.occupied /\ entries' = Placed /\ capacity' = capacity
      /\ NewKey = key
  BY DEF InsertPlace, Lost, Return, Placing, Keyed, Probing, NewKey
<1>1. /\ entry_keys' = [entry_keys EXCEPT ![Current.data_index] = key]
      /\ size' = size + 1 /\ data_out' = Current.data_index
  <2>1. failures + 1 # failures
    BY DEF TypeOK, CallType
  <2> QED
    BY <2>1 DEF InsertPlace, Return
<1>2. /\ HandSound' /\ Distinct'
      /\ pos \notin Occupied /\ Occupied' = Occupied \cup {pos}
      /\ Current.data_index \notin Indexes
      /\ Indexes' = Indexes \cup {Current.data_index}
  BY <1>0, PlacedIndexes
<1>3. Counted'
  <2>1. Cardinality(Occupied') = size + 1
    <3>1. Occupied \subseteq Slots(capacity) /\ capacity \in Nat /\ Cardinality(Occupied) = size
      BY <1>0, HandType DEF Occupied, Sound, Counted, Shifting, Resizing, Clearing
    <3> QED
      BY <1>2, <3>1, CardinalityAdds
  <2>2. size + 1 < capacity
    BY <1>0 DEF Sound, Counted
  <2> QED
    BY <1>0, <1>1, <2>1, <2>2 DEF Counted, Resizing, Clearing, Shifting
<1>4. KeysSound'
  <2>1. \A i \in Indexes : entry_keys[i] # key
    BY <1>0, KeyIsAbsent DEF Sound, KeysSound
  <2>2. /\ entry_keys'[Current.data_index] = key
        /\ \A i \in Slots(capacity) : i # Current.data_index => entry_keys'[i] = entry_keys[i]
        /\ Indexes \subseteq Slots(capacity)
    <3>1. Indexes \subseteq Slots(capacity)
      BY SlotType, HandType, <1>0 DEF Indexes, RealSlots
    <3> QED
      BY <1>0, <1>1, <3>1, CurrentType DEF TypeOK, TableType
  <2>3. key \in Keys
    BY <1>0 DEF TypeOK
  <2>4. KeysOfTheirOwn(Indexes, entry_keys)'
    BY <1>2, <2>1, <2>2, <2>3 DEF KeysOfTheirOwn, Sound, KeysSound
  <2>5. \A i \in Slots(capacity) \ Indexes' : entry_keys'[i] = NoKey
    BY <1>2, <2>2 DEF Sound, KeysSound
  <2> QED
    BY <1>0, <1>1, <1>2, <2>4, <2>5 DEF KeysSound
<1>5. Routed'
  BY <1>0, <1>1, PlacedRoutes
<1>6. OldSound' /\ IterSound'
  BY <1>0 DEF OldSound, IterSound, Resizing
<1> QED
  BY <1>2, <1>3, <1>4, <1>5, <1>6 DEF Sound

(* The key being rehashed is not in the new arrays yet.                     *)
LEMMA RehashedIsAbsent ==
    ASSUME TypeOK, Sound, pc = "rehash_insert"
    PROVE  /\ entry_index \in Slots(old_capacity) \ Moved
           /\ OldKey \in Keys
           /\ \A i \in Indexes : entry_keys[i] # OldKey
<1>1. entry_index \in Slots(old_capacity) \ Moved
  BY DEF TypeOK, ResizeType, Slots, Moved
<1>2. OldEntry.data_index \in OldIndexes /\ OldKey \in Keys
  BY ProbedKeys DEF Probing, Placing, NewKey
<1>3. ASSUME NEW i \in Indexes, entry_keys[i] = OldKey PROVE FALSE
  <2>1. <<entry_keys[i], entry_data[i]>> \in Pairs(Indexes, entry_keys, entry_data)
    BY DEF Pairs
  <2>2. PICK j \in MovedIndexes : <<entry_keys[i], entry_data[i]>> = <<old_keys[j], old_data[j]>>
    BY <2>1 DEF Pairs, Sound, OldSound, Resizing
  <2>3. PICK p \in Moved : j = old_entries[p].data_index
    BY DEF MovedIndexes
  <2>4. j \in OldIndexes
    BY <2>3 DEF Moved, OldOccupied, OldIndexes
  <2>5. j = OldEntry.data_index
    BY <1>2, <1>3, <2>2, <2>4 DEF Sound, OldSound, Resizing, KeysOfTheirOwn, OldKey
  <2>6. p = entry_index
    BY <1>1, <2>3, <2>5 DEF Sound, OldSound, Resizing, OldEntry, Moved, OldOccupied
  <2> QED
    BY <1>1, <2>6
<1> QED
  BY <1>1, <1>2, <1>3

LEMMA RehashPlaceKeepsSound ==
    ASSUME TypeOK, TypeOK', Sound, RehashPlace
    PROVE  Sound'
<1> DEFINE ci == Current.data_index
           oi == OldEntry.data_index
<1>0. /\ pc = "rehash_insert" /\ pc' = "resize" /\ ~in_hand' /\ Placing /\ Probing /\ Resizing
      /\ ~Current.occupied /\ entries' = Placed /\ capacity' = capacity
      /\ NewKey = OldKey
      /\ UNCHANGED <<old_entries, old_keys, old_data, old_capacity, size, data_out>>
      /\ entry_index' = entry_index + 1
  BY DEF RehashPlace, Placing, Probing, NewKey, Resizing, old_vars, reply_vars
<1>1. /\ entry_keys' = [entry_keys EXCEPT ![ci] = OldKey]
      /\ entry_data' = [entry_data EXCEPT ![ci] = old_data[oi]]
  BY DEF RehashPlace, OldKey
<1>2. /\ HandSound' /\ Distinct'
      /\ pos \notin Occupied /\ Occupied' = Occupied \cup {pos}
      /\ ci \notin Indexes
      /\ Indexes' = Indexes \cup {ci}
  BY <1>0, PlacedIndexes
<1>3. /\ entry_keys'[ci] = OldKey /\ entry_data'[ci] = old_data[oi]
      /\ \A i \in Slots(capacity) : i # ci =>
            entry_keys'[i] = entry_keys[i] /\ entry_data'[i] = entry_data[i]
      /\ Indexes \subseteq Slots(capacity)
  <2>1. Indexes \subseteq Slots(capacity)
    BY SlotType, HandType, <1>0 DEF Indexes, RealSlots
  <2> QED
    BY <1>0, <1>1, <2>1, CurrentType DEF TypeOK, TableType
<1>4. /\ entry_index \in Slots(old_capacity) /\ entry_index \notin Moved
      /\ OldKey \in Keys
      /\ \A i \in Indexes : entry_keys[i] # OldKey
      /\ OldEntry.occupied
  BY <1>0, RehashedIsAbsent DEF Sound, OldSound
<1>5. OldOccupied' = OldOccupied /\ Moved' = Moved \cup {entry_index}
  <2>1. OldOccupied' = OldOccupied
    BY <1>0 DEF OldOccupied
  <2>2. entry_index \in OldOccupied
    BY <1>4 DEF OldOccupied, OldEntry
  <2>3. \A p \in OldOccupied : p < entry_index + 1 <=> (p < entry_index \/ p = entry_index)
    BY <1>4 DEF OldOccupied, Slots
  <2> QED
    BY <1>0, <2>1, <2>2, <2>3 DEF Moved
<1>6. MovedIndexes' = MovedIndexes \cup {oi}
  BY <1>0, <1>5 DEF MovedIndexes, OldEntry
<1>7. Counted'
  <2>1. /\ Moved \subseteq Slots(old_capacity) /\ Occupied \subseteq Slots(capacity)
        /\ capacity \in Nat /\ old_capacity \in Nat /\ capacity = 2 * old_capacity
        /\ Cardinality(Occupied) = Cardinality(Moved) /\ Cardinality(OldOccupied) = size
    BY <1>0, HandType DEF Moved, Occupied, OldOccupied, Sound, Counted, Resizing, TypeOK
  <2>2. /\ Cardinality(Occupied') = Cardinality(Occupied) + 1
        /\ Cardinality(Moved') = Cardinality(Moved) + 1
    BY <1>2, <1>4, <1>5, <2>1, CardinalityAdds
  <2>3. Cardinality(Moved') <= old_capacity /\ Cardinality(Moved') \in Nat
    <3>1. Moved' \subseteq Slots(old_capacity)
      BY <1>4, <1>5, <2>1
    <3> QED
      BY <2>1, <3>1, SlotsFinite
  <2>4. old_capacity > 0
    BY <1>4, <2>1 DEF Slots
  <2> QED
    BY <1>0, <1>5, <2>1, <2>2, <2>3, <2>4 DEF Counted, Resizing, Clearing, Shifting
<1>8. KeysSound'
  <2>1. KeysOfTheirOwn(Indexes, entry_keys)'
    BY <1>2, <1>3, <1>4 DEF KeysOfTheirOwn, Sound, KeysSound
  <2>2. \A i \in Slots(capacity) \ Indexes' : entry_keys'[i] = NoKey
    BY <1>2, <1>3 DEF Sound, KeysSound
  <2> QED
    BY <1>0, <2>1, <2>2 DEF Sound, KeysSound
<1>9. OldSound'
  <2>1. Pairs(Indexes, entry_keys, entry_data)' = Pairs(Indexes, entry_keys, entry_data) \cup {<<OldKey, old_data[oi]>>}
    BY <1>2, <1>3 DEF Pairs
  <2>2. Pairs(MovedIndexes, old_keys, old_data)' = Pairs(MovedIndexes, old_keys, old_data) \cup {<<OldKey, old_data[oi]>>}
    BY <1>0, <1>6 DEF Pairs, OldKey
  <2>3. OldIndexes' = OldIndexes
    BY <1>0 DEF OldIndexes
  <2> QED
    BY <1>0, <2>1, <2>2, <2>3 DEF Sound, OldSound, Resizing, KeysOfTheirOwn
<1>10. Routed'
  BY <1>0, <1>1, PlacedRoutes
<1>11. IterSound'
  BY <1>0 DEF IterSound
<1> QED
  BY <1>2, <1>7, <1>8, <1>9, <1>10, <1>11 DEF Sound

-----------------------------------------------------------------------------
(* Deletion: the entry leaves, and those behind it move up.                 *)

LEMMA DeleteFoundKeepsSound ==
    ASSUME TypeOK, TypeOK', Sound, DeleteFound
    PROVE  Sound'
<1> DEFINE ci == Current.data_index
<1>0. /\ pc = "delete" /\ pc' = "shift_back" /\ Keyed /\ Probing /\ ~Placing /\ Finding
      /\ Current.occupied /\ in_hand' /\ hole' = pos /\ pos' = NextSlot(pos)
      /\ hand' = Freed(Current) /\ hand'.data_index = ci /\ ~hand'.occupied
      /\ UNCHANGED <<entries, capacity, data_out>>
      /\ entry_keys' = [entry_keys EXCEPT ![ci] = NoKey]
      /\ size' = size - 1
  BY DEF DeleteFound, Keyed, Probing, Placing, Finding, Freed, FreeEntry, reply_vars
<1>1. /\ pos \in RealSlots /\ ci \in Indexes /\ ci \in Slots(capacity) /\ pos \in Slots(capacity)
      /\ capacity > 1 /\ capacity \in Nat /\ ~in_hand /\ size \in Nat
  BY <1>0, CurrentIsReal, CurrentType, HandType DEF Sound, HandSound, Shifting
<1>2. HandSound'
  <2>1. NextSlot(pos) # pos
    BY <1>1, NextIsAnother
  <2> QED
    BY <1>0, <1>1, <2>1 DEF HandSound, Placing, Shifting, NextSlot, Current
<1>3. \A p : IndexAt(p)' = IndexAt(p)
  BY <1>0, <1>1 DEF IndexAt, Current
<1>4. Distinct'
  BY <1>0, <1>3 DEF Distinct, Sound
<1>5. RealSlots' = RealSlots \ {pos}
  BY <1>0, <1>1 DEF RealSlots
<1>6. Indexes' = Indexes \ {ci}
  <2>1. Indexes = {entries[p].data_index : p \in RealSlots}
        /\ Indexes' = {entries[p].data_index : p \in RealSlots \ {pos}}
    BY <1>0, <1>1, <1>5 DEF Indexes
  <2>2. \A p \in RealSlots : entries[p].data_index = ci => p = pos
    BY <1>1 DEF Sound, Distinct, IndexAt, RealSlots, Current
  <2> QED
    BY <1>1, <2>1, <2>2 DEF Current
<1>7. Counted'
  <2>1. Occupied' = Occupied
    BY <1>0 DEF Occupied
  <2> QED
    BY <1>0, <1>1, <2>1 DEF Sound, Counted, Resizing, Clearing, Shifting
<1>8. /\ entry_keys'[ci] = NoKey
      /\ \A i \in Slots(capacity) : i # ci => entry_keys'[i] = entry_keys[i]
      /\ Indexes \subseteq Slots(capacity)
  BY <1>0, <1>1, SlotType DEF TypeOK, TableType, Indexes, RealSlots
<1>9. KeysSound'
  BY <1>0, <1>6, <1>8 DEF Sound, KeysSound, KeysOfTheirOwn
<1>10. Routed'
  <2>1. ASSUME NEW p \in RealSlots, p # pos
        PROVE  InPlace(p, KeyAt(p))'
    <3>1. entries[p].data_index # ci /\ entries[p].data_index \in Slots(capacity)
      BY <1>1, <2>1, SlotType DEF Sound, Distinct, IndexAt, RealSlots, Current
    <3>2. KeyAt(p)' = KeyAt(p)
      BY <1>0, <1>8, <3>1 DEF KeyAt
    <3>3. InPlace(p, KeyAt(p))
      BY <1>0, <2>1 DEF Sound, Routed, Clearing
    <3> QED
      BY <1>0, <1>1, <3>2, <3>3 DEF InPlace, PathHeld, Offset, HomeFor
  <2> QED
    BY <1>0, <1>5, <2>1 DEF Routed, Placing, Finding, Keyed
<1>11. OldSound' /\ IterSound'
  BY <1>0 DEF OldSound, IterSound, Resizing
<1> QED
  BY <1>2, <1>4, <1>7, <1>9, <1>10, <1>11 DEF Sound

(* What every step of shift_back starts from.                               *)
LEMMA ShiftingType ==
    ASSUME TypeOK, Sound, Shifting
    PROVE  /\ pos \in Slots(capacity) /\ hole \in Slots(capacity) /\ pos # hole
           /\ pos = NextSlot(hole) /\ NextSlot(pos) # pos
           /\ entries[hole].occupied /\ in_hand /\ ~hand.occupied
           /\ capacity \in Nat /\ capacity > 1
           /\ entries[pos].distance \in Nat
           /\ ~Placing /\ ~Finding /\ ~Keyed /\ ~Resizing /\ ~Clearing
           /\ data_out = NoIndex
<1>0. /\ ~Placing /\ ~Finding /\ ~Keyed /\ ~Resizing /\ ~Clearing /\ Probing
      /\ data_out = NoIndex
  BY DEF Placing, Finding, Keyed, Resizing, Clearing, Probing, Shifting, Sound, KeysSound
<1>1. pos \in Slots(capacity) /\ hole \in Slots(capacity) /\ capacity \in Nat
  BY <1>0, CurrentType, HandType
<1>2. pos = NextSlot(hole) /\ entries[hole].occupied /\ in_hand /\ ~hand.occupied /\ hole # pos
  BY DEF Sound, HandSound
<1>3. capacity > 1
  BY <1>1, <1>2, SlotFree DEF Sound, Slots
<1> QED
  BY <1>0, <1>1, <1>2, <1>3, NextIsAnother, SlotType

(* A path that leads through the hole leads through the slot behind it.     *)
LEMMA PathThroughHole ==
    ASSUME TypeOK, Sound, Shifting, NEW h \in Slots(capacity), NEW p \in Slots(capacity),
           p # pos, PathHeld(h, Offset(h, p)), Offset(h, hole) < Offset(h, p)
    PROVE  /\ Offset(h, pos) = Offset(h, hole) + 1
           /\ entries[pos].occupied
           /\ entries[pos].distance >= Offset(h, hole) + 1
<1>1. /\ pos \in Slots(capacity) /\ hole \in Slots(capacity) /\ pos # hole
      /\ pos = NextSlot(hole) /\ capacity \in Nat
  BY ShiftingType
<1>2. /\ Offset(h, p) \in Slots(capacity) /\ Offset(h, pos) \in Slots(capacity)
      /\ Offset(h, hole) \in Slots(capacity)
  BY <1>1, OffsetInTable
<1>3. Offset(h, pos) = Offset(h, hole) + 1
  BY <1>1, <1>2, OffsetOfNext DEF Slots
<1>4. Offset(h, pos) # Offset(h, p)
  BY <1>1, OffsetInjective
<1>5. Offset(h, pos) < Offset(h, p)
  BY <1>2, <1>3, <1>4 DEF Slots
<1> QED
  BY <1>1, <1>3, <1>5 DEF PathHeld

LEMMA ShiftMoveKeepsSound ==
    ASSUME TypeOK, TypeOK', Sound, ShiftMove
    PROVE  Sound'
<1>0. /\ Shifting /\ Shifting' /\ pc' = pc /\ Current.occupied /\ entries[pos].occupied
      /\ entries[pos].distance > 0
      /\ hole' = pos /\ pos' = NextSlot(pos)
      /\ UNCHANGED <<entry_keys, size, capacity, hand, in_hand, data_out>>
  BY DEF ShiftMove, Shifting, Current, reply_vars
<1>1. /\ pos \in Slots(capacity) /\ hole \in Slots(capacity) /\ pos # hole
      /\ pos = NextSlot(hole) /\ NextSlot(pos) # pos
      /\ entries[hole].occupied /\ in_hand /\ ~hand.occupied
      /\ capacity \in Nat /\ capacity > 1 /\ entries[pos].distance \in Nat
      /\ ~Placing /\ ~Finding /\ ~Keyed /\ ~Resizing /\ ~Clearing
      /\ data_out = NoIndex
  BY <1>0, ShiftingType
<1>2. /\ \A p \in Slots(capacity) : p # hole /\ p # pos => entries'[p] = entries[p]
      /\ \A p \in {hole, pos} :
            /\ entries'[p].occupied
            /\ entries'[p].data_index = entries[pos].data_index
            /\ entries'[p].finger_print = entries[pos].finger_print
            /\ entries'[p].distance = entries[pos].distance - 1
  <2>1. entries' = [entries EXCEPT ![pos] = Closer(entries[pos]), ![hole] = Closer(entries[pos])]
    BY DEF ShiftMove, Current
  <2>2. entries[pos] \in Entry(capacity) /\ entries \in [Slots(capacity) -> Entry(capacity)]
    BY <1>1 DEF TypeOK, TableType
  <2>3. /\ \A p \in Slots(capacity) : p # hole /\ p # pos => entries'[p] = entries[p]
        /\ \A p \in {hole, pos} : entries'[p] = Closer(entries[pos])
    BY <1>1, <2>1, <2>2
  <2>4. /\ Closer(entries[pos]).occupied
        /\ Closer(entries[pos]).data_index = entries[pos].data_index
        /\ Closer(entries[pos]).finger_print = entries[pos].finger_print
        /\ Closer(entries[pos]).distance = entries[pos].distance - 1
    BY <1>0, <2>2 DEF Closer, Entry
  <2> QED
    BY <2>3, <2>4
<1>3. HandSound'
  BY <1>0, <1>1, <1>2 DEF HandSound, Placing, Shifting, NextSlot
<1>4. Occupied' = Occupied
  <2>1. \A p \in Slots(capacity) : entries'[p].occupied <=> entries[p].occupied
    BY <1>0, <1>1, <1>2
  <2> QED
    BY <1>0, <2>1 DEF Occupied
<1>5. \A p \in Slots(capacity) : IndexAt(p)' = IF p = hole THEN IndexAt(pos)
                                               ELSE IF p = pos THEN IndexAt(hole)
                                               ELSE IndexAt(p)
  BY <1>0, <1>1, <1>2 DEF IndexAt
<1>6. Distinct'
  BY <1>0, <1>1, <1>5 DEF Distinct, Sound
<1>7. Indexes' = Indexes
  <2>1. Indexes = {IndexAt(p) : p \in Occupied \ {hole}}
    BY <1>0, IndexesAreOfSlots DEF Sound
  <2>2. Indexes' = {IndexAt(p)' : p \in Occupied' \ {pos}}
    <3>1. (HandSound /\ TypeOK =>
             Indexes = {IndexAt(p) : p \in IF Shifting THEN Occupied \ {hole} ELSE Occupied})'
      BY IndexesAreOfSlots, PTL
    <3> QED
      BY <1>0, <1>3, <3>1
  <2>3. Occupied \subseteq Slots(capacity) /\ pos \in Occupied /\ hole \in Occupied
    BY <1>0, <1>1 DEF Occupied
  <2> QED
    BY <1>1, <1>4, <1>5, <2>1, <2>2, <2>3
<1>8. Counted' /\ KeysSound'
  <2>1. pc = "shift_back" /\ pc' = "shift_back"
    BY <1>0 DEF Shifting
  <2>2. Counted'
    BY <1>0, <1>4, <2>1 DEF Sound, Counted, Resizing, Clearing, Shifting
  <2>3. KeysSound'
    BY <1>0, <1>1, <1>7, <2>1 DEF Sound, KeysSound, KeysOfTheirOwn
  <2> QED
    BY <2>2, <2>3
<1>9. Routed'
  <2>0. /\ \A k : HomeFor(k)' = HomeFor(k)
        /\ \A h, p : Offset(h, p)' = Offset(h, p)
    BY <1>0 DEF HomeFor, Offset
  <2>1. ASSUME NEW p \in RealSlots
        PROVE  /\ p \in Slots(capacity) /\ p # hole
               /\ KeyAt(p) \in Keys /\ InPlace(p, KeyAt(p))
               /\ HomeFor(KeyAt(p)) \in Slots(capacity)
    <3>1. p \in Slots(capacity) /\ p # hole /\ entries[p].data_index \in Indexes
      BY <1>1 DEF RealSlots, Indexes
    <3>2. KeyAt(p) \in Keys /\ InPlace(p, KeyAt(p))
      BY <1>1, <3>1 DEF Sound, Routed, KeysSound, KeysOfTheirOwn, KeyAt
    <3> QED
      BY <1>1, <3>1, <3>2, HomeType
  <2>2. ASSUME NEW p \in RealSlots, p # pos
        PROVE  InPlace(p, KeyAt(p))'
    <3>1. entries'[p] = entries[p] /\ KeyAt(p)' = KeyAt(p)
      BY <1>0, <1>2, <2>1, <2>2 DEF KeyAt
    <3>2. ASSUME NEW h, h = HomeFor(KeyAt(p)), NEW d, d = entries[p].distance
          PROVE  PathHeld(h, d)'
      <4>1. h \in Slots(capacity) /\ PathHeld(h, d) /\ d = Offset(h, p)
        BY <2>1, <3>2 DEF InPlace
      <4>2. ASSUME NEW q \in Slots(capacity), Offset(h, q) < d, q # pos
            PROVE  entries'[q].occupied /\ entries'[q].distance >= Offset(h, q)
        <5>1. CASE q = hole
          <6>1. entries[pos].distance >= Offset(h, hole) + 1
            BY <1>0, <2>1, <2>2, <4>1, <4>2, <5>1, PathThroughHole
          <6>2. Offset(h, hole) \in Nat
            BY <1>1, <4>1, OffsetInTable DEF Slots
          <6> QED
            BY <1>1, <1>2, <5>1, <6>1, <6>2
        <5>2. CASE q # hole
          BY <1>2, <4>1, <4>2, <5>2 DEF PathHeld
        <5> QED
          BY <5>1, <5>2
      <4> QED
        BY <1>0, <1>1, <2>0, <4>2 DEF PathHeld, Shifting
    <3> QED
      BY <2>0, <2>1, <3>1, <3>2 DEF InPlace
  <2>4. ASSUME NEW p, p = hole
        PROVE  InPlace(p, KeyAt(p))'
    <3>1. pos \in RealSlots /\ KeyAt(p)' = KeyAt(pos)
      BY <1>0, <1>1, <1>2, <2>4 DEF RealSlots, KeyAt
    <3>2. ASSUME NEW h, h = HomeFor(KeyAt(pos)), NEW d, d = entries[pos].distance - 1
          PROVE  PathHeld(h, d)' /\ d = Offset(h, p)
      <4>1. h \in Slots(capacity) /\ PathHeld(h, d + 1) /\ d + 1 = Offset(h, pos) /\ d \in Nat
        BY <1>0, <1>1, <2>1, <3>1, <3>2 DEF InPlace
      <4>2. Offset(h, hole) = d
        <5>1. Offset(h, hole) \in Nat
          BY <1>1, <4>1, OffsetInTable DEF Slots
        <5>2. Offset(h, pos) = IF Offset(h, hole) + 1 = capacity THEN 0 ELSE Offset(h, hole) + 1
          BY <1>1, <4>1, OffsetOfNext
        <5> QED
          BY <4>1, <5>1, <5>2
      <4>3. ASSUME NEW q \in Slots(capacity), Offset(h, q) < d
            PROVE  entries'[q].occupied /\ entries'[q].distance >= Offset(h, q)
        <5>1. q # hole /\ q # pos /\ Offset(h, q) < d + 1
          BY <1>1, <4>1, <4>2, <4>3, OffsetInTable DEF Slots
        <5> QED
          BY <1>2, <4>1, <4>3, <5>1 DEF PathHeld
      <4> QED
        BY <1>0, <1>1, <2>0, <2>4, <4>2, <4>3 DEF PathHeld
    <3>3. entries'[p].distance = entries[pos].distance - 1
          /\ entries'[p].finger_print = Finger[KeyAt(pos)]
      BY <1>2, <2>1, <2>4, <3>1 DEF InPlace
    <3> QED
      BY <2>0, <3>1, <3>2, <3>3 DEF InPlace
  <2>5. \A p \in RealSlots' : p = hole \/ (p \in RealSlots /\ p # pos)
    BY <1>0, <1>1, <1>2 DEF RealSlots
  <2> QED
    BY <1>0, <1>1, <2>2, <2>4, <2>5 DEF Routed, Placing, Finding, Keyed
<1>10. OldSound' /\ IterSound'
  BY <1>0 DEF OldSound, IterSound, Resizing, Shifting
<1> QED
  BY <1>3, <1>6, <1>8, <1>9, <1>10 DEF Sound

LEMMA ShiftStopKeepsSound ==
    ASSUME TypeOK, TypeOK', Sound, ShiftStop
    PROVE  Sound'
<1>0. /\ Shifting /\ pc' = "idle" /\ ~in_hand' /\ data_out' = NoIndex
      /\ entries' = [entries EXCEPT ![hole] = hand]
      /\ ~entries[pos].occupied \/ entries[pos].distance = 0
      /\ UNCHANGED <<entry_keys, size, capacity>>
  BY DEF ShiftStop, Shifting, Current, Return
<1>1. /\ pos \in Slots(capacity) /\ hole \in Slots(capacity) /\ pos # hole
      /\ pos = NextSlot(hole)
      /\ entries[hole].occupied /\ in_hand /\ ~hand.occupied
      /\ capacity \in Nat /\ capacity > 1 /\ entries[pos].distance \in Nat
      /\ ~Clearing
  BY <1>0, ShiftingType
<1>2. /\ \A p \in Slots(capacity) : p # hole => entries'[p] = entries[p]
      /\ entries'[hole] = hand
  BY <1>0, <1>1 DEF TypeOK, TableType
<1>3. HandSound'
  BY <1>0 DEF HandSound, Placing, Shifting
<1>4. Occupied' = Occupied \ {hole} /\ hole \in Occupied /\ Occupied \subseteq Slots(capacity)
  <2>1. \A p \in Slots(capacity) : entries'[p].occupied <=> (p # hole /\ entries[p].occupied)
    BY <1>1, <1>2
  <2> QED
    BY <1>0, <1>1, <2>1 DEF Occupied
<1>5. \A p \in Slots(capacity) : IndexAt(p)' = IndexAt(p)
  BY <1>0, <1>1, <1>2 DEF IndexAt
<1>6. Distinct'
  BY <1>0, <1>5 DEF Distinct, Sound
<1>7. RealSlots' = RealSlots
  BY <1>0, <1>1, <1>2 DEF RealSlots
<1>8. Indexes' = Indexes
  <2>1. \A p \in RealSlots : entries'[p].data_index = entries[p].data_index
    BY <1>1, <1>2 DEF RealSlots
  <2> QED
    BY <1>0, <1>1, <1>7, <2>1 DEF Indexes
<1>9. Counted'
  <2>1. Cardinality(Occupied) = size + 1 /\ Cardinality(Occupied) < capacity /\ size \in Nat
    BY <1>0, <1>1, HandType DEF Sound, Counted, Shifting, Resizing, Clearing
  <2>2. Cardinality(Occupied') = size
    BY <1>1, <1>4, <2>1, CardinalityDrops
  <2>3. Cardinality(Occupied') < capacity'
    BY <1>0, <1>1, <2>1, <2>2
  <2>4. size' = size
    BY <1>0
  <2> QED
    BY <1>0, <2>2, <2>3, <2>4 DEF Counted, Resizing, Clearing, Shifting
<1>10. KeysSound'
  BY <1>0, <1>8 DEF Sound, KeysSound, KeysOfTheirOwn
<1>11. Routed'
  <2>0. /\ \A k : HomeFor(k)' = HomeFor(k)
        /\ \A h, p : Offset(h, p)' = Offset(h, p)
    BY <1>0 DEF HomeFor, Offset
  <2>1. ASSUME NEW p \in RealSlots
        PROVE  InPlace(p, KeyAt(p))'
    <3>1. p \in Slots(capacity) /\ p # hole /\ entries[p].occupied /\ entries[p].data_index \in Indexes
      BY <1>1 DEF RealSlots, Indexes
    <3>2. KeyAt(p) \in Keys /\ InPlace(p, KeyAt(p))
      BY <1>1, <3>1 DEF Sound, Routed, KeysSound, KeysOfTheirOwn, KeyAt
    <3>3. entries'[p] = entries[p] /\ KeyAt(p)' = KeyAt(p)
      BY <1>0, <1>2, <3>1 DEF KeyAt
    <3>4. ASSUME NEW h, h = HomeFor(KeyAt(p)), NEW d, d = entries[p].distance
          PROVE  PathHeld(h, d)'
      <4>1. h \in Slots(capacity) /\ PathHeld(h, d) /\ d = Offset(h, p)
        BY <1>1, <3>2, <3>4, HomeType DEF InPlace
      <4>2. ~(Offset(h, hole) < d)
        <5>1. SUFFICES ASSUME Offset(h, hole) < d PROVE FALSE
          OBVIOUS
        <5>2. Offset(h, hole) \in Nat
          BY <1>1, <4>1, OffsetInTable DEF Slots
        <5>3. CASE p = pos
          BY <1>0, <1>1, <3>1, <3>4, <5>1, <5>2, <5>3
        <5>4. CASE p # pos
          BY <1>0, <1>1, <3>1, <4>1, <5>1, <5>2, <5>4, PathThroughHole
        <5> QED
          BY <5>3, <5>4
      <4>3. ASSUME NEW q \in Slots(capacity), Offset(h, q) < d
            PROVE  entries'[q].occupied /\ entries'[q].distance >= Offset(h, q)
        BY <1>2, <4>1, <4>2, <4>3 DEF PathHeld
      <4> QED
        BY <1>0, <2>0, <4>3 DEF PathHeld
    <3> QED
      BY <2>0, <3>2, <3>3, <3>4 DEF InPlace
  <2> QED
    BY <1>0, <1>7, <2>1 DEF Routed, Placing, Finding, Keyed
<1>12. OldSound' /\ IterSound'
  BY <1>0 DEF OldSound, IterSound, Resizing
<1> QED
  BY <1>3, <1>6, <1>9, <1>10, <1>11, <1>12 DEF Sound

-----------------------------------------------------------------------------
(* Allocation, resizing, clearing.                                          *)

(* Fresh arrays hold nothing.                                               *)
LEMMA FreshTable ==
    ASSUME NEW c \in Nat, capacity' = c, entries' = FreshEntries(c),
           entry_keys' = [i \in Slots(c) |-> NoKey], ~in_hand'
    PROVE  /\ Occupied' = {} /\ RealSlots' = {} /\ Indexes' = {}
           /\ Distinct'
           /\ Cardinality(Occupied') = 0
           /\ \A i \in Slots(c) : entry_keys'[i] = NoKey
<1>1. \A p \in Slots(c) : ~entries'[p].occupied /\ entries'[p].data_index = p
  BY DEF FreshEntries, FreeEntry
<1>2. Occupied' = {} /\ RealSlots' = {}
  BY <1>1 DEF Occupied, RealSlots
<1>3. Indexes' = {}
  BY <1>2 DEF Indexes
<1>4. Distinct'
  BY <1>1 DEF Distinct, IndexAt
<1> QED
  BY <1>2, <1>3, <1>4, FS_EmptySet

LEMMA InitTableKeepsSound ==
    ASSUME TypeOK, Sound, InitTable
    PROVE  Sound'
<1>1. pc = "idle" /\ pc' = "idle" /\ ~in_hand /\ ~in_hand' /\ data_out' = NoIndex
      /\ NoWalk
  BY DEF InitTable, NoWalk, walk_vars, Sound, HandSound, Placing, Shifting
<1>2. CASE ret' = "ALLOC_FAIL" /\ UNCHANGED <<array_vars, capacity, size>>
  BY <1>1, <1>2, RefusedKeepsSound DEF InitTable
<1>3. CASE /\ entries' = FreshEntries(InitCapacity)
           /\ entry_keys' = [i \in Slots(InitCapacity) |-> NoKey]
           /\ capacity' = InitCapacity /\ size' = 0
  <2>1. /\ InitCapacity \in Nat /\ InitCapacity > 0
        /\ Occupied' = {} /\ RealSlots' = {} /\ Indexes' = {}
        /\ Distinct' /\ Cardinality(Occupied') = 0
        /\ \A i \in Slots(InitCapacity) : entry_keys'[i] = NoKey
    BY <1>1, <1>3, FreshTable, ConstantsAssumption
  <2>2. HandSound' /\ OldSound' /\ IterSound'
    BY <1>1 DEF HandSound, OldSound, IterSound, Placing, Shifting, Resizing
  <2>3. Counted'
    BY <1>1, <1>3, <2>1 DEF Counted, Shifting, Resizing, Clearing
  <2>4. KeysSound'
    BY <1>1, <1>3, <2>1 DEF KeysSound, KeysOfTheirOwn
  <2>5. Routed'
    BY <1>1, <2>1 DEF Routed, Placing, Finding, Keyed
  <2> QED
    BY <2>1, <2>2, <2>3, <2>4, <2>5 DEF Sound
<1> QED
  BY <1>2, <1>3 DEF InitTable

LEMMA ResizeKeepsSound ==
    ASSUME TypeOK, Sound, Resize
    PROVE  Sound'
<1>1. pc = "idle" /\ ~in_hand /\ initialized /\ capacity \in Nat /\ capacity > 0
      /\ UNCHANGED <<size, seen, failures>>
  BY HandType DEF Resize, Sound, HandSound, Placing, Shifting, initialized
<1>2. CASE NoWalk /\ data_out' = NoIndex /\ UNCHANGED <<array_vars, capacity, old_vars, entry_index>>
  BY <1>1, <1>2, RefusedKeepsSound
<1>3. CASE /\ old_entries' = entries
           /\ old_keys' = entry_keys
           /\ old_capacity' = capacity
           /\ entries' = FreshEntries(2 * capacity)
           /\ entry_keys' = [i \in Slots(2 * capacity) |-> NoKey]
           /\ capacity' = 2 * capacity
           /\ entry_index' = 0
           /\ Begin("resize", NoKey, NoValue, 0, NoHand)
  <2>1. pc' = "resize" /\ ~in_hand' /\ data_out' = NoIndex
    BY <1>3 DEF Begin
  <2>2. /\ 2 * capacity \in Nat
        /\ Occupied' = {} /\ RealSlots' = {} /\ Indexes' = {}
        /\ Distinct' /\ Cardinality(Occupied') = 0
        /\ \A i \in Slots(2 * capacity) : entry_keys'[i] = NoKey
    BY <1>1, <1>3, <2>1, FreshTable
  <2>3. OldOccupied' = Occupied /\ Moved' = {}
    <3>1. OldOccupied' = Occupied
      BY <1>3 DEF OldOccupied, Occupied
    <3>2. \A p \in Occupied : ~(p < 0)
      BY <1>1 DEF Occupied, Slots
    <3> QED
      BY <1>3, <3>1, <3>2 DEF Moved
  <2>4. HandSound' /\ IterSound'
    BY <2>1 DEF HandSound, IterSound, Placing, Shifting
  <2>5. Counted'
    <3>1. Cardinality(Occupied) = size
      BY <1>1 DEF Sound, Counted, Shifting, Resizing, Clearing
    <3> QED
      BY <1>1, <1>3, <2>1, <2>2, <2>3, <3>1, FS_EmptySet DEF Counted, Shifting, Resizing, Clearing
  <2>6. KeysSound'
    BY <1>3, <2>1, <2>2 DEF KeysSound, KeysOfTheirOwn
  <2>7. OldSound'
    <3>1. OldIndexes' = Indexes
      BY <1>1, <1>3 DEF OldIndexes, Indexes, RealSlots
    <3>2. KeysOfTheirOwn(OldIndexes, old_keys)'
      BY <1>3, <3>1 DEF KeysOfTheirOwn, Sound, KeysSound
    <3>3. \A p, q \in Slots(capacity) : entries[p].data_index = entries[q].data_index => p = q
      BY <1>1 DEF Sound, Distinct, IndexAt
    <3>4. Pairs(Indexes, entry_keys, entry_data)' = {} /\ Pairs(MovedIndexes, old_keys, old_data)' = {}
      BY <2>2, <2>3 DEF Pairs, MovedIndexes
    <3> QED
      BY <1>3, <2>1, <3>2, <3>3, <3>4 DEF OldSound
  <2>8. Routed'
    BY <2>1, <2>2 DEF Routed, Placing, Finding, Keyed
  <2> QED
    BY <2>2, <2>4, <2>5, <2>6, <2>7, <2>8 DEF Sound
<1> QED
  BY <1>2, <1>3 DEF Resize

LEMMA ResizeSkipKeepsSound ==
    ASSUME TypeOK, Sound, ResizeSkip
    PROVE  Sound'
<1>1. /\ pc = "resize" /\ pc' = "resize" /\ ~in_hand /\ ~in_hand' /\ data_out' = data_out
      /\ entry_index' = entry_index + 1 /\ ~OldEntry.occupied
      /\ UNCHANGED <<array_vars, size, capacity, old_vars>>
  BY DEF ResizeSkip, NoWalk, walk_vars, reply_vars, Sound, HandSound, Placing, Shifting
<1>2. OldOccupied' = OldOccupied /\ Moved' = Moved
  <2>1. OldOccupied' = OldOccupied /\ entry_index \notin OldOccupied
    BY <1>1 DEF OldOccupied, OldEntry, old_vars
  <2>2. entry_index \in Nat /\ \A p \in OldOccupied : p \in Nat
    BY DEF TypeOK, ResizeType, OldOccupied, Slots
  <2> QED
    BY <1>1, <2>1, <2>2 DEF Moved
<1>3. HandSound' /\ IterSound'
  BY <1>1 DEF HandSound, IterSound, Placing, Shifting
<1>4. Distinct' /\ Counted'
  BY <1>1, <1>2, SameEntries DEF Sound, Counted, Resizing, Clearing, Shifting
<1>5. KeysSound'
  BY <1>1, SameEntries DEF Sound, KeysSound, KeysOfTheirOwn, array_vars
<1>6. OldSound'
  BY <1>1, <1>2, SameEntries DEF Sound, OldSound, Resizing, array_vars, old_vars, MovedIndexes, OldIndexes, KeysOfTheirOwn
<1>7. Routed'
  BY <1>1, SameEntries DEF Sound, Routed, Placing, Finding, Keyed, Clearing
<1> QED
  BY <1>3, <1>4, <1>5, <1>6, <1>7 DEF Sound

LEMMA ResizeEntryKeepsSound ==
    ASSUME TypeOK, Sound, ResizeEntry
    PROVE  Sound'
<1>1. PICK k \in Keys :
          /\ old_keys[OldEntry.data_index] \in {k, NoKey}
          /\ Begin("rehash_insert", NoKey, NoValue, HomeFor(k), NewEntry(Finger[k]))
  BY DEF ResizeEntry, HomeFor
<1>2. /\ pc = "resize" /\ pc' = "rehash_insert" /\ ~in_hand /\ ~in_hand' /\ data_out' = NoIndex
      /\ pos' = HomeFor(k) /\ distance' = 0 /\ hand' = NewEntry(Finger[k])
      /\ UNCHANGED <<array_vars, size, capacity, old_vars, entry_index>>
      /\ OldEntry.occupied
  BY <1>1 DEF ResizeEntry, Begin, Sound, HandSound, Placing, Shifting
<1>3. OldKey = k /\ OldKey' = k
  <2>1. entry_index \in Slots(old_capacity)
    BY DEF ResizeEntry, TypeOK, ResizeType, Slots
  <2>2. OldEntry.data_index \in OldIndexes
    BY <1>2, <2>1 DEF OldIndexes, OldEntry
  <2>3. old_keys[OldEntry.data_index] \in Keys
    BY <1>2, <2>2 DEF Sound, OldSound, Resizing, KeysOfTheirOwn
  <2> QED
    BY <1>1, <1>2, <2>3, ConstantsAssumption DEF OldKey, OldEntry, old_vars
<1>4. HandSound' /\ IterSound'
  BY <1>2 DEF HandSound, IterSound, Placing, Shifting, NewEntry
<1>5. Distinct' /\ Counted'
  BY <1>2, SameEntries DEF Sound, Counted, Resizing, Clearing, Shifting, Moved, OldOccupied, old_vars
<1>6. KeysSound'
  BY <1>2, SameEntries DEF Sound, KeysSound, KeysOfTheirOwn, array_vars
<1>7. OldSound'
  BY <1>2, SameEntries DEF Sound, OldSound, Resizing, array_vars, old_vars, MovedIndexes, Moved, OldOccupied, OldIndexes, OldEntry, KeysOfTheirOwn
<1>8. Routed'
  <2>1. capacity > 0 /\ capacity \in Nat
    BY <1>2, HandType DEF ResizeEntry, TypeOK, Resizing, ResizeType
  <2>2. HomeFor(k) \in Slots(capacity)
    BY <2>1, HomeType
  <2>3. Offset(HomeFor(k), HomeFor(k)) = 0 /\ PathHeld(HomeFor(k), 0)
    BY <2>1, <2>2, OffsetInTable, NoPath
  <2>4. HandKey' = k /\ NewKey' = k
    BY <1>2, <1>3 DEF HandKey, NewKey
  <2>5. OnRoute(k)'
    BY <1>2, <2>3, SameEntries DEF OnRoute
  <2>6. \A p \in RealSlots : InPlace(p, KeyAt(p))
    BY <1>2 DEF Sound, Routed, Clearing
  <2>7. hand'.finger_print = Finger[k]
    BY <1>2 DEF NewEntry
  <2> QED
    BY <1>2, <2>4, <2>5, <2>6, <2>7, SameEntries DEF Routed, Placing, Finding, Keyed, Clearing, OnRoute
<1> QED
  BY <1>4, <1>5, <1>6, <1>7, <1>8 DEF Sound

LEMMA ResizeDoneKeepsSound ==
    ASSUME TypeOK, Sound, ResizeDone
    PROVE  Sound'
<1>1. /\ pc = "resize" /\ pc' = "idle" /\ ~in_hand /\ ~in_hand' /\ data_out' = NoIndex
      /\ entry_index = old_capacity
      /\ UNCHANGED <<array_vars, size, capacity>>
  BY DEF ResizeDone, Return, Sound, HandSound, Placing, Shifting
<1>2. Moved = OldOccupied
  BY <1>1 DEF Moved, OldOccupied, Slots, TypeOK, ResizeType
<1>3. HandSound' /\ IterSound' /\ OldSound'
  BY <1>1 DEF HandSound, IterSound, OldSound, Placing, Shifting, Resizing
<1>4. Distinct' /\ Counted'
  BY <1>1, <1>2, SameEntries DEF Sound, Counted, Resizing, Clearing, Shifting
<1>5. KeysSound'
  BY <1>1, SameEntries DEF Sound, KeysSound, KeysOfTheirOwn, array_vars
<1>6. Routed'
  BY <1>1, SameEntries DEF Sound, Routed, Placing, Finding, Keyed, Clearing
<1> QED
  BY <1>3, <1>4, <1>5, <1>6 DEF Sound

LEMMA ClearSlotKeepsSound ==
    ASSUME TypeOK, Sound, ClearSlot
    PROVE  Sound'
<1>1. /\ Clearing /\ Clearing' /\ pc' = pc /\ pos < capacity /\ pos' = pos + 1
      /\ UNCHANGED <<size, capacity, in_hand, data_out>>
      /\ ~Shifting /\ ~Placing /\ ~Resizing /\ pc # "iterate" /\ pc # "crashed" /\ pc # "idle"
  BY DEF ClearSlot, Clearing, Shifting, Placing, Resizing, reply_vars
<1>2. ~in_hand /\ ~in_hand' /\ pos \in Slots(capacity) /\ capacity \in Nat
      /\ data_out = NoIndex
  BY <1>1, HandType DEF Sound, HandSound, KeysSound, TypeOK, WalkType, Slots
<1>3. HandSound' /\ OldSound' /\ IterSound' /\ Routed'
  BY <1>1, <1>2 DEF HandSound, OldSound, IterSound, Routed, Placing, Shifting, Resizing
<1>4. CASE ~Current.occupied /\ UNCHANGED array_vars
  <2>1. \A p \in Slots(capacity) : p < pos + 1 => ~entries[p].occupied
    <3>1. \A p \in Slots(capacity) : p < pos + 1 => p < pos \/ p = pos
      BY <1>2 DEF Slots
    <3> QED
      BY <1>1, <1>4, <3>1 DEF Sound, Counted, Current
  <2>2. Distinct' /\ Counted'
    BY <1>1, <1>2, <1>4, <2>1, SameEntries
    DEF Sound, Counted, array_vars, Resizing, Placing, Shifting, Clearing
  <2>3. KeysSound'
    BY <1>1, <1>2, <1>4, SameEntries DEF Sound, KeysSound, KeysOfTheirOwn, array_vars
  <2> QED
    BY <1>3, <2>2, <2>3 DEF Sound
<1>5. CASE /\ Current.occupied
           /\ entries' = [entries EXCEPT ![pos] = Freed(Current)]
           /\ entry_keys' = [entry_keys EXCEPT ![Current.data_index] = NoKey]
  <2> DEFINE ci == entries[pos].data_index
  <2>1. /\ \A p \in Slots(capacity) : p # pos => entries'[p] = entries[p]
        /\ ~entries'[pos].occupied /\ entries'[pos].data_index = ci
        /\ ci \in Slots(capacity)
    BY <1>2, <1>5, SlotType DEF TypeOK, TableType, Freed, FreeEntry, Current
  <2>2. /\ \A i \in Slots(capacity) : i # ci => entry_keys'[i] = entry_keys[i]
        /\ entry_keys'[ci] = NoKey
    BY <1>5, <2>1 DEF TypeOK, TableType, Current
  <2>3. RealSlots' = RealSlots \ {pos} /\ Occupied' = Occupied \ {pos} /\ pos \in RealSlots
    <3>1. \A p \in Slots(capacity) : entries'[p].occupied <=> (p # pos /\ entries[p].occupied)
      BY <2>1
    <3> QED
      BY <1>1, <1>2, <1>5, <3>1 DEF RealSlots, Occupied, Current
  <2>4. Distinct'
    BY <1>1, <1>2, <2>1 DEF Distinct, IndexAt, Sound
  <2>5. Indexes' = Indexes \ {ci} /\ Indexes \subseteq Slots(capacity)
    <3>1. Indexes = {entries[p].data_index : p \in RealSlots}
      BY <1>2 DEF Indexes
    <3>2. Indexes' = {entries[p].data_index : p \in RealSlots \ {pos}}
      <4>1. Indexes' = {entries'[p].data_index : p \in RealSlots \ {pos}}
        BY <1>2, <2>3 DEF Indexes
      <4>2. \A p \in RealSlots \ {pos} : entries'[p].data_index = entries[p].data_index
        BY <2>1 DEF RealSlots
      <4> QED
        BY <4>1, <4>2
    <3>3. \A p \in RealSlots : entries[p].data_index = ci => p = pos
      BY <1>2 DEF Sound, Distinct, IndexAt, RealSlots
    <3> QED
      BY <2>3, <3>1, <3>2, <3>3, SlotType DEF RealSlots
  <2>6. Counted'
    <3>1. /\ Occupied \subseteq Slots(capacity) /\ pos \in Occupied
          /\ Cardinality(Occupied) < capacity /\ Cardinality(Occupied) \in Nat
      BY <1>1, <1>2, <1>5, SlotsFinite DEF Sound, Counted, Occupied, Current, Slots
    <3>2. Cardinality(Occupied') < capacity
      BY <1>2, <2>3, <3>1, CardinalityDrops
    <3>3. \A p \in Slots(capacity) : p < pos + 1 => ~entries'[p].occupied
      <4>1. \A p \in Slots(capacity) : p < pos + 1 => p < pos \/ p = pos
        BY <1>2 DEF Slots
      <4> QED
        BY <1>1, <2>1, <4>1 DEF Sound, Counted
    <3> QED
      BY <1>1, <3>2, <3>3 DEF Counted, Resizing, Clearing, Shifting
  <2>7. KeysSound'
    BY <1>1, <1>2, <2>2, <2>5 DEF Sound, KeysSound, KeysOfTheirOwn
  <2> QED
    BY <1>3, <2>4, <2>6, <2>7 DEF Sound
<1> QED
  BY <1>4, <1>5 DEF ClearSlot

LEMMA ClearDoneKeepsSound ==
    ASSUME TypeOK, Sound, ClearDone
    PROVE  Sound'
<1>1. /\ Clearing /\ pos = capacity /\ size' = 0
      /\ pc' = "idle" /\ ~in_hand' /\ data_out' = NoIndex
  BY DEF ClearDone, Return
<1>2. ~in_hand /\ capacity \in Nat /\ pc # "insert"
  BY <1>1, HandType DEF Sound, HandSound, Clearing, Placing, Shifting
<1>3. HandSound' /\ OldSound' /\ IterSound'
  BY <1>1 DEF HandSound, OldSound, IterSound, Placing, Shifting, Resizing
<1>4. CASE UNCHANGED <<array_vars, capacity>>
  <2>1. Occupied = {} /\ RealSlots = {} /\ Indexes = {}
    <3>1. \A p \in Slots(capacity) : ~entries[p].occupied
      BY <1>1, <1>2 DEF Sound, Counted, Slots
    <3> QED
      BY <1>2, <3>1 DEF Occupied, RealSlots, Indexes
  <2>2. Distinct' /\ Counted'
    BY <1>1, <1>2, <1>4, <2>1, SameEntries, FS_EmptySet DEF Sound, Counted, Resizing, Clearing, Shifting
  <2>3. KeysSound'
    BY <1>1, <1>2, <1>4, <2>1, SameEntries DEF Sound, KeysSound, KeysOfTheirOwn, array_vars
  <2>4. Routed'
    BY <1>1, <1>2, <1>4, <2>1, SameEntries DEF Routed, Placing, Finding, Keyed
  <2> QED
    BY <1>3, <2>2, <2>3, <2>4 DEF Sound
<1>5. CASE /\ entries' = FreshEntries(0)
           /\ entry_keys' = [i \in Slots(0) |-> NoKey]
           /\ capacity' = 0
  <2>1. /\ Occupied' = {} /\ RealSlots' = {} /\ Indexes' = {}
        /\ Distinct' /\ Cardinality(Occupied') = 0
        /\ \A i \in Slots(0) : entry_keys'[i] = NoKey
    BY <1>1, <1>5, FreshTable
  <2>2. Counted'
    BY <1>1, <1>5, <2>1 DEF Counted, Shifting, Resizing, Clearing
  <2>3. KeysSound'
    BY <1>1, <1>5, <2>1 DEF KeysSound, KeysOfTheirOwn
  <2>4. Routed'
    BY <1>1, <2>1 DEF Routed, Placing, Finding, Keyed
  <2> QED
    BY <1>3, <2>1, <2>2, <2>3, <2>4 DEF Sound
<1> QED
  BY <1>4, <1>5 DEF ClearDone

-----------------------------------------------------------------------------
(* Iterating, and writing through a pointer.                                *)

(* What an iterator that goes on to slot n has seen.                        *)
LEMMA NextVisited ==
    ASSUME TypeOK, ~in_hand, NEW from \in 0 .. capacity + 1, NEW n \in from .. capacity,
           IsNextOccupied(from, n)
    PROVE  {KeyAt(p) : p \in {q \in RealSlots : q <= n}} =
               {KeyAt(p) : p \in {q \in RealSlots : q <= from - 1}} \cup IterSeen(n)
<1>1. capacity \in Nat /\ from \in Nat /\ n \in Nat /\ from <= n /\ n <= capacity
  BY HandType
<1>2. \A q \in RealSlots : q \in Int /\ q < capacity /\ entries[q].occupied
  BY <1>1 DEF RealSlots, Slots
<1>3. \A q \in RealSlots : q <= n <=> (q <= from - 1 \/ q = n)
  BY <1>1, <1>2 DEF IsNextOccupied
<1>4. CASE n = capacity
  <2>1. {q \in RealSlots : q <= n} = {q \in RealSlots : q <= from - 1}
    BY <1>2, <1>3, <1>4
  <2> QED
    BY <1>4, <2>1 DEF IterSeen
<1>5. CASE n # capacity
  <2>1. n \in RealSlots
    BY <1>1, <1>5 DEF IsNextOccupied, RealSlots, Slots
  <2>2. {q \in RealSlots : q <= n} = {q \in RealSlots : q <= from - 1} \cup {n}
    BY <1>3, <2>1
  <2>3. IterSeen(n) = {KeyAt(n)}
    BY <1>5 DEF IterSeen, KeyAt
  <2> QED
    BY <2>2, <2>3
<1> QED
  BY <1>4, <1>5

LEMMA IterInitKeepsSound ==
    ASSUME TypeOK, Sound, IterInit
    PROVE  Sound'
<1>1. PICK n \in 0 .. capacity :
          /\ IsNextOccupied(0, n)
          /\ Begin("iterate", NoKey, NoValue, n, NoHand)
          /\ seen' = IterSeen(n)
  BY DEF IterInit
<1>2. /\ pc = "idle" /\ pc' = "iterate" /\ ~in_hand /\ ~in_hand' /\ data_out' = NoIndex
      /\ pos' = n /\ capacity \in Nat
      /\ UNCHANGED <<array_vars, size, capacity>>
  BY <1>1, HandType DEF IterInit, Begin, Sound, HandSound, Placing, Shifting
<1>3. HandSound' /\ OldSound'
  BY <1>2 DEF HandSound, OldSound, Placing, Shifting, Resizing
<1>4. Distinct' /\ Counted'
  BY <1>2, SameEntries DEF Sound, Counted, Resizing, Clearing, Shifting
<1>5. KeysSound'
  BY <1>2, SameEntries DEF Sound, KeysSound, KeysOfTheirOwn, array_vars
<1>6. Routed'
  BY <1>2, SameEntries DEF Sound, Routed, Placing, Finding, Keyed, Clearing
<1>7. IterSound'
  <2>1. {q \in RealSlots : q <= 0 - 1} = {}
    BY <1>2 DEF RealSlots, Slots
  <2>2. {KeyAt(p) : p \in {q \in RealSlots : q <= n}} = IterSeen(n)
    <3>1. 0 \in 0 .. capacity + 1
      BY <1>2
    <3> QED
      BY <1>1, <1>2, <2>1, <3>1, NextVisited
  <2>3. Visited' = {q \in RealSlots : q <= n}
    BY <1>2, SameEntries DEF Visited
  <2> QED
    BY <1>1, <1>2, <2>2, <2>3, SameEntries DEF IterSound
<1> QED
  BY <1>3, <1>4, <1>5, <1>6, <1>7 DEF Sound

LEMMA IterNextKeepsSound ==
    ASSUME TypeOK, Sound, IterNext
    PROVE  Sound'
<1>1. PICK n \in IterFrom .. capacity :
          /\ IsNextOccupied(IterFrom, n)
          /\ pos' = n
          /\ seen' = seen \cup IterSeen(n)
  BY DEF IterNext
<1>2. /\ pc = "iterate" /\ pc' = "iterate" /\ ~in_hand /\ ~in_hand' /\ data_out' = data_out
      /\ capacity \in Nat /\ pos \in Nat /\ pos < capacity
      /\ UNCHANGED <<array_vars, size, capacity>>
  BY HandType DEF IterNext, Sound, HandSound, Placing, Shifting, reply_vars, TypeOK, WalkType
<1>3. HandSound' /\ OldSound'
  BY <1>2 DEF HandSound, OldSound, Placing, Shifting, Resizing
<1>4. Distinct' /\ Counted'
  BY <1>2, SameEntries DEF Sound, Counted, Resizing, Clearing, Shifting
<1>5. KeysSound'
  BY <1>2, SameEntries DEF Sound, KeysSound, KeysOfTheirOwn, array_vars
<1>6. Routed'
  BY <1>2, SameEntries DEF Sound, Routed, Placing, Finding, Keyed, Clearing
<1>7. IterSound'
  <2>1. {KeyAt(p) : p \in {q \in RealSlots : q <= n}} =
            {KeyAt(p) : p \in {q \in RealSlots : q <= pos}} \cup IterSeen(n)
    <3>1. IterFrom \in 0 .. capacity + 1 /\ IterFrom - 1 = pos
      BY <1>2 DEF IterFrom
    <3> QED
      BY <1>1, <1>2, <3>1, NextVisited
  <2>2. Visited' = {q \in RealSlots : q <= n}
    BY <1>1, <1>2, SameEntries DEF Visited
  <2>3. seen = {KeyAt(p) : p \in {q \in RealSlots : q <= pos}}
    BY <1>2 DEF Sound, IterSound, Visited
  <2> QED
    BY <1>1, <1>2, <2>1, <2>2, <2>3, SameEntries DEF IterSound
<1> QED
  BY <1>3, <1>4, <1>5, <1>6, <1>7 DEF Sound

LEMMA WriteKeepsSound ==
    ASSUME TypeOK, Sound, NEW v \in Values, Write(v)
    PROVE  Sound'
<1>1. /\ pc = "idle" /\ pc' = "idle" /\ ~in_hand /\ ~in_hand' /\ data_out' = data_out
      /\ UNCHANGED <<entries, entry_keys, size, capacity>>
  BY DEF Write, NoWalk, walk_vars, reply_vars, Sound, HandSound, Placing, Shifting
<1>2. Occupied' = Occupied /\ RealSlots' = RealSlots /\ Indexes' = Indexes
  BY <1>1 DEF Occupied, RealSlots, Indexes
<1>3. HandSound' /\ OldSound' /\ IterSound'
  BY <1>1 DEF HandSound, OldSound, IterSound, Placing, Shifting, Resizing
<1>4. Distinct' /\ Counted'
  BY <1>1, <1>2 DEF Sound, Distinct, IndexAt, Counted, Resizing, Clearing, Shifting
<1>5. KeysSound'
  BY <1>1, <1>2 DEF Sound, KeysSound, KeysOfTheirOwn
<1>6. Routed'
  <2>1. \A p \in RealSlots : InPlace(p, KeyAt(p)) => InPlace(p, KeyAt(p))'
    BY <1>1 DEF InPlace, PathHeld, Offset, HomeFor, KeyAt
  <2> QED
    BY <1>1, <1>2, <2>1 DEF Sound, Routed, Placing, Finding, Keyed, Clearing
<1> QED
  BY <1>3, <1>4, <1>5, <1>6 DEF Sound

LEMMA StutterKeepsSound ==
    ASSUME TypeOK, Sound, UNCHANGED vars
    PROVE  Sound'
<1>1. /\ UNCHANGED <<array_vars, capacity>> /\ UNCHANGED <<in_hand, hand, hole, pc>>
      /\ UNCHANGED <<size, old_entries, old_keys, old_data, old_capacity, entry_index>>
      /\ UNCHANGED <<entries, entry_keys, entry_data, key, pos, distance, seen, data_out>>
  BY DEF vars, array_vars
<1>2. HandSound'
  BY <1>1 DEF Sound, HandSound, Placing, Shifting, Offset, NextSlot
<1>3. Distinct' /\ Counted'
  BY <1>1, SameEntries DEF Sound, Counted, Resizing, Clearing, Shifting, Moved, OldOccupied
<1>4. KeysSound'
  BY <1>1, SameEntries DEF Sound, KeysSound, KeysOfTheirOwn
<1>5. OldSound'
  BY <1>1, SameEntries DEF Sound, OldSound, Resizing, MovedIndexes, Moved, OldOccupied, OldEntry, OldIndexes, KeysOfTheirOwn
<1>6. Routed'
  <2>1. HandKey' = HandKey /\ NewKey' = NewKey
    BY <1>1 DEF HandKey, NewKey, OldKey, OldEntry
  <2>2. \A k : OnRoute(k)' <=> OnRoute(k)
    BY <1>1, SameEntries DEF OnRoute
  <2> QED
    BY <1>1, <2>1, <2>2, SameEntries DEF Sound, Routed, Placing, Finding, Keyed, Clearing
<1>7. IterSound'
  BY <1>1, SameEntries DEF Sound, IterSound, Visited
<1> QED
  BY <1>2, <1>3, <1>4, <1>5, <1>6, <1>7 DEF Sound

(* A key that was never written is not read.                                *)
LEMMA NoUnwrittenKey ==
    ASSUME TypeOK, Sound
    PROVE  ~ReadsUnwrittenKey
<1>1. NoKey \notin Keys
  BY ConstantsAssumption
<1>2. ASSUME Keyed, Current.occupied PROVE entry_keys[Current.data_index] # NoKey
  BY <1>1, <1>2, CurrentIsReal DEF Keyed, Probing, Current, KeyAt
<1>3. ASSUME Clearing, pos < capacity, Current.occupied PROVE entry_keys[Current.data_index] # NoKey
  <2>1. pos \in Slots(capacity) /\ ~in_hand
    BY <1>3, HandType DEF TypeOK, WalkType, Slots, Sound, HandSound, Clearing, Placing, Shifting
  <2>2. Current.data_index \in Indexes
    BY <1>3, <2>1 DEF Indexes, RealSlots, Current
  <2> QED
    BY <1>1, <2>2 DEF Sound, KeysSound, KeysOfTheirOwn
<1>4. ASSUME pc = "resize", entry_index < old_capacity, OldEntry.occupied
      PROVE  old_keys[OldEntry.data_index] # NoKey
  <2>1. entry_index \in Slots(old_capacity)
    BY <1>4 DEF TypeOK, ResizeType, Slots
  <2>2. OldEntry.data_index \in OldIndexes
    BY <1>4, <2>1 DEF OldIndexes, OldEntry
  <2> QED
    BY <1>1, <1>4, <2>2 DEF Sound, OldSound, Resizing, KeysOfTheirOwn
<1> QED
  BY <1>2, <1>3, <1>4 DEF ReadsUnwrittenKey, Keyed

-----------------------------------------------------------------------------
(* The theorems.                                                            *)

LEMMA InitSound == Init => Sound
<1> SUFFICES ASSUME Init PROVE Sound
  OBVIOUS
<1>1. Slots(0) = {}
  BY DEF Slots
<1>2. Occupied = {} /\ RealSlots = {} /\ Indexes = {}
  BY <1>1 DEF Init, Occupied, RealSlots, Indexes
<1>3. HandSound /\ Distinct /\ OldSound /\ IterSound
  BY <1>1 DEF Init, HandSound, Distinct, OldSound, IterSound, Placing, Shifting, Resizing
<1>4. Counted
  BY <1>2, FS_EmptySet DEF Init, Counted, Resizing, Clearing, Shifting
<1>5. KeysSound
  BY <1>1, <1>2 DEF Init, KeysSound, KeysOfTheirOwn
<1>6. Routed
  BY <1>2 DEF Init, Routed, Placing, Finding, Keyed
<1> QED
  BY <1>3, <1>4, <1>5, <1>6 DEF Sound

(* Every call and every iteration of every loop keeps the table sound, but  *)
(* for an insertion whose key cannot be copied.                             *)
LEMMA StepKeepsSound ==
    ASSUME TypeOK, Sound, Fits, [Next]_vars, failures' = failures
    PROVE  Sound'
<1>0. TypeOK'
  BY StepType
<1>1. CASE InitTable
  BY <1>1, InitTableKeepsSound
<1>2. ASSUME NEW k \in Keys, NEW v \in Values, Insert(k, v) PROVE Sound'
  <2>1. CASE Begin("insert", k, v, HomeFor(k), NewEntry(Finger[k])) /\ ~TableFull
    BY <1>2, <2>1, BeginKeepsSound DEF Insert
  <2>2. CASE NoWalk /\ data_out' = NoIndex
    BY <1>2, <2>2, RefusedKeepsSound DEF Insert
  <2> QED
    BY <1>2, <2>1, <2>2 DEF Insert, HomeFor
<1>3. ASSUME NEW k \in Keys, LookUp(k) PROVE Sound'
  BY <1>3, BeginKeepsSound DEF LookUp, HomeFor
<1>4. ASSUME NEW k \in Keys, Delete(k) PROVE Sound'
  <2>1. CASE Begin("delete", k, NoValue, HomeFor(k), NoHand)
    BY <1>4, <2>1, BeginKeepsSound DEF Delete
  <2>2. CASE NoWalk /\ data_out' = NoIndex
    BY <1>4, <2>2, RefusedKeepsSound DEF Delete
  <2> QED
    BY <1>4, <2>1, <2>2 DEF Delete, HomeFor
<1>5. CASE Resize
  BY <1>5, ResizeKeepsSound
<1>6. ASSUME NEW f \in {"clear", "free"}, Clear(f) PROVE Sound'
  BY <1>6, BeginKeepsSound DEF Clear
<1>7. CASE IterInit
  BY <1>7, IterInitKeepsSound
<1>8. ASSUME NEW v \in Values, Write(v) PROVE Sound'
  BY <1>8, WriteKeepsSound
<1>9. CASE InsertPlace
  BY <1>0, <1>9, InsertPlaceKeepsSound
<1>10. CASE InsertDuplicate
  <2>1. Keyed /\ Probing /\ Current.data_index \in Indexes
    BY <1>10, CurrentIsReal DEF InsertDuplicate, Keyed, Probing
  <2> QED
    BY <1>10, <2>1, MatchesItsKey, ReturnKeepsSound DEF InsertDuplicate
<1>11. CASE InsertSwap
  <2>1. Keyed /\ Placing
    BY <1>11 DEF InsertSwap, Keyed, Placing
  <2> QED
    BY <1>0, <1>11, <2>1, MatchesItsKey, SwapKeepsSound DEF InsertSwap
<1>12. CASE InsertWalk
  <2>1. Keyed /\ Placing
    BY <1>12 DEF InsertWalk, Keyed, Placing
  <2> QED
    BY <1>12, <2>1, MatchesItsKey, WalkKeepsSound DEF InsertWalk
<1>13. CASE LookUpFound
  <2>1. Keyed /\ Probing /\ Current.data_index \in Indexes
    BY <1>13, CurrentIsReal DEF LookUpFound, Keyed, Probing
  <2> QED
    BY <1>13, <2>1, MatchesItsKey, ReturnKeepsSound DEF LookUpFound
<1>14. CASE DeleteFound
  BY <1>0, <1>14, DeleteFoundKeepsSound
<1>15. CASE NotFound
  <2>1. ~in_hand /\ pc \in {"look_up", "delete"}
    BY <1>15 DEF NotFound, Finding, Sound, HandSound, Placing, Shifting
  <2> QED
    BY <1>15, <2>1, ReturnKeepsSound DEF NotFound
<1>16. CASE FindWalk
  <2>1. Keyed /\ Finding
    BY <1>16 DEF FindWalk, Finding, Keyed
  <2> QED
    BY <1>16, <2>1, MatchesItsKey, WalkKeepsSound DEF FindWalk
<1>17. CASE ShiftMove
  BY <1>0, <1>17, ShiftMoveKeepsSound
<1>18. CASE ShiftStop
  BY <1>0, <1>18, ShiftStopKeepsSound
<1>19. CASE ResizeSkip
  BY <1>19, ResizeSkipKeepsSound
<1>20. CASE ResizeEntry
  BY <1>20, ResizeEntryKeepsSound
<1>21. CASE ResizeDone
  BY <1>21, ResizeDoneKeepsSound
<1>22. CASE RehashPlace
  BY <1>0, <1>22, RehashPlaceKeepsSound
<1>23. CASE RehashSwap
  <2>1. ~Keyed /\ Placing
    BY <1>23 DEF RehashSwap, Keyed, Placing
  <2> QED
    BY <1>0, <1>23, <2>1, SwapKeepsSound DEF RehashSwap
<1>24. CASE RehashWalk
  <2>1. ~Keyed /\ Placing
    BY <1>24 DEF RehashWalk, Keyed, Placing
  <2> QED
    BY <1>24, <2>1, WalkKeepsSound DEF RehashWalk
<1>25. CASE ClearSlot
  BY <1>25, ClearSlotKeepsSound
<1>26. CASE ClearDone
  BY <1>26, ClearDoneKeepsSound
<1>27. CASE IterNext
  BY <1>27, IterNextKeepsSound
<1>28. CASE IterEnd
  <2>1. ~in_hand /\ pc = "iterate"
    BY <1>28 DEF IterEnd, Sound, HandSound, Placing, Shifting
  <2> QED
    BY <1>28, <2>1, ReturnKeepsSound DEF IterEnd
<1>29. CASE Crash
  BY <1>29, NoUnwrittenKey DEF Crash
<1>30. CASE UNCHANGED vars
  BY <1>30, StutterKeepsSound
<1> QED
  BY <1>1, <1>2, <1>3, <1>4, <1>5, <1>6, <1>7, <1>8, <1>9, <1>10, <1>11, <1>12, <1>13, <1>14, <1>15, <1>16, <1>17, <1>18, <1>19, <1>20, <1>21, <1>22, <1>23, <1>24, <1>25, <1>26, <1>27, <1>28, <1>29, <1>30 DEF Next, Call, Step

(* Failed copies are counted and never forgotten.                           *)
LEMMA FailuresGrow ==
    ASSUME TypeOK, [Next]_vars
    PROVE  failures' = failures \/ failures' = failures + 1
BY DEF Next, Call, Step, vars, InitTable, Insert, LookUp, Delete, Resize, Clear, IterInit, Write,
       InsertPlace, InsertDuplicate, InsertSwap, InsertWalk, LookUpFound, DeleteFound, NotFound,
       FindWalk, ShiftMove, ShiftStop, ResizeSkip, ResizeEntry, ResizeDone, RehashPlace,
       RehashSwap, RehashWalk, ClearSlot, ClearDone, IterNext, IterEnd, Crash

(* The capacity is one that the caller chose or that a resize reached.      *)
LEMMA CapacityFits ==
    ASSUME DistancesFit
    PROVE  Spec => []Fits
<1>1. Init => Fits
  BY ConstantsAssumption DEF Init, Fits
<1>2. TypeOK /\ Fits /\ [Next]_vars => Fits'
  <2> SUFFICES ASSUME TypeOK, Fits, [Next]_vars PROVE Fits'
    OBVIOUS
  <2>1. capacity' \in {capacity, InitCapacity, 0} \/ (capacity' = 2 * capacity /\ 2 * capacity <= MaxCapacity)
    BY DEF Next, Call, Step, vars, array_vars, InitTable, Insert, LookUp, Delete, Resize, Clear,
           IterInit, Write, InsertPlace, InsertDuplicate, InsertSwap, InsertWalk, LookUpFound,
           DeleteFound, NotFound, FindWalk, ShiftMove, ShiftStop, ResizeSkip, ResizeEntry,
           ResizeDone, RehashPlace, RehashSwap, RehashWalk, ClearSlot, ClearDone, IterNext,
           IterEnd, Crash
  <2>2. DistancesFit
    OBVIOUS
  <2> QED
    BY <2>1, <2>2, ConstantsAssumption DEF Fits, DistancesFit, TypeOK, TableType
<1> QED
  BY <1>1, <1>2, TypeCorrect, PTL DEF Spec

(* The table is sound in every reachable state, until a key copy fails.     *)
THEOREM TableSound ==
    ASSUME DistancesFit
    PROVE  Spec => []IInv
<1>1. Init => IInv
  BY InitSound DEF IInv
<1>2. TypeOK /\ Fits /\ IInv /\ [Next]_vars => IInv'
  <2> SUFFICES ASSUME TypeOK, Fits, IInv, [Next]_vars, failures' = 0
               PROVE  Sound'
    BY DEF IInv
  <2>1. failures = 0
    BY FailuresGrow DEF TypeOK, CallType
  <2> QED
    BY <2>1, StepKeepsSound DEF IInv
<1> QED
  BY <1>1, <1>2, TypeCorrect, CapacityFits, PTL DEF Spec

(* No swap, shift or rehash loses a data index or hands one out twice.      *)
THEOREM IndexesAreDistinct ==
    ASSUME DistancesFit
    PROVE  Spec => []IndexesDistinct
<1>1. IInv => IndexesDistinct
  BY DEF IInv, Sound, Distinct, IndexAt, IndexesDistinct
<1> QED
  BY <1>1, TableSound, PTL

(* An entry is where its hash and its distance say, and the slots on its    *)
(* way there hold entries at least as far from home: find_slot may give up  *)
(* at the first entry that is closer.                                       *)
THEOREM ProbePathsAreHeld ==
    ASSUME DistancesFit
    PROVE  Spec => []ProbePathsHeld
<1>1. IInv => ProbePathsHeld
  <2> SUFFICES ASSUME IInv, failures = 0, ~Clearing, NEW p \in RealSlots
               PROVE  /\ entry_keys[entries[p].data_index] \in Keys
                      /\ entries[p].finger_print = Finger[entry_keys[entries[p].data_index]]
                      /\ entries[p].distance = Offset(HomeOf(p), p)
                      /\ PathHeld(HomeOf(p), entries[p].distance)
    BY DEF ProbePathsHeld
  <2>1. Sound /\ InPlace(p, KeyAt(p))
    BY DEF IInv, Sound, Routed
  <2>2. entry_keys[entries[p].data_index] \in Keys
    BY <2>1 DEF Indexes, Sound, KeysSound, KeysOfTheirOwn
  <2> QED
    BY <2>1, <2>2 DEF InPlace, KeyAt, HomeOf, HomeFor
<1> QED
  BY <1>1, TableSound, PTL

(* Slots of different data indexes are as many as the indexes.              *)
LEMMA CountByIndex ==
    ASSUME TypeOK, Distinct, NEW S \in SUBSET Slots(capacity)
    PROVE  Cardinality({IndexAt(p) : p \in S}) = Cardinality(S)
<1> DEFINE T == {IndexAt(p) : p \in S}
           f == [p \in S |-> IndexAt(p)]
<1>1. IsFiniteSet(S)
  BY HandType, SlotsFinite
<1>2. f \in Bijection(S, T)
  <2>1. f \in [S -> T]
    OBVIOUS
  <2>2. \A p, q \in S : f[p] = f[q] => p = q
    BY DEF Distinct
  <2>3. \A t \in T : \E p \in S : f[p] = t
    OBVIOUS
  <2> QED
    BY <2>1, <2>2, <2>3 DEF Bijection, Injection, Surjection, IsInjective
<1>3. ExistsBijection(S, T)
  BY <1>2 DEF ExistsBijection
<1> QED
  BY <1>1, <1>3, FS_Bijection

(* rh_table_size is the number of entries, and a slot is always empty.      *)
THEOREM SizeIsExact ==
    ASSUME DistancesFit
    PROVE  Spec => []SizeCountsEntries
<1>1. TypeOK /\ IInv => SizeCountsEntries
  <2> SUFFICES ASSUME TypeOK, Sound, ~Clearing, ~Resizing
               PROVE  /\ size = Cardinality(Indexes)
                      /\ capacity > 0 => \E p \in Slots(capacity) : ~entries[p].occupied
    BY DEF IInv, SizeCountsEntries, Clearing, Resizing
  <2>1. capacity > 0 => \E p \in Slots(capacity) : ~entries[p].occupied
    BY SlotFree DEF Sound
  <2>2. Occupied \in SUBSET Slots(capacity) /\ size \in Nat /\ capacity \in Nat
    BY HandType DEF Occupied
  <2>3. CASE Shifting
    <3>1. hole \in Occupied
      BY <2>3, ShiftingType DEF Occupied
    <3>2. Cardinality(Occupied \ {hole}) = size
      BY <2>2, <2>3, <3>1, CardinalityDrops DEF Sound, Counted
    <3>3. Indexes = {IndexAt(p) : p \in Occupied \ {hole}}
      BY <2>3, IndexesAreOfSlots DEF Sound
    <3>4. Occupied \ {hole} \in SUBSET Slots(capacity)
      BY <2>2
    <3>5. Cardinality({IndexAt(p) : p \in Occupied \ {hole}}) = Cardinality(Occupied \ {hole})
      BY <3>4, CountByIndex DEF Sound
    <3> QED
      BY <2>1, <3>2, <3>3, <3>5
  <2>4. CASE ~Shifting
    <3>1. Cardinality(Occupied) = size
      BY <2>4 DEF Sound, Counted
    <3>2. Indexes = {IndexAt(p) : p \in Occupied}
      BY <2>4, IndexesAreOfSlots DEF Sound
    <3>3. Cardinality({IndexAt(p) : p \in Occupied}) = Cardinality(Occupied)
      BY <2>2, CountByIndex DEF Sound
    <3> QED
      BY <2>1, <3>1, <3>2, <3>3
  <2> QED
    BY <2>3, <2>4
<1> QED
  BY <1>1, TypeCorrect, TableSound, PTL

(* No comparison, hash or release reads the key of a slot that was never    *)
(* written or has been freed.                                               *)
THEOREM KeysAreWritten ==
    ASSUME DistancesFit
    PROVE  Spec => []KeysWrittenBeforeRead
<1>1. TypeOK /\ IInv => KeysWrittenBeforeRead
  BY NoUnwrittenKey DEF IInv, KeysWrittenBeforeRead
<1> QED
  BY <1>1, TypeCorrect, TableSound, PTL

(* RH_TABLE_ITER visits every stored key, and none of them twice.           *)
THEOREM IterationIsExact ==
    ASSUME DistancesFit
    PROVE  Spec => []IterationExact
<1>1. TypeOK /\ IInv => IterationExact
  <2> SUFFICES ASSUME TypeOK, Sound, pc = "iterate"
               PROVE  /\ Cardinality(seen) = Cardinality(Visited)
                      /\ pos = capacity => seen = Stored
    BY DEF IInv, IterationExact, Visited
  <2>1. ~in_hand /\ seen = {KeyAt(p) : p \in Visited} /\ capacity \in Nat
    BY HandType DEF Sound, HandSound, IterSound, Placing, Shifting
  <2>2. Indexes = {entries[p].data_index : p \in RealSlots}
    BY <2>1 DEF Indexes
  <2>3. Visited \in SUBSET Slots(capacity)
    BY DEF Visited, RealSlots
  <2>4. \A p, q \in RealSlots : KeyAt(p) = KeyAt(q) => p = q
    <3> SUFFICES ASSUME NEW p \in RealSlots, NEW q \in RealSlots, KeyAt(p) = KeyAt(q)
                 PROVE  p = q
      OBVIOUS
    <3>1. entries[p].data_index = entries[q].data_index
      BY <2>2 DEF KeyAt, Sound, KeysSound, KeysOfTheirOwn
    <3> QED
      BY <2>1, <3>1 DEF Sound, Distinct, IndexAt, RealSlots
  <2>5. Cardinality(seen) = Cardinality(Visited)
    <3> DEFINE f == [p \in Visited |-> KeyAt(p)]
    <3>1. f \in Bijection(Visited, seen)
      <4>1. f \in [Visited -> seen]
        BY <2>1
      <4>2. \A p, q \in Visited : f[p] = f[q] => p = q
        BY <2>4 DEF Visited
      <4>3. \A t \in seen : \E p \in Visited : f[p] = t
        BY <2>1
      <4> QED
        BY <4>1, <4>2, <4>3 DEF Bijection, Injection, Surjection, IsInjective
    <3>2. ExistsBijection(Visited, seen)
      BY <3>1 DEF ExistsBijection
    <3>3. IsFiniteSet(Visited)
      BY <2>1, <2>3, SlotsFinite
    <3> QED
      BY <3>2, <3>3, FS_Bijection
  <2>6. ASSUME pos = capacity PROVE seen = Stored
    <3>1. Visited = RealSlots
      BY <2>1, <2>6 DEF Visited, RealSlots, Slots
    <3>2. seen = {entry_keys[i] : i \in Indexes}
      BY <2>1, <2>2, <3>1 DEF KeyAt
    <3>3. NoKey \notin {entry_keys[i] : i \in Indexes}
      BY ConstantsAssumption DEF Sound, KeysSound, KeysOfTheirOwn
    <3> QED
      BY <3>2, <3>3 DEF Stored
  <2> QED
    BY <2>5, <2>6
<1> QED
  BY <1>1, TypeCorrect, TableSound, PTL

-----------------------------------------------------------------------------
(* The table implements the map of Dict: every step of RHTable is a step    *)
(* of Dict or leaves the map, the call and the answer alone.  What a step   *)
(* does to the map is read off what it does to the data indexes in use:     *)
(* they stay (a swap, a shift), one is added, one is given up, or one gets  *)
(* other data.  The action properties about the map and about the pointers  *)
(* of the caller follow from the same lemmas.                               *)

(* The map that indexes, keys and data stand for.                           *)

KeysAt(indexes, keys) == {keys[i] : i \in indexes}
MapOn(S, f) == f = [k \in S |-> f[k]]

LEMMA ContentsAt ==
    ASSUME NEW I, NEW K, NEW D, KeysOfTheirOwn(I, K)
    PROVE  /\ DOMAIN ContentsOf(I, K, D) = KeysAt(I, K)
           /\ \A i \in I : ContentsOf(I, K, D)[K[i]] = D[i]
           /\ MapOn(KeysAt(I, K), ContentsOf(I, K, D))
<1>1. {K[i] : i \in I} \ {NoKey} = {K[i] : i \in I}
  BY ConstantsAssumption DEF KeysOfTheirOwn
<1>2. ContentsOf(I, K, D) = [k \in {K[i] : i \in I} |-> D[CHOOSE i \in I : K[i] = k]]
  BY <1>1 DEF ContentsOf
<1>3. ASSUME NEW i \in I PROVE (CHOOSE j \in I : K[j] = K[i]) = i
  BY DEF KeysOfTheirOwn
<1>4. ASSUME NEW i \in I PROVE ContentsOf(I, K, D)[K[i]] = D[i]
  <2>1. ContentsOf(I, K, D)[K[i]] = D[CHOOSE j \in I : K[j] = K[i]]
    BY <1>2
  <2> QED
    BY <1>3, <2>1
<1>5. DOMAIN ContentsOf(I, K, D) = {K[i] : i \in I}
  BY <1>2
<1>6. ContentsOf(I, K, D) = [k \in {K[i] : i \in I} |-> ContentsOf(I, K, D)[k]]
  BY <1>2
<1> QED
  BY <1>4, <1>5, <1>6 DEF KeysAt, MapOn

(* Two functions that agree are the same.                                   *)
LEMMA SameMap ==
    ASSUME NEW f, NEW g, NEW S, MapOn(S, f), MapOn(S, g),
           \A k \in S : f[k] = g[k]
    PROVE  f = g
<1>1. [k \in S |-> f[k]] = [k \in S |-> g[k]]
  OBVIOUS
<1> QED
  BY <1>1 DEF MapOn

(* The same pairs of keys and data are the same map, wherever they lie.     *)
LEMMA PairsMakeContents ==
    ASSUME NEW I, NEW K, NEW D, NEW J, NEW L, NEW E,
           KeysOfTheirOwn(I, K), KeysOfTheirOwn(J, L),
           Pairs(I, K, D) = Pairs(J, L, E)
    PROVE  ContentsOf(I, K, D) = ContentsOf(J, L, E)
<1>1. \A i \in I : \E j \in J : L[j] = K[i] /\ E[j] = D[i]
  <2> TAKE i \in I
  <2>1. <<K[i], D[i]>> \in Pairs(J, L, E)
    BY DEF Pairs
  <2> QED
    BY <2>1 DEF Pairs
<1>2. \A j \in J : \E i \in I : K[i] = L[j]
  <2> TAKE j \in J
  <2>1. <<L[j], E[j]>> \in Pairs(I, K, D)
    BY DEF Pairs
  <2> QED
    BY <2>1 DEF Pairs
<1>3. KeysAt(I, K) = KeysAt(J, L)
  BY <1>1, <1>2 DEF KeysAt
<1>4. ASSUME NEW k \in KeysAt(I, K)
      PROVE  ContentsOf(I, K, D)[k] = ContentsOf(J, L, E)[k]
  <2>1. PICK i \in I : k = K[i]
    BY DEF KeysAt
  <2>2. PICK j \in J : L[j] = K[i] /\ E[j] = D[i]
    BY <1>1
  <2>3. \A m \in I : ContentsOf(I, K, D)[K[m]] = D[m]
    BY ContentsAt
  <2>4. \A m \in J : ContentsOf(J, L, E)[L[m]] = E[m]
    BY ContentsAt
  <2> QED
    BY <2>1, <2>2, <2>3, <2>4
<1>5. MapOn(KeysAt(I, K), ContentsOf(I, K, D)) /\ MapOn(KeysAt(J, L), ContentsOf(J, L, E))
  BY ContentsAt
<1> QED
  BY <1>3, <1>4, <1>5, SameMap

(* A key in a data index that was free joins the map.                       *)
LEMMA ContentsAdd ==
    ASSUME NEW I, NEW K, NEW D, NEW L, NEW E, NEW j, j \notin I,
           KeysOfTheirOwn(I, K), KeysOfTheirOwn(I \cup {j}, L),
           \A i \in I : L[i] = K[i] /\ E[i] = D[i],
           NEW C, C = ContentsOf(I, K, D)
    PROVE  /\ L[j] \notin DOMAIN C
           /\ ContentsOf(I \cup {j}, L, E) =
                 [k \in DOMAIN C \cup {L[j]} |-> IF k = L[j] THEN E[j] ELSE C[k]]
<1> DEFINE M == ContentsOf(I \cup {j}, L, E)
           N == [k \in DOMAIN C \cup {L[j]} |-> IF k = L[j] THEN E[j] ELSE C[k]]
           S == DOMAIN C \cup {L[j]}
<1>1. DOMAIN C = KeysAt(I, K) /\ \A i \in I : C[K[i]] = D[i]
  BY ContentsAt
<1>2. L[j] \notin DOMAIN C
  BY <1>1 DEF KeysAt, KeysOfTheirOwn
<1>3. KeysAt(I \cup {j}, L) = S
  BY <1>1 DEF KeysAt
<1>4. MapOn(KeysAt(I \cup {j}, L), M) /\ \A i \in I \cup {j} : M[L[i]] = E[i]
  BY ContentsAt
<1> HIDE DEF M
<1>5. ASSUME NEW k \in S PROVE M[k] = N[k]
  <2>1. CASE k = L[j]
    BY <1>4, <2>1
  <2>2. CASE k # L[j]
    <3>1. PICK i \in I : k = K[i]
      BY <1>1, <2>2 DEF KeysAt
    <3> QED
      BY <1>1, <1>4, <2>2, <3>1
  <2> QED
    BY <2>1, <2>2
<1>6. M = N
  <2>1. MapOn(S, N)
    BY DEF MapOn
  <2>2. MapOn(S, M)
    BY <1>3, <1>4
  <2> HIDE DEF N
  <2> QED
    BY <1>5, <2>1, <2>2, SameMap
<1> QED
  BY <1>2, <1>6 DEF M

(* A data index that holds no key adds nothing.                             *)
LEMMA ContentsUnkeyed ==
    ASSUME NEW I, NEW K, NEW D, NEW j, K[j] = NoKey
    PROVE  ContentsOf(I \cup {j}, K, D) = ContentsOf(I, K, D)
<1> DEFINE S == {K[i] : i \in I} \ {NoKey}
           T == {K[i] : i \in I \cup {j}} \ {NoKey}
           M == ContentsOf(I \cup {j}, K, D)
           N == ContentsOf(I, K, D)
<1>1. S = T
  OBVIOUS
<1>2. N = [k \in S |-> D[CHOOSE i \in I : K[i] = k]]
      /\ M = [k \in T |-> D[CHOOSE i \in I \cup {j} : K[i] = k]]
  BY DEF ContentsOf
<1>3. ASSUME NEW k \in S PROVE M[k] = N[k]
  <2>1. \A i : (i \in I \cup {j} /\ K[i] = k) <=> (i \in I /\ K[i] = k)
    OBVIOUS
  <2>2. (CHOOSE i \in I \cup {j} : K[i] = k) = (CHOOSE i \in I : K[i] = k)
    BY <2>1
  <2>3. N[k] = D[CHOOSE i \in I : K[i] = k]
    BY <1>2
  <2>4. M[k] = D[CHOOSE i \in I \cup {j} : K[i] = k]
    BY <1>1, <1>2
  <2> QED
    BY <2>2, <2>3, <2>4
<1>4. MapOn(S, M) /\ MapOn(S, N)
  BY <1>1, <1>2 DEF MapOn
<1> HIDE DEF M, N, S
<1>5. M = N
  BY <1>3, <1>4, SameMap
<1> QED
  BY <1>5 DEF M, N

(* A data index that is given up takes its key out of the map.              *)
LEMMA ContentsDrop ==
    ASSUME NEW I, NEW K, NEW D, NEW L, NEW E, NEW j \in I,
           KeysOfTheirOwn(I, K),
           \A i \in I \ {j} : L[i] = K[i] /\ E[i] = D[i],
           NEW C, C = ContentsOf(I, K, D)
    PROVE  /\ K[j] \in DOMAIN C
           /\ ContentsOf(I \ {j}, L, E) = [k \in DOMAIN C \ {K[j]} |-> C[k]]
<1> DEFINE M == ContentsOf(I \ {j}, L, E)
           N == [k \in DOMAIN C \ {K[j]} |-> C[k]]
           S == DOMAIN C \ {K[j]}
<1>1. DOMAIN C = KeysAt(I, K) /\ \A i \in I : C[K[i]] = D[i]
  BY ContentsAt
<1>2. KeysOfTheirOwn(I \ {j}, L)
  BY DEF KeysOfTheirOwn
<1>3. KeysAt(I \ {j}, L) = S
  BY <1>1 DEF KeysAt, KeysOfTheirOwn
<1>4. MapOn(KeysAt(I \ {j}, L), M) /\ \A i \in I \ {j} : M[L[i]] = E[i]
  BY <1>2, ContentsAt
<1> HIDE DEF M
<1>5. ASSUME NEW k \in S PROVE M[k] = N[k]
  <2>1. PICK i \in I \ {j} : k = K[i]
    BY <1>1 DEF KeysAt
  <2> QED
    BY <1>1, <1>4, <2>1
<1>6. M = N
  <2>1. MapOn(S, N)
    BY DEF MapOn
  <2>2. MapOn(S, M)
    BY <1>3, <1>4
  <2> HIDE DEF N
  <2> QED
    BY <1>5, <2>1, <2>2, SameMap
<1> QED
  BY <1>1, <1>6 DEF M, KeysAt

(* Other data under a data index in use are other data under its key.       *)
LEMMA ContentsWrite ==
    ASSUME NEW I, NEW K, NEW D, NEW E, NEW j \in I,
           KeysOfTheirOwn(I, K),
           \A i \in I \ {j} : E[i] = D[i],
           NEW C, C = ContentsOf(I, K, D)
    PROVE  /\ K[j] \in DOMAIN C
           /\ ContentsOf(I, K, E) =
                 [k \in DOMAIN C \cup {K[j]} |-> IF k = K[j] THEN E[j] ELSE C[k]]
<1> DEFINE M == ContentsOf(I, K, E)
           S == DOMAIN C \cup {K[j]}
           N == [k \in S |-> IF k = K[j] THEN E[j] ELSE C[k]]
<1>1. DOMAIN C = KeysAt(I, K) /\ \A i \in I : C[K[i]] = D[i]
  BY ContentsAt
<1>2. KeysAt(I, K) = S
  BY <1>1 DEF KeysAt
<1>3. MapOn(KeysAt(I, K), M) /\ \A i \in I : M[K[i]] = E[i]
  BY ContentsAt
<1> HIDE DEF M
<1>4. ASSUME NEW k \in S PROVE M[k] = N[k]
  <2>1. PICK i \in I : k = K[i]
    BY <1>1 DEF KeysAt
  <2>2. k # K[j] => i \in I \ {j}
    BY <2>1
  <2>3. k = K[j] => i = j
    BY <2>1 DEF KeysOfTheirOwn
  <2> QED
    BY <1>1, <1>3, <2>1, <2>2, <2>3
<1>5. M = N
  <2>1. MapOn(S, N)
    BY DEF MapOn
  <2>2. MapOn(S, M)
    BY <1>2, <1>3
  <2> HIDE DEF N
  <2> QED
    BY <1>4, <2>1, <2>2, SameMap
<1> QED
  BY <1>1, <1>5 DEF M, KeysAt

-----------------------------------------------------------------------------
(* The call and the answer that Dict sees.                                  *)

Phase == CASE pc = "idle" -> "idle" [] pc = "shift_back" -> "done" [] OTHER -> "called"
Asked == [op |-> Operation, key |-> key, value |-> value]
Answered == [code |-> ret, at |-> IF data_out = NoIndex THEN NoKey ELSE entry_keys[data_out]]

PhaseOf ==
    /\ pc = "idle" => Phase = "idle" /\ Operation = "none"
    /\ pc = "shift_back" => Phase = "done" /\ Operation = "delete"
    /\ pc = "rehash_insert" => Phase = "called" /\ Operation = "resize"
    /\ pc \in Abstract!Ops => Phase = "called" /\ Operation = pc

LEMMA PhaseIs == PhaseOf
BY DEF PhaseOf, Phase, Operation, Abstract!Ops

LEMMA PhaseWillBe == PhaseOf'
BY PhaseIs, PTL

LEMMA AbstractStutter ==
    ASSUME Phase' = Phase, Asked' = Asked, Answered' = Answered, Contents' = Contents
    PROVE  [Abstract!Next]_(Abstract!vars)
BY DEF Abstract!vars, Phase, Asked, Answered

LEMMA AbstractBegin ==
    ASSUME NEW op \in Abstract!Ops, NEW k \in Keys \cup {NoKey}, NEW v \in Values \cup {NoValue},
           pc = "idle", pc' = op, key' = k, value' = v, data_out' = NoIndex, ret' = ret,
           Contents' = Contents
    PROVE  Abstract!Next
<1>1. Phase = "idle" /\ Phase' = "called" /\ Asked' = [op |-> op, key |-> k, value |-> v]
  BY PhaseIs, PhaseWillBe DEF PhaseOf, Asked
<1>2. Answered' = [Answered EXCEPT !.at = NoKey]
  BY DEF Answered
<1>3. Abstract!Begin(op, k, v)
  BY <1>1, <1>2 DEF Abstract!Begin, Phase, Asked, Answered
<1> QED
  BY <1>3 DEF Abstract!Next

LEMMA AbstractAnswer ==
    ASSUME NEW code, NEW i, NEW k, pc' = "idle", key' = NoKey, value' = NoValue,
           ret' = code, data_out' = i,
           k = IF i = NoIndex THEN NoKey ELSE entry_keys'[i]
    PROVE  Abstract!Answer(code, k)
<1>1. Phase' = "idle" /\ Asked' = [op |-> "none", key |-> NoKey, value |-> NoValue]
  BY PhaseWillBe DEF PhaseOf, Asked
<1>2. Answered' = [code |-> code, at |-> k]
  BY DEF Answered
<1> QED
  BY <1>1, <1>2 DEF Abstract!Answer, Abstract!NoCall, Phase, Asked, Answered

-----------------------------------------------------------------------------
(* The calls.                                                               *)

(* Outside of a call, and during a resize, no key or value is asked for.    *)
CallCleared == pc \in {"idle", "resize", "rehash_insert"} => key = NoKey /\ value = NoValue

LEMMA ContentsNow ==
    ASSUME Sound, ~Resizing
    PROVE  /\ Contents = ContentsOf(Indexes, entry_keys, entry_data)
           /\ KeysOfTheirOwn(Indexes, entry_keys)
           /\ DOMAIN Contents = KeysAt(Indexes, entry_keys)
<1>1. Contents = ContentsOf(Indexes, entry_keys, entry_data) /\ KeysOfTheirOwn(Indexes, entry_keys)
  BY DEF Contents, Sound, KeysSound
<1> QED
  BY <1>1, ContentsAt

(* The same arrays with the same indexes in use are the same map.           *)
LEMMA ContentsKept ==
    ASSUME ~Resizing, ~Resizing', Indexes' = Indexes, UNCHANGED <<entry_keys, entry_data>>
    PROVE  Contents' = Contents
BY DEF Contents, ContentsOf

LEMMA IdleMap ==
    ASSUME TypeOK, Sound, CallCleared, pc = "idle"
    PROVE  ~in_hand /\ ~Resizing /\ key = NoKey /\ value = NoValue
BY DEF Sound, HandSound, Placing, Shifting, Resizing, CallCleared

LEMMA RefusedRefines ==
    ASSUME TypeOK, Sound, CallCleared, pc = "idle", NoWalk, data_out' = NoIndex,
           UNCHANGED <<array_vars, capacity>>,
           NEW code \in {"SUCCESS", "TABLE_FULL", "TABLE_EMPTY", "ALLOC_FAIL"}, ret' = code,
           code \in {"SUCCESS", "TABLE_EMPTY"} => Indexes = {}
    PROVE  Abstract!Next
<1>1. ~in_hand /\ ~in_hand' /\ ~Resizing /\ ~Resizing' /\ pc' = "idle" /\ key' = NoKey /\ value' = NoValue
  BY IdleMap DEF NoWalk, walk_vars, Resizing
<1>2. Contents' = Contents
  BY <1>1, SameEntries, ContentsKept DEF array_vars
<1>3. Abstract!Answer(code, NoKey)
  BY <1>1, AbstractAnswer
<1>4. Phase = "idle"
  BY PhaseIs DEF PhaseOf
<1>5. code \in {"SUCCESS", "TABLE_EMPTY"} => DOMAIN Contents = {}
  BY <1>1, ContentsNow DEF KeysAt
<1>6. Abstract!Refuse(code)
  BY <1>2, <1>3, <1>4, <1>5 DEF Abstract!Refuse, Phase
<1> QED
  BY <1>6 DEF Abstract!Next

LEMMA BeginRefines ==
    ASSUME TypeOK, Sound, CallCleared, pc = "idle",
           NEW f \in Abstract!Ops, f # "resize", NEW k \in Keys \cup {NoKey}, NEW v \in Values \cup {NoValue},
           NEW start, NEW e, Begin(f, k, v, start, e), UNCHANGED <<array_vars, capacity>>
    PROVE  Abstract!Next
<1>1. ~in_hand /\ ~in_hand' /\ ~Resizing /\ ~Resizing'
  BY IdleMap DEF Begin, Resizing, Abstract!Ops
<1>2. Contents' = Contents
  BY <1>1, SameEntries, ContentsKept DEF array_vars
<1> QED
  BY <1>2, AbstractBegin DEF Begin

LEMMA InitTableRefines ==
    ASSUME TypeOK, Sound, CallCleared, InitTable
    PROVE  Abstract!Next
<1>1. /\ pc = "idle" /\ NoWalk /\ data_out' = NoIndex /\ capacity = 0
  BY HandType DEF InitTable, initialized
<1>2. CASE ret' = "ALLOC_FAIL" /\ UNCHANGED <<array_vars, capacity, size>>
  BY <1>1, <1>2, RefusedRefines
<1>3. CASE /\ entries' = FreshEntries(InitCapacity)
           /\ entry_keys' = [i \in Slots(InitCapacity) |-> NoKey]
           /\ capacity' = InitCapacity /\ ret' = "SUCCESS"
  <2>1. ~in_hand /\ ~in_hand' /\ ~Resizing /\ ~Resizing' /\ pc' = "idle" /\ key' = NoKey /\ value' = NoValue
    BY <1>1, IdleMap DEF NoWalk, walk_vars, Resizing
  <2>2. Indexes = {} /\ Indexes' = {}
    <3>1. Slots(0) = {}
      BY DEF Slots
    <3>2. Indexes = {}
      BY <1>1, <2>1, <3>1 DEF Indexes, RealSlots
    <3> QED
      BY <1>3, <2>1, <3>2, FreshTable, ConstantsAssumption
  <2>3. Contents' = Contents /\ DOMAIN Contents = {}
    BY <2>1, <2>2 DEF Contents, ContentsOf
  <2>4. Abstract!Answer("SUCCESS", NoKey)
    BY <1>1, <1>3, <2>1, AbstractAnswer
  <2>5. Phase = "idle"
    BY <1>1, PhaseIs DEF PhaseOf
  <2>6. Abstract!Refuse("SUCCESS")
    BY <2>3, <2>4, <2>5 DEF Abstract!Refuse, Phase
  <2> QED
    BY <2>6 DEF Abstract!Next
<1> QED
  BY <1>1, <1>2, <1>3 DEF InitTable

LEMMA DeleteRefines ==
    ASSUME TypeOK, Sound, CallCleared, NEW k \in Keys, Delete(k)
    PROVE  Abstract!Next
<1>1. pc = "idle" /\ UNCHANGED <<array_vars, capacity>>
  BY DEF Delete
<1>2. CASE size = 0 /\ ret' = "TABLE_EMPTY" /\ data_out' = NoIndex /\ NoWalk
  <2>1. Cardinality(Occupied) = 0 /\ ~in_hand
    BY <1>1, <1>2, IdleMap DEF Sound, Counted, Resizing, Clearing, Shifting
  <2>2. Occupied = {}
    <3>1. Occupied \in SUBSET Slots(capacity) /\ capacity \in Nat
      BY HandType DEF Occupied
    <3>2. IsFiniteSet(Occupied)
      BY <3>1, SlotsFinite
    <3> QED
      BY <2>1, <3>2, FS_EmptySet
  <2>3. Indexes = {}
    BY <2>1, <2>2 DEF Indexes, RealSlots, Occupied
  <2> QED
    BY <1>1, <1>2, <2>3, RefusedRefines
<1>3. CASE Begin("delete", k, NoValue, Home(Hash[k], capacity), NoHand)
  BY <1>1, <1>3, BeginRefines DEF Abstract!Ops
<1> QED
  BY <1>2, <1>3 DEF Delete

LEMMA ResizeRefines ==
    ASSUME TypeOK, Sound, CallCleared, Resize
    PROVE  Abstract!Next
<1>1. pc = "idle" /\ ~in_hand /\ ~Resizing
  BY IdleMap DEF Resize
<1>2. CASE ret' = "ALLOC_FAIL" /\ data_out' = NoIndex /\ NoWalk /\ UNCHANGED <<array_vars, capacity>>
  BY <1>1, <1>2, RefusedRefines
<1>3. CASE /\ old_entries' = entries /\ old_keys' = entry_keys /\ old_data' = entry_data
           /\ old_capacity' = capacity
           /\ Begin("resize", NoKey, NoValue, 0, NoHand)
  <2>1. Resizing'
    BY <1>3 DEF Begin, Resizing
  <2>2. OldIndexes' = Indexes
    BY <1>1, <1>3 DEF OldIndexes, Indexes, RealSlots
  <2>3. Contents' = Contents
    BY <1>1, <1>3, <2>1, <2>2 DEF Contents, ContentsOf
  <2> QED
    BY <1>1, <1>3, <2>3, AbstractBegin DEF Begin, Abstract!Ops
<1> QED
  BY <1>2, <1>3 DEF Resize

(* The caller writes into the map through the pointer it was handed.        *)
LEMMA WriteRefines ==
    ASSUME TypeOK, Sound, CallCleared, NEW v \in Values, Write(v)
    PROVE  Abstract!Next
<1>1. /\ pc = "idle" /\ pc' = "idle" /\ ~in_hand /\ ~Resizing /\ ~Resizing'
      /\ UNCHANGED <<entries, entry_keys, capacity, in_hand, hand, hole, pc, key, value, ret, data_out>>
      /\ data_out # NoIndex /\ entry_data' = [entry_data EXCEPT ![data_out] = v]
  BY IdleMap DEF Write, NoWalk, walk_vars, reply_vars, Resizing
<1>2. data_out \in Indexes /\ data_out \in Slots(capacity)
  BY <1>1 DEF Sound, KeysSound, TypeOK, CallType
<1>3. Indexes' = Indexes
  BY <1>1 DEF Indexes, RealSlots
<1>4. entry_data'[data_out] = v /\ \A i \in Indexes \ {data_out} : entry_data'[i] = entry_data[i]
  <2>1. entry_data'[data_out] = v
    BY <1>1, <1>2 DEF TypeOK, TableType
  <2>2. Indexes \subseteq Slots(capacity)
    BY <1>1, SlotType DEF Indexes, RealSlots
  <2> QED
    BY <1>1, <2>1, <2>2 DEF TypeOK, TableType
<1> DEFINE k == entry_keys[data_out]
<1>5. Contents' = ContentsOf(Indexes, entry_keys, entry_data')
  BY <1>1, <1>3 DEF Contents, ContentsOf
<1>6. /\ k \in DOMAIN Contents
      /\ Contents' = [j \in DOMAIN Contents \cup {k} |-> IF j = k THEN v ELSE Contents[j]]
  <2>1. Contents = ContentsOf(Indexes, entry_keys, entry_data) /\ KeysOfTheirOwn(Indexes, entry_keys)
    BY <1>1, ContentsNow
  <2> QED
    BY <1>2, <1>4, <1>5, <2>1, ContentsWrite
<1>7. Answered.at = k /\ Answered' = Answered /\ Asked' = Asked /\ Phase = "idle" /\ Phase' = Phase
  BY <1>1, PhaseIs, PhaseWillBe DEF Answered, Asked, Operation, PhaseOf
<1>8. Abstract!Write(v)
  BY <1>6, <1>7 DEF Abstract!Write, Abstract!With, Answered, Asked, Phase
<1> QED
  BY <1>8 DEF Abstract!Next

-----------------------------------------------------------------------------
(* What the steps do to the data indexes in use.                            *)

(* An entry changes places with the one in hand.                            *)
LEMMA SwapIndexes ==
    ASSUME TypeOK, TypeOK', Sound, Sound', Placing, Placing', Current.occupied, Swap, UNCHANGED capacity
    PROVE  Indexes' = Indexes
<1>0. Probing /\ ~Shifting /\ ~Shifting'
  BY DEF Placing, Probing, Shifting
<1>1. pos \in Slots(capacity) /\ entries[pos].occupied /\ hand.occupied /\ hole \in Slots(capacity)
  BY <1>0, CurrentType DEF Current, Sound, HandSound
<1>2. /\ entries'[pos].data_index = hand.data_index /\ entries'[pos].occupied
      /\ \A p \in Slots(capacity) \ {pos} : entries'[p] = entries[p]
      /\ hole' = FirstSwap /\ in_hand' /\ hand' = entries[pos]
  BY <1>0, <1>1, SwapEffect
<1>3. Occupied' = Occupied
  BY <1>1, <1>2 DEF Occupied
<1>4. in_hand => hole # pos
  BY DEF Sound, HandSound
<1>5. \A p \in Slots(capacity) : IndexAt(p)' = IF in_hand /\ p = hole THEN IndexAt(pos)
                                               ELSE IF in_hand /\ p = pos THEN IndexAt(hole)
                                               ELSE IndexAt(p)
  BY <1>1, <1>2, <1>4 DEF IndexAt, FirstSwap
<1>6. Indexes = {IndexAt(p) : p \in Occupied}
  BY <1>0, IndexesAreOfSlots DEF Sound
<1>7. Indexes' = {IndexAt(p)' : p \in Occupied'}
  <2>1. (HandSound /\ TypeOK =>
           Indexes = {IndexAt(p) : p \in IF Shifting THEN Occupied \ {hole} ELSE Occupied})'
    BY IndexesAreOfSlots, PTL
  <2> QED
    BY <1>0, <2>1 DEF Sound
<1>8. Occupied \subseteq Slots(capacity) /\ pos \in Occupied /\ (in_hand => hole \in Occupied)
  BY <1>1 DEF Occupied, Sound, HandSound
<1> QED
  BY <1>3, <1>4, <1>5, <1>6, <1>7, <1>8

(* The deleted entry gives up its data index.                               *)
LEMMA DeleteIndexes ==
    ASSUME TypeOK, Sound, DeleteFound
    PROVE  /\ Current.data_index \in Indexes /\ Indexes \subseteq Slots(capacity)
           /\ Indexes' = Indexes \ {Current.data_index}
           /\ entry_keys[Current.data_index] = key
           /\ \A i \in Indexes \ {Current.data_index} :
                 entry_keys'[i] = entry_keys[i] /\ entry_data'[i] = entry_data[i]
<1>0. /\ pc = "delete" /\ Keyed /\ Probing /\ ~Placing /\ ~Shifting
      /\ Current.occupied /\ in_hand' /\ hole' = pos /\ ~hand'.occupied
      /\ KeyMatches(Current)
      /\ UNCHANGED <<entries, capacity>>
      /\ entry_keys' = [entry_keys EXCEPT ![Current.data_index] = NoKey]
      /\ entry_data' = [entry_data EXCEPT ![Current.data_index] = NoValue]
  BY DEF DeleteFound, Keyed, Probing, Placing, Shifting, Freed, FreeEntry
<1>1. /\ pos \in RealSlots /\ Current.data_index \in Indexes /\ ~in_hand
      /\ entry_keys[Current.data_index] = key
  BY <1>0, CurrentIsReal, MatchesItsKey DEF Sound, HandSound
<1>2. RealSlots' = RealSlots \ {pos}
  BY <1>0, <1>1 DEF RealSlots
<1>3. Indexes = {entries[p].data_index : p \in RealSlots}
      /\ Indexes' = {entries[p].data_index : p \in RealSlots \ {pos}}
  BY <1>0, <1>1, <1>2 DEF Indexes
<1>4. \A p \in RealSlots : entries[p].data_index = Current.data_index => p = pos
  BY <1>1 DEF Sound, Distinct, IndexAt, RealSlots, Current
<1>5. Indexes' = Indexes \ {Current.data_index}
  BY <1>1, <1>3, <1>4 DEF Current
<1>6. Indexes \subseteq Slots(capacity)
  BY <1>3, SlotType DEF RealSlots
<1> QED
  BY <1>0, <1>1, <1>5, <1>6 DEF TypeOK, TableType

(* The entry behind the hole moves into it.                                 *)
LEMMA ShiftIndexes ==
    ASSUME TypeOK, Sound, ShiftMove \/ ShiftStop
    PROVE  Indexes' = Indexes
<1>0. Shifting
  BY DEF ShiftMove, ShiftStop, Shifting
<1>1. /\ pos \in Slots(capacity) /\ hole \in Slots(capacity) /\ pos # hole
      /\ entries[hole].occupied /\ in_hand /\ ~hand.occupied
  BY <1>0, ShiftingType
<1>2. CASE ShiftMove
  <2>0. Shifting' /\ in_hand' /\ Current.occupied /\ hole' = pos /\ UNCHANGED <<capacity, hand>>
    BY <1>1, <1>2 DEF ShiftMove, Shifting
  <2>1. /\ \A p \in Slots(capacity) : p # hole /\ p # pos => entries'[p] = entries[p]
        /\ \A p \in {hole, pos} :
              entries'[p].occupied /\ entries'[p].data_index = entries[pos].data_index
    <3>1. entries' = [entries EXCEPT ![pos] = Closer(entries[pos]), ![hole] = Closer(entries[pos])]
      BY <1>2 DEF ShiftMove, Current
    <3>2. entries[pos] \in Entry(capacity) /\ entries \in [Slots(capacity) -> Entry(capacity)]
      BY <1>1 DEF TypeOK, TableType
    <3>3. /\ \A p \in Slots(capacity) : p # hole /\ p # pos => entries'[p] = entries[p]
          /\ \A p \in {hole, pos} : entries'[p] = Closer(entries[pos])
      BY <1>1, <3>1, <3>2
    <3>4. Closer(entries[pos]).occupied /\ Closer(entries[pos]).data_index = entries[pos].data_index
      BY <2>0, <3>2 DEF Closer, Entry, Current
    <3> QED
      BY <3>3, <3>4
  <2>2. RealSlots' = (RealSlots \ {pos}) \cup {hole} /\ pos \in RealSlots /\ hole \notin RealSlots
    BY <1>1, <2>0, <2>1 DEF RealSlots, Current
  <2>3. \A p \in RealSlots \ {pos} : entries'[p].data_index = entries[p].data_index
    BY <2>1, <2>2 DEF RealSlots
  <2>4. Indexes = {entries[p].data_index : p \in RealSlots}
        /\ Indexes' = {entries'[p].data_index : p \in RealSlots'}
    BY <1>1, <2>0 DEF Indexes
  <2> QED
    BY <2>1, <2>2, <2>3, <2>4
<1>3. CASE ShiftStop
  <2>1. /\ \A p \in Slots(capacity) : p # hole => entries'[p] = entries[p]
        /\ entries'[hole] = hand /\ ~in_hand' /\ capacity' = capacity
    BY <1>1, <1>3 DEF ShiftStop, Return, TypeOK, TableType
  <2>2. RealSlots' = RealSlots /\ \A p \in RealSlots : entries'[p].data_index = entries[p].data_index
    BY <1>1, <2>1 DEF RealSlots
  <2> QED
    BY <1>1, <2>1, <2>2 DEF Indexes
<1> QED
  BY <1>2, <1>3

(* Clearing a slot gives up the data index of its entry.                    *)
LEMMA ClearIndexes ==
    ASSUME TypeOK, Sound, ClearSlot, Current.occupied
    PROVE  /\ Current.data_index \in Indexes /\ Indexes \subseteq Slots(capacity)
           /\ Indexes' = Indexes \ {Current.data_index}
           /\ \A i \in Indexes \ {Current.data_index} :
                 entry_keys'[i] = entry_keys[i] /\ entry_data'[i] = entry_data[i]
<1>1. /\ ~in_hand /\ ~in_hand' /\ pos \in Slots(capacity) /\ capacity' = capacity
  BY HandType DEF ClearSlot, Clearing, Sound, HandSound, Placing, Shifting, TypeOK, WalkType, Slots
<1>2. /\ entries' = [entries EXCEPT ![pos] = Freed(Current)]
      /\ entry_keys' = [entry_keys EXCEPT ![Current.data_index] = NoKey]
      /\ entry_data' = [entry_data EXCEPT ![Current.data_index] = NoValue]
  BY DEF ClearSlot
<1>3. /\ \A p \in Slots(capacity) : p # pos => entries'[p] = entries[p]
      /\ ~entries'[pos].occupied
  BY <1>1, <1>2 DEF TypeOK, TableType, Freed, FreeEntry
<1>4. RealSlots' = RealSlots \ {pos} /\ pos \in RealSlots
  BY <1>1, <1>3 DEF RealSlots, Current
<1>5. Indexes = {entries[p].data_index : p \in RealSlots}
  BY <1>1 DEF Indexes
<1>6. Indexes' = {entries[p].data_index : p \in RealSlots \ {pos}}
  <2>1. Indexes' = {entries'[p].data_index : p \in RealSlots \ {pos}}
    BY <1>1, <1>4 DEF Indexes
  <2>2. \A p \in RealSlots \ {pos} : entries'[p].data_index = entries[p].data_index
    BY <1>3 DEF RealSlots
  <2> QED
    BY <2>1, <2>2
<1>7. \A p \in RealSlots : entries[p].data_index = Current.data_index => p = pos
  BY <1>1 DEF Sound, Distinct, IndexAt, RealSlots, Current
<1>8. Current.data_index \in Indexes /\ Indexes' = Indexes \ {Current.data_index}
  BY <1>4, <1>5, <1>6, <1>7 DEF Current
<1>9. Indexes \subseteq Slots(capacity)
  BY <1>5, SlotType DEF RealSlots
<1> QED
  BY <1>2, <1>8, <1>9 DEF TypeOK, TableType

-----------------------------------------------------------------------------
(* The steps of a call.                                                     *)

(* The key of the call is in the map when the slot looked at holds it, and  *)
(* it is not when the search gives up.                                      *)
LEMMA KeyInMap ==
    ASSUME TypeOK, Sound, Keyed
    PROVE  /\ ~Resizing
           /\ Current.occupied /\ KeyMatches(Current) =>
                 key \in DOMAIN Contents /\ ~in_hand /\ entry_keys[Current.data_index] = key
                 /\ Current.data_index \in Slots(capacity)
           /\ ~Current.occupied \/ (KeyDiffers(Current) /\ Richer) \/ in_hand =>
                 key \notin DOMAIN Contents
<1>0. Probing /\ ~Resizing
  BY DEF Keyed, Probing, Resizing
<1>1. DOMAIN Contents = KeysAt(Indexes, entry_keys)
  BY <1>0, ContentsNow
<1>2. ASSUME Current.occupied, KeyMatches(Current)
      PROVE  key \in DOMAIN Contents /\ ~in_hand /\ entry_keys[Current.data_index] = key
             /\ Current.data_index \in Slots(capacity)
  <2>1. pos \in Slots(capacity)
    BY <1>0, <1>2, CurrentIsReal DEF RealSlots
  <2> QED
    BY <1>0, <1>1, <1>2, <2>1, CurrentIsReal, MatchesItsKey, SlotType DEF KeysAt, Current
<1>3. ASSUME ~Current.occupied \/ (KeyDiffers(Current) /\ Richer) \/ in_hand
      PROVE  \A i \in Indexes : entry_keys[i] # key
  <2>1. CASE in_hand
    BY <2>1 DEF Sound, HandSound, KeysSound, Placing, Shifting, Keyed
  <2>2. CASE ~in_hand
    <3>1. Current.occupied \in BOOLEAN
      BY <1>0, CurrentType, SlotType DEF Current
    <3>2. ~Current.occupied \/ (Richer /\ KeyAt(pos) # key)
      BY <1>3, <2>2, <3>1, MatchesItsKey
    <3> QED
      BY <2>2, <3>2, KeyIsAbsent
  <2> QED
    BY <2>1, <2>2
<1> QED
  BY <1>0, <1>1, <1>2, <1>3 DEF KeysAt

(* A slot whose key could not be copied adds nothing to the map.            *)
LEMMA FailedCopyContents ==
    ASSUME TypeOK, TypeOK', Sound, InsertPlace, UNCHANGED <<entry_keys, entry_data>>
    PROVE  Contents' = Contents
<1> DEFINE ci == Current.data_index
<1>0. /\ pc' = "idle" /\ ~in_hand' /\ Placing /\ Probing
      /\ ~Current.occupied /\ entries' = Placed /\ capacity' = capacity
      /\ ~Resizing /\ ~Resizing'
  BY DEF InsertPlace, Lost, Return, Placing, Probing, Resizing
<1>1. ci \notin Indexes /\ Indexes' = Indexes \cup {ci}
  BY <1>0, PlacedIndexes
<1>2. entry_keys[ci] = NoKey
  BY <1>0, <1>1, CurrentType DEF Sound, KeysSound
<1>3. /\ Contents' = ContentsOf(Indexes \cup {ci}, entry_keys, entry_data)
      /\ Contents = ContentsOf(Indexes, entry_keys, entry_data)
  BY <1>0, <1>1 DEF Contents, ContentsOf
<1> HIDE DEF ci
<1> QED
  BY <1>2, <1>3, ContentsUnkeyed

LEMMA InsertPlaceRefines ==
    ASSUME TypeOK, TypeOK', Sound, InsertPlace
    PROVE  Abstract!Next
<1> DEFINE ci == Current.data_index
<1>0. /\ pc = "insert" /\ pc' = "idle" /\ ~in_hand' /\ Placing /\ Keyed /\ Probing
      /\ ~Current.occupied /\ entries' = Placed /\ capacity' = capacity
      /\ ~Resizing /\ ~Resizing' /\ key' = NoKey /\ value' = NoValue
  BY DEF InsertPlace, Lost, Return, Placing, Keyed, Probing, Resizing
<1>1. ci \notin Indexes /\ Indexes' = Indexes \cup {ci}
  BY <1>0, PlacedIndexes
<1>2. key \notin DOMAIN Contents /\ ci \in Slots(capacity) /\ key \in Keys
  BY <1>0, KeyInMap, CurrentType DEF TypeOK
<1>3. Phase = "called" /\ Operation = "insert"
  BY <1>0, PhaseIs DEF PhaseOf, Abstract!Ops
<1>4. CASE /\ entry_keys' = [entry_keys EXCEPT ![ci] = key]
           /\ entry_data' = [entry_data EXCEPT ![ci] = value]
           /\ ret' = "SUCCESS" /\ data_out' = ci
  <2>1. /\ entry_keys'[ci] = key /\ entry_data'[ci] = value
        /\ \A i \in Indexes : entry_keys'[i] = entry_keys[i] /\ entry_data'[i] = entry_data[i]
    <3>1. Indexes \subseteq Slots(capacity)
      BY <1>0, SlotType, HandType DEF Indexes, RealSlots
    <3> QED
      BY <1>1, <1>2, <1>4, <3>1 DEF TypeOK, TableType
  <2>2. KeysOfTheirOwn(Indexes \cup {ci}, entry_keys')
    BY <1>0, <1>2, <2>1, ContentsNow DEF KeysOfTheirOwn, KeysAt
  <2>3. Contents' = ContentsOf(Indexes \cup {ci}, entry_keys', entry_data')
    BY <1>0, <1>1 DEF Contents, ContentsOf
  <2>4. Contents = ContentsOf(Indexes, entry_keys, entry_data) /\ KeysOfTheirOwn(Indexes, entry_keys)
    BY <1>0, ContentsNow
  <2>5. Contents' = [k \in DOMAIN Contents \cup {key} |-> IF k = key THEN value ELSE Contents[k]]
    <3> HIDE DEF ci
    <3> QED
      BY <1>1, <2>1, <2>2, <2>3, <2>4, ContentsAdd
  <2>6. Abstract!Answer("SUCCESS", key)
    BY <1>0, <1>2, <1>4, <2>1, AbstractAnswer DEF NoIndex, Slots
  <2>7. Abstract!InsertNew
    BY <1>2, <1>3, <2>5, <2>6 DEF Abstract!InsertNew, Abstract!With, Phase
  <2> QED
    BY <2>7 DEF Abstract!Next
<1>5. CASE /\ UNCHANGED <<entry_keys, entry_data>>
           /\ ret' = "ALLOC_FAIL" /\ data_out' = NoIndex
  <2>2. Contents' = Contents
    BY <1>5, FailedCopyContents
  <2>3. Abstract!Answer("ALLOC_FAIL", NoKey)
    BY <1>0, <1>5, AbstractAnswer
  <2>4. Abstract!InsertFails
    BY <1>2, <1>3, <2>2, <2>3 DEF Abstract!InsertFails, Phase
  <2> QED
    BY <2>4 DEF Abstract!Next
<1> QED
  BY <1>4, <1>5 DEF InsertPlace, Return

(* A search that ends finds the key exactly when the map has it.            *)
LEMMA SearchRefines ==
    ASSUME TypeOK, Sound, InsertDuplicate \/ LookUpFound \/ NotFound
    PROVE  Abstract!Next
<1>0. /\ Keyed /\ pc' = "idle" /\ key' = NoKey /\ value' = NoValue /\ ~in_hand'
      /\ UNCHANGED <<array_vars, capacity>> /\ ~Resizing /\ ~Resizing'
  BY DEF InsertDuplicate, LookUpFound, NotFound, Finding, Keyed, Return, Resizing
<1>1. /\ pc \in {"insert", "look_up"} /\ Current.occupied /\ KeyMatches(Current) =>
           key \in DOMAIN Contents /\ ~in_hand /\ entry_keys[Current.data_index] = key
           /\ Current.data_index # NoIndex
      /\ NotFound => key \notin DOMAIN Contents /\ ~in_hand
  <2>1. NotFound => ~in_hand
    BY DEF NotFound, Finding, Sound, HandSound, Placing, Shifting
  <2>2. NoIndex \notin Slots(capacity)
    BY DEF NoIndex, Slots
  <2> QED
    BY <1>0, <2>1, <2>2, KeyInMap DEF NotFound
<1>2. ~in_hand
  BY <1>1 DEF InsertDuplicate, LookUpFound
<1>3. Contents' = Contents /\ entry_keys' = entry_keys
  BY <1>0, <1>2, SameEntries, ContentsKept DEF array_vars
<1>4. Phase = "called" /\ Operation = pc
  BY <1>0, PhaseIs DEF PhaseOf, Abstract!Ops, Keyed
<1>5. CASE InsertDuplicate
  <2>1. /\ pc = "insert" /\ ret' = "KEY_FOUND" /\ data_out' = Current.data_index
        /\ Current.data_index # NoIndex /\ entry_keys[Current.data_index] = key
        /\ key \in DOMAIN Contents
    BY <1>1, <1>5 DEF InsertDuplicate, Return
  <2>2. Abstract!Answer("KEY_FOUND", key)
    BY <1>0, <1>3, <2>1, AbstractAnswer
  <2>3. Abstract!InsertExisting
    BY <1>3, <1>4, <2>1, <2>2 DEF Abstract!InsertExisting, Phase
  <2> QED
    BY <2>3 DEF Abstract!Next
<1>6. CASE LookUpFound
  <2>1. /\ pc = "look_up" /\ ret' = "SUCCESS" /\ data_out' = Current.data_index
        /\ Current.data_index # NoIndex /\ entry_keys[Current.data_index] = key
        /\ key \in DOMAIN Contents
    BY <1>1, <1>6 DEF LookUpFound, Return
  <2>2. Abstract!Answer("SUCCESS", key)
    BY <1>0, <1>3, <2>1, AbstractAnswer
  <2>3. Abstract!LookUp
    BY <1>3, <1>4, <2>1, <2>2 DEF Abstract!LookUp, Phase
  <2> QED
    BY <2>3 DEF Abstract!Next
<1>7. CASE NotFound
  <2>1. /\ pc \in {"look_up", "delete"} /\ ret' = "KEY_NOT_FOUND" /\ data_out' = NoIndex
        /\ key \notin DOMAIN Contents
    BY <1>1, <1>7 DEF NotFound, Finding, Return
  <2>2. Abstract!Answer("KEY_NOT_FOUND", NoKey)
    BY <1>0, <2>1, AbstractAnswer
  <2>3. Abstract!Absent
    BY <1>3, <1>4, <2>1, <2>2 DEF Abstract!Absent, Phase
  <2> QED
    BY <2>3 DEF Abstract!Next
<1> QED
  BY <1>5, <1>6, <1>7

(* Outside of the calls' beginnings and ends, Dict sees neither the answer  *)
(* nor what is asked change.                                                *)
LEMMA SameCall ==
    ASSUME Sound, pc # "idle", UNCHANGED <<key, value, ret, data_out>>,
           \/ pc' = pc
           \/ pc = "delete" /\ pc' = "shift_back"
           \/ Resizing /\ Resizing'
    PROVE  /\ Asked' = Asked /\ Answered' = Answered
           /\ pc # "delete" \/ pc' = pc => Phase' = Phase
<1>1. data_out = NoIndex
  BY DEF Sound, KeysSound
<1>2. Answered' = Answered
  BY <1>1 DEF Answered
<1>3. Operation' = Operation
  <2>1. CASE pc' = pc
    BY <2>1 DEF Operation
  <2>2. CASE pc # pc'
    BY <2>2, PhaseIs, PhaseWillBe DEF PhaseOf, Abstract!Ops, Resizing
  <2> QED
    BY <2>1, <2>2
<1>4. pc # "delete" \/ pc' = pc => Phase' = Phase
  <2>1. CASE pc' = pc
    BY <2>1 DEF Phase
  <2>2. CASE pc # pc'
    BY <2>2, PhaseIs, PhaseWillBe DEF PhaseOf, Abstract!Ops, Resizing
  <2> QED
    BY <2>1, <2>2
<1> QED
  BY <1>2, <1>3, <1>4 DEF Asked

(* The probes that go on, with or without a swap.                           *)
LEMMA ProbeRefines ==
    ASSUME TypeOK, TypeOK', Sound, Sound',
           InsertSwap \/ InsertWalk \/ FindWalk \/ RehashSwap \/ RehashWalk
    PROVE  [Abstract!Next]_(Abstract!vars)
<1>1. /\ pc' = pc /\ pc # "idle" /\ UNCHANGED <<key, value, ret, data_out>>
      /\ UNCHANGED <<entry_keys, entry_data, capacity, old_vars>>
  BY DEF InsertSwap, InsertWalk, FindWalk, RehashSwap, RehashWalk, Finding, reply_vars, array_vars
<1>2. Contents' = Contents
  <2>1. CASE Resizing
    BY <1>1, <2>1 DEF Contents, ContentsOf, Resizing, OldIndexes, old_vars
  <2>2. CASE InsertSwap
    <3>1. Placing /\ Placing' /\ ~Resizing /\ ~Resizing'
      BY <1>1, <2>2 DEF InsertSwap, Placing, Resizing
    <3>2. Indexes' = Indexes
      BY <2>2, <3>1, SwapIndexes DEF InsertSwap
    <3> QED
      BY <1>1, <3>1, <3>2, ContentsKept
  <2>3. CASE InsertWalk \/ FindWalk
    <3>1. ~Resizing /\ ~Resizing' /\ UNCHANGED <<array_vars, capacity>>
          /\ UNCHANGED <<in_hand, hand, hole, pc>>
      BY <1>1, <2>3 DEF InsertWalk, FindWalk, Finding, Resizing, Walk
    <3>2. Indexes' = Indexes
      BY <3>1, SameEntries
    <3> QED
      BY <1>1, <3>1, <3>2, ContentsKept
  <2> QED
    BY <2>1, <2>2, <2>3 DEF RehashSwap, RehashWalk, Resizing
<1> QED
  BY <1>1, <1>2, SameCall, AbstractStutter

(* The entry leaves the map before shift_back runs, and shift_back then     *)
(* leaves the map alone.                                                    *)
LEMMA DeletionRefines ==
    ASSUME TypeOK, Sound, DeleteFound \/ ShiftMove \/ ShiftStop
    PROVE  [Abstract!Next]_(Abstract!vars)
<1>1. CASE DeleteFound
  <2>0. /\ pc = "delete" /\ pc' = "shift_back" /\ Current.occupied /\ KeyMatches(Current)
        /\ Keyed /\ ~Resizing /\ ~Resizing' /\ UNCHANGED <<key, value, ret, data_out>>
    BY <1>1 DEF DeleteFound, Keyed, Resizing, reply_vars
  <2> DEFINE ci == Current.data_index
  <2>1. /\ ci \in Indexes /\ Indexes' = Indexes \ {ci} /\ entry_keys[ci] = key
        /\ \A i \in Indexes \ {ci} : entry_keys'[i] = entry_keys[i] /\ entry_data'[i] = entry_data[i]
    BY <1>1, DeleteIndexes
  <2>2. Contents = ContentsOf(Indexes, entry_keys, entry_data) /\ KeysOfTheirOwn(Indexes, entry_keys)
    BY <2>0, ContentsNow
  <2>3. Contents' = ContentsOf(Indexes \ {ci}, entry_keys', entry_data')
    BY <2>0, <2>1 DEF Contents, ContentsOf
  <2>4. key \in DOMAIN Contents /\ Contents' = [k \in DOMAIN Contents \ {key} |-> Contents[k]]
    <3> HIDE DEF ci
    <3> QED
      BY <2>1, <2>2, <2>3, ContentsDrop
  <2>5. Phase = "called" /\ Operation = "delete" /\ Phase' = "done"
    BY <2>0, PhaseIs, PhaseWillBe DEF PhaseOf, Abstract!Ops
  <2>6. Asked' = Asked /\ Answered' = Answered
    BY <2>0, SameCall
  <2>7. Abstract!Delete
    BY <2>4, <2>5, <2>6 DEF Abstract!Delete, Abstract!Without, Phase, Asked, Answered
  <2> QED
    BY <2>7 DEF Abstract!Next
<1>2. CASE ShiftMove
  <2>1. /\ pc = "shift_back" /\ pc' = pc /\ UNCHANGED <<key, value, ret, data_out, entry_keys, entry_data>>
        /\ ~Resizing /\ ~Resizing'
    BY <1>2 DEF ShiftMove, Resizing, reply_vars
  <2>2. Contents' = Contents
    BY <1>2, <2>1, ShiftIndexes, ContentsKept
  <2> QED
    BY <2>1, <2>2, SameCall, AbstractStutter
<1>3. CASE ShiftStop
  <2>1. /\ pc = "shift_back" /\ pc' = "idle" /\ UNCHANGED <<entry_keys, entry_data>>
        /\ key' = NoKey /\ value' = NoValue /\ ret' = "SUCCESS" /\ data_out' = NoIndex
        /\ ~Resizing /\ ~Resizing'
    BY <1>3 DEF ShiftStop, Return, Resizing
  <2>2. Contents' = Contents
    BY <1>3, <2>1, ShiftIndexes, ContentsKept
  <2>3. Abstract!Answer("SUCCESS", NoKey)
    BY <2>1, AbstractAnswer
  <2>4. Phase = "done"
    BY <2>1, PhaseIs DEF PhaseOf
  <2>5. Abstract!DeleteReturn
    BY <2>2, <2>3, <2>4 DEF Abstract!DeleteReturn, Phase
  <2> QED
    BY <2>5 DEF Abstract!Next
<1> QED
  BY <1>1, <1>2, <1>3

(* While the saved arrays hold the map, filling the new ones does not       *)
(* change it; when they are dropped, the new arrays hold the same pairs.    *)
LEMMA ResizingRefines ==
    ASSUME TypeOK, Sound, CallCleared, ResizeSkip \/ ResizeEntry \/ RehashPlace \/ ResizeDone
    PROVE  [Abstract!Next]_(Abstract!vars)
<1>0. /\ Resizing /\ pc # "idle"
      /\ key = NoKey /\ value = NoValue /\ data_out = NoIndex
  BY DEF ResizeSkip, ResizeEntry, RehashPlace, ResizeDone, Resizing, CallCleared,
         Sound, HandSound, KeysSound, Placing, Shifting
<1>1. CASE ResizeSkip \/ ResizeEntry \/ RehashPlace
  <2>1. Resizing' /\ UNCHANGED <<key, value, ret, data_out>> /\ pc # "delete" /\ pc # "idle"
        /\ UNCHANGED old_vars
    BY <1>0, <1>1 DEF ResizeSkip, ResizeEntry, RehashPlace, Begin, NoWalk, Resizing, reply_vars
  <2>2. Contents' = Contents
    BY <1>0, <2>1 DEF Contents, ContentsOf, OldIndexes, old_vars
  <2> QED
    BY <1>0, <2>1, <2>2, SameCall, AbstractStutter
<1>2. CASE ResizeDone
  <2>0. /\ pc = "resize" /\ pc' = "idle" /\ ~in_hand /\ ~in_hand' /\ ~Resizing'
        /\ key' = NoKey /\ value' = NoValue /\ ret' = "SUCCESS" /\ data_out' = NoIndex
        /\ entry_index = old_capacity /\ UNCHANGED <<array_vars, capacity>>
    BY <1>2 DEF ResizeDone, Return, Resizing, Sound, HandSound, Placing, Shifting
  <2>1. Moved = OldOccupied
    BY <2>0 DEF Moved, OldOccupied, Slots, TypeOK, ResizeType
  <2>2. MovedIndexes = OldIndexes
    BY <2>1 DEF MovedIndexes, OldIndexes, OldOccupied
  <2>3. /\ Pairs(Indexes, entry_keys, entry_data) = Pairs(OldIndexes, old_keys, old_data)
        /\ KeysOfTheirOwn(Indexes, entry_keys) /\ KeysOfTheirOwn(OldIndexes, old_keys)
    BY <1>0, <2>2 DEF Sound, OldSound, KeysSound
  <2>4. ContentsOf(Indexes, entry_keys, entry_data) = ContentsOf(OldIndexes, old_keys, old_data)
    BY <2>3, PairsMakeContents
  <2>5. Contents' = ContentsOf(Indexes, entry_keys, entry_data)
    <3>1. Indexes' = Indexes
      BY <2>0, SameEntries
    <3> QED
      BY <2>0, <3>1 DEF Contents, ContentsOf, array_vars
  <2>6. Contents' = Contents
    BY <1>0, <2>4, <2>5 DEF Contents
  <2>7. Abstract!Answer("SUCCESS", NoKey)
    BY <2>0, AbstractAnswer
  <2>8. Phase = "called" /\ Operation = "resize"
    BY <2>0, PhaseIs DEF PhaseOf, Abstract!Ops
  <2>9. Abstract!Kept
    BY <2>6, <2>7, <2>8 DEF Abstract!Kept, Phase
  <2> QED
    BY <2>9 DEF Abstract!Next
<1> QED
  BY <1>1, <1>2

(* clear and free drop one entry after the other.                           *)
LEMMA ClearingRefines ==
    ASSUME TypeOK, Sound, ClearSlot \/ ClearDone
    PROVE  [Abstract!Next]_(Abstract!vars)
<1>0. /\ Clearing /\ ~Resizing /\ ~in_hand /\ capacity \in Nat
      /\ Phase = "called" /\ Operation = pc /\ pc \in {"clear", "free"}
  BY HandType, PhaseIs
  DEF ClearSlot, ClearDone, Clearing, Resizing, Sound, HandSound, Placing, Shifting, PhaseOf, Abstract!Ops
<1>1. CASE ClearSlot
  <2>0. /\ pc' = pc /\ UNCHANGED <<key, value, ret, data_out, in_hand, hand, hole, capacity>>
        /\ ~Resizing' /\ pc # "idle"
    BY <1>0, <1>1 DEF ClearSlot, Resizing, reply_vars
  <2>1. Asked' = Asked /\ Answered' = Answered /\ Phase' = Phase
    BY <2>0, SameCall
  <2>2. CASE Current.occupied
    <3> DEFINE ci == Current.data_index
               k == entry_keys[ci]
    <3>1. /\ ci \in Indexes /\ Indexes' = Indexes \ {ci}
          /\ \A i \in Indexes \ {ci} : entry_keys'[i] = entry_keys[i] /\ entry_data'[i] = entry_data[i]
      BY <1>1, <2>2, ClearIndexes
    <3>2. Contents = ContentsOf(Indexes, entry_keys, entry_data) /\ KeysOfTheirOwn(Indexes, entry_keys)
      BY <1>0, ContentsNow
    <3>3. Contents' = ContentsOf(Indexes \ {ci}, entry_keys', entry_data')
      BY <2>0, <3>1 DEF Contents, ContentsOf
    <3>4. k \in DOMAIN Contents /\ Contents' = [j \in DOMAIN Contents \ {k} |-> Contents[j]]
      <4> HIDE DEF ci
      <4> QED
        BY <3>1, <3>2, <3>3, ContentsDrop
    <3>5. Abstract!Drop(k)
      BY <1>0, <2>1, <3>4 DEF Abstract!Drop, Abstract!Without, Phase, Asked, Answered
    <3> QED
      BY <3>4, <3>5 DEF Abstract!Next
  <2>3. CASE ~Current.occupied
    <3>1. UNCHANGED array_vars
      BY <1>1, <2>3 DEF ClearSlot
    <3>2. Contents' = Contents
      BY <1>0, <2>0, <3>1, SameEntries, ContentsKept DEF array_vars
    <3> QED
      BY <2>1, <3>2, AbstractStutter
  <2> QED
    BY <2>2, <2>3
<1>2. CASE ClearDone
  <2>0. /\ pc' = "idle" /\ key' = NoKey /\ value' = NoValue /\ ret' = "SUCCESS" /\ data_out' = NoIndex
        /\ ~in_hand' /\ ~Resizing' /\ pos = capacity
    BY <1>2 DEF ClearDone, Return, Resizing
  <2>1. Indexes = {}
    <3>1. \A p \in Slots(capacity) : ~entries[p].occupied
      BY <1>0, <2>0 DEF Sound, Counted, Slots
    <3> QED
      BY <1>0, <3>1 DEF Indexes, RealSlots
  <2>2. Indexes' = {}
    <3>1. CASE UNCHANGED <<array_vars, capacity>>
      BY <1>0, <2>0, <2>1, <3>1, SameEntries
    <3>2. CASE entries' = FreshEntries(0) /\ entry_keys' = [i \in Slots(0) |-> NoKey] /\ capacity' = 0
      BY <2>0, <3>2, FreshTable
    <3> QED
      BY <1>2, <3>1, <3>2 DEF ClearDone
  <2>3. Contents' = Contents /\ DOMAIN Contents = {}
    BY <1>0, <2>0, <2>1, <2>2 DEF Contents, ContentsOf
  <2>4. Abstract!Answer("SUCCESS", NoKey)
    BY <2>0, AbstractAnswer
  <2>5. Abstract!Dropped
    BY <1>0, <2>3, <2>4 DEF Abstract!Dropped, Phase
  <2> QED
    BY <2>5 DEF Abstract!Next
<1> QED
  BY <1>1, <1>2

(* An iteration leaves the map as it is.                                    *)
LEMMA IterationRefines ==
    ASSUME TypeOK, Sound, IterNext \/ IterEnd
    PROVE  [Abstract!Next]_(Abstract!vars)
<1>0. /\ pc = "iterate" /\ ~in_hand /\ ~in_hand' /\ ~Resizing /\ ~Resizing'
      /\ UNCHANGED <<array_vars, capacity>>
  BY DEF IterNext, IterEnd, Return, Resizing, Sound, HandSound, Placing, Shifting
<1>1. Contents' = Contents
  BY <1>0, SameEntries, ContentsKept DEF array_vars
<1>2. CASE IterNext
  <2>1. pc' = pc /\ UNCHANGED <<key, value, ret, data_out>>
    BY <1>2 DEF IterNext, reply_vars
  <2> QED
    BY <1>0, <1>1, <2>1, SameCall, AbstractStutter
<1>3. CASE IterEnd
  <2>1. Abstract!Answer("ITER_END", NoKey)
    BY <1>3, AbstractAnswer DEF IterEnd, Return
  <2>2. Phase = "called" /\ Operation = "iterate"
    BY <1>0, PhaseIs DEF PhaseOf, Abstract!Ops
  <2>3. Abstract!Kept
    BY <1>1, <2>1, <2>2 DEF Abstract!Kept, Phase
  <2> QED
    BY <2>3 DEF Abstract!Next
<1> QED
  BY <1>2, <1>3

-----------------------------------------------------------------------------
(* The theorems.                                                            *)

LEMMA CallClearedKept ==
    ASSUME CallCleared, [Next]_vars
    PROVE  CallCleared'
<1> USE DEF CallCleared
<1>1. CASE Call
  BY <1>1 DEF Call, InitTable, Insert, LookUp, Delete, Resize, Clear, IterInit, Write, Begin, NoWalk
<1>2. CASE Step
  BY <1>2 DEF Step, InsertPlace, InsertDuplicate, InsertSwap, InsertWalk, LookUpFound, DeleteFound,
              NotFound, FindWalk, ShiftMove, ShiftStop, ResizeSkip, ResizeEntry, ResizeDone,
              RehashPlace, RehashSwap, RehashWalk, ClearSlot, ClearDone, IterNext, IterEnd, Crash,
              Return, Begin, NoWalk, Finding, Clearing
<1>3. CASE UNCHANGED vars
  BY <1>3 DEF vars
<1> QED
  BY <1>1, <1>2, <1>3 DEF Next

(* Without a call there is nothing that a call asks for.                    *)
LEMMA CallsAreCleared == Spec => []CallCleared
<1>1. Init => CallCleared
  BY DEF Init, CallCleared
<1> QED
  BY <1>1, CallClearedKept, PTL DEF Spec

(* Every step but those after a failed copy is a step of Dict, or none.     *)
LEMMA StepRefines ==
    ASSUME TypeOK, Sound, Fits, CallCleared, [Next]_vars
    PROVE  [Abstract!Next]_(Abstract!vars)
<1>0. TypeOK' /\ (failures' = failures => Sound')
  BY StepType, StepKeepsSound
<1>1. CASE InitTable
  BY <1>1, InitTableRefines
<1>2. ASSUME NEW k \in Keys, NEW v \in Values, Insert(k, v) PROVE Abstract!Next
  <2>1. pc = "idle" /\ UNCHANGED <<array_vars, capacity>>
    BY <1>2 DEF Insert
  <2>2. CASE ret' = "TABLE_FULL" /\ data_out' = NoIndex /\ NoWalk
    BY <2>1, <2>2, RefusedRefines
  <2>3. CASE Begin("insert", k, v, Home(Hash[k], capacity), NewEntry(Finger[k]))
    BY <2>1, <2>3, BeginRefines DEF Abstract!Ops
  <2> QED
    BY <1>2, <2>2, <2>3 DEF Insert
<1>3. ASSUME NEW k \in Keys, LookUp(k) PROVE Abstract!Next
  BY <1>3, BeginRefines DEF LookUp, Abstract!Ops
<1>4. ASSUME NEW k \in Keys, Delete(k) PROVE Abstract!Next
  BY <1>4, DeleteRefines
<1>5. CASE Resize
  BY <1>5, ResizeRefines
<1>6. ASSUME NEW f \in {"clear", "free"}, Clear(f) PROVE Abstract!Next
  <2>1. f \in Abstract!Ops /\ f # "resize"
    BY DEF Abstract!Ops
  <2> QED
    BY <1>6, <2>1, BeginRefines DEF Clear
<1>7. CASE IterInit
  BY <1>7, BeginRefines DEF IterInit, Abstract!Ops
<1>8. ASSUME NEW v \in Values, Write(v) PROVE Abstract!Next
  BY <1>8, WriteRefines
<1>9. CASE InsertPlace
  BY <1>0, <1>9, InsertPlaceRefines
<1>10. CASE InsertDuplicate \/ LookUpFound \/ NotFound
  BY <1>10, SearchRefines
<1>11. CASE InsertSwap \/ InsertWalk \/ FindWalk \/ RehashSwap \/ RehashWalk
  <2>1. failures' = failures
    BY <1>11 DEF InsertSwap, InsertWalk, FindWalk, RehashSwap, RehashWalk
  <2> QED
    BY <1>0, <1>11, <2>1, ProbeRefines
<1>12. CASE DeleteFound \/ ShiftMove \/ ShiftStop
  BY <1>12, DeletionRefines
<1>13. CASE ResizeSkip \/ ResizeEntry \/ RehashPlace \/ ResizeDone
  BY <1>13, ResizingRefines
<1>14. CASE ClearSlot \/ ClearDone
  BY <1>14, ClearingRefines
<1>15. CASE IterNext \/ IterEnd
  BY <1>15, IterationRefines
<1>16. CASE Crash
  BY <1>16, NoUnwrittenKey DEF Crash
<1>17. CASE UNCHANGED vars
  <2>1. Contents' = Contents
    BY <1>17 DEF vars, Contents, ContentsOf, Resizing, Indexes, RealSlots, OldIndexes
  <2>2. Phase' = Phase /\ Asked' = Asked /\ Answered' = Answered
    BY <1>17 DEF vars, Phase, Asked, Operation, Answered
  <2> QED
    BY <2>1, <2>2, AbstractStutter
<1> QED
  BY <1>1, <1>2, <1>3, <1>4, <1>5, <1>6, <1>7, <1>8, <1>9, <1>10, <1>11, <1>12, <1>13, <1>14, <1>15, <1>16, <1>17 DEF Next, Call, Step

LEMMA AbstractInit == Init => Abstract!Init
<1> SUFFICES ASSUME Init PROVE Abstract!Init
  OBVIOUS
<1>1. Indexes = {} /\ ~Resizing
  BY DEF Init, Indexes, RealSlots, Slots, Resizing
<1>2. Contents = [k \in {} |-> NoValue]
  <2>1. Contents = [k \in {} |-> entry_data[CHOOSE i \in {} : entry_keys[i] = k]]
    BY <1>1 DEF Contents, ContentsOf
  <2> QED
    BY <2>1
<1>3. Phase = "idle" /\ Asked = [op |-> "none", key |-> NoKey, value |-> NoValue]
  BY PhaseIs DEF Init, PhaseOf, Asked
<1>4. Answered = [code |-> "SUCCESS", at |-> NoKey]
  BY DEF Init, Answered
<1> QED
  BY <1>2, <1>3, <1>4 DEF Abstract!Init, Abstract!NoCall, Phase, Asked, Answered

(* The table implements the map: up to and with the first insertion whose   *)
(* key cannot be copied, every call answers as the map of Dict would and    *)
(* every step changes the map as a step of Dict may.                        *)
THEOREM TableImplementsDict ==
    ASSUME DistancesFit
    PROVE  Spec => ImplementsDict
<1>1. TypeOK /\ Fits /\ IInv /\ CallCleared /\ [Next]_vars => [failures = 0 => [Abstract!Next]_(Abstract!vars)]_vars
  BY StepRefines DEF IInv
<1> QED
  BY <1>1, AbstractInit, TypeCorrect, CapacityFits, TableSound, CallsAreCleared, PTL DEF Spec, ImplementsDict

(* Keys that are stored before and after a step are stored where they were. *)
KeysStay == \A i \in Indexes, j \in Indexes' : entry_keys[i] = entry_keys'[j] => i = j

LEMMA IndexOfStays ==
    ASSUME KeysStay, NEW k \in Stored \cap Stored'
    PROVE  IndexOf(k)' = IndexOf(k)
<1>1. PICK i \in Indexes : entry_keys[i] = k
  BY DEF Stored
<1>2. PICK j \in Indexes' : entry_keys'[j] = k
  BY DEF Stored
<1>3. i = j
  BY <1>1, <1>2 DEF KeysStay
<1>4. \A n \in Indexes : entry_keys[n] = k => n = i
  BY <1>2, <1>3 DEF KeysStay
<1>5. \A n \in Indexes' : entry_keys'[n] = k => n = i
  BY <1>1 DEF KeysStay
<1>6. IndexOf(k) = i
  BY <1>1, <1>4 DEF IndexOf
<1>7. (CHOOSE n \in Indexes' : entry_keys'[n] = k) = i
  BY <1>2, <1>3, <1>5
<1> QED
  BY <1>6, <1>7 DEF IndexOf

(* Entries that are there already, or that leave, do not move keys.         *)
LEMMA FewerKeysStay ==
    ASSUME Sound, Indexes' \subseteq Indexes, \A i \in Indexes' : entry_keys'[i] = entry_keys[i]
    PROVE  KeysStay
BY DEF Sound, KeysSound, KeysOfTheirOwn, KeysStay

LEMMA StepKeepsKeys ==
    ASSUME TypeOK, Sound, Fits, [Next]_vars, ~Resizing, ~Resizing'
    PROVE  KeysStay
<1>0. TypeOK' /\ (failures' = failures => Sound')
  BY StepType, StepKeepsSound
<1>1. ASSUME UNCHANGED <<array_vars, capacity>>,
             (~in_hand /\ ~in_hand') \/ UNCHANGED <<in_hand, hand, hole, pc>>
      PROVE  KeysStay
  BY <1>1, SameEntries, FewerKeysStay DEF array_vars
<1>2. CASE InitTable \/ Resize
  <2>1. pc = "idle" /\ ~in_hand
    BY <1>2 DEF InitTable, Resize, Sound, HandSound, Placing, Shifting
  <2>2. CASE InitTable
    <3>1. capacity = 0 /\ Slots(0) = {}
      BY <2>2, HandType DEF InitTable, initialized, Slots
    <3>2. Indexes = {}
      BY <2>1, <3>1 DEF Indexes, RealSlots
    <3> QED
      BY <3>2 DEF KeysStay
  <2>3. CASE Resize
    <3>1. NoWalk /\ UNCHANGED <<array_vars, capacity>>
      BY <2>3 DEF Resize, Begin, Resizing
    <3> QED
      BY <1>1, <2>1, <3>1 DEF NoWalk, walk_vars
  <2> QED
    BY <1>2, <2>2, <2>3
<1>3. CASE \/ \E k \in Keys, v \in Values : Insert(k, v)
           \/ \E k \in Keys : LookUp(k) \/ Delete(k)
           \/ \E f \in {"clear", "free"} : Clear(f)
           \/ IterInit
  <2>1. /\ pc = "idle" /\ ~in_hand /\ ~in_hand' /\ UNCHANGED <<array_vars, capacity>>
    BY <1>3 DEF Insert, LookUp, Delete, Clear, IterInit, Begin, NoWalk, walk_vars,
                Sound, HandSound, Placing, Shifting
  <2> QED
    BY <1>1, <2>1
<1>4. CASE \E v \in Values : Write(v)
  <2>1. Indexes' = Indexes /\ entry_keys' = entry_keys
    BY <1>4 DEF Write, NoWalk, walk_vars, Indexes, RealSlots
  <2> QED
    BY <2>1, FewerKeysStay
<1>5. CASE InsertPlace
  <2> DEFINE ci == Current.data_index
  <2>0. /\ pc = "insert" /\ pc' = "idle" /\ ~in_hand' /\ Placing /\ Keyed /\ Probing
        /\ ~Current.occupied /\ entries' = Placed /\ capacity' = capacity
        /\ entry_keys' = [entry_keys EXCEPT ![ci] = key] \/ entry_keys' = entry_keys
    BY <1>5 DEF InsertPlace, Lost, Return, Placing, Keyed, Probing
  <2>1. ci \notin Indexes /\ Indexes' = Indexes \cup {ci}
    BY <1>0, <2>0, PlacedIndexes
  <2>2. ci \in Slots(capacity) /\ Indexes \subseteq Slots(capacity)
    BY <2>0, CurrentType, SlotType, HandType DEF Indexes, RealSlots
  <2>3. entry_keys[ci] = NoKey
    BY <2>1, <2>2 DEF Sound, KeysSound
  <2>4. \A i \in Indexes : entry_keys[i] # key /\ entry_keys[i] \in Keys
    BY <2>0, KeyInMap, ContentsNow DEF KeysAt, KeysOfTheirOwn
  <2>5. entry_keys'[ci] \in {key, NoKey} /\ \A i \in Indexes : entry_keys'[i] = entry_keys[i]
    BY <2>0, <2>1, <2>2, <2>3 DEF TypeOK, TableType
  <2>6. \A i \in Indexes : entry_keys[i] # entry_keys'[ci]
    BY <2>4, <2>5, ConstantsAssumption
  <2>7. \A i, j \in Indexes : entry_keys[i] = entry_keys'[j] => i = j
    BY <2>5 DEF Sound, KeysSound, KeysOfTheirOwn
  <2> QED
    BY <2>1, <2>6, <2>7 DEF KeysStay
<1>6. CASE InsertDuplicate \/ LookUpFound \/ NotFound
  <2>1. Keyed /\ UNCHANGED <<array_vars, capacity>> /\ ~in_hand'
    BY <1>6 DEF InsertDuplicate, LookUpFound, NotFound, Finding, Keyed, Return
  <2>2. ~in_hand
    BY <1>6, <2>1, KeyInMap DEF InsertDuplicate, LookUpFound, NotFound, Finding, Sound, HandSound, Placing, Shifting
  <2> QED
    BY <1>1, <2>1, <2>2
<1>7. CASE InsertSwap
  <2>1. Placing /\ Placing' /\ Sound'
    BY <1>0, <1>7 DEF InsertSwap, Placing
  <2>2. Indexes' = Indexes
    BY <1>0, <1>7, <2>1, SwapIndexes DEF InsertSwap
  <2> QED
    BY <1>7, <2>2, FewerKeysStay DEF InsertSwap
<1>8. CASE InsertWalk \/ FindWalk
  BY <1>1, <1>8 DEF InsertWalk, FindWalk, Walk
<1>9. CASE DeleteFound
  BY <1>9, DeleteIndexes, FewerKeysStay
<1>10. CASE ShiftMove \/ ShiftStop
  BY <1>10, ShiftIndexes, FewerKeysStay DEF ShiftMove, ShiftStop
<1>11. CASE ClearSlot
  <2>1. CASE Current.occupied
    BY <1>11, <2>1, ClearIndexes, FewerKeysStay
  <2>2. CASE ~Current.occupied
    BY <1>1, <1>11, <2>2 DEF ClearSlot
  <2> QED
    BY <2>1, <2>2
<1>12. CASE ClearDone
  <2>1. ~in_hand /\ ~in_hand'
    BY <1>12 DEF ClearDone, Clearing, Return, Sound, HandSound, Placing, Shifting
  <2>2. CASE UNCHANGED <<array_vars, capacity>>
    BY <1>1, <2>1, <2>2
  <2>3. CASE capacity' = 0
    <3>1. Indexes' = {}
      BY <2>1, <2>3 DEF Indexes, RealSlots, Slots
    <3> QED
      BY <3>1 DEF KeysStay
  <2> QED
    BY <1>12, <2>2, <2>3 DEF ClearDone
<1>13. CASE IterNext \/ IterEnd
  <2>1. ~in_hand /\ ~in_hand' /\ UNCHANGED <<array_vars, capacity>>
    BY <1>13 DEF IterNext, IterEnd, Return, Sound, HandSound, Placing, Shifting
  <2> QED
    BY <1>1, <2>1
<1>14. CASE Crash
  BY <1>14, NoUnwrittenKey DEF Crash
<1>15. CASE UNCHANGED vars
  BY <1>1, <1>15 DEF vars, array_vars
<1>16. ~ResizeSkip /\ ~ResizeEntry /\ ~ResizeDone /\ ~RehashPlace /\ ~RehashSwap /\ ~RehashWalk
  BY DEF ResizeSkip, ResizeEntry, ResizeDone, RehashPlace, RehashSwap, RehashWalk, Resizing
<1> QED
  BY <1>2, <1>3, <1>4, <1>5, <1>6, <1>7, <1>8, <1>9, <1>10, <1>11, <1>12, <1>13, <1>14, <1>15, <1>16 DEF Next, Call, Step

(* The pointer to the data of a key stays valid while the key is stored,    *)
(* whatever is inserted or deleted around it: only a resize moves data.     *)
THEOREM PointersStayValid ==
    ASSUME DistancesFit
    PROVE  Spec => PointersStable
<1>1. TypeOK /\ Fits /\ IInv /\ [Next]_vars =>
         [failures = 0 /\ ~Resizing /\ ~Resizing' =>
             \A k \in Stored \cap Stored' : IndexOf(k)' = IndexOf(k)]_vars
  BY StepKeepsKeys, IndexOfStays DEF IInv
<1> QED
  BY <1>1, TypeCorrect, CapacityFits, TableSound, PTL DEF Spec, PointersStable
=============================================================================
