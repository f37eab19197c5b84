------------------------------- MODULE RHTable -------------------------------
(***************************************************************************)
(* The Robin Hood hash table of robin_hood_table.c, one action for every   *)
(* iteration of its loops.  A slot of "entries" holds metadata only; the   *)
(* key and the data of an occupied slot live at the slot's data_index in   *)
(* entry_keys and entry_data, so that a swap moves eight bytes and the     *)
(* pointers handed to the caller stay where they are.                      *)
(*                                                                         *)
(* A call starts at pc = "idle", sets the local variables of the C         *)
(* function, iterates, and returns with a code in "ret" and, where the C   *)
(* function sets *data_out, the data index of that pointer in "data_out".  *)
(* The table is in use by one caller at a time: the program has one thread.*)
(***************************************************************************)
EXTENDS Integers, FiniteSets

CONSTANTS
    Keys,            \* the strings used as keys
    Values,          \* the data stored under them
    Hash,            \* get_hash(k): the low bits, which choose the home slot
    Finger,          \* MASKED_HASH(get_hash(k)): the top 15 bits
    InitCapacity,    \* the "size" argument of rh_table_init
    MaxCapacity,     \* bound: no resize beyond this capacity is explored
    DistanceLimit,   \* how many distances there are: 2^16, of a uint16_t
    MaxCopyFailures, \* bound: how often sb_copy of a new key may run out of memory
    NoKey, NoValue   \* what a slot holds when it is uninitialised or freed

ASSUME ConstantsAssumption ==
    /\ Hash \in [Keys -> Nat]
    /\ Finger \in [Keys -> Nat]
    /\ InitCapacity \in Nat \ {0}
    /\ MaxCapacity \in Nat
    /\ DistanceLimit \in Nat \ {0}
    /\ MaxCopyFailures \in Nat
    /\ NoKey \notin Keys
    /\ NoValue \notin Values

(* IS_POWER_OF_2(size): what makes "hash & (capacity - 1)" a remainder.     *)
ASSUME PowerOfTwoAssumption ==
    \E n \in 0..InitCapacity : InitCapacity = 2^n

(* In a table of at most DistanceLimit slots no distance is cut off: it is   *)
(* less than the capacity.                                                  *)
DistancesFit == InitCapacity <= DistanceLimit /\ MaxCapacity <= DistanceLimit

VARIABLES
    \* rh_table_t; capacity = 0 stands for NULL arrays
    entries, entry_keys, entry_data, size, capacity,
    \* the arrays saved by rh_table_resize, and its loop counter
    old_entries, old_keys, old_data, old_capacity, entry_index,
    \* the function in progress and its arguments
    pc, key, value,
    \* its locals: the slot looked at, the probe distance, the entry held in
    \* a local variable (new_entry or displaced_entry), whether that entry
    \* has been taken out of the table, and the slot it left behind
    pos, distance, hand, in_hand, hole,
    \* the keys seen by the iteration in progress
    seen,
    \* how many key copies have failed (bounds the exploration)
    failures,
    \* what the last call returned
    ret, data_out

array_vars == <<entries, entry_keys, entry_data>>
old_vars   == <<old_entries, old_keys, old_data, old_capacity>>
walk_vars  == <<pos, distance, hand, in_hand, hole>>
reply_vars == <<ret, data_out>>
vars == <<entries, entry_keys, entry_data, size, capacity,
          old_entries, old_keys, old_data, old_capacity, entry_index,
          pc, key, value, pos, distance, hand, in_hand, hole, seen,
          failures, ret, data_out>>

-----------------------------------------------------------------------------
(* Entries and positions.                                                   *)

Slots(c) == 0 .. c - 1
NoIndex  == -1                 \* data_out when no pointer was handed out

(* An empty slot still owns a data index; its distance and fingerprint are  *)
(* never read and are normalised here.                                      *)
FreeEntry(i)   == [data_index |-> i, distance |-> 0, occupied |-> FALSE, finger_print |-> 0]
StillInUse(e)  == e
Freed(e)       == FreeEntry(e.data_index)             \* SET_SLOT_EMPTY
NewEntry(f)    == [data_index |-> 0, distance |-> 0, occupied |-> TRUE, finger_print |-> f]
FreshEntries(c) == [i \in Slots(c) |-> FreeEntry(i)]

Home(h, c)  == h % c                                  \* hash & mask
NextSlotUnmasked(p) == p + 1
NextSlot(p) == IF p + 1 = capacity THEN 0 ELSE p + 1  \* (pos + 1) & mask
Current     == entries[pos]
initialized == capacity > 0

(* 15/16 of the capacity, compared before the new key is looked for.        *)
TableFullToTheBrim == size >= capacity
TableFull == 16 * (size + 1) >= 15 * capacity

(* The slot's entry is closer to its home than the probe is to its own.     *)
RicherOrEqual == Current.distance <= distance
Richer == Current.distance < distance

(* The outcomes of "fingerprints agree && sb_cmp(...) == 0" for the key of  *)
(* the call.  Both are possible when the slot's key was never written.      *)
KeyMatches(e) == /\ e.finger_print = Finger[key]
                 /\ entry_keys[e.data_index] \in {key, NoKey}
KeyDiffers(e) == \/ e.finger_print # Finger[key]
                 \/ entry_keys[e.data_index] # key

-----------------------------------------------------------------------------
(* Starting, walking and returning.                                         *)

NoHand == FreeEntry(0)

Return(code, index) ==
    /\ pc' = "idle"
    /\ ret' = code
    /\ data_out' = index
    /\ key' = NoKey
    /\ value' = NoValue
    /\ pos' = 0
    /\ distance' = 0
    /\ hand' = NoHand
    /\ in_hand' = FALSE
    /\ hole' = 0

(* A function begins: its locals are set and nothing else changes.          *)
Begin(f, k, v, start, e) ==
    /\ pc' = f
    /\ key' = k
    /\ value' = v
    /\ pos' = start
    /\ hand' = e
    /\ distance' = 0
    /\ in_hand' = FALSE
    /\ hole' = 0
    /\ data_out' = NoIndex
    /\ UNCHANGED ret

NoWalk == UNCHANGED <<pc, key, value, walk_vars>>

(* A distance is counted in 16 bits.                                        *)
Further(d) == (d + 1) % DistanceLimit

Walk == /\ distance' = Further(distance)
        /\ pos' = NextSlot(pos)
        /\ UNCHANGED <<hand, in_hand, hole>>

(* orig_entry_pos: the slot of the first swap, or else of the empty slot.   *)
LatestSwap == pos
FirstSwap == IF in_hand THEN hole ELSE pos

(* Entry swap: the entry in hand takes the slot and its occupant is carried *)
(* on; the slot of the first swap is where the new key is.                  *)
Swap == /\ entries' = [entries EXCEPT ![pos] = [hand EXCEPT !.distance = distance]]
        /\ hand' = Current
        /\ distance' = Further(Current.distance)
        /\ hole' = FirstSwap
        /\ in_hand' = TRUE
        /\ pos' = NextSlot(pos)

(* The walk ends on an empty slot, whose data index goes to the new key.    *)
Filled == [entries EXCEPT ![pos] = [hand EXCEPT !.distance = distance]]
PlacedAtEnd == [Filled EXCEPT ![pos] = [@ EXCEPT !.data_index = Current.data_index]]
Placed == [Filled EXCEPT ![FirstSwap] = [@ EXCEPT !.data_index = Current.data_index]]

-----------------------------------------------------------------------------
(* rh_table_init                                                            *)

InitTable ==
    /\ pc = "idle" /\ ~initialized
    /\ \/ /\ entries' = FreshEntries(InitCapacity)
          /\ entry_keys' = [i \in Slots(InitCapacity) |-> NoKey]
          /\ entry_data' = [i \in Slots(InitCapacity) |-> NoValue]
          /\ capacity' = InitCapacity
          /\ size' = 0
          /\ ret' = "SUCCESS"
       \/ /\ ret' = "ALLOC_FAIL"
          /\ UNCHANGED <<array_vars, capacity, size>>
    /\ data_out' = NoIndex
    /\ NoWalk
    /\ UNCHANGED <<old_vars, entry_index, seen, failures>>

-----------------------------------------------------------------------------
(* rh_table_insert                                                          *)

Insert(k, v) ==
    /\ pc = "idle" /\ initialized
    /\ \/ /\ TableFull
          /\ ret' = "TABLE_FULL"
          /\ data_out' = NoIndex
          /\ NoWalk
       \/ /\ ~TableFull
          /\ Begin("insert", k, v, Home(Hash[k], capacity), NewEntry(Finger[k]))
    /\ UNCHANGED <<array_vars, size, capacity, old_vars, entry_index, seen, failures>>

(* The slot's entry is complete before its key is copied.                   *)
LostUnplaced == Filled
Lost == Placed

InsertPlace ==
    /\ pc = "insert" /\ ~Current.occupied
    /\ LET kicked_out_idx == Current.data_index IN
       \/ /\ entries' = Placed
          /\ entry_keys' = [entry_keys EXCEPT ![kicked_out_idx] = key]
          /\ entry_data' = [entry_data EXCEPT ![kicked_out_idx] = value]
          /\ size' = size + 1
          /\ Return("SUCCESS", kicked_out_idx)
          /\ UNCHANGED failures
       \/ /\ failures < MaxCopyFailures
          /\ entries' = Lost
          /\ failures' = failures + 1
          /\ Return("ALLOC_FAIL", NoIndex)
          /\ UNCHANGED <<entry_keys, entry_data, size>>
    /\ UNCHANGED <<capacity, old_vars, entry_index, seen>>

InsertDuplicate ==
    /\ pc = "insert" /\ Current.occupied /\ KeyMatches(Current)
    /\ Return("KEY_FOUND", Current.data_index)
    /\ UNCHANGED <<array_vars, size, capacity, old_vars, entry_index, seen, failures>>

InsertSwap ==
    /\ pc = "insert" /\ Current.occupied /\ KeyDiffers(Current)
    /\ Richer
    /\ Swap
    /\ UNCHANGED <<entry_keys, entry_data, size, capacity, old_vars,
                   entry_index, pc, key, value, seen, failures, reply_vars>>

InsertWalk ==
    /\ pc = "insert" /\ Current.occupied /\ KeyDiffers(Current)
    /\ ~Richer
    /\ Walk
    /\ UNCHANGED <<array_vars, size, capacity, old_vars, entry_index,
                   pc, key, value, seen, failures, reply_vars>>

-----------------------------------------------------------------------------
(* __rh_table_find_slot, for rh_table_look_up and rh_table_delete           *)

LookUp(k) ==
    /\ pc = "idle" /\ initialized
    /\ Begin("look_up", k, NoValue, Home(Hash[k], capacity), NoHand)
    /\ UNCHANGED <<array_vars, size, capacity, old_vars, entry_index, seen, failures>>

Delete(k) ==
    /\ pc = "idle" /\ initialized
    /\ \/ /\ size = 0
          /\ ret' = "TABLE_EMPTY"
          /\ data_out' = NoIndex
          /\ NoWalk
       \/ /\ size # 0
          /\ Begin("delete", k, NoValue, Home(Hash[k], capacity), NoHand)
    /\ UNCHANGED <<array_vars, size, capacity, old_vars, entry_index, seen, failures>>

Finding == pc \in {"look_up", "delete"}

LookUpFound ==
    /\ pc = "look_up" /\ Current.occupied /\ KeyMatches(Current)
    /\ Return("SUCCESS", Current.data_index)
    /\ UNCHANGED <<array_vars, size, capacity, old_vars, entry_index, seen, failures>>

(* The key and the data are released, then the slot is given to shift_back. *)
DeleteFound ==
    /\ pc = "delete" /\ Current.occupied /\ KeyMatches(Current)
    /\ size' = size - 1
    /\ entry_keys' = [entry_keys EXCEPT ![Current.data_index] = NoKey]
    /\ entry_data' = [entry_data EXCEPT ![Current.data_index] = NoValue]
    /\ pc' = "shift_back"
    /\ hand' = Freed(Current)
    /\ in_hand' = TRUE
    /\ hole' = pos
    /\ pos' = NextSlot(pos)
    /\ distance' = 0
    /\ UNCHANGED <<entries, capacity, old_vars, entry_index, key, value, seen, failures, reply_vars>>

NotFound ==
    /\ Finding
    /\ \/ ~Current.occupied
       \/ KeyDiffers(Current) /\ Richer
    /\ Return("KEY_NOT_FOUND", NoIndex)
    /\ UNCHANGED <<array_vars, size, capacity, old_vars, entry_index, seen, failures>>

FindWalk ==
    /\ Finding /\ Current.occupied /\ KeyDiffers(Current)
    /\ ~Richer
    /\ Walk
    /\ UNCHANGED <<array_vars, size, capacity, old_vars, entry_index,
                   pc, key, value, seen, failures, reply_vars>>

-----------------------------------------------------------------------------
(* __rh_table_shift_back                                                    *)

NotCloser(e) == e
Closer(e) == [e EXCEPT !.distance = @ - 1]

ShiftMove ==
    /\ pc = "shift_back" /\ Current.occupied /\ Current.distance > 0
    /\ entries' = [entries EXCEPT ![pos] = Closer(Current), ![hole] = Closer(Current)]
    /\ hole' = pos
    /\ pos' = NextSlot(pos)
    /\ UNCHANGED <<entry_keys, entry_data, size, capacity, old_vars, entry_index,
                   pc, key, value, distance, hand, in_hand, seen, failures, reply_vars>>

ShiftStop ==
    /\ pc = "shift_back" /\ (~Current.occupied \/ Current.distance = 0)
    /\ entries' = [entries EXCEPT ![hole] = hand]
    /\ Return("SUCCESS", NoIndex)
    /\ UNCHANGED <<entry_keys, entry_data, size, capacity, old_vars, entry_index, seen, failures>>

-----------------------------------------------------------------------------
(* rh_table_resize and __rh_table_rehash_insert                             *)

Resize ==
    /\ pc = "idle" /\ initialized /\ 2 * capacity <= MaxCapacity
    /\ \/ /\ old_entries' = entries
          /\ old_keys' = entry_keys
          /\ old_data' = entry_data
          /\ old_capacity' = capacity
          /\ entries' = FreshEntries(2 * capacity)
          /\ entry_keys' = [i \in Slots(2 * capacity) |-> NoKey]
          /\ entry_data' = [i \in Slots(2 * capacity) |-> NoValue]
          /\ capacity' = 2 * capacity
          /\ entry_index' = 0
          /\ Begin("resize", NoKey, NoValue, 0, NoHand)
       \/ /\ ret' = "ALLOC_FAIL"
          /\ data_out' = NoIndex
          /\ NoWalk
          /\ UNCHANGED <<array_vars, capacity, old_vars, entry_index>>
    /\ UNCHANGED <<size, seen, failures>>

OldEntry == old_entries[entry_index]

ResizeSkip ==
    /\ pc = "resize" /\ entry_index < old_capacity /\ ~OldEntry.occupied
    /\ entry_index' = entry_index + 1
    /\ NoWalk
    /\ UNCHANGED <<array_vars, size, capacity, old_vars, seen, failures, reply_vars>>

(* The hash is computed again from the saved key; of a key that was never   *)
(* written it can be anything.                                              *)
ResizeEntry ==
    /\ pc = "resize" /\ entry_index < old_capacity /\ OldEntry.occupied
    /\ \E k \in Keys :
          /\ old_keys[OldEntry.data_index] \in {k, NoKey}
          /\ Begin("rehash_insert", NoKey, NoValue, Home(Hash[k], capacity), NewEntry(Finger[k]))
    /\ UNCHANGED <<array_vars, size, capacity, old_vars, entry_index, seen, failures>>

RehashPlace ==
    /\ pc = "rehash_insert" /\ ~Current.occupied
    /\ entries' = Placed
    /\ entry_keys' = [entry_keys EXCEPT ![Current.data_index] = old_keys[OldEntry.data_index]]
    /\ entry_data' = [entry_data EXCEPT ![Current.data_index] = old_data[OldEntry.data_index]]
    /\ entry_index' = entry_index + 1
    /\ pc' = "resize"
    /\ pos' = 0
    /\ distance' = 0
    /\ hand' = NoHand
    /\ in_hand' = FALSE
    /\ hole' = 0
    /\ UNCHANGED <<size, capacity, old_vars, key, value, seen, failures, reply_vars>>

RehashSwap ==
    /\ pc = "rehash_insert" /\ Current.occupied /\ Richer
    /\ Swap
    /\ UNCHANGED <<entry_keys, entry_data, size, capacity, old_vars,
                   entry_index, pc, key, value, seen, failures, reply_vars>>

RehashWalk ==
    /\ pc = "rehash_insert" /\ Current.occupied /\ ~Richer
    /\ Walk
    /\ UNCHANGED <<array_vars, size, capacity, old_vars, entry_index,
                   pc, key, value, seen, failures, reply_vars>>

(* free(old_entries)                                                        *)
ResizeDone ==
    /\ pc = "resize" /\ entry_index = old_capacity
    /\ old_entries' = FreshEntries(0)
    /\ old_keys' = [i \in Slots(0) |-> NoKey]
    /\ old_data' = [i \in Slots(0) |-> NoValue]
    /\ old_capacity' = 0
    /\ entry_index' = 0
    /\ Return("SUCCESS", NoIndex)
    /\ UNCHANGED <<array_vars, size, capacity, seen, failures>>

-----------------------------------------------------------------------------
(* rh_table_clear and rh_table_free                                         *)

Clear(f) ==
    /\ pc = "idle" /\ initialized
    /\ Begin(f, NoKey, NoValue, 0, NoHand)
    /\ UNCHANGED <<array_vars, size, capacity, old_vars, entry_index, seen, failures>>

Clearing == pc \in {"clear", "free"}

ClearSlot ==
    /\ Clearing /\ pos < capacity
    /\ \/ /\ Current.occupied
          /\ entries' = [entries EXCEPT ![pos] = Freed(Current)]
          /\ entry_keys' = [entry_keys EXCEPT ![Current.data_index] = NoKey]
          /\ entry_data' = [entry_data EXCEPT ![Current.data_index] = NoValue]
       \/ ~Current.occupied /\ UNCHANGED array_vars
    /\ pos' = pos + 1
    /\ UNCHANGED <<size, capacity, old_vars, entry_index, pc, key, value,
                   distance, hand, in_hand, hole, seen, failures, reply_vars>>

ClearDone ==
    /\ Clearing /\ pos = capacity
    /\ size' = 0
    /\ \/ pc = "clear" /\ UNCHANGED <<array_vars, capacity>>
       \/ /\ pc = "free"
          /\ entries' = FreshEntries(0)
          /\ entry_keys' = [i \in Slots(0) |-> NoKey]
          /\ entry_data' = [i \in Slots(0) |-> NoValue]
          /\ capacity' = 0
    /\ Return("SUCCESS", NoIndex)
    /\ UNCHANGED <<old_vars, entry_index, seen, failures>>

-----------------------------------------------------------------------------
(* RH_TABLE_ITER: iter_init, then iter_next while the iterator is valid.    *)

(* The first occupied slot from p on, or the capacity.                      *)
IsSomeOccupied(p, n) == n < capacity => entries[n].occupied
IsNextOccupied(p, n) ==
    /\ \A q \in p .. n - 1 : ~entries[q].occupied
    /\ n < capacity => entries[n].occupied

IterSeen(n) == IF n = capacity THEN {} ELSE {entry_keys[entries[n].data_index]}

IterInit ==
    /\ pc = "idle" /\ initialized
    /\ \E n \in 0 .. capacity :
          /\ IsNextOccupied(0, n)
          /\ Begin("iterate", NoKey, NoValue, n, NoHand)
          /\ seen' = IterSeen(n)
    /\ UNCHANGED <<array_vars, size, capacity, old_vars, entry_index, failures>>

IterFromSame == pos
IterFrom == pos + 1

IterNext ==
    /\ pc = "iterate" /\ pos < capacity
    /\ \E n \in IterFrom .. capacity :
          /\ IsNextOccupied(IterFrom, n)
          /\ pos' = n
          /\ seen' = seen \cup IterSeen(n)
    /\ UNCHANGED <<array_vars, size, capacity, old_vars, entry_index, pc, key,
                   value, distance, hand, in_hand, hole, failures, reply_vars>>

IterEnd ==
    /\ pc = "iterate" /\ pos = capacity
    /\ seen' = {}
    /\ Return("ITER_END", NoIndex)
    /\ UNCHANGED <<array_vars, size, capacity, old_vars, entry_index, failures>>

-----------------------------------------------------------------------------
(* The caller writes through the pointer it got from its last call.         *)
Write(v) ==
    /\ pc = "idle" /\ data_out # NoIndex
    /\ entry_data' = [entry_data EXCEPT ![data_out] = v]
    /\ NoWalk
    /\ UNCHANGED <<entries, entry_keys, size, capacity, old_vars, entry_index, seen, failures, reply_vars>>

(* Comparing, hashing or freeing a key that was never written may also end  *)
(* the process.                                                             *)
ReadsUnwrittenKey ==
    \/ /\ pc \in {"insert", "look_up", "delete"}
       /\ Current.occupied
       /\ Current.finger_print = Finger[key]
       /\ entry_keys[Current.data_index] = NoKey
    \/ /\ Clearing /\ pos < capacity
       /\ Current.occupied
       /\ entry_keys[Current.data_index] = NoKey
    \/ /\ pc = "resize" /\ entry_index < old_capacity
       /\ OldEntry.occupied
       /\ old_keys[OldEntry.data_index] = NoKey

Crash ==
    /\ ReadsUnwrittenKey
    /\ pc' = "crashed"
    /\ UNCHANGED <<array_vars, size, capacity, old_vars, entry_index, key,
                   value, walk_vars, seen, failures, reply_vars>>

-----------------------------------------------------------------------------
Init ==
    /\ entries = FreshEntries(0)
    /\ entry_keys = [i \in Slots(0) |-> NoKey]
    /\ entry_data = [i \in Slots(0) |-> NoValue]
    /\ size = 0
    /\ capacity = 0
    /\ old_entries = FreshEntries(0)
    /\ old_keys = [i \in Slots(0) |-> NoKey]
    /\ old_data = [i \in Slots(0) |-> NoValue]
    /\ old_capacity = 0
    /\ entry_index = 0
    /\ pc = "idle"
    /\ key = NoKey
    /\ value = NoValue
    /\ pos = 0
    /\ distance = 0
    /\ hand = NoHand
    /\ in_hand = FALSE
    /\ hole = 0
    /\ seen = {}
    /\ failures = 0
    /\ ret = "SUCCESS"
    /\ data_out = NoIndex

Call ==
    \/ InitTable
    \/ \E k \in Keys, v \in Values : Insert(k, v)
    \/ \E k \in Keys : LookUp(k)
    \/ \E k \in Keys : Delete(k)
    \/ Resize
    \/ \E f \in {"clear", "free"} : Clear(f)
    \/ IterInit
    \/ \E v \in Values : Write(v)

Step ==
    \/ InsertPlace \/ InsertDuplicate \/ InsertSwap \/ InsertWalk
    \/ LookUpFound \/ DeleteFound \/ NotFound \/ FindWalk
    \/ ShiftMove \/ ShiftStop
    \/ ResizeSkip \/ ResizeEntry \/ ResizeDone
    \/ RehashPlace \/ RehashSwap \/ RehashWalk
    \/ ClearSlot \/ ClearDone
    \/ IterNext \/ IterEnd
    \/ Crash

Next == Call \/ Step

Spec == Init /\ [][Next]_vars

(* A function that is running keeps running.                                *)
FairSpec == Spec /\ WF_vars(Step)
-----------------------------------------------------------------------------
(* Type invariant.                                                          *)

Distances  == 0 .. DistanceLimit - 1
Entry(c)   == [data_index : Slots(c), distance : Distances, occupied : BOOLEAN, finger_print : Nat]
CallStates == {"idle", "insert", "look_up", "delete", "shift_back", "resize",
               "rehash_insert", "clear", "free", "iterate", "crashed"}
Probing    == pc \in {"insert", "look_up", "delete", "shift_back", "rehash_insert"}
Resizing   == pc \in {"resize", "rehash_insert"}
Keyed      == pc \in {"insert", "look_up", "delete"}
Codes      == {"SUCCESS", "ALLOC_FAIL", "TABLE_FULL", "TABLE_EMPTY",
               "KEY_FOUND", "KEY_NOT_FOUND", "ITER_END"}

TableType ==
    /\ size \in Nat
    /\ capacity \in Nat
    /\ entries \in [Slots(capacity) -> Entry(capacity)]
    /\ entry_keys \in [Slots(capacity) -> Keys \cup {NoKey}]
    /\ entry_data \in [Slots(capacity) -> Values \cup {NoValue}]

ResizeType ==
    /\ old_capacity \in Nat
    /\ old_entries \in [Slots(old_capacity) -> Entry(old_capacity)]
    /\ old_keys \in [Slots(old_capacity) -> Keys \cup {NoKey}]
    /\ old_data \in [Slots(old_capacity) -> Values \cup {NoValue}]
    /\ entry_index \in 0 .. old_capacity

CallType ==
    /\ pc \in CallStates
    /\ key \in Keys \cup {NoKey}
    /\ value \in Values \cup {NoValue}
    /\ seen \subseteq Keys \cup {NoKey}
    /\ failures \in Nat
    /\ ret \in Codes
    /\ data_out \in Slots(capacity) \cup {NoIndex}

WalkType ==
    /\ pos \in 0 .. capacity
    /\ distance \in Distances
    /\ hand \in [data_index : Nat, distance : Distances, occupied : BOOLEAN, finger_print : Nat]
    /\ hole \in Nat

(* The variables hold values of their types, and while a function probes,   *)
(* every slot and data index it is about to use lies inside the arrays.     *)
TypeOK ==
    /\ TableType
    /\ ResizeType
    /\ CallType
    /\ WalkType
    /\ in_hand \in BOOLEAN
    /\ Keyed => key \in Keys
    /\ Probing => pos < capacity /\ hand.data_index < capacity /\ hole < capacity
    /\ pc = "delete" => size > 0
    /\ pc = "rehash_insert" => entry_index < old_capacity
    /\ Resizing => capacity = 2 * old_capacity

-----------------------------------------------------------------------------
(* The entries really in the table: those of the occupied slots and the one *)
(* in hand, but not what is left in the slot it was taken from.             *)

RealSlots == {p \in Slots(capacity) : entries[p].occupied /\ ~(in_hand /\ p = hole)}
Indexes   == {entries[p].data_index : p \in RealSlots}
                \cup IF in_hand /\ hand.occupied THEN {hand.data_index} ELSE {}
OldIndexes == {old_entries[p].data_index : p \in {q \in Slots(old_capacity) : old_entries[q].occupied}}

IndexOf(k) == CHOOSE i \in Indexes : entry_keys[i] = k
Stored     == {entry_keys[i] : i \in Indexes} \ {NoKey}

ContentsOf(indexes, keys, data) ==
    [k \in {keys[i] : i \in indexes} \ {NoKey} |->
        data[CHOOSE i \in indexes : keys[i] = k]]

(* The map the table stands for: while a resize runs, the saved arrays are  *)
(* still the ones that hold it.                                             *)
Contents == IF Resizing THEN ContentsOf(OldIndexes, old_keys, old_data)
                        ELSE ContentsOf(Indexes, entry_keys, entry_data)

(* The data index of a slot, with the entry in hand for what it left behind.*)
IndexAt(p) == IF in_hand /\ p = hole THEN hand.data_index ELSE entries[p].data_index

Offset(h, p) == IF p >= h THEN p - h ELSE p + capacity - h
HomeOf(p)    == Home(Hash[entry_keys[entries[p].data_index]], capacity)

(* Every slot p that a probe from home h passes before it has gone d slots  *)
(* is in use by an entry at least as far from its own home.                 *)
PathHeld(h, d) ==
    \A p \in Slots(capacity) :
        Offset(h, p) < d /\ ~(in_hand /\ p = hole /\ pc = "shift_back") =>
            entries[p].occupied /\ entries[p].distance >= Offset(h, p)

-----------------------------------------------------------------------------
(* Safety, of a table none of whose key copies failed: a failed copy leaves *)
(* a slot that holds no key.                                                *)

(* No two slots own the same data index, counting the entry in hand for the *)
(* slot it was taken from: neither the swaps of insert and rehash_insert    *)
(* nor the moves of shift_back lose an index or hand one out twice.         *)
IndexesDistinct ==
    failures = 0 => \A p, q \in Slots(capacity) : p # q => IndexAt(p) # IndexAt(q)

(* The Robin Hood invariant that find_slot relies on to give up early: an   *)
(* entry is where its hash and distance say, and all slots on its way there *)
(* hold entries that are at least as far from home.                         *)
ProbePathsHeld ==
    failures = 0 /\ ~Clearing =>
        \A p \in RealSlots :
            /\ entry_keys[entries[p].data_index] \in Keys
            /\ entries[p].finger_print = Finger[entry_keys[entries[p].data_index]]
            /\ entries[p].distance = Offset(HomeOf(p), p)
            /\ PathHeld(HomeOf(p), entries[p].distance)

(* rh_table_size is the number of entries, and the load limit of insert     *)
(* leaves a slot empty, so that every probe meets one.                      *)
SizeCountsEntries ==
    failures = 0 /\ pc \notin {"clear", "free", "resize", "rehash_insert"} =>
        /\ size = Cardinality(Indexes)
        /\ capacity > 0 => \E p \in Slots(capacity) : ~entries[p].occupied

(* No comparison, hash or release ever reads the key of a slot that was     *)
(* never written or has been freed, unless a key copy has failed before.    *)
KeysWrittenBeforeRead == failures = 0 => ~ReadsUnwrittenKey

(* RH_TABLE_ITER visits every stored key, and none of them twice.           *)
IterationExact ==
    failures = 0 /\ pc = "iterate" =>
        /\ Cardinality(seen) = Cardinality({p \in RealSlots : p <= pos})
        /\ pos = capacity => seen = Stored

(* A pointer into entry_data stays valid as long as its key is stored: only *)
(* a resize moves data, whatever is inserted or deleted around it.          *)
PointersStable ==
    [][failures = 0 /\ ~Resizing /\ ~Resizing' =>
          \A k \in Stored \cap Stored' : IndexOf(k)' = IndexOf(k)]_vars

-----------------------------------------------------------------------------
(* The table implements the map of Dict.                                    *)

Operation == CASE pc = "shift_back"    -> "delete"
               [] pc = "rehash_insert" -> "resize"
               [] pc = "idle"          -> "none"
               [] OTHER                -> pc

Abstract == INSTANCE Dict WITH
    dict  <- Contents,
    phase <- CASE pc = "idle" -> "idle" [] pc = "shift_back" -> "done" [] OTHER -> "called",
    call  <- [op |-> Operation, key |-> key, value |-> value],
    reply <- [code |-> ret, at |-> IF data_out = NoIndex THEN NoKey ELSE entry_keys[data_out]]

(* Every call answers as the map of Dict would, and the entries of the      *)
(* table are the map after every step: no key is lost by a swap, a shift or *)
(* a rehash, and none is found that is not there.  This holds up to and     *)
(* with the first insertion whose key cannot be copied; without one it says *)
(* Abstract!Spec.                                                           *)
ImplementsDict ==
    /\ Abstract!Init
    /\ [][failures = 0 => [Abstract!Next]_(Abstract!vars)]_vars

=============================================================================
