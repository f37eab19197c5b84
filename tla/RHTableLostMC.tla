--------------------------- MODULE RHTableLostMC ----------------------------
(* The table after failed copies of keys.  A failed copy leaves a slot that *)
(* is in use and whose key was never written; what later calls do with it   *)
(* is explored, up to a table without an empty slot.                        *)
EXTENDS RHTable, TLC

CONSTANTS a, d, v

LostKeys   == {a, d}
LostValues == {v}
LostHash   == [k \in Keys |-> (a :> 3 @@ d :> 4)[k]]
LostFinger == [k \in Keys |-> (a :> 1 @@ d :> 1)[k]]

(* History: an insertion has returned with an entry in its hand.  It took   *)
(* the unwritten key of a lost slot for its own, after it had swapped.      *)
(* Bound: nothing is explored behind that.                                  *)
VARIABLE dropped

DropsEntry == pc = "insert" /\ in_hand /\ Current.occupied /\ pc' = "idle"

LostNext ==
    /\ ~dropped /\ Next
    /\ dropped' = DropsEntry

LostSpec ==
    /\ Init /\ dropped = FALSE
    /\ [][LostNext]_<<vars, dropped>>
    /\ WF_vars(~dropped /\ Step)

(* An insertion that finds every slot taken turns in circles: the slots     *)
(* that failed copies cost are not counted in the size, so that the table is*)
(* not refused as full, whatever robin_hood_table.h:162 says.               *)
HasEmptySlot == \E p \in Slots(capacity) : ~entries[p].occupied
Returned     == pc \in {"idle", "crashed"}
Ends         == pc = "insert" => HasEmptySlot

(* However many keys could not be copied, and whatever is called then, the  *)
(* slots they cost hide nothing: each stored key is where its hash and      *)
(* distance say, with its way there held, and no slot, lost or not, uses    *)
(* the data index of another.                                               *)
LostSlotsHideNothing ==
    ~dropped /\ ~Clearing /\ pc # "crashed" /\ Ends =>
        /\ \A p, q \in Slots(capacity) : p # q => IndexAt(p) # IndexAt(q)
        /\ \A p \in RealSlots :
              entry_keys[entries[p].data_index] \in Keys =>
                  /\ entries[p].finger_print = Finger[entry_keys[entries[p].data_index]]
                  /\ entries[p].distance = Offset(HomeOf(p), p)
                  /\ PathHeld(HomeOf(p), entries[p].distance)

(* Every function called on the table returns, or ends the process on a key *)
(* that was never written, whatever failed before: a probe meets an empty   *)
(* slot or a richer entry, and a shift an entry that is at home.  Only an   *)
(* insertion needs the empty slot.                                          *)
CallsReturn == pc # "idle" /\ Ends ~> Returned
=============================================================================
