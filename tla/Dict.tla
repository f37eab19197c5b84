-------------------------------- MODULE Dict --------------------------------
(***************************************************************************)
(* What the callers of robin_hood_table.h get: a map from keys to data,    *)
(* used through one call at a time.  A call is announced (phase "called"), *)
(* takes effect on "dict" in one step, and is answered by a code and, for  *)
(* the calls that hand out a pointer, the key whose data it points to.     *)
(* The slots, the probing and the rehashing are not visible here.          *)
(*                                                                         *)
(* This is what the code does, and in one place not what the header says:  *)
(* the insertion of a key that is there leaves its data alone and hands    *)
(* out a pointer to it, through which the caller may Write.  The header    *)
(* says that it "has update on insert semantics" (line 152); it has not.   *)
(***************************************************************************)
EXTENDS Naturals

CONSTANTS Keys, Values, NoKey, NoValue

VARIABLES dict, phase, call, reply

vars == <<dict, phase, call, reply>>

Maps   == UNION { [D -> Values] : D \in SUBSET Keys }
NoCall == [op |-> "none", key |-> NoKey, value |-> NoValue]
Ops    == {"insert", "look_up", "delete", "resize", "clear", "free", "iterate"}

Without(k) == [j \in DOMAIN dict \ {k} |-> dict[j]]
With(k, v) == [j \in DOMAIN dict \cup {k} |-> IF j = k THEN v ELSE dict[j]]

Answer(code, k) ==
    /\ phase' = "idle"
    /\ call' = NoCall
    /\ reply' = [code |-> code, at |-> k]

-----------------------------------------------------------------------------
Begin(op, k, v) ==
    /\ phase = "idle"
    /\ phase' = "called"
    /\ call' = [op |-> op, key |-> k, value |-> v]
    /\ reply' = [reply EXCEPT !.at = NoKey]
    /\ UNCHANGED dict

(* A call answered at once: nothing in the map changes.                     *)
Refuse(code) ==
    /\ phase = "idle"
    /\ code \in {"SUCCESS", "TABLE_EMPTY"} => DOMAIN dict = {}
    /\ Answer(code, NoKey)
    /\ UNCHANGED dict

InsertNew ==
    /\ phase = "called" /\ call.op = "insert" /\ call.key \notin DOMAIN dict
    /\ dict' = With(call.key, call.value)
    /\ Answer("SUCCESS", call.key)

(* The key cannot be stored.                                                *)
InsertFails ==
    /\ phase = "called" /\ call.op = "insert" /\ call.key \notin DOMAIN dict
    /\ Answer("ALLOC_FAIL", NoKey)
    /\ UNCHANGED dict

(* Nothing is updated: see above.                                           *)
InsertExisting ==
    /\ phase = "called" /\ call.op = "insert" /\ call.key \in DOMAIN dict
    /\ Answer("KEY_FOUND", call.key)
    /\ UNCHANGED dict

LookUp ==
    /\ phase = "called" /\ call.op = "look_up" /\ call.key \in DOMAIN dict
    /\ Answer("SUCCESS", call.key)
    /\ UNCHANGED dict

Absent ==
    /\ phase = "called" /\ call.op \in {"look_up", "delete"}
    /\ call.key \notin DOMAIN dict
    /\ Answer("KEY_NOT_FOUND", NoKey)
    /\ UNCHANGED dict

Delete ==
    /\ phase = "called" /\ call.op = "delete" /\ call.key \in DOMAIN dict
    /\ dict' = Without(call.key)
    /\ phase' = "done"
    /\ UNCHANGED <<call, reply>>

DeleteReturn ==
    /\ phase = "done"
    /\ Answer("SUCCESS", NoKey)
    /\ UNCHANGED dict

(* clear and free give up one entry after the other.                        *)
Drop(k) ==
    /\ phase = "called" /\ call.op \in {"clear", "free"}
    /\ dict' = Without(k)
    /\ UNCHANGED <<phase, call, reply>>

Dropped ==
    /\ phase = "called" /\ call.op \in {"clear", "free"} /\ DOMAIN dict = {}
    /\ Answer("SUCCESS", NoKey)
    /\ UNCHANGED dict

(* A resize, and an iteration from the outside, leave the map as it is.     *)
Kept ==
    /\ phase = "called" /\ call.op \in {"resize", "iterate"}
    /\ Answer(IF call.op = "resize" THEN "SUCCESS" ELSE "ITER_END", NoKey)
    /\ UNCHANGED dict

Write(v) ==
    /\ phase = "idle" /\ reply.at \in DOMAIN dict
    /\ dict' = With(reply.at, v)
    /\ UNCHANGED <<phase, call, reply>>

-----------------------------------------------------------------------------
Init ==
    /\ dict = [k \in {} |-> NoValue]
    /\ phase = "idle"
    /\ call = NoCall
    /\ reply = [code |-> "SUCCESS", at |-> NoKey]

Next ==
    \/ \E op \in Ops, k \in Keys \cup {NoKey}, v \in Values \cup {NoValue} : Begin(op, k, v)
    \/ \E code \in {"SUCCESS", "TABLE_FULL", "TABLE_EMPTY", "ALLOC_FAIL"} : Refuse(code)
    \/ InsertNew \/ InsertFails \/ InsertExisting \/ LookUp \/ Absent
    \/ Delete \/ DeleteReturn
    \/ \E k \in DOMAIN dict : Drop(k)
    \/ Dropped \/ Kept
    \/ \E v \in Values : Write(v)

Spec == Init /\ [][Next]_vars
=============================================================================
