---------------------------- MODULE MemoryValue ----------------------------
(***************************************************************************)
(* The tagged unions of memory_value.h and memory_value.c, which may own a *)
(* string, together with the strings they are made from and turned into.   *)
(* str_value and str_lit_value begin at the same place of the union, so a  *)
(* value has one string; its type says whether a capacity goes with it.    *)
(* What the other kinds of values hold is left out, and so is DOUBLE, for  *)
(* which the lexer has no literals and memory_value_copy no case.          *)
(*                                                                         *)
(* A value is made, moved or copied into a place whose old value was given *)
(* up.  Strings of values are read while they are there: the getters       *)
(* assert it.  memory_value_store does not compile and is used nowhere.    *)
(***************************************************************************)
EXTENDS Strings

CONSTANTS
    Vals,              \* the values
    TypeNames          \* type_strings

ASSUME ValuesAssumption == Vals = OtherSlots /\ TypeNames \subseteq Literals

VARIABLE type

vars == <<heap, string, reply, type>>

PlainTypes  == {"PLAIN", "TYPE_STRING"}         \* PLAIN: INT, BOOL, NILL
StringTypes == {"STRING_MUT", "STRING_LIT"}
Types       == PlainTypes \cup StringTypes \cup {"UNDEFINED"}

LeftUntyped(v, t) == type' = type
Typed(v, t) == type' = [type EXCEPT ![v] = t]
(* Bound: a copy goes to a place that was moved out of or never had a       *)
(* string.  One that was freed keeps its old type, which may be the wrong   *)
(* one for the copy.                                                        *)
Vacant(v) == ~Holds(v) /\ type[v] \notin StringTypes

-----------------------------------------------------------------------------
(* memory_value_create, by the kind of value it is given                    *)
CreatePlain(v, t) ==
    /\ Typed(v, t)
    /\ Answer("true")
    /\ UNCHANGED <<heap, string>>

CreateMut(v, m) == sb_move_string_mut(m, v) /\ Typed(v, "STRING_MUT")
CreateLit(v, s) == sb_move_string(s, v) /\ Typed(v, "STRING_LIT")

(* The type of a freed value stays.                                         *)
memory_value_free(v) ==
    /\ IF type[v] \in StringTypes THEN sb_free(v)
       ELSE Answer("true") /\ UNCHANGED <<heap, string>>
    /\ UNCHANGED type

memory_value_get_str_mut(out, v) ==
    /\ \/ type[v] = "STRING_MUT" /\ Holds(v) /\ sb_move_string_mut(v, out)
       \/ type[v] = "STRING_LIT" /\ Holds(v) /\ sb_copy_mut(out, v)
       \/ type[v] = "TYPE_STRING" /\ \E name \in TypeNames : sb_copy_mut(out, name)
    /\ UNCHANGED type

(* The bytes of the old value are cleared, which makes it undefined.        *)
memory_value_move(from, to) ==
    /\ string' = Transferred(from, to, string[from].capacity)
    /\ type' = [type EXCEPT ![to] = type[from], ![from] = "UNDEFINED"]
    /\ Answer("true")
    /\ UNCHANGED heap

(* The copy of a string does not set the type.                              *)
memory_value_copy(out, v) ==
    \/ /\ type[v] \in PlainTypes \cup {"UNDEFINED"}
       /\ CreatePlain(out, type[v])
    \/ /\ type[v] = "STRING_LIT" /\ Holds(v)
       /\ sb_copy(out, v)
       /\ UNCHANGED type
    \/ /\ type[v] = "STRING_MUT" /\ Holds(v)
       /\ sb_copy_mut(out, v)
       /\ UNCHANGED type

-----------------------------------------------------------------------------
Init == StringInit /\ type = [v \in Vals |-> "UNDEFINED"]

ValueNext ==
    /\ Running
    /\ \/ \E v \in Vals : ~Holds(v) /\
             \/ \E t \in PlainTypes : CreatePlain(v, t)
             \/ \E m \in Muts : Holds(m) /\ CreateMut(v, m)
             \/ \E s \in Strs : Holds(s) /\ CreateLit(v, s)
             \/ \E from \in Vals \ {v} : memory_value_move(from, v)
       \/ \E out, v \in Vals : out # v /\ Vacant(out) /\ memory_value_copy(out, v)
       \/ \E v \in Vals : memory_value_free(v)
       \/ \E v \in Vals, out \in Muts : ~Holds(out) /\ memory_value_get_str_mut(out, v)

Untyped(v) == Holds(v) /\ type[v] \notin StringTypes

Next ==
    /\ \A v \in Vals : ~Untyped(v)       \* bound: what becomes of such a string
    /\ ValueNext \/ (StringNext /\ UNCHANGED type)

Spec == Init /\ [][Next]_vars

-----------------------------------------------------------------------------
(* A value that owns a string is said to, so that memory_value_free will    *)
(* free it: only memory_value_copy leaves a string under the type its       *)
(* destination had before.                                                  *)
OnlyCopyLosesType ==
    [][(\E v \in Vals : Untyped(v))' =>
           \E out, v \in Vals : type[v] \in StringTypes /\ memory_value_copy(out, v)]_vars

(* What memory_value.h says of each call on values, but for one:            *)
(* memory_value_get_str_mut copies the text of a string literal (c:162) and *)
(* leaves the value its own, where the header (lines 261-263) says that all *)
(* texts but the names of types are moved.                                  *)
ValueCallsKeepPromises ==
    /\ \A v \in Vals : ~Holds(v) =>
          /\ \A t \in PlainTypes : CreatePlain(v, t) => Promised!Leave
          /\ \A m \in Muts : Holds(m) /\ CreateMut(v, m) => Promised!Move(m, v)
          /\ \A s \in Strs : Holds(s) /\ CreateLit(v, s) => Promised!Move(s, v)
          /\ \A from \in Vals \ {v} : memory_value_move(from, v) => Promised!Move(from, v)
    /\ \A out, v \in Vals : out # v /\ Vacant(out) /\ memory_value_copy(out, v) =>
          IF type[v] \in StringTypes THEN Promised!Make(out, Text(v)) ELSE Promised!Leave
    /\ \A v \in Vals : memory_value_free(v) => Promised!Free(v)
    /\ \A v \in Vals, out \in Muts : ~Holds(out) /\ memory_value_get_str_mut(out, v) =>
          CASE type[v] = "STRING_MUT" -> Promised!Move(v, out)
            [] type[v] = "STRING_LIT" -> Promised!Make(out, Text(v))
            [] type[v] = "TYPE_STRING" -> \E name \in TypeNames : Promised!Make(out, name)

(* Every call does to the texts of the strings what is said of that very    *)
(* call, or answers false and does nothing to them, which is the same for   *)
(* every call.                                                              *)
ImplementsTexts ==
    /\ Promised!Spec
    /\ [][IF reply' = "false" THEN Promised!Fails
          ELSE StringCallsKeepPromises /\ ValueCallsKeepPromises]_vars
=============================================================================
