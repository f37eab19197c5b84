------------------------------ MODULE Strings ------------------------------
(***************************************************************************)
(* The strings of string_buffer.h and DynBuf.c as calls on a heap of       *)
(* blocks: StringMut, which grows, and String, which does not.  A step is  *)
(* a call with every allocation it makes, each of which may fail.          *)
(*                                                                         *)
(* The allocator is that of the C library the project is built with: no    *)
(* block is larger than half the address space, a block of no bytes is a   *)
(* block, and realloc to no bytes frees.  A block that realloc moves keeps *)
(* its name here, as its owner learns the new address; the one pointer     *)
(* that can be left behind is the text to append (Stale).                  *)
(*                                                                         *)
(* Callers give a destination that holds no string, and a string that was  *)
(* initialised, as the assertions ask.  A call that touches a freed block  *)
(* or goes outside one is "undefined", and the model does not look further.*)
(***************************************************************************)
EXTENDS Integers, Sequences, FiniteSets

CONSTANTS
    Chars,
    Literals,            \* texts of string literals
    Muts, Strs,          \* the callers' variables of type StringMut and String
    OtherSlots,          \* where else a string may be kept
    Blocks,              \* bound: names of blocks, numbers
    SIZE_MAX,            \* the largest size_t
    DefaultCapacity,     \* SB_DEFAULT_INITIAL_CAPACITY
    NULL

PTRDIFF_MAX == SIZE_MAX \div 2
Slots == Muts \cup Strs \cup OtherSlots

ASSUME StringsAssumption ==
    /\ Blocks \subseteq Nat /\ IsFiniteSet(Blocks) /\ NULL \notin Blocks
    /\ SIZE_MAX \in Nat
    /\ DefaultCapacity \in 1 .. PTRDIFF_MAX
    /\ \A t \in Literals : t \in Seq(Chars) /\ Len(t) <= PTRDIFF_MAX

(* A variable has one type, and is neither a text nor NULL.                 *)
ASSUME SlotsAssumption ==
    /\ Muts \cap Strs = {} /\ Muts \cap OtherSlots = {} /\ Strs \cap OtherSlots = {}
    /\ Slots \cap Literals = {}
    /\ NULL \notin Seq(Chars)

VARIABLES
    heap,       \* the live blocks: their size and what was written to them
    string,     \* per slot: data, length, capacity (0 for a String)
    reply       \* of the last call: "true", "false" or "undefined"

string_vars == <<heap, string, reply>>

-----------------------------------------------------------------------------
(* The heap                                                                 *)

Live == DOMAIN heap
Fresh == {b \in Blocks \ Live : \A x \in Slots : string[x].data # b}
NewBlock == CHOOSE b \in Fresh : \A c \in Fresh : b <= c

size_t(n) == n % (SIZE_MAX + 1)

CanAllocate(size) == size <= PTRDIFF_MAX /\ Fresh # {}
CanResize(size) == size \in 1 .. PTRDIFF_MAX

With(b, size, text) == [c \in Live \cup {b} |->
                          IF c = b THEN [size |-> size, text |-> text] ELSE heap[c]]
Without(b) == [c \in Live \ {b} |-> heap[c]]

(* memcpy to an offset; what lies behind the new text is never read.        *)
Written(b, offset, text) == SubSeq(heap[b].text, 1, offset) \o text

-----------------------------------------------------------------------------
String(data, length, capacity) == [data |-> data, length |-> length, capacity |-> capacity]
NoString == String(NULL, 0, 0)

Holds(x) == string[x].data # NULL
Dangling(x) == Holds(x) /\ string[x].data \notin Live

TextOf(x) == IF string[x].length = 0 THEN <<>>
             ELSE SubSeq(heap[string[x].data].text, 1, string[x].length)

(* A view of a string, or of a literal.                                     *)
Views == Literals \cup {x \in Slots : Holds(x)}
Text(view) == IF view \in Literals THEN view ELSE TextOf(view)
Length(view) == Len(Text(view))

Answer(r) == reply' = r
Refuse == Answer("false") /\ UNCHANGED <<heap, string>>
Undefined == Answer("undefined") /\ UNCHANGED <<heap, string>>

-----------------------------------------------------------------------------
(* Making a string                                                          *)

InitialCapacity(n) == IF n = 0 THEN DefaultCapacity ELSE n

(* sb_init, and the text that its callers write into the new block          *)
NewMut(out, n, text) ==
    \/ /\ CanAllocate(InitialCapacity(n))
       /\ heap' = With(NewBlock, InitialCapacity(n), text)
       /\ string' = [string EXCEPT ![out] = String(NewBlock, Len(text), InitialCapacity(n))]
       /\ Answer("true")
    \/ Refuse

NewString(out, text) ==
    \/ /\ CanAllocate(Len(text))
       /\ heap' = With(NewBlock, Len(text), text)
       /\ string' = [string EXCEPT ![out] = String(NewBlock, Len(text), 0)]
       /\ Answer("true")
    \/ Refuse

sb_init(out, n) == NewMut(out, n, <<>>)
sb_copy_mut(out, view) == NewMut(out, Length(view), Text(view))
sb_copy(out, view) == NewString(out, Text(view))

SumOverflows(n, k) == SIZE_MAX - n < k

ConcatenatedBackwards(out, view1, view2) ==
    NewMut(out, Length(view1) + Length(view2), Text(view2) \o Text(view1))

sb_concat_mut(out, view1, view2) ==
    \/ /\ ~SumOverflows(Length(view1), Length(view2))
       /\ NewMut(out, Length(view1) + Length(view2), Text(view1) \o Text(view2))
    \/ Refuse

sb_concat(out, view1, view2) ==
    \/ /\ ~SumOverflows(Length(view1), Length(view2))
       /\ NewString(out, Text(view1) \o Text(view2))
    \/ Refuse

-----------------------------------------------------------------------------
(* Growing a string                                                         *)

(* Text is written behind the length, into a block of that size.            *)
Append_(buf, text, size, capacity) ==
    LET old == string[buf] IN
    IF old.length + Len(text) <= size
    THEN /\ heap' = With(old.data, size, Written(old.data, old.length, text))
         /\ string' = [string EXCEPT ![buf] = String(old.data, old.length + Len(text), capacity)]
         /\ Answer("true")
    ELSE Undefined

BlockSize(buf) == heap[string[buf].data].size

MustGrow(buf) == string[buf].length + 1 >= string[buf].capacity
DoubledCapacity(buf) == size_t(string[buf].capacity * 2)

sb_append_char(buf, c) ==
    \/ /\ ~MustGrow(buf)
       /\ Append_(buf, <<c>>, BlockSize(buf), string[buf].capacity)
    \/ /\ MustGrow(buf) /\ Dangling(buf)
       /\ Undefined
    \/ /\ MustGrow(buf) /\ ~Dangling(buf) /\ CanResize(DoubledCapacity(buf))
       /\ Append_(buf, <<c>>, DoubledCapacity(buf), DoubledCapacity(buf))
    \/ /\ MustGrow(buf) /\ ~Dangling(buf) /\ DoubledCapacity(buf) # 0
       /\ Refuse
    \/ /\ MustGrow(buf) /\ ~Dangling(buf) /\ DoubledCapacity(buf) = 0
       /\ heap' = Without(string[buf].data)         \* realloc frees the block and returns NULL
       /\ Answer("false")
       /\ UNCHANGED string

NeverTooLarge(total) == FALSE
TooLarge(total) == (SIZE_MAX \div 3) * 2 < total
IncreasedCapacity(total) == size_t(total + total \div 2)

(* The text to append is in the block that realloc has moved.               *)
Stale(buf, view) == view = buf /\ Length(view) > 0

sb_append_string(buf, view) ==
    LET total == string[buf].length + Length(view)
        grows == string[buf].capacity < total IN
    \/ /\ SumOverflows(Length(view), string[buf].length) \/ (grows /\ TooLarge(total))
       /\ Refuse
    \/ /\ ~grows
       /\ IF Length(view) = 0 THEN Answer("true") /\ UNCHANGED <<heap, string>>
          ELSE Append_(buf, Text(view), BlockSize(buf), string[buf].capacity)
    \/ /\ grows /\ ~TooLarge(total) /\ Dangling(buf)
       /\ Undefined
    \/ /\ grows /\ ~TooLarge(total) /\ ~Dangling(buf)
       /\ \/ /\ CanResize(IncreasedCapacity(total))
             /\ Append_(buf, Text(view), IncreasedCapacity(total), IncreasedCapacity(total))
          \/ /\ CanResize(IncreasedCapacity(total)) /\ Stale(buf, view)
             /\ Undefined
          \/ Refuse

-----------------------------------------------------------------------------
sb_reset(buf) ==
    /\ string' = [string EXCEPT ![buf].length = 0]
    /\ Answer("true")
    /\ UNCHANGED heap

(* __sb_free and __sd_free, of a string that holds one or not               *)
sb_free(x) ==
    IF Dangling(x) THEN Undefined
    ELSE /\ heap' = IF Holds(x) THEN Without(string[x].data) ELSE heap
         /\ string' = [string EXCEPT ![x] = NoString]
         /\ Answer("true")

Duplicated(from, to, capacity) ==
    [string EXCEPT ![to] = String(string[from].data, string[from].length, capacity)]

(* The block goes over to another string, with the capacity it is said to   *)
(* have; the bytes of the old one are cleared.                              *)
Transferred(from, to, capacity) ==
    [string EXCEPT ![to] = String(string[from].data, string[from].length, capacity), ![from] = NoString]

HandOver(from, to, capacity) ==
    /\ string' = Transferred(from, to, capacity)
    /\ Answer("true")
    /\ UNCHANGED heap

RoomForZero(x) == string[x].length + 1
KnownCapacity(x) == string[x].length

sb_move_string(from, to) == HandOver(from, to, 0)
sb_move_string_mut(from, to) == HandOver(from, to, string[from].capacity)
sb_to_mutable(from, to) == HandOver(from, to, KnownCapacity(from))

-----------------------------------------------------------------------------
Running == reply # "undefined"

StringInit ==
    /\ heap = [b \in {} |-> [size |-> 0, text |-> <<>>]]
    /\ string = [x \in Slots |-> NoString]
    /\ reply = "true"

(* sb_move_string is called for the places in OtherSlots.                   *)
StringNext ==
    /\ Running
    /\ \/ \E out \in Muts : ~Holds(out) /\
             \/ \E n \in {0, 1} : sb_init(out, n)
             \/ \E view \in Views : sb_copy_mut(out, view)
             \/ \E view1, view2 \in Views : sb_concat_mut(out, view1, view2)
             \/ \E from \in Strs : Holds(from) /\ sb_to_mutable(from, out)
       \/ \E out \in Strs : ~Holds(out) /\
             \/ \E view \in Views : sb_copy(out, view)
             \/ \E view1, view2 \in Views : sb_concat(out, view1, view2)
       \/ \E buf \in Muts : Holds(buf) /\
             \/ \E c \in Chars : sb_append_char(buf, c)
             \/ \E view \in Views : sb_append_string(buf, view)
             \/ sb_reset(buf)
       \/ \E x \in Muts \cup Strs : sb_free(x)

-----------------------------------------------------------------------------
(* A string whose block realloc has freed: a String of no length, made      *)
(* mutable, whose capacity doubled to nothing.                              *)
Emptied(x) == Dangling(x) /\ string[x].length = 0 /\ string[x].capacity = 0

Owners(b) == {x \in Slots : string[x].data = b}

(* Each block belongs to exactly one string: a call that makes, moves,      *)
(* grows or frees a string, or fails to, leaks none and shares none.  A     *)
(* string without a block is without length and capacity, and if it still   *)
(* points to one it is an emptied one.                                      *)
BlocksOwnedOnce ==
    /\ \A b \in Live : Cardinality(Owners(b)) = 1
    /\ \A x \in Slots : Dangling(x) => Emptied(x)
    /\ \A x \in Slots : ~Holds(x) => string[x] = NoString

(* The length and the capacity a string claims are inside its block,        *)
(* whatever was appended to it and wherever it came from.                   *)
ClaimsAllocated ==
    \A x \in Slots :
        Holds(x) /\ ~Dangling(x) =>
            /\ string[x].length <= heap[string[x].data].size
            /\ string[x].capacity <= heap[string[x].data].size

(* Legal calls touch freed memory, or memory outside a block, in two ways   *)
(* only: a string that must grow is appended to itself, or an emptied one   *)
(* is appended to or freed.                                                 *)
UndefinedTwoWays ==
    [][reply' = "undefined" =>
          /\ \A x \in Slots : sb_free(x) => Emptied(x)
          /\ \A buf \in Muts : Holds(buf) =>
                /\ \A c \in Chars : sb_append_char(buf, c) => Emptied(buf)
                /\ \A view \in Views : sb_append_string(buf, view) =>
                      \/ Emptied(buf)
                      \/ view = buf /\ string[buf].capacity < 2 * string[buf].length]_string_vars

Promised == INSTANCE Texts WITH
    NoText <- NULL,
    text <- [x \in Slots |-> IF Holds(x) THEN TextOf(x) ELSE NULL]

(* What string_buffer.h says of each call: the step that it takes.          *)
StringCallsKeepPromises ==
    /\ \A out \in Muts : ~Holds(out) =>
          /\ \A n \in {0, 1} : sb_init(out, n) => Promised!Make(out, <<>>)
          /\ \A view \in Views : sb_copy_mut(out, view) => Promised!Make(out, Text(view))
          /\ \A view1, view2 \in Views :
                sb_concat_mut(out, view1, view2) => Promised!Make(out, Text(view1) \o Text(view2))
          /\ \A from \in Strs :
                Holds(from) /\ sb_to_mutable(from, out) => Promised!Move(from, out)
    /\ \A out \in Strs : ~Holds(out) =>
          /\ \A view \in Views : sb_copy(out, view) => Promised!Make(out, Text(view))
          /\ \A view1, view2 \in Views :
                sb_concat(out, view1, view2) => Promised!Make(out, Text(view1) \o Text(view2))
    /\ \A buf \in Muts : Holds(buf) =>
          /\ \A c \in Chars : sb_append_char(buf, c) => Promised!AppendText(buf, <<c>>)
          /\ \A view \in Views : sb_append_string(buf, view) => Promised!AppendText(buf, Text(view))
          /\ sb_reset(buf) => Promised!Reset(buf)
    /\ \A x \in Muts \cup Strs : sb_free(x) => Promised!Free(x)
=============================================================================
