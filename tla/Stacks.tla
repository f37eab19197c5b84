------------------------------- MODULE Stacks -------------------------------
(***************************************************************************)
(* The stacks that the macros of stacks.h define.  A stack is the record   *)
(* of its struct, with data the slots it has allocated; slot i of the code *)
(* is data[i + 1].  The code sets fresh slots to zero bytes; what those    *)
(* mean depends on the type of the elements.                               *)
(***************************************************************************)
EXTENDS Integers, Sequences

Zeros(n, zero) == [i \in 1 .. n |-> zero]

stack_init(capacity, zero) ==
    [data |-> Zeros(capacity, zero), size |-> 0, capacity |-> capacity]

Full(s)      == s.size = s.capacity
Unchecked(s) == FALSE
Empty(s)     == s.size = 0

(* The capacity is doubled before realloc is known to have succeeded.       *)
PushFailed(s) == [s EXCEPT !.capacity = 2 * @]

Grown(s, zero) ==
    IF Full(s) THEN [s EXCEPT !.capacity = 2 * @, !.data = @ \o Zeros(s.capacity, zero)]
               ELSE s

Pushed(s, value, zero) ==
    [Grown(s, zero) EXCEPT !.data[s.size + 1] = value, !.size = @ + 1]

(* The slot that top, top_mut and pop return a pointer to: data + size, and *)
(* in pop the size before it is decremented.                                *)
TopSlot(s) == s.size + 1

Popped(s) == [s EXCEPT !.size = @ - 1]

(* The slot may lie behind the allocation.                                  *)
Outside(s) == TopSlot(s) > Len(s.data)

(* The slots whose elements stack_free cleans up.                           *)
Occupied(s) == 1 .. s.size
=============================================================================
