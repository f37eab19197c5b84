------------------------------- MODULE Texts -------------------------------
(***************************************************************************)
(* What string_buffer.h promises: a string is a text, or none, and every   *)
(* call has an effect of its own on one text or moves one, or answers      *)
(* false and every string is as it was.  Blocks, capacities and views are  *)
(* not visible here.                                                       *)
(*                                                                         *)
(* Next says what can become of the texts.  Which of the effects is the    *)
(* promise of which call is said where the calls are: see MemoryValue.     *)
(***************************************************************************)
EXTENDS Sequences

CONSTANTS Slots, Chars, Literals, NoText

VARIABLES text, reply

vars == <<text, reply>>

(* The texts that a call may be given.                                      *)
Known == Literals \cup {<<>>} \cup ({text[x] : x \in Slots} \ {NoText})

Succeeds == reply' = "true"
Fails == reply' = "false" /\ UNCHANGED text

(* A call that must not be made.                                            *)
Undefined == reply' = "undefined" /\ UNCHANGED text

-----------------------------------------------------------------------------
(* An initialised string, a copy or a concatenation                         *)
Make(x, t) ==
    /\ text[x] = NoText
    /\ \/ Succeeds /\ text' = [text EXCEPT ![x] = t]
       \/ Fails

(* Only an empty text, or one appended to itself, may be undefined: the     *)
(* first may have lost its block, the second may lose it on the way.        *)
AppendText(x, t) ==
    /\ text[x] # NoText
    /\ \/ Succeeds /\ text' = [text EXCEPT ![x] = text[x] \o t]
       \/ Fails
       \/ Undefined /\ text[x] \in {<<>>, t}

Reset(x) ==
    /\ text[x] # NoText
    /\ Succeeds /\ text' = [text EXCEPT ![x] = <<>>]

Free(x) ==
    \/ Succeeds /\ text' = [text EXCEPT ![x] = NoText]
    \/ Undefined /\ text[x] = <<>>

Move(x, to) ==
    /\ text[to] = NoText
    /\ Succeeds /\ text' = [text EXCEPT ![to] = text[x], ![x] = NoText]

(* A call on values that have no text                                       *)
Leave == Succeeds /\ UNCHANGED text

-----------------------------------------------------------------------------
Init ==
    /\ text = [x \in Slots |-> NoText]
    /\ reply = "true"

Call ==
    \/ Leave
    \/ \E x \in Slots :
          \/ Reset(x) \/ Free(x)
          \/ \E t, u \in Known : Make(x, t \o u)
          \/ \E t \in Known \cup {<<c>> : c \in Chars} : AppendText(x, t)
          \/ \E to \in Slots \ {x} : Move(x, to)

Next == reply # "undefined" /\ Call

Spec == Init /\ [][Next]_vars
=============================================================================
