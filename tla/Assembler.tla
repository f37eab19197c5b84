----------------------------- MODULE Assembler ------------------------------
(***************************************************************************)
(* What the parser makes of a program's text: the instructions of the      *)
(* accepted lines in their order, each followed by a copy that has lost    *)
(* its label, in a program where every label is declared once and none is  *)
(* missing.  Here the program is all there is; the label table, its growth *)
(* and the order in which a line's label, element and copy are stored are  *)
(* not visible.                                                            *)
(***************************************************************************)
EXTENDS Opcodes

CONSTANTS
    Elements,    \* the instructions with their labels
    NoLabel

VARIABLES program, verdict

vars == <<program, verdict>>

Mentions(n) == has_label(program[n].opcode) /\ program[n].label # NoLabel
Declares(n) == Mentions(n) /\ program[n].opcode = INS_LABEL

Declared == {program[n].label : n \in {m \in 1 .. Len(program) : Declares(m)}}
Used     == {program[n].label : n \in {m \in 1 .. Len(program) : Mentions(m)}}

Init == program = <<>> /\ verdict = "reading"

Copy(e) == [e EXCEPT !.label = NoLabel]

(* No line may name a label that has been declared: neither to declare it   *)
(* again nor to jump back to it.  Only a word that is no instruction may    *)
(* have a label and not name it.                                            *)
AddLine(e) ==
    /\ verdict = "reading"
    /\ e.label \notin Declared
    /\ TakesLabel(e.opcode) => e.label # NoLabel
    /\ e.label # NoLabel => has_label(e.opcode)
    /\ program' = program \o <<e, Copy(e)>>
    /\ UNCHANGED verdict

Reject ==
    /\ verdict \in {"reading", "complete"}
    /\ verdict' = "rejected"
    /\ program' = <<>>

EndOfFile ==
    /\ verdict = "reading"
    /\ verdict' = "complete"
    /\ UNCHANGED program

Accept ==
    /\ verdict = "complete" /\ Used \subseteq Declared
    /\ verdict' = "accepted"
    /\ UNCHANGED program

Next == (\E e \in Elements : AddLine(e)) \/ Reject \/ EndOfFile \/ Accept
Spec == Init /\ [][Next]_vars
=============================================================================
