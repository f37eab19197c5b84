--------------------------- MODULE InterpreterMC ----------------------------
(* Instances of Interpreter for TLC: all accepted programs of a length over *)
(* instructions of some kinds.                                              *)
EXTENDS Interpreter

CONSTANTS Length, a, b

MCNames == {a, b}

Plain(ops) == [op : ops]
Jumping(ops) == [op : ops, destination : 1 .. Length - 1]
OnVariable(ops, names, places) == [op : ops, where : places, name : names]

Of(n, instructions) == {prog \in [1 .. n -> instructions] : Accepted(prog)}

FramePrograms ==
    Of(Length - 1, Plain({"CREATE_F", "PUSH_F", "POP_F"})
                     \cup OnVariable({"DEFVAR", "MOVE"}, {a}, Places)
                     \cup OnVariable({"DEFVAR"}, {b}, {"TF"}))

ValuePrograms ==
    Of(Length, Plain({"PUSHS", "POPS", "RETURN", "CREATE_F"})
                 \cup OnVariable({"DEFVAR", "MOVE"}, {a}, {"GF"}))

CallPrograms ==
    Of(Length, Plain({"LABEL", "RETURN", "CREATE_F", "PUSH_F"}) \cup Jumping({"CALL", "JUMP"}))

MixedPrograms == FramePrograms \cup ValuePrograms \cup CallPrograms
=============================================================================
