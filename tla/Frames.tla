------------------------------- MODULE Frames -------------------------------
(***************************************************************************)
(* A program as the interpreter's user sees it: the instruction it is at,  *)
(* what the names of the global, the temporary and each local frame stand  *)
(* for, and the values pushed.  There are no addresses, stacks with a      *)
(* capacity, tables or owners here.  A step is one instruction, and says   *)
(* which name it defines or assigns, in which frame, or for which reason   *)
(* it ends the program; memory may run out wherever some is asked for.  A  *)
(* value is the position of the instruction that it is the literal of.     *)
(*                                                                         *)
(* Where the interpreter departs from what one would expect, so does this: *)
(* DEFVAR of a local variable defines a global one, the use of a local     *)
(* frame ends in a state of which nothing is promised ("lost"), POPS       *)
(* assigns the value popped before, and to a variable that no operand      *)
(* names, and RETURN goes to the start or behind some label that is called.*)
(***************************************************************************)
EXTENDS Integers, Sequences

CONSTANTS Names, Undefined, NoFrame

VARIABLES
    program, position,     \* the instructions, and how many lie before the next
    global, temporary,     \* what each name stands for; or NoFrame
    locals,                \* the local frames, the top one last
    values,                \* the values pushed, the top one last
    stale,                 \* the value popped last, if no value was pushed since
    calls,                 \* the number of positions to return to
    outcome                \* "running", "lost", or the error that ended the program

names == <<global, temporary, locals>>
vars  == <<program, position, names, values, stale, calls, outcome>>

instruction == program[position + 1]
Runs(op)    == position < Len(program) /\ instruction.op = op

Goto(p)     == position' = p /\ UNCHANGED outcome
Continue    == Goto(position + 1)
Stop(how)   == outcome' = how /\ UNCHANGED position

Start(s) == SubSeq(s, 1, Len(s) - 1)

-----------------------------------------------------------------------------
(* DEFVAR, MOVE                                                             *)

Missing(where) == \/ where = "TF" /\ temporary = NoFrame
                  \/ where = "LF" /\ locals = <<>>

Table(where) == IF where = "TF" THEN temporary ELSE global

StandsFor(where, x, value) ==
    LET table == [y \in DOMAIN Table(where) \cup {x} |-> IF y = x THEN value ELSE Table(where)[y]] IN
    /\ global' = IF where = "TF" THEN global ELSE table
    /\ temporary' = IF where = "TF" THEN table ELSE temporary
    /\ UNCHANGED locals

Usable(where, x) == where # "LF" /\ ~Missing(where) /\ x \in DOMAIN Table(where)

(* Why a variable cannot be used.                                           *)
Unusable(where, x) ==
    \/ Missing(where) /\ Stop("NONEXISTING_MEMORY_FRAME")
    \/ ~Missing(where) /\ where = "LF" /\ Stop("lost")
    \/ ~Missing(where) /\ where # "LF" /\ ~Usable(where, x) /\ Stop("UNDEFINED_VARIABLE_ACCESS")

DefVar(where, x) ==
    /\ \/ Missing(where) /\ Stop("NONEXISTING_MEMORY_FRAME") /\ UNCHANGED names
       \/ ~Missing(where) /\ x \in DOMAIN Table(where) /\ Stop("SEMANTIC_ERROR") /\ UNCHANGED names
       \/ ~Missing(where) /\ x \notin DOMAIN Table(where) /\ StandsFor(where, x, Undefined) /\ Continue
       \/ ~Missing(where) /\ Stop("exit 99") /\ UNCHANGED names
       \/ ~Missing(where) /\ x \notin DOMAIN Table(where) /\ Stop("lost") /\ UNCHANGED names
    /\ UNCHANGED <<values, stale, calls>>

Move(where, x) ==
    /\ \/ Unusable(where, x) /\ UNCHANGED names
       \/ Usable(where, x) /\ StandsFor(where, x, position + 1) /\ Continue
    /\ UNCHANGED <<values, stale, calls>>

-----------------------------------------------------------------------------
(* CREATEFRAME, PUSHFRAME, POPFRAME                                         *)

CreateFrame ==
    /\ \/ temporary' = [x \in {} |-> Undefined] /\ Continue
       \/ temporary' = NoFrame /\ Stop("INTERNAL_ERROR")
    /\ UNCHANGED <<global, locals, values, stale, calls>>

PushFrame ==
    /\ \/ temporary = NoFrame /\ Stop("NONEXISTING_MEMORY_FRAME") /\ UNCHANGED locals
       \/ temporary # NoFrame /\ locals' = Append(locals, temporary) /\ Continue
       \/ temporary # NoFrame /\ Stop("INTERNAL_ERROR") /\ UNCHANGED locals
    /\ temporary' = NoFrame
    /\ UNCHANGED <<global, values, stale, calls>>

PopFrame ==
    /\ \/ locals = <<>> /\ Stop("NONEXISTING_MEMORY_FRAME") /\ UNCHANGED locals
       \/ locals # <<>> /\ Stop("lost") /\ locals' = Start(locals)
    /\ UNCHANGED <<global, temporary, values, stale, calls>>

-----------------------------------------------------------------------------
(* PUSHS, POPS                                                              *)

PushValue ==
    /\ \/ values' = Append(values, position + 1) /\ stale' = Undefined /\ Continue
       \/ UNCHANGED <<values, stale>> /\ Stop("INTERNAL_ERROR")
    /\ UNCHANGED <<names, calls>>

TakeValue == values # <<>> /\ values' = Start(values) /\ stale' = values[Len(values)]

PopValue(where, x) ==
    /\ \/ Usable(where, x) /\ TakeValue /\ StandsFor(where, x, stale) /\ Continue
       \/ Unusable(where, x) /\ UNCHANGED <<names, values, stale>>
       \/ Usable(where, x) /\ values = <<>> /\ Stop("MISSING_STACK_VALUE") /\ UNCHANGED <<names, values, stale>>
       \/ (TakeValue \/ UNCHANGED <<values, stale>>) /\ Stop("lost") /\ UNCHANGED names
    /\ UNCHANGED calls

-----------------------------------------------------------------------------
(* CALL, RETURN, JUMP and what does nothing                                 *)

Call ==
    /\ \/ calls' = calls + 1 /\ Continue
       \/ UNCHANGED calls /\ Stop("INTERNAL_ERROR")
    /\ UNCHANGED <<names, values, stale>>

ReturnPoints == {0} \cup {program[i].destination + 1 : i \in {j \in DOMAIN program : program[j].op = "CALL"}}

Return ==
    /\ \/ calls = 0 /\ Stop("INTERNAL_ERROR") /\ UNCHANGED calls
       \/ /\ calls # 0
          /\ calls' = calls - 1
          /\ Stop("lost") \/ \E p \in ReturnPoints : Goto(p)
    /\ UNCHANGED <<names, values, stale>>

Jump == Goto(instruction.destination) /\ UNCHANGED <<names, values, stale, calls>>
Skip == Continue /\ UNCHANGED <<names, values, stale, calls>>

RunOff == position >= Len(program) /\ Stop("lost") /\ UNCHANGED <<names, values, stale, calls>>

-----------------------------------------------------------------------------
Init ==
    /\ position = 0
    /\ global = [x \in {} |-> Undefined] /\ temporary = NoFrame /\ locals = <<>>
    /\ values = <<>> /\ stale = Undefined
    /\ calls = 0
    /\ outcome = "running"

Next ==
    /\ outcome = "running"
    /\ \/ Runs("DEFVAR") /\ DefVar(instruction.where, instruction.name)
       \/ Runs("MOVE") /\ Move(instruction.where, instruction.name)
       \/ Runs("CREATE_F") /\ CreateFrame
       \/ Runs("PUSH_F") /\ PushFrame
       \/ Runs("POP_F") /\ PopFrame
       \/ Runs("PUSHS") /\ PushValue
       \/ Runs("POPS") /\ \E where \in {"GF", "TF", "LF"}, x \in Names : PopValue(where, x)
       \/ Runs("CALL") /\ Call
       \/ Runs("RETURN") /\ Return
       \/ Runs("JUMP") /\ Jump
       \/ Runs("LABEL") /\ Skip
       \/ RunOff
    /\ UNCHANGED program

Spec == Init /\ [][Next]_vars
=============================================================================
