---------------------------- MODULE Interpreter ----------------------------
(***************************************************************************)
(* interpret_ir and the memory it works on: memory.c, memory_frame.h and   *)
(* three stacks.  A step executes the instruction at code_pos with every   *)
(* call it makes; any allocation it asks for may fail.                     *)
(*                                                                         *)
(* A program is an array of instructions as interpret_ir is given it, each *)
(* instruction once and with its strings, under the parser's rules: a      *)
(* label is the position the jump table holds for it, and a symbol is a    *)
(* literal, as the parser lets no variable be one.  (The parser as it is   *)
(* stores each instruction twice: see Parser.)  A literal is a string, the *)
(* only kind that owns memory, and is known by the position of its         *)
(* instruction.  A frame is the map that RHTable implements.  This is the  *)
(* default build, in which a failing assertion stops the process.          *)
(***************************************************************************)
EXTENDS Stacks, FiniteSets

CONSTANTS
    Names,             \* names of variables
    Programs,          \* sequences of instructions
    StackCapacity,     \* STACK_CAPACITY
    FrameCapacity,     \* MEMORY_FRAME_INIT_SIZE
    MaxFrames,         \* bound: frames created
    MaxDepth,          \* bound: elements on a stack
    NoFrame,           \* a frame whose bytes are zero
    NoValue            \* a value that is undefined, or whose bytes are zero

Places == {"GF", "TF", "LF"}

(* The parser's rule for labels: they are declared, and only later.         *)
Accepted(prog) ==
    \A i \in DOMAIN prog :
        prog[i].op \in {"CALL", "JUMP"} =>
            /\ prog[i].destination \in i .. Len(prog) - 1
            /\ prog[prog[i].destination + 1].op = "LABEL"

(* A program is a sequence, and what defines or assigns a variable has one. *)
WellFormed(prog) ==
    /\ Len(prog) \in Nat /\ DOMAIN prog = 1 .. Len(prog)
    /\ \A i \in DOMAIN prog :
          prog[i].op \in {"DEFVAR", "MOVE"} => prog[i].where \in Places /\ prog[i].name \in Names

ASSUME InterpreterAssumption ==
    /\ \A prog \in Programs : WellFormed(prog) /\ Accepted(prog)
    /\ IsFiniteSet(Names)
    /\ NoValue \notin Nat /\ NoFrame \notin Nat
    /\ \A defined \in SUBSET Names : NoFrame \notin [defined -> Nat \cup {NoValue}]
    /\ StackCapacity \in Nat \ {0}
    /\ FrameCapacity \in Nat \ {0}
    /\ MaxFrames \in Nat /\ MaxDepth \in Nat

VARIABLES
    ir, code_pos,
    status,            \* "running", or how the program ended
    frames,            \* the frames created so far; a frame is known by its index
    temp_frame, frame_stack, value_stack, call_stack,
    string_frees,      \* how often the characters of a literal were freed
    released           \* main has freed the memory

memory_vars == <<frames, temp_frame, frame_stack, value_stack, call_stack, string_frees>>
vars == <<ir, code_pos, status, memory_vars, released>>

-----------------------------------------------------------------------------
(* Going on                                                                 *)

running     == status = "running"
instruction == ir[code_pos + 1]
Runs(op)    == running /\ code_pos < Len(ir) /\ instruction.op = op

Goto(position) == code_pos' = position /\ UNCHANGED status
Stay       == Goto(code_pos)
Continue   == Goto(code_pos + 1)
Stop(code) == status' = code /\ UNCHANGED code_pos

(* CHECK_RETVAL on a push or an allocation that failed.                     *)
FailureIgnored == Continue
OutOfMemory == Stop("INTERNAL_ERROR")

-----------------------------------------------------------------------------
(* memory_frame.h                                                           *)

global_frame == 1

NewFrame == [variables |-> [x \in {} |-> NoValue], capacity |-> FrameCapacity, frees |-> 0]

Variables(f) == DOMAIN frames[f].variables
FrameFull(f) == 16 * (Cardinality(Variables(f)) + 1) >= 15 * frames[f].capacity

Assign(f, x, value) ==
    [frames EXCEPT ![f].variables = [y \in DOMAIN @ \cup {x} |-> IF y = x THEN value ELSE @[y]]]

GrowEmpty(f, fs) == [fs EXCEPT ![f] = IF FrameFull(f) THEN [NewFrame EXCEPT !.capacity = 2 * fs[f].capacity] ELSE @]

(* A full frame grows before the name is looked for.                        *)
Grow(f, fs) == [fs EXCEPT ![f].capacity = IF FrameFull(f) THEN 2 * @ ELSE @]

(* memory_frame_free: memory_value_free runs on every value of the frame.   *)
FramesAfter(freed) ==
    [f \in DOMAIN frames |-> IF f \in freed THEN [frames[f] EXCEPT !.frees = @ + 1] ELSE frames[f]]

Holders(l, freed) ==
    {p \in freed \X Names : p[2] \in Variables(p[1]) /\ frames[p[1]].variables[p[2]] = l}

AtMostTwo(n) == IF n > 2 THEN 2 ELSE n           \* bound: frees beyond the second are not told apart

FreesAfter(freed) ==
    [l \in DOMAIN ir |-> AtMostTwo(string_frees[l] + Cardinality(Holders(l, freed)))]

Frame(f) == IF f = NoFrame THEN {} ELSE {f}      \* freeing a zeroed frame does nothing

-----------------------------------------------------------------------------
(* The frame that a variable's name stands for                              *)

FrameOf(where) == IF where = "GF" THEN global_frame ELSE temp_frame

FrameMissing(where) == \/ where = "TF" /\ temp_frame = NoFrame
                       \/ where = "LF" /\ Empty(frame_stack)

(* The frame above the top of the stack is zeroed, and every function that  *)
(* is given it asserts that it is not; or it lies outside the allocation.   *)
UsesSlotAbove(s) == Stop(IF Outside(s) THEN "undefined" ELSE "aborted")

Found(where, x) ==
    where # "LF" /\ ~FrameMissing(where) /\ x \in Variables(FrameOf(where))

(* memory_get_variable_mut returns no variable, or does not return.         *)
AccessFails(where, x) ==
    \/ FrameMissing(where) /\ Stop("NONEXISTING_MEMORY_FRAME")
    \/ where = "LF" /\ ~FrameMissing(where) /\ UsesSlotAbove(frame_stack)
    \/ where # "LF" /\ ~FrameMissing(where) /\ ~Found(where, x) /\ Stop("UNDEFINED_VARIABLE_ACCESS")

-----------------------------------------------------------------------------
(* CREATEFRAME, PUSHFRAME, POPFRAME                                         *)

NothingDiscarded == {}
Discarded == Frame(temp_frame)

CreateFrame ==
    /\ Runs("CREATE_F") /\ Len(frames) < MaxFrames
    /\ \/ /\ frames' = Append(FramesAfter(Discarded), NewFrame)
          /\ temp_frame' = Len(frames) + 1
          /\ Continue
       \/ /\ frames' = FramesAfter(Discarded)
          /\ temp_frame' = NoFrame
          /\ OutOfMemory
    /\ string_frees' = FreesAfter(Discarded)
    /\ UNCHANGED <<ir, frame_stack, value_stack, call_stack, released>>

KeptFrame == temp_frame
MovedFrame == NoFrame

PushFrame ==
    /\ Runs("PUSH_F")
    /\ \/ /\ temp_frame = NoFrame
          /\ Stop("NONEXISTING_MEMORY_FRAME")
          /\ UNCHANGED <<temp_frame, frame_stack>>
       \/ /\ temp_frame # NoFrame /\ frame_stack.size < MaxDepth
          /\ frame_stack' = Pushed(frame_stack, temp_frame, NoFrame)
          /\ temp_frame' = MovedFrame
          /\ Continue
       \/ /\ temp_frame # NoFrame /\ Full(frame_stack)
          /\ frame_stack' = PushFailed(frame_stack)
          /\ temp_frame' = MovedFrame
          /\ OutOfMemory
    /\ UNCHANGED <<ir, frames, value_stack, call_stack, string_frees, released>>

PopFrame ==
    /\ Runs("POP_F")
    /\ \/ /\ Empty(frame_stack)
          /\ Stop("NONEXISTING_MEMORY_FRAME")
          /\ UNCHANGED <<frames, string_frees, frame_stack>>
       \/ /\ ~Empty(frame_stack)
          /\ frames' = FramesAfter(Discarded)
          /\ string_frees' = FreesAfter(Discarded)
          /\ frame_stack' = Popped(frame_stack)
          /\ UsesSlotAbove(frame_stack)
    /\ UNCHANGED <<ir, temp_frame, value_stack, call_stack, released>>

-----------------------------------------------------------------------------
(* DEFVAR, MOVE                                                             *)

(* A local variable goes into the global frame.                             *)
DefinedIn(where) == IF where = "LF" THEN global_frame ELSE FrameOf(where)

DefVar ==
    /\ Runs("DEFVAR")
    /\ LET where == instruction.where
           x == instruction.name
           f == DefinedIn(where) IN
       \/ /\ FrameMissing(where)
          /\ Stop("NONEXISTING_MEMORY_FRAME")
          /\ UNCHANGED frames
       \/ /\ ~FrameMissing(where) /\ FrameFull(f)
          /\ Stop("exit 99")
          /\ UNCHANGED frames
       \/ /\ ~FrameMissing(where) /\ x \in Variables(f)
          /\ Stop("SEMANTIC_ERROR")
          /\ frames' = Grow(f, frames)
       \/ /\ ~FrameMissing(where) /\ x \notin Variables(f)
          /\ frames' = Grow(f, Assign(f, x, NoValue))
          /\ Continue
       \/ /\ ~FrameMissing(where) /\ x \notin Variables(f)
          /\ frames' = Grow(f, frames)
          /\ Stop("key lost")    \* bound: what follows in a table with a lost key
    /\ UNCHANGED <<ir, temp_frame, frame_stack, value_stack, call_stack, string_frees, released>>

(* The value is moved out of a copy of the instruction, and what the        *)
(* variable held before is overwritten.                                     *)
Move ==
    /\ Runs("MOVE")
    /\ LET where == instruction.where
           x == instruction.name IN
       \/ AccessFails(where, x) /\ UNCHANGED frames
       \/ Found(where, x) /\ frames' = Assign(FrameOf(where), x, code_pos + 1) /\ Continue
    /\ UNCHANGED <<ir, temp_frame, frame_stack, value_stack, call_stack, string_frees, released>>

-----------------------------------------------------------------------------
(* PUSHS, POPS                                                              *)

PushValue ==
    /\ Runs("PUSHS")
    /\ \/ /\ value_stack.size < MaxDepth
          /\ value_stack' = Pushed(value_stack, code_pos + 1, NoValue)
          /\ Continue
       \/ /\ Full(value_stack)
          /\ value_stack' = PushFailed(value_stack)
          /\ OutOfMemory
    /\ UNCHANGED <<ir, frames, temp_frame, frame_stack, call_stack, string_frees, released>>

(* memory_value_move leaves zero bytes behind.                              *)
Copied(s)   == s
MovedOut(s) == [s EXCEPT !.data[TopSlot(s)] = NoValue]

PopTo(where, x) ==
    /\ Found(where, x) /\ ~Empty(value_stack) /\ ~Outside(value_stack)
    /\ frames' = Assign(FrameOf(where), x, value_stack.data[TopSlot(value_stack)])
    /\ value_stack' = Popped(MovedOut(value_stack))
    /\ Continue

(* POPS has no operands by its opcode, so its destination is read from an   *)
(* operand that the parser never wrote: any variable, or none.              *)
PopValue ==
    /\ Runs("POPS")
    /\ \E where \in Places, x \in Names :
          \/ PopTo(where, x)
          \/ /\ AccessFails(where, x)
             /\ UNCHANGED <<frames, value_stack>>
          \/ /\ Found(where, x) /\ Empty(value_stack)
             /\ Stop("MISSING_STACK_VALUE")
             /\ UNCHANGED <<frames, value_stack>>
          \/ /\ Found(where, x) /\ ~Empty(value_stack) /\ Outside(value_stack)
             /\ Stop("undefined")
             /\ value_stack' = Popped(value_stack)
             /\ UNCHANGED frames
          \/ /\ \/ Stop("undefined")
                \/ Stop("aborted")
             /\ UNCHANGED <<frames, value_stack>>
    /\ UNCHANGED <<ir, temp_frame, frame_stack, call_stack, string_frees, released>>

-----------------------------------------------------------------------------
(* CALL, RETURN, JUMP and what does nothing                                 *)

(* The position remembered is the one after the label, and the program goes *)
(* on behind the CALL.                                                      *)
Call ==
    /\ Runs("CALL")
    /\ \/ /\ call_stack.size < MaxDepth
          /\ call_stack' = Pushed(call_stack, instruction.destination + 1, 0)
          /\ Continue
       \/ /\ Full(call_stack)
          /\ call_stack' = PushFailed(call_stack)
          /\ OutOfMemory
    /\ UNCHANGED <<ir, frames, temp_frame, frame_stack, value_stack, string_frees, released>>

Return ==
    /\ Runs("RETURN")
    /\ \/ /\ Empty(call_stack)
          /\ Stop("INTERNAL_ERROR")
          /\ UNCHANGED call_stack
       \/ /\ ~Empty(call_stack) /\ ~Outside(call_stack)
          /\ call_stack' = Popped(call_stack)
          /\ Goto(call_stack.data[TopSlot(call_stack)])
       \/ /\ ~Empty(call_stack) /\ Outside(call_stack)
          /\ call_stack' = Popped(call_stack)
          /\ Stop("undefined")
    /\ UNCHANGED <<ir, frames, temp_frame, frame_stack, value_stack, string_frees, released>>

Jump ==
    /\ Runs("JUMP")
    /\ Goto(instruction.destination)
    /\ UNCHANGED <<ir, memory_vars, released>>

Skip ==
    /\ Runs("LABEL")             \* and every opcode that has no code yet
    /\ Continue
    /\ UNCHANGED <<ir, memory_vars, released>>

(* Nothing ends the loop behind the last instruction: it reads an element   *)
(* that was never stored, or one outside the array.                         *)
RunOff ==
    /\ running /\ code_pos >= Len(ir)
    /\ Stop("undefined")
    /\ UNCHANGED <<ir, memory_vars, released>>

-----------------------------------------------------------------------------
(* main, after interpret_ir has returned                                    *)

ErrorCodes == {"INTERNAL_ERROR", "NONEXISTING_MEMORY_FRAME", "UNDEFINED_VARIABLE_ACCESS",
               "SEMANTIC_ERROR", "MISSING_STACK_VALUE"}

ReachableFrames == {global_frame} \cup Frame(temp_frame)
                     \cup {frame_stack.data[i] : i \in Occupied(frame_stack)}

(* Of an instruction ir_free releases only the first operand, which is the  *)
(* literal of a PUSHS.                                                      *)
FreesByInstructions(l) == IF ir[l].op = "PUSHS" THEN 1 ELSE 0
FreesByValueStack(l) == Cardinality({i \in Occupied(value_stack) : value_stack.data[i] = l})

ReleaseMemory ==
    /\ status \in ErrorCodes /\ ~released
    /\ frames' = FramesAfter(ReachableFrames)
    /\ string_frees' = [l \in DOMAIN ir |->
           AtMostTwo(FreesAfter(ReachableFrames)[l] + FreesByInstructions(l) + FreesByValueStack(l))]
    /\ released' = TRUE
    /\ UNCHANGED <<ir, code_pos, status, temp_frame, frame_stack, value_stack, call_stack>>

-----------------------------------------------------------------------------
(* memory_init has succeeded.                                               *)
Init ==
    /\ ir \in Programs
    /\ code_pos = 0
    /\ status = "running"
    /\ frames = <<NewFrame>>
    /\ temp_frame = NoFrame
    /\ frame_stack = stack_init(StackCapacity, NoFrame)
    /\ value_stack = stack_init(StackCapacity, NoValue)
    /\ call_stack = stack_init(StackCapacity, 0)
    /\ string_frees = [l \in DOMAIN ir |-> 0]
    /\ released = FALSE

interpret_ir ==
    \/ CreateFrame \/ PushFrame \/ PopFrame
    \/ DefVar \/ Move
    \/ PushValue \/ PopValue
    \/ Call \/ Return \/ Jump \/ Skip \/ RunOff

Next == interpret_ir \/ ReleaseMemory

Spec == Init /\ [][Next]_vars

(* The program's only thread keeps running.                                 *)
FairSpec == Spec /\ WF_vars(interpret_ir)

-----------------------------------------------------------------------------
StackOf(s, elements) ==
    s.data \in Seq(elements) /\ s.size \in Nat /\ s.capacity \in Nat

(* The variables hold values of their types.                                *)
TypeOK ==
    /\ ir \in Programs
    /\ code_pos \in Nat
    /\ status \in ErrorCodes \cup {"running", "undefined", "aborted", "exit 99", "key lost"}
    /\ \A f \in DOMAIN frames :
          /\ Variables(f) \subseteq Names
          /\ \A x \in Variables(f) : frames[f].variables[x] \in DOMAIN ir \cup {NoValue}
          /\ frames[f].capacity \in Nat /\ frames[f].frees \in Nat
    /\ temp_frame \in DOMAIN frames \cup {NoFrame}
    /\ StackOf(frame_stack, DOMAIN frames \cup {NoFrame})
    /\ StackOf(value_stack, DOMAIN ir \cup {NoValue})
    /\ StackOf(call_stack, Nat)
    /\ string_frees \in [DOMAIN ir -> 0 .. 2]
    /\ released \in BOOLEAN

(* A push writes inside the allocation, although one that fails leaves a    *)
(* capacity behind that was never allocated: nothing may be pushed after    *)
(* it on any of the three stacks.                                           *)
PushesInsideAllocation ==
    \A s \in {frame_stack, value_stack, call_stack} :
        s.size <= Len(s.data) /\ (running => s.capacity = Len(s.data))

PlacesOf(f) ==
    {<<"global", 0>> : g \in {global_frame} \cap {f}}
    \cup {<<"temporary", 0>> : g \in Frame(temp_frame) \cap {f}}
    \cup {<<"local", i>> : i \in {j \in DOMAIN frame_stack.data : frame_stack.data[j] = f}}

(* While the program runs a frame is in exactly one place or freed: no      *)
(* frame is reached under two names, or after it was freed, or lost.        *)
FramesInOnePlace ==
    running => \A f \in DOMAIN frames :
        Cardinality(PlacesOf(f)) = IF frames[f].frees = 0 THEN 1 ELSE 0

(* Whichever error ends the program, main frees every frame exactly once;   *)
(* one frame at most is lost, when a PUSHFRAME runs out of memory.          *)
FramesReleasedOnce ==
    released =>
        /\ \A f \in DOMAIN frames : frames[f].frees <= 1
        /\ Cardinality({f \in DOMAIN frames : frames[f].frees = 0})
              <= IF status = "INTERNAL_ERROR" /\ instruction.op = "PUSH_F" THEN 1 ELSE 0

NeverReturns == \A i \in DOMAIN ir : ir[i].op # "RETURN"

VariablesHolding(l) == Holders(l, {f \in DOMAIN frames : frames[f].frees = 0})
SlotsHolding(l) == {i \in DOMAIN value_stack.data : value_stack.data[i] = l}

(* While each instruction is executed at most once, a string has at most    *)
(* one owner among the variables and the slots of the value stack, the      *)
(* slots above its top included, which a POPS reads.                        *)
StringsHaveOneOwner ==
    NeverReturns =>
        \A l \in DOMAIN ir : Cardinality(VariablesHolding(l)) + Cardinality(SlotsHolding(l)) <= 1

(* Only a RETURN can make a program run forever: calls and jumps go to      *)
(* labels declared later.                                                   *)
OnlyReturnLoops == NeverReturns => <>~running

VariablesOf(f) == IF f = NoFrame THEN NoFrame ELSE frames[f].variables
ValueAbove(s) == IF Outside(s) THEN NoValue ELSE s.data[TopSlot(s)]
Outcome == IF status \in {"undefined", "aborted", "key lost"} THEN "lost" ELSE status

Visible == INSTANCE Frames WITH
    Undefined <- NoValue,
    program <- ir,
    position <- code_pos,
    global <- VariablesOf(global_frame),
    temporary <- VariablesOf(temp_frame),
    locals <- [n \in Occupied(frame_stack) |-> VariablesOf(frame_stack.data[n])],
    values <- [n \in Occupied(value_stack) |-> value_stack.data[n]],
    stale <- ValueAbove(value_stack),
    calls <- call_stack.size,
    outcome <- Outcome

(* What each name stands for follows from the instructions executed: DEFVAR,*)
(* MOVE and POPS change the one name they are about, in the frame that      *)
(* Frames says, every error has its reason and changes no name, and tables  *)
(* that grow, frames that change hands and stacks that are reallocated      *)
(* neither lose nor mix up a variable or a value.                           *)
ImplementsFrames == Visible!Spec

(* memory.h: a pop returns "a pointer to the value at the top" of the value *)
(* stack, "a pointer to the top address", and "moves the top local frame    *)
(* into the temporary frame"; POPS, RETURN and POPFRAME use what it returns.*)
PopsTakeTheTop ==
    [][/\ \A where \in Places, x \in Names :
             Runs("POPS") /\ PopTo(where, x) =>
                 frames'[FrameOf(where)].variables[x] = value_stack.data[value_stack.size]
       /\ Return /\ running' => code_pos' = call_stack.data[call_stack.size]
       /\ PopFrame /\ ~Empty(frame_stack) => temp_frame' = frame_stack.data[frame_stack.size]]_vars

(* interpreter.h: token_literal_to_memory_value "moves the ownership of     *)
(* data from the token to the returned value": nobody else frees it.        *)
LiteralsFreedOnce == \A l \in DOMAIN ir : string_frees[l] <= 1
=============================================================================
