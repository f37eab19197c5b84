------------------------------ MODULE Program -------------------------------
(***************************************************************************)
(* main with the creation and release of the parser and of the memory: who *)
(* owns which block, in which order the blocks are allocated, handed over, *)
(* unwound after a failure, and freed.  What parsing and interpreting do   *)
(* in between is the concern of Parser and Interpreter; here parsing ends  *)
(* with a program of some length or an error, and interpreting with an     *)
(* error code, or it takes the process with it.  Using a block that has    *)
(* been freed ends the model's knowledge of the process.                   *)
(***************************************************************************)
EXTENDS Naturals, Sequences

CONSTANT MaxInstructions      \* bound: the size of ir

ASSUME ProgramAssumption == MaxInstructions \in Nat

(* In the order of their allocation.                                        *)
ParserBlocks == <<"parser", "line_buffer", "jump_table", "elements">>
MemoryBlocks == <<"call_stack", "frame_stack", "value_stack", "global_frame">>

Elements(s) == {s[i] : i \in DOMAIN s}
Blocks == Elements(ParserBlocks) \cup Elements(MemoryBlocks)

VARIABLES
    pc,
    step,            \* how many blocks of the part in progress are done
    block,           \* of each block: none, live or freed
    held,            \* the blocks that the parser's fields point to
    size,            \* of ir
    file,            \* config.file
    status           \* running, exited, ended in between, or undefined

vars == <<pc, step, block, held, size, file, status>>

Goto(label) == pc' = label /\ step' = 0

Exit == status' = "exited" /\ UNCHANGED <<pc, step>>
Undefined == status' = "undefined" /\ UNCHANGED <<pc, step, block, held>>

-----------------------------------------------------------------------------
(* parse_args and fopen                                                     *)

ParseArgs ==
    /\ pc = "args" /\ status = "running"
    /\ \/ file' = "none" /\ Exit                    \* help, or not understood
       \/ file' = "NULL" /\ Exit
       \/ file' \in {"stdin", "open"} /\ Goto("create") /\ UNCHANGED status
    /\ UNCHANGED <<block, held, size>>

-----------------------------------------------------------------------------
(* parser_create                                                            *)

Allocate(blocks) == block' = [block EXCEPT ![blocks[step + 1]] = "live"]

CreatePart ==
    /\ pc = "create" /\ status = "running" /\ step < Len(ParserBlocks)
    /\ \/ Allocate(ParserBlocks) /\ step' = step + 1 /\ UNCHANGED pc
       \/ pc' = "create_failed" /\ UNCHANGED <<block, step>>
    /\ UNCHANGED <<held, size, file, status>>

Created ==
    /\ pc = "create" /\ status = "running" /\ step = Len(ParserBlocks)
    /\ held' = {"line_buffer", "jump_table", "elements"}
    /\ Goto("parse")
    /\ UNCHANGED <<block, size, file, status>>

(* The labels fall through, and each frees what was there before the        *)
(* failing step.                                                            *)
Unwind(blocks) ==
    /\ block' = [block EXCEPT ![blocks[step]] = "freed"]
    /\ step' = step - 1

UnwindCreate ==
    /\ pc = "create_failed" /\ status = "running"
    /\ \/ step > 0 /\ Unwind(ParserBlocks) /\ UNCHANGED <<pc, file, status>>
       \/ /\ step = 0
          /\ file' = IF file = "open" THEN "closed" ELSE file
          /\ Exit /\ UNCHANGED block
    /\ UNCHANGED <<held, size>>

-----------------------------------------------------------------------------
(* parser_free, one block at a time: the elements, the table, the line      *)
(* buffer, the parser itself.  A field that points nowhere is skipped; the  *)
(* parser's fields cannot be read once it is freed.                         *)

Reverse(i) == ParserBlocks[Len(ParserBlocks) - i]

FreeParser(next) ==
    \/ block["parser"] = "freed" /\ Undefined
    \/ /\ block["parser"] = "live" /\ step < Len(ParserBlocks)
       /\ LET b == Reverse(step) IN
          /\ block' = IF b \in held \cup {"parser"} THEN [block EXCEPT ![b] = "freed"] ELSE block
          /\ held' = held \ {b}
       /\ IF step + 1 < Len(ParserBlocks) THEN step' = step + 1 /\ UNCHANGED pc ELSE Goto(next)
       /\ UNCHANGED status

-----------------------------------------------------------------------------
(* parser_parse_file and parser_check_jump_table                            *)

Parse ==
    /\ pc = "parse" /\ status = "running"
    /\ \/ size' \in 0 .. MaxInstructions /\ Goto("get_ir") /\ UNCHANGED status
       \/ Goto("parse_failed") /\ UNCHANGED <<size, status>>      \* an error in a line
       \/ Goto("fail") /\ UNCHANGED <<size, status>>              \* an undefined label
       \/ status' = "ended" /\ UNCHANGED <<pc, step, size>>       \* an assertion
    /\ UNCHANGED <<block, held, file>>

(* parser_parse_file frees the parser before it returns an error.           *)
ParseFailed ==
    /\ pc = "parse_failed" /\ status = "running"
    /\ FreeParser("fail")
    /\ UNCHANGED <<size, file>>

-----------------------------------------------------------------------------
(* parser_get_ir, parser_move_table and parser_free: the elements and the   *)
(* table go to main.  Shrinking to no elements frees them and returns NULL, *)
(* and the pointer to them is returned all the same.                        *)

KeepsElements == {}
LosesElements == {"elements"}

GetIr ==
    /\ pc = "get_ir" /\ status = "running"
    /\ block' = IF size = 0 THEN [block EXCEPT !["elements"] = "freed"] ELSE block
    /\ held' = held \ LosesElements
    /\ Goto("move_table")
    /\ UNCHANGED <<size, file, status>>

MoveTable ==
    /\ pc = "move_table" /\ status = "running"
    /\ held' = held \ {"jump_table"}
    /\ Goto("free_parser")
    /\ UNCHANGED <<block, size, file, status>>

ParserDone ==
    /\ pc = "free_parser" /\ status = "running"
    /\ FreeParser("memory_init")
    /\ UNCHANGED <<size, file>>

-----------------------------------------------------------------------------
(* memory_init                                                              *)

InitPart ==
    /\ pc = "memory_init" /\ status = "running" /\ step < Len(MemoryBlocks)
    /\ \/ Allocate(MemoryBlocks) /\ step' = step + 1 /\ UNCHANGED pc
       \/ pc' = "memory_failed" /\ UNCHANGED <<block, step>>
    /\ UNCHANGED <<held, size, file, status>>

Initialized ==
    /\ pc = "memory_init" /\ status = "running" /\ step = Len(MemoryBlocks)
    /\ Goto("interpret")
    /\ UNCHANGED <<block, held, size, file, status>>

UnwindInit ==
    /\ pc = "memory_failed" /\ status = "running"
    /\ \/ step > 0 /\ Unwind(MemoryBlocks) /\ UNCHANGED pc
       \/ step = 0 /\ Goto("fail") /\ UNCHANGED block
    /\ UNCHANGED <<held, size, file, status>>

-----------------------------------------------------------------------------
(* interpret_ir, and the releases that follow it                            *)

Interpret ==
    /\ pc = "interpret" /\ status = "running"
    /\ \/ block["elements"] = "freed" /\ Undefined
       \/ /\ block["elements"] = "live"
          /\ \/ Goto("release") /\ UNCHANGED status
             \/ status' = "ended" /\ UNCHANGED <<pc, step>>
          /\ UNCHANGED <<block, held>>
    /\ UNCHANGED <<size, file>>

(* ir_free, memory_free and jump_table_free.                                *)
WithoutTable == <<"elements", "global_frame", "value_stack", "frame_stack", "call_stack">>
Released == <<"elements", "global_frame", "value_stack", "frame_stack", "call_stack", "jump_table">>

Release ==
    /\ pc = "release" /\ status = "running"
    /\ \/ /\ step < Len(Released)
          /\ block' = [block EXCEPT ![Released[step + 1]] = "freed"]
          /\ step' = step + 1
          /\ UNCHANGED <<pc, status>>
       \/ step = Len(Released) /\ Exit /\ UNCHANGED block
    /\ UNCHANGED <<held, size, file>>

(* mem_init_fail, parse_fail: the parser is freed, and the file closed.     *)
Fail ==
    /\ pc = "fail" /\ status = "running"
    /\ FreeParser("close")
    /\ UNCHANGED <<size, file>>

Close ==
    /\ pc = "close" /\ status = "running"
    /\ file' = IF file = "open" THEN "closed" ELSE file
    /\ Exit
    /\ UNCHANGED <<block, held, size>>

-----------------------------------------------------------------------------
Init ==
    /\ pc = "args"
    /\ step = 0
    /\ block = [b \in Blocks |-> "none"]
    /\ held = {}
    /\ size = 0
    /\ file = "none"
    /\ status = "running"

Next ==
    \/ ParseArgs
    \/ CreatePart \/ Created \/ UnwindCreate
    \/ Parse \/ ParseFailed
    \/ GetIr \/ MoveTable \/ ParserDone
    \/ InitPart \/ Initialized \/ UnwindInit
    \/ Interpret \/ Release
    \/ Fail \/ Close

Spec == Init /\ [][Next]_vars

-----------------------------------------------------------------------------
(* Whatever fails on the way, main leaves no block allocated when it        *)
(* returns, and a file open only after an interpretation.                   *)
NothingLeft ==
    status = "exited" =>
        /\ \A b \in Blocks : block[b] # "live"
        /\ file = "open" => pc = "release"

(* A block that has been freed is used in three situations and no others:   *)
(* after a refused line and after a failure of memory_init the parser is    *)
(* freed again, and a program without instructions is read from the         *)
(* elements that were freed by shrinking them.                              *)
UsedAfterFree ==
    status = "undefined" =>
        \/ pc = "fail" /\ block["parser"] = "freed" /\ held = {}
        \/ pc = "interpret" /\ size = 0

(* Nobody frees what somebody else has freed: while the process runs, what  *)
(* the parser's fields point to is there as long as the parser is.          *)
FieldsPointToBlocks ==
    status = "running" /\ block["parser"] = "live" => \A b \in held : block[b] = "live"
=============================================================================
