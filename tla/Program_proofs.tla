--------------------------- MODULE Program_proofs ---------------------------
(***************************************************************************)
(* The three properties of main, proved for programs of every length.      *)
(*                                                                         *)
(* Which blocks are allocated is decided by the label that main has        *)
(* reached and by how many blocks of the part in progress are done: that   *)
(* is LiveInv, and the properties follow from it and from the places in    *)
(* which a process may exit (ExitInv).                                     *)
(***************************************************************************)
EXTENDS Program, TLAPS

(* The blocks that are allocated.                                           *)
LiveBlocks == {b \in Blocks : block[b] = "live"}

First(blocks, n) == {blocks[i] : i \in 1 .. n}
From(blocks, n) == {blocks[i] : i \in n .. Len(blocks)}

(* What main has of the elements after parser_get_ir: shrinking to no       *)
(* instructions has freed them.                                             *)
HandedOver == IF size = 0 THEN {} ELSE {"elements"}

(* The line buffer, as long as parser_free has not come to it.              *)
LineBufferLeft == IF step < 3 THEN {"line_buffer"} ELSE {}

Labels == {"args", "create", "create_failed", "parse", "parse_failed", "get_ir", "move_table",
           "free_parser", "memory_init", "memory_failed", "interpret", "release", "fail", "close"}

TypeInv ==
    /\ pc \in Labels
    /\ step \in 0 .. 6
    /\ block \in [Blocks -> {"none", "live", "freed"}]
    /\ size \in 0 .. MaxInstructions
    /\ status \in {"running", "exited", "ended", "undefined"}

(* parser_free at work on a parser that owns all of its blocks.             *)
HalfFreed ==
    /\ step \in 0 .. 3
    /\ LiveBlocks = First(ParserBlocks, 4 - step)
    /\ held = First(ParserBlocks, 4 - step) \ {"parser"}

LiveInv ==
    /\ pc = "args" =>
        step = 0 /\ LiveBlocks = {} /\ held = {}
    /\ pc \in {"create", "create_failed"} =>
        step \in 0 .. 4 /\ LiveBlocks = First(ParserBlocks, step) /\ held = {}
    /\ pc \in {"parse", "get_ir"} =>
        step = 0 /\ HalfFreed
    /\ pc = "parse_failed" =>
        HalfFreed
    /\ pc = "fail" =>
        HalfFreed \/ ("parser" \notin LiveBlocks /\ held = {})
    /\ pc = "close" =>
        LiveBlocks = {} /\ held = {}
    /\ pc = "move_table" =>
        /\ step = 0
        /\ LiveBlocks = {"parser", "line_buffer", "jump_table"} \cup HandedOver
        /\ held = {"line_buffer", "jump_table"}
    /\ pc = "free_parser" =>
        /\ step \in 0 .. 3
        /\ LiveBlocks = {"parser", "jump_table"} \cup LineBufferLeft \cup HandedOver
        /\ held = LineBufferLeft
    /\ pc \in {"memory_init", "memory_failed"} =>
        /\ step \in 0 .. 4
        /\ LiveBlocks = {"jump_table"} \cup HandedOver \cup First(MemoryBlocks, step)
        /\ held = {}
    /\ pc = "interpret" =>
        /\ step = 0
        /\ LiveBlocks = {"jump_table"} \cup HandedOver \cup First(MemoryBlocks, 4)
        /\ held = {}
    /\ pc = "release" =>
        step \in 0 .. 6 /\ LiveBlocks = From(Released, step + 1) /\ held = {}

(* Where a process leaves main, and where it uses what has been freed.      *)
ExitInv ==
    /\ status = "exited" =>
        \/ pc = "args" /\ file # "open"
        \/ pc \in {"create_failed", "close"} /\ LiveBlocks = {} /\ file # "open"
        \/ pc = "release" /\ step = 6
    /\ UsedAfterFree

IInv == TypeInv /\ LiveInv /\ ExitInv

-----------------------------------------------------------------------------
(* The sets of blocks that main goes through, written out.                  *)

LEMMA BlockNames ==
    Blocks = {"parser", "line_buffer", "jump_table", "elements",
              "call_stack", "frame_stack", "value_stack", "global_frame"}
<1>1. Elements(ParserBlocks) = {"parser", "line_buffer", "jump_table", "elements"}
    <2>1. DOMAIN ParserBlocks = {1, 2, 3, 4}
        BY DEF ParserBlocks
    <2> QED
        BY <2>1 DEF Elements, ParserBlocks
<1>2. Elements(MemoryBlocks) = {"call_stack", "frame_stack", "value_stack", "global_frame"}
    <2>1. DOMAIN MemoryBlocks = {1, 2, 3, 4}
        BY DEF MemoryBlocks
    <2> QED
        BY <2>1 DEF Elements, MemoryBlocks
<1> QED
    BY <1>1, <1>2 DEF Blocks

LEMMA OfTheParser ==
    /\ Len(ParserBlocks) = 4
    /\ ParserBlocks[1] = "parser" /\ ParserBlocks[2] = "line_buffer"
    /\ ParserBlocks[3] = "jump_table" /\ ParserBlocks[4] = "elements"
    /\ First(ParserBlocks, 0) = {}
    /\ First(ParserBlocks, 1) = {"parser"}
    /\ First(ParserBlocks, 2) = {"parser", "line_buffer"}
    /\ First(ParserBlocks, 3) = {"parser", "line_buffer", "jump_table"}
    /\ First(ParserBlocks, 4) = {"parser", "line_buffer", "jump_table", "elements"}
<1>1. /\ Len(ParserBlocks) = 4
      /\ ParserBlocks[1] = "parser" /\ ParserBlocks[2] = "line_buffer"
      /\ ParserBlocks[3] = "jump_table" /\ ParserBlocks[4] = "elements"
    BY DEF ParserBlocks
<1>2. 1 .. 0 = {} /\ 1 .. 1 = {1} /\ 1 .. 2 = {1, 2} /\ 1 .. 3 = {1, 2, 3} /\ 1 .. 4 = {1, 2, 3, 4}
    OBVIOUS
<1>3. First(ParserBlocks, 0) = {} /\ First(ParserBlocks, 1) = {"parser"}
    BY <1>1, <1>2 DEF First
<1>4. First(ParserBlocks, 2) = {"parser", "line_buffer"}
    BY <1>1, <1>2 DEF First
<1>5. First(ParserBlocks, 3) = {"parser", "line_buffer", "jump_table"}
    BY <1>1, <1>2 DEF First
<1>6. First(ParserBlocks, 4) = {"parser", "line_buffer", "jump_table", "elements"}
    BY <1>1, <1>2 DEF First
<1> QED
    BY <1>1, <1>3, <1>4, <1>5, <1>6

LEMMA OfTheMemory ==
    /\ Len(MemoryBlocks) = 4
    /\ MemoryBlocks[1] = "call_stack" /\ MemoryBlocks[2] = "frame_stack"
    /\ MemoryBlocks[3] = "value_stack" /\ MemoryBlocks[4] = "global_frame"
    /\ First(MemoryBlocks, 0) = {}
    /\ First(MemoryBlocks, 1) = {"call_stack"}
    /\ First(MemoryBlocks, 2) = {"call_stack", "frame_stack"}
    /\ First(MemoryBlocks, 3) = {"call_stack", "frame_stack", "value_stack"}
    /\ First(MemoryBlocks, 4) = {"call_stack", "frame_stack", "value_stack", "global_frame"}
<1>1. /\ Len(MemoryBlocks) = 4
      /\ MemoryBlocks[1] = "call_stack" /\ MemoryBlocks[2] = "frame_stack"
      /\ MemoryBlocks[3] = "value_stack" /\ MemoryBlocks[4] = "global_frame"
    BY DEF MemoryBlocks
<1>2. 1 .. 0 = {} /\ 1 .. 1 = {1} /\ 1 .. 2 = {1, 2} /\ 1 .. 3 = {1, 2, 3} /\ 1 .. 4 = {1, 2, 3, 4}
    OBVIOUS
<1>3. First(MemoryBlocks, 0) = {} /\ First(MemoryBlocks, 1) = {"call_stack"}
    BY <1>1, <1>2 DEF First
<1>4. First(MemoryBlocks, 2) = {"call_stack", "frame_stack"}
    BY <1>1, <1>2 DEF First
<1>5. First(MemoryBlocks, 3) = {"call_stack", "frame_stack", "value_stack"}
    BY <1>1, <1>2 DEF First
<1>6. First(MemoryBlocks, 4) = {"call_stack", "frame_stack", "value_stack", "global_frame"}
    BY <1>1, <1>2 DEF First
<1> QED
    BY <1>1, <1>3, <1>4, <1>5, <1>6

LEMMA OfTheRelease ==
    /\ Len(Released) = 6
    /\ From(Released, 1) = {"elements", "jump_table"} \cup First(MemoryBlocks, 4)
    /\ From(Released, 7) = {}
    /\ \A n \in 0 .. 5 :
        /\ Released[n + 1] \in Blocks
        /\ From(Released, n + 2) = From(Released, n + 1) \ {Released[n + 1]}
<1>1. /\ Len(Released) = 6
      /\ Released[1] = "elements" /\ Released[2] = "global_frame" /\ Released[3] = "value_stack"
      /\ Released[4] = "frame_stack" /\ Released[5] = "call_stack" /\ Released[6] = "jump_table"
    BY DEF Released
<1>2. 1 .. 6 = {1, 2, 3, 4, 5, 6} /\ 7 .. 6 = {}
    OBVIOUS
<1>3. From(Released, 1) = {"elements", "global_frame", "value_stack", "frame_stack", "call_stack", "jump_table"}
    BY <1>1, <1>2 DEF From
<1>4. From(Released, 7) = {}
    BY <1>1, <1>2 DEF From
<1>5. \A i, j \in 1 .. 6 : i # j => Released[i] # Released[j]
    BY <1>1, <1>2
<1>6. ASSUME NEW n \in 0 .. 5
      PROVE  From(Released, n + 2) = From(Released, n + 1) \ {Released[n + 1]}
    <2>1. ASSUME NEW b \in From(Released, n + 2)
          PROVE  b \in From(Released, n + 1) /\ b # Released[n + 1]
        <3>1. PICK i \in (n + 2) .. 6 : b = Released[i]
            BY <1>1 DEF From
        <3>2. i \in (n + 1) .. 6 /\ i \in 1 .. 6 /\ n + 1 \in 1 .. 6 /\ i # n + 1
            OBVIOUS
        <3> QED
            BY <3>1, <3>2, <1>1, <1>5 DEF From
    <2>2. ASSUME NEW b \in From(Released, n + 1), b # Released[n + 1]
          PROVE  b \in From(Released, n + 2)
        <3>1. PICK i \in (n + 1) .. 6 : b = Released[i]
            BY <1>1 DEF From
        <3>2. i \in (n + 2) .. 6
            BY <3>1, <2>2
        <3> QED
            BY <3>1, <3>2, <1>1 DEF From
    <2> QED
        BY <2>1, <2>2
<1>7. \A n \in 0 .. 5 : Released[n + 1] \in Blocks
    <2>1. \A i \in 1 .. 6 : Released[i] \in Blocks
        BY <1>1, <1>2, BlockNames
    <2>2. \A n \in 0 .. 5 : n + 1 \in 1 .. 6
        OBVIOUS
    <2> QED
        BY <2>1, <2>2
<1>8. From(Released, 1) = {"elements", "jump_table"} \cup First(MemoryBlocks, 4)
    BY <1>3, OfTheMemory
<1> QED
    BY <1>1, <1>4, <1>6, <1>7, <1>8

(* Each of the first n blocks is one more than the first n - 1.             *)
LEMMA OneMore ==
    ASSUME NEW n \in 0 .. 3
    PROVE  /\ ParserBlocks[n + 1] \in Blocks
           /\ First(ParserBlocks, n + 1) = First(ParserBlocks, n) \cup {ParserBlocks[n + 1]}
           /\ First(ParserBlocks, n) = First(ParserBlocks, n + 1) \ {ParserBlocks[n + 1]}
           /\ MemoryBlocks[n + 1] \in Blocks
           /\ MemoryBlocks[n + 1] \notin {"parser", "line_buffer", "jump_table", "elements"}
           /\ First(MemoryBlocks, n + 1) = First(MemoryBlocks, n) \cup {MemoryBlocks[n + 1]}
           /\ First(MemoryBlocks, n) = First(MemoryBlocks, n + 1) \ {MemoryBlocks[n + 1]}
<1>1. n = 0 \/ n = 1 \/ n = 2 \/ n = 3
    OBVIOUS
<1>2. 0 + 1 = 1 /\ 1 + 1 = 2 /\ 2 + 1 = 3 /\ 3 + 1 = 4
    OBVIOUS
<1>3. CASE n = 0
    BY <1>2, <1>3, BlockNames, OfTheParser, OfTheMemory
<1>4. CASE n = 1
    BY <1>2, <1>4, BlockNames, OfTheParser, OfTheMemory
<1>5. CASE n = 2
    BY <1>2, <1>5, BlockNames, OfTheParser, OfTheMemory
<1>6. CASE n = 3
    BY <1>2, <1>6, BlockNames, OfTheParser, OfTheMemory
<1> QED
    BY <1>1, <1>3, <1>4, <1>5, <1>6

(* What allocating and freeing a block does to the blocks that are there.   *)
LEMMA OneAllocated ==
    ASSUME TypeInv, NEW b \in Blocks, block' = [block EXCEPT ![b] = "live"]
    PROVE  LiveBlocks' = LiveBlocks \cup {b} /\ block' \in [Blocks -> {"none", "live", "freed"}]
BY DEF TypeInv, LiveBlocks

LEMMA OneFreed ==
    ASSUME TypeInv, NEW b \in Blocks, block' = [block EXCEPT ![b] = "freed"]
    PROVE  LiveBlocks' = LiveBlocks \ {b} /\ block' \in [Blocks -> {"none", "live", "freed"}]
BY DEF TypeInv, LiveBlocks

LEMMA NoneChanged ==
    ASSUME UNCHANGED block
    PROVE  LiveBlocks' = LiveBlocks
BY DEF LiveBlocks

-----------------------------------------------------------------------------
(* parser_free, one block of it.                                            *)

(* A parser that owns its blocks loses the last of them, and after the      *)
(* fourth nothing of it is left.                                            *)
LEMMA FreeOwned ==
    ASSUME TypeInv, HalfFreed, NEW next, FreeParser(next)
    PROVE  /\ status' = status
           /\ block' \in [Blocks -> {"none", "live", "freed"}]
           /\ \/ pc' = pc /\ HalfFreed'
              \/ pc' = next /\ step' = 0 /\ LiveBlocks' = {} /\ held' = {}
<1>1. step \in 0 .. 3 /\ 4 - (step + 1) \in 0 .. 3 /\ (4 - (step + 1)) + 1 = 4 - step
    BY DEF HalfFreed
<1>2. "parser" \in Blocks
    BY BlockNames
<1>3. step = 0 \/ step = 1 \/ step = 2 \/ step = 3
    BY <1>1
<1>4. "parser" \in First(ParserBlocks, 4 - step)
    BY <1>3, OfTheParser
<1>5. block["parser"] = "live"
    BY <1>4 DEF HalfFreed, LiveBlocks
<1>6. Reverse(step) = ParserBlocks[4 - step]
    BY OfTheParser DEF Reverse
<1> DEFINE b == ParserBlocks[4 - step]
<1>7. b \in Blocks /\ b \in held \cup {"parser"}
    BY <1>3, BlockNames, OfTheParser DEF HalfFreed
<1>8. /\ block' = [block EXCEPT ![b] = "freed"]
      /\ held' = held \ {b}
      /\ status' = status
      /\ IF step + 1 < 4 THEN step' = step + 1 /\ pc' = pc ELSE Goto(next)
    BY <1>5, <1>6, <1>7, OfTheParser DEF FreeParser, Undefined
<1>9. LiveBlocks' = LiveBlocks \ {b} /\ block' \in [Blocks -> {"none", "live", "freed"}]
    BY <1>7, <1>8, OneFreed
<1>10. First(ParserBlocks, 4 - (step + 1)) = First(ParserBlocks, 4 - step) \ {b}
    BY <1>1, OneMore
<1>11. LiveBlocks' = First(ParserBlocks, 4 - (step + 1))
    BY <1>9, <1>10 DEF HalfFreed
<1>12. held' = First(ParserBlocks, 4 - (step + 1)) \ {"parser"}
    BY <1>8, <1>10 DEF HalfFreed
<1>13. CASE step + 1 < 4
    <2>1. step' = step + 1 /\ step' \in 0 .. 3 /\ pc' = pc
        BY <1>1, <1>8, <1>13
    <2> QED
        BY <2>1, <1>8, <1>9, <1>11, <1>12 DEF HalfFreed
<1>14. CASE ~(step + 1 < 4)
    <2>1. 4 - (step + 1) = 0 /\ pc' = next /\ step' = 0
        BY <1>1, <1>8, <1>14 DEF Goto
    <2>2. LiveBlocks' = {} /\ held' = {}
        BY <2>1, <1>11, <1>12, OfTheParser
    <2> QED
        BY <2>1, <2>2, <1>8, <1>9
<1> QED
    BY <1>13, <1>14

(* A parser that has been freed already is read all the same.               *)
LEMMA FreeAgain ==
    ASSUME "parser" \notin LiveBlocks, NEW next, FreeParser(next)
    PROVE  block["parser"] = "freed" /\ status' = "undefined" /\ UNCHANGED <<pc, step, block, held>>
BY BlockNames DEF FreeParser, LiveBlocks, Undefined

(* parser_free after the elements and the table have been handed over: the  *)
(* line buffer and the parser go, and the rest stays with main.             *)
LEMMA FreeRest ==
    ASSUME TypeInv, NEW next, FreeParser(next), UNCHANGED size,
           step \in 0 .. 3,
           LiveBlocks = {"parser", "jump_table"} \cup LineBufferLeft \cup HandedOver,
           held = LineBufferLeft
    PROVE  /\ status' = status
           /\ block' \in [Blocks -> {"none", "live", "freed"}]
           /\ \/ /\ pc' = pc /\ step' \in 0 .. 3
                 /\ LiveBlocks' = {"parser", "jump_table"} \cup LineBufferLeft' \cup HandedOver'
                 /\ held' = LineBufferLeft'
              \/ /\ pc' = next /\ step' = 0
                 /\ LiveBlocks' = {"jump_table"} \cup HandedOver'
                 /\ held' = {}
<1>1. step = 0 \/ step = 1 \/ step = 2 \/ step = 3
    OBVIOUS
<1>2. block["parser"] = "live"
    BY BlockNames DEF LiveBlocks
<1>3. HandedOver' = HandedOver
    BY DEF HandedOver
<1>4. "parser" \notin HandedOver /\ "line_buffer" \notin HandedOver /\ "jump_table" \notin HandedOver
    BY DEF HandedOver
<1> DEFINE b == Reverse(step)
<1>5. /\ block' = IF b \in held \cup {"parser"} THEN [block EXCEPT ![b] = "freed"] ELSE block
      /\ held' = held \ {b}
      /\ status' = status
      /\ IF step + 1 < 4 THEN step' = step + 1 /\ pc' = pc ELSE Goto(next)
    BY <1>2, OfTheParser DEF FreeParser, Undefined
<1>6. CASE step \in {0, 1}
    <2>1. b \in {"elements", "jump_table"} /\ held = {"line_buffer"}
        BY <1>6, OfTheParser DEF Reverse, LineBufferLeft
    <2>2. block' = block /\ held' = {"line_buffer"} /\ step' = step + 1 /\ pc' = pc
        BY <2>1, <1>5, <1>6
    <2>3. LineBufferLeft = {"line_buffer"} /\ LineBufferLeft' = {"line_buffer"} /\ step' \in 0 .. 3
        BY <2>2, <1>6 DEF LineBufferLeft
    <2> QED
        BY <2>2, <2>3, <1>3, <1>5, NoneChanged DEF TypeInv
<1>7. CASE step = 2
    <2>1. b = "line_buffer" /\ held = {"line_buffer"} /\ LineBufferLeft = {"line_buffer"}
        BY <1>7, OfTheParser DEF Reverse, LineBufferLeft
    <2>2. block' = [block EXCEPT !["line_buffer"] = "freed"] /\ held' = {} /\ step' = 3 /\ pc' = pc
        BY <2>1, <1>5, <1>7
    <2>3. LiveBlocks' = LiveBlocks \ {"line_buffer"} /\ block' \in [Blocks -> {"none", "live", "freed"}]
        BY <2>2, BlockNames, OneFreed
    <2>4. LineBufferLeft' = {} /\ step' \in 0 .. 3
        BY <2>2 DEF LineBufferLeft
    <2> QED
        BY <2>1, <2>2, <2>3, <2>4, <1>3, <1>4, <1>5
<1>8. CASE step = 3
    <2>1. b = "parser" /\ held = {} /\ LineBufferLeft = {}
        BY <1>8, OfTheParser DEF Reverse, LineBufferLeft
    <2>2. block' = [block EXCEPT !["parser"] = "freed"] /\ held' = {} /\ pc' = next /\ step' = 0
        BY <2>1, <1>5, <1>8 DEF Goto
    <2>3. LiveBlocks' = LiveBlocks \ {"parser"} /\ block' \in [Blocks -> {"none", "live", "freed"}]
        BY <2>2, BlockNames, OneFreed
    <2> QED
        BY <2>1, <2>2, <2>3, <1>3, <1>4, <1>5
<1> QED
    BY <1>1, <1>6, <1>7, <1>8

-----------------------------------------------------------------------------
(* Every step keeps the invariant.                                          *)

LEMMA InitInvariant == Init => IInv
<1> SUFFICES ASSUME Init PROVE IInv
    OBVIOUS
<1>1. LiveBlocks = {}
    BY DEF Init, LiveBlocks
<1>2. TypeInv
    BY ProgramAssumption DEF Init, TypeInv, Labels, ProgramAssumption
<1>3. LiveInv
    BY <1>1 DEF Init, LiveInv
<1>4. ExitInv
    BY DEF Init, ExitInv, UsedAfterFree
<1> QED
    BY <1>2, <1>3, <1>4 DEF IInv

LEMMA StartSteps ==
    ASSUME IInv, ParseArgs \/ Created
    PROVE  IInv'
<1>1. LiveBlocks' = LiveBlocks /\ HandedOver' = HandedOver
    BY NoneChanged DEF ParseArgs, Created, HandedOver
<1>2. TypeInv'
    BY DEF IInv, TypeInv, Labels, ParseArgs, Created, Goto, Exit
<1>3. CASE ParseArgs
    <2>1. LiveBlocks' = {} /\ held' = {} /\ step' = 0
        BY <1>1, <1>3 DEF IInv, LiveInv, ParseArgs, Goto, Exit
    <2>2. \/ pc' = "args" /\ status' = "exited" /\ file' # "open"
          \/ pc' = "create" /\ status' = "running"
        BY <1>3 DEF ParseArgs, Goto, Exit
    <2>3. LiveInv'
        BY <2>1, <2>2, OfTheParser DEF LiveInv
    <2>4. ExitInv'
        BY <2>2 DEF ExitInv, UsedAfterFree
    <2> QED
        BY <1>2, <2>3, <2>4 DEF IInv
<1>4. CASE Created
    <2>1. pc' = "parse" /\ step' = 0 /\ status' = "running"
        BY <1>4 DEF Created, Goto
    <2>2. LiveBlocks' = First(ParserBlocks, 4)
        BY <1>1, <1>4, OfTheParser DEF IInv, LiveInv, Created
    <2>3. held' = First(ParserBlocks, 4) \ {"parser"}
        BY <1>4, OfTheParser DEF Created
    <2>4. HalfFreed'
        <3>1. 4 - 0 = 4 /\ 0 \in 0 .. 3
            OBVIOUS
        <3> QED
            BY <3>1, <2>1, <2>2, <2>3 DEF HalfFreed
    <2>5. LiveInv'
        BY <2>1, <2>4 DEF LiveInv
    <2>6. ExitInv'
        BY <2>1 DEF ExitInv, UsedAfterFree
    <2> QED
        BY <1>2, <2>5, <2>6 DEF IInv
<1> QED
    BY <1>3, <1>4

LEMMA CreateSteps ==
    ASSUME IInv, CreatePart \/ UnwindCreate
    PROVE  IInv'
<1>1. step \in 0 .. 4 /\ LiveBlocks = First(ParserBlocks, step) /\ held' = {}
    BY DEF IInv, LiveInv, CreatePart, UnwindCreate
<1>2. CASE CreatePart
    <2>1. step \in 0 .. 3 /\ step + 1 \in 0 .. 4
        BY <1>1, <1>2, OfTheParser DEF CreatePart
    <2>2. /\ pc' \in {"create", "create_failed"} /\ status' = "running" /\ size' = size
          /\ step' \in 0 .. 4 /\ LiveBlocks' = First(ParserBlocks, step')
          /\ block' \in [Blocks -> {"none", "live", "freed"}]
        <3>1. CASE Allocate(ParserBlocks) /\ step' = step + 1 /\ UNCHANGED pc
            BY <3>1, <2>1, <1>1, <1>2, OneMore, OneAllocated DEF Allocate, CreatePart, IInv
        <3>2. CASE pc' = "create_failed" /\ UNCHANGED <<block, step>>
            BY <3>2, <1>1, <1>2, NoneChanged DEF CreatePart, IInv, TypeInv
        <3> QED
            BY <3>1, <3>2, <1>2 DEF CreatePart
    <2>3. TypeInv'
        BY <2>2 DEF IInv, TypeInv, Labels
    <2>4. LiveInv'
        BY <2>2, <1>1 DEF LiveInv
    <2>5. ExitInv'
        BY <2>2 DEF ExitInv, UsedAfterFree
    <2> QED
        BY <2>3, <2>4, <2>5 DEF IInv
<1>3. CASE UnwindCreate
    <2>1. /\ pc' = "create_failed" /\ size' = size
          /\ step' \in 0 .. 4 /\ LiveBlocks' = First(ParserBlocks, step')
          /\ block' \in [Blocks -> {"none", "live", "freed"}]
          /\ \/ status' = "running"
             \/ status' = "exited" /\ LiveBlocks' = {} /\ file' # "open"
        <3>1. CASE step > 0 /\ Unwind(ParserBlocks) /\ UNCHANGED <<pc, file, status>>
            <4>1. step - 1 \in 0 .. 3 /\ (step - 1) + 1 = step
                BY <1>1, <3>1
            <4>2. ParserBlocks[step] \in Blocks /\ First(ParserBlocks, step - 1) = First(ParserBlocks, step) \ {ParserBlocks[step]}
                BY <4>1, OneMore
            <4>3. block' = [block EXCEPT ![ParserBlocks[step]] = "freed"] /\ step' = step - 1
                BY <3>1 DEF Unwind
            <4>4. /\ LiveBlocks' = LiveBlocks \ {ParserBlocks[step]}
                  /\ block' \in [Blocks -> {"none", "live", "freed"}]
                BY <4>2, <4>3, OneFreed DEF IInv
            <4> QED
                BY <4>1, <4>2, <4>3, <4>4, <3>1, <1>1, <1>3 DEF UnwindCreate
        <3>2. CASE step = 0 /\ (file' = IF file = "open" THEN "closed" ELSE file) /\ Exit /\ UNCHANGED block
            BY <3>2, <1>1, <1>3, OfTheParser, NoneChanged DEF Exit, UnwindCreate, IInv, TypeInv
        <3>3. \/ step > 0 /\ Unwind(ParserBlocks) /\ UNCHANGED <<pc, file, status>>
              \/ step = 0 /\ (file' = IF file = "open" THEN "closed" ELSE file) /\ Exit /\ UNCHANGED block
            BY <1>3 DEF UnwindCreate
        <3> QED
            BY <3>1, <3>2, <3>3
    <2>2. TypeInv'
        BY <2>1 DEF IInv, TypeInv, Labels
    <2>3. LiveInv'
        BY <2>1, <1>1 DEF LiveInv
    <2>4. ExitInv'
        BY <2>1 DEF ExitInv, UsedAfterFree
    <2> QED
        BY <2>2, <2>3, <2>4 DEF IInv
<1> QED
    BY <1>2, <1>3

LEMMA ParseSteps ==
    ASSUME IInv, Parse
    PROVE  IInv'
<1>1. step = 0 /\ HalfFreed /\ LiveBlocks' = LiveBlocks
    BY NoneChanged DEF IInv, LiveInv, Parse
<1>2. step' = 0 /\ held' = held /\ block' = block
    BY <1>1 DEF Parse, Goto
<1>3. HalfFreed'
    BY <1>1, <1>2 DEF HalfFreed
<1>4. \/ pc' \in {"get_ir", "parse_failed", "fail"} /\ status' = "running"
      \/ pc' = "parse" /\ status' = "ended"
    BY DEF Parse, Goto
<1>5. size' \in 0 .. MaxInstructions
    BY DEF IInv, TypeInv, Parse
<1>6. TypeInv'
    BY <1>2, <1>4, <1>5 DEF IInv, TypeInv, Labels
<1>7. LiveInv'
    BY <1>2, <1>3, <1>4 DEF LiveInv
<1>8. ExitInv'
    BY <1>4 DEF ExitInv, UsedAfterFree
<1> QED
    BY <1>6, <1>7, <1>8 DEF IInv

(* parser_parse_file after an error, and main's parse_fail.                 *)
LEMMA FailSteps ==
    ASSUME IInv, ParseFailed \/ Fail
    PROVE  IInv'
<1> DEFINE next == IF pc = "fail" THEN "close" ELSE "fail"
<1>1. pc \in {"parse_failed", "fail"} /\ status = "running" /\ size' = size /\ FreeParser(next)
    BY DEF ParseFailed, Fail
<1> HIDE DEF next
<1>2. CASE HalfFreed
    <2>1. /\ status' = "running"
          /\ block' \in [Blocks -> {"none", "live", "freed"}]
          /\ \/ pc' = pc /\ HalfFreed'
             \/ pc' = next /\ step' = 0 /\ LiveBlocks' = {} /\ held' = {}
        BY <1>1, <1>2, FreeOwned DEF IInv
    <2>2. next \in {"fail", "close"} /\ pc' \in {"parse_failed", "fail", "close"}
        BY <2>1, <1>1 DEF next
    <2>3. step' \in 0 .. 6
        BY <2>1 DEF HalfFreed
    <2>4. TypeInv'
        BY <1>1, <2>1, <2>2, <2>3 DEF IInv, TypeInv, Labels
    <2>5. LiveInv'
        <3>1. CASE pc' = pc /\ HalfFreed'
            BY <3>1, <1>1 DEF LiveInv
        <3>2. CASE pc' = next /\ step' = 0 /\ LiveBlocks' = {} /\ held' = {}
            BY <3>2, <2>2 DEF LiveInv
        <3> QED
            BY <3>1, <3>2, <2>1
    <2>6. ExitInv'
        BY <2>1 DEF ExitInv, UsedAfterFree
    <2> QED
        BY <2>4, <2>5, <2>6 DEF IInv
<1>3. CASE ~HalfFreed
    <2>1. pc = "fail" /\ "parser" \notin LiveBlocks /\ held = {}
        BY <1>1, <1>3 DEF IInv, LiveInv
    <2>2. block["parser"] = "freed" /\ status' = "undefined" /\ UNCHANGED <<pc, step, block, held>>
        BY <1>1, <2>1, FreeAgain
    <2>3. TypeInv'
        BY <1>1, <2>2 DEF IInv, TypeInv
    <2>4. LiveInv'
        BY <2>1, <2>2, NoneChanged DEF LiveInv
    <2>5. ExitInv'
        BY <2>1, <2>2 DEF ExitInv, UsedAfterFree
    <2> QED
        BY <2>3, <2>4, <2>5 DEF IInv
<1> QED
    BY <1>2, <1>3

LEMMA HandOverSteps ==
    ASSUME IInv, GetIr \/ MoveTable
    PROVE  IInv'
<1>1. /\ HandedOver' = HandedOver /\ step' = 0 /\ status' = "running" /\ size' = size
    BY DEF GetIr, MoveTable, Goto, HandedOver
<1>2. CASE GetIr
    <2>1. /\ LiveBlocks = {"parser", "line_buffer", "jump_table", "elements"}
          /\ held = {"line_buffer", "jump_table", "elements"}
        <3>1. step = 0 /\ HalfFreed /\ 4 - 0 = 4
            BY <1>2 DEF IInv, LiveInv, GetIr
        <3> QED
            BY <3>1, OfTheParser DEF HalfFreed
    <2>2. /\ LiveBlocks' = {"parser", "line_buffer", "jump_table"} \cup HandedOver
          /\ block' \in [Blocks -> {"none", "live", "freed"}]
        <3>1. CASE size = 0
            <4>1. block' = [block EXCEPT !["elements"] = "freed"]
                BY <1>2, <3>1 DEF GetIr
            <4> QED
                BY <4>1, <3>1, <2>1, BlockNames, OneFreed DEF HandedOver, IInv
        <3>2. CASE size # 0
            BY <1>2, <3>2, <2>1, NoneChanged DEF GetIr, HandedOver, IInv, TypeInv
        <3> QED
            BY <3>1, <3>2
    <2>3. pc' = "move_table" /\ held' = {"line_buffer", "jump_table"}
        BY <1>2, <2>1 DEF GetIr, LosesElements, Goto
    <2>4. TypeInv'
        BY <1>1, <2>2, <2>3 DEF IInv, TypeInv, Labels
    <2>5. LiveInv'
        BY <1>1, <2>2, <2>3 DEF LiveInv
    <2>6. ExitInv'
        BY <1>1 DEF ExitInv, UsedAfterFree
    <2> QED
        BY <2>4, <2>5, <2>6 DEF IInv
<1>3. CASE MoveTable
    <2>1. pc' = "free_parser" /\ held' = {"line_buffer"} /\ block' = block
        BY <1>3 DEF IInv, LiveInv, MoveTable, Goto
    <2>2. LineBufferLeft' = {"line_buffer"} /\ step' \in 0 .. 3
        BY <1>1 DEF LineBufferLeft
    <2>3. LiveBlocks' = {"parser", "jump_table"} \cup LineBufferLeft' \cup HandedOver'
        BY <1>1, <1>3, <2>1, <2>2, NoneChanged DEF IInv, LiveInv, MoveTable
    <2>4. TypeInv'
        BY <1>1, <2>1 DEF IInv, TypeInv, Labels
    <2>5. LiveInv'
        BY <2>1, <2>2, <2>3 DEF LiveInv
    <2>6. ExitInv'
        BY <1>1 DEF ExitInv, UsedAfterFree
    <2> QED
        BY <2>4, <2>5, <2>6 DEF IInv
<1> QED
    BY <1>2, <1>3

LEMMA ParserDoneStep ==
    ASSUME IInv, ParserDone
    PROVE  IInv'
<1>1. /\ step \in 0 .. 3
      /\ LiveBlocks = {"parser", "jump_table"} \cup LineBufferLeft \cup HandedOver
      /\ held = LineBufferLeft
    BY DEF IInv, LiveInv, ParserDone
<1>2. pc = "free_parser" /\ status = "running" /\ FreeParser("memory_init") /\ size' = size
    BY DEF ParserDone
<1>3. /\ status' = "running"
      /\ block' \in [Blocks -> {"none", "live", "freed"}]
      /\ \/ /\ pc' = "free_parser" /\ step' \in 0 .. 3
            /\ LiveBlocks' = {"parser", "jump_table"} \cup LineBufferLeft' \cup HandedOver'
            /\ held' = LineBufferLeft'
         \/ /\ pc' = "memory_init" /\ step' = 0
            /\ LiveBlocks' = {"jump_table"} \cup HandedOver'
            /\ held' = {}
    BY <1>1, <1>2, FreeRest DEF IInv
<1>4. TypeInv'
    BY <1>2, <1>3 DEF IInv, TypeInv, Labels
<1>5. LiveInv'
    <2>1. CASE pc' = "free_parser"
        BY <2>1, <1>3 DEF LiveInv
    <2>2. CASE pc' = "memory_init"
        BY <2>2, <1>3, OfTheMemory DEF LiveInv
    <2> QED
        BY <2>1, <2>2, <1>3
<1>6. ExitInv'
    BY <1>3 DEF ExitInv, UsedAfterFree
<1> QED
    BY <1>4, <1>5, <1>6 DEF IInv

LEMMA MemorySteps ==
    ASSUME IInv, InitPart \/ Initialized \/ UnwindInit
    PROVE  IInv'
<1>1. /\ step \in 0 .. 4
      /\ LiveBlocks = {"jump_table"} \cup HandedOver \cup First(MemoryBlocks, step)
      /\ held = {} /\ held' = {}
    BY DEF IInv, LiveInv, InitPart, Initialized, UnwindInit
<1>2. size' = size /\ HandedOver' = HandedOver /\ status' = "running"
    BY DEF InitPart, Initialized, UnwindInit, HandedOver
<1>3. HandedOver \subseteq {"elements"}
    BY DEF HandedOver
<1>4. CASE InitPart
    <2>1. step \in 0 .. 3 /\ step + 1 \in 0 .. 4
        BY <1>1, <1>4, OfTheMemory DEF InitPart
    <2>2. /\ pc' \in {"memory_init", "memory_failed"}
          /\ step' \in 0 .. 4
          /\ LiveBlocks' = {"jump_table"} \cup HandedOver \cup First(MemoryBlocks, step')
          /\ block' \in [Blocks -> {"none", "live", "freed"}]
        <3>1. CASE Allocate(MemoryBlocks) /\ step' = step + 1 /\ UNCHANGED pc
            <4>1. block' = [block EXCEPT ![MemoryBlocks[step + 1]] = "live"]
                BY <3>1 DEF Allocate
            <4>2. /\ LiveBlocks' = LiveBlocks \cup {MemoryBlocks[step + 1]}
                  /\ block' \in [Blocks -> {"none", "live", "freed"}]
                BY <4>1, <2>1, OneMore, OneAllocated DEF IInv
            <4> QED
                BY <4>2, <3>1, <2>1, <1>1, <1>4, OneMore DEF InitPart
        <3>2. CASE pc' = "memory_failed" /\ UNCHANGED <<block, step>>
            BY <3>2, <1>1, <1>4, NoneChanged DEF InitPart, IInv, TypeInv
        <3> QED
            BY <3>1, <3>2, <1>4 DEF InitPart
    <2>3. TypeInv'
        BY <1>2, <2>2 DEF IInv, TypeInv, Labels
    <2>4. LiveInv'
        BY <1>1, <1>2, <2>2 DEF LiveInv
    <2>5. ExitInv'
        BY <1>2 DEF ExitInv, UsedAfterFree
    <2> QED
        BY <2>3, <2>4, <2>5 DEF IInv
<1>5. CASE Initialized
    <2>1. pc' = "interpret" /\ step' = 0 /\ block' = block /\ step = 4
        BY <1>5, OfTheMemory DEF Initialized, Goto
    <2>2. TypeInv'
        BY <1>2, <2>1 DEF IInv, TypeInv, Labels
    <2>3. LiveInv'
        BY <1>1, <1>2, <2>1, NoneChanged DEF LiveInv
    <2>4. ExitInv'
        BY <1>2 DEF ExitInv, UsedAfterFree
    <2> QED
        BY <2>2, <2>3, <2>4 DEF IInv
<1>6. CASE UnwindInit
    <2>1. CASE step > 0 /\ Unwind(MemoryBlocks) /\ UNCHANGED pc
        <3>1. step - 1 \in 0 .. 3 /\ (step - 1) + 1 = step
            BY <1>1, <2>1
        <3>2. /\ MemoryBlocks[step] \in Blocks
              /\ MemoryBlocks[step] \notin {"parser", "line_buffer", "jump_table", "elements"}
              /\ First(MemoryBlocks, step - 1) = First(MemoryBlocks, step) \ {MemoryBlocks[step]}
            BY <3>1, OneMore
        <3>3. block' = [block EXCEPT ![MemoryBlocks[step]] = "freed"] /\ step' = step - 1
            BY <2>1 DEF Unwind
        <3>4. LiveBlocks' = LiveBlocks \ {MemoryBlocks[step]} /\ block' \in [Blocks -> {"none", "live", "freed"}]
            BY <3>2, <3>3, OneFreed DEF IInv
        <3>5. LiveBlocks' = {"jump_table"} \cup HandedOver \cup First(MemoryBlocks, step - 1)
            BY <3>2, <3>4, <1>1, <1>3
        <3>6. pc' = "memory_failed" /\ step' \in 0 .. 4
            BY <2>1, <3>1, <3>3, <1>6 DEF UnwindInit
        <3>7. TypeInv'
            BY <3>4, <3>6, <1>2 DEF IInv, TypeInv, Labels
        <3>8. LiveInv'
            BY <3>3, <3>5, <3>6, <1>1, <1>2 DEF LiveInv
        <3>9. ExitInv'
            BY <1>2 DEF ExitInv, UsedAfterFree
        <3> QED
            BY <3>7, <3>8, <3>9 DEF IInv
    <2>2. CASE step = 0 /\ Goto("fail") /\ UNCHANGED block
        <3>1. pc' = "fail" /\ step' = 0 /\ block' = block
            BY <2>2 DEF Goto
        <3>2. "parser" \notin LiveBlocks'
            BY <2>2, <1>1, <1>3, OfTheMemory, NoneChanged
        <3>3. TypeInv'
            BY <3>1, <1>2 DEF IInv, TypeInv, Labels
        <3>4. LiveInv'
            BY <3>1, <3>2, <1>1 DEF LiveInv
        <3>5. ExitInv'
            BY <1>2 DEF ExitInv, UsedAfterFree
        <3> QED
            BY <3>3, <3>4, <3>5 DEF IInv
    <2> QED
        BY <2>1, <2>2, <1>6 DEF UnwindInit
<1> QED
    BY <1>4, <1>5, <1>6

LEMMA InterpretStep ==
    ASSUME IInv, Interpret
    PROVE  IInv'
<1>1. /\ pc = "interpret" /\ step = 0
      /\ LiveBlocks = {"jump_table"} \cup HandedOver \cup First(MemoryBlocks, 4)
      /\ held = {}
    BY DEF IInv, LiveInv, Interpret
<1>2. block' = block /\ held' = {} /\ size' = size /\ step' = 0
      /\ LiveBlocks' = LiveBlocks /\ HandedOver' = HandedOver
    BY <1>1, NoneChanged DEF Interpret, Undefined, Goto, HandedOver
<1>3. "elements" \in HandedOver <=> size # 0
    BY DEF HandedOver
<1>4. "elements" \in LiveBlocks <=> size # 0
    BY <1>1, <1>3, OfTheMemory
<1>5. \/ block["elements"] = "freed" /\ status' = "undefined" /\ pc' = "interpret"
      \/ block["elements"] = "live" /\ status' = "running" /\ pc' = "release"
      \/ block["elements"] = "live" /\ status' = "ended" /\ pc' = "interpret"
    BY <1>1 DEF Interpret, Undefined, Goto
<1>6. "elements" \in LiveBlocks <=> block["elements"] = "live"
    BY BlockNames DEF LiveBlocks
<1>7. TypeInv'
    BY <1>2, <1>5 DEF IInv, TypeInv, Labels
<1>8. LiveInv'
    <2>1. CASE pc' = "interpret"
        BY <2>1, <1>1, <1>2 DEF LiveInv
    <2>2. CASE pc' = "release"
        <3>1. HandedOver = {"elements"}
            BY <2>2, <1>4, <1>5, <1>6 DEF HandedOver
        <3>2. LiveBlocks' = From(Released, step' + 1)
            BY <3>1, <1>1, <1>2, OfTheRelease
        <3> QED
            BY <3>2, <2>2, <1>2 DEF LiveInv
    <2> QED
        BY <2>1, <2>2, <1>5
<1>9. ExitInv'
    BY <1>2, <1>4, <1>5, <1>6 DEF ExitInv, UsedAfterFree
<1> QED
    BY <1>7, <1>8, <1>9 DEF IInv

LEMMA ReleaseSteps ==
    ASSUME IInv, Release \/ Close
    PROVE  IInv'
<1>1. CASE Release
    <2>1. step \in 0 .. 6 /\ LiveBlocks = From(Released, step + 1) /\ held' = {} /\ pc' = "release" /\ size' = size
        BY <1>1 DEF IInv, LiveInv, Release, Exit
    <2>2. /\ step' \in 0 .. 6 /\ LiveBlocks' = From(Released, step' + 1)
          /\ block' \in [Blocks -> {"none", "live", "freed"}]
          /\ status' = "running" \/ (status' = "exited" /\ step' = 6)
        <3>1. CASE step < Len(Released)
            <4>1. step \in 0 .. 5
                BY <2>1, <3>1, OfTheRelease
            <4>2. block' = [block EXCEPT ![Released[step + 1]] = "freed"] /\ step' = step + 1 /\ status' = "running"
                BY <1>1, <4>1, OfTheRelease DEF Release
            <4>3. LiveBlocks' = LiveBlocks \ {Released[step + 1]} /\ block' \in [Blocks -> {"none", "live", "freed"}]
                BY <4>1, <4>2, OfTheRelease, OneFreed DEF IInv
            <4>4. step' \in 0 .. 6 /\ step' + 1 = step + 2
                BY <4>1, <4>2
            <4> QED
                BY <4>1, <4>2, <4>3, <4>4, <2>1, OfTheRelease
        <3>2. CASE ~(step < Len(Released))
            BY <3>2, <2>1, <1>1, OfTheRelease, NoneChanged DEF Release, Exit, IInv, TypeInv
        <3> QED
            BY <3>1, <3>2
    <2>3. TypeInv'
        BY <2>1, <2>2 DEF IInv, TypeInv, Labels
    <2>4. LiveInv'
        BY <2>1, <2>2 DEF LiveInv
    <2>5. ExitInv'
        BY <2>1, <2>2 DEF ExitInv, UsedAfterFree
    <2> QED
        BY <2>3, <2>4, <2>5 DEF IInv
<1>2. CASE Close
    <2>1. /\ pc' = "close" /\ status' = "exited" /\ file' # "open" /\ held' = {} /\ LiveBlocks' = {}
          /\ UNCHANGED <<step, block, size>>
        BY <1>2, NoneChanged DEF IInv, LiveInv, Close, Exit
    <2>2. TypeInv'
        BY <2>1 DEF IInv, TypeInv, Labels
    <2>3. LiveInv'
        BY <2>1 DEF LiveInv
    <2>4. ExitInv'
        BY <2>1 DEF ExitInv, UsedAfterFree
    <2> QED
        BY <2>2, <2>3, <2>4 DEF IInv
<1> QED
    BY <1>1, <1>2

THEOREM StepInvariant == IInv /\ [Next]_vars => IInv'
<1> SUFFICES ASSUME IInv, [Next]_vars PROVE IInv'
    OBVIOUS
<1>1. CASE UNCHANGED vars
    BY <1>1 DEF vars, IInv, TypeInv, LiveInv, ExitInv, UsedAfterFree, LiveBlocks, HalfFreed, HandedOver, LineBufferLeft
<1>2. CASE Next
    BY <1>2, StartSteps, CreateSteps, ParseSteps, FailSteps, HandOverSteps, ParserDoneStep, MemorySteps,
       InterpretStep, ReleaseSteps DEF Next
<1> QED
    BY <1>1, <1>2

(* Which blocks are allocated is decided by where main is.                  *)
THEOREM BlocksAreAccountedFor == Spec => []IInv
<1>1. Init => IInv
    BY InitInvariant
<1>2. IInv /\ [Next]_vars => IInv'
    BY StepInvariant
<1> QED
    BY <1>1, <1>2, PTL DEF Spec

-----------------------------------------------------------------------------
(* When main returns, whatever failed on the way, none of its blocks is     *)
(* left allocated, and a file is left open only after an interpretation.    *)
THEOREM NothingIsLeft == Spec => []NothingLeft
<1>1. IInv => NothingLeft
    <2> SUFFICES ASSUME IInv, status = "exited" PROVE LiveBlocks = {} /\ (file = "open" => pc = "release")
        BY DEF NothingLeft, LiveBlocks
    <2>1. CASE pc = "args" /\ file # "open"
        BY <2>1 DEF IInv, LiveInv
    <2>2. CASE pc \in {"create_failed", "close"} /\ LiveBlocks = {} /\ file # "open"
        BY <2>2
    <2>3. CASE pc = "release" /\ step = 6
        <3>1. 6 + 1 = 7
            OBVIOUS
        <3> QED
            BY <2>3, <3>1, OfTheRelease DEF IInv, LiveInv
    <2> QED
        BY <2>1, <2>2, <2>3 DEF IInv, ExitInv
<1> QED
    BY <1>1, BlocksAreAccountedFor, PTL

(* A freed block is used after a refused line, after a failed memory_init   *)
(* and for a program without instructions, and nowhere else.                *)
THEOREM FreedBlocksAreUsed == Spec => []UsedAfterFree
<1>1. IInv => UsedAfterFree
    BY DEF IInv, ExitInv
<1> QED
    BY <1>1, BlocksAreAccountedFor, PTL

(* While the parser is there, each of its fields that is not cleared points *)
(* to a block that nobody has freed.                                        *)
THEOREM FieldsStayValid == Spec => []FieldsPointToBlocks
<1>1. IInv => FieldsPointToBlocks
    <2> SUFFICES ASSUME IInv PROVE held \subseteq LiveBlocks
        BY DEF FieldsPointToBlocks, LiveBlocks
    <2>1. CASE pc \in {"args", "create", "create_failed", "close", "memory_init", "memory_failed", "interpret", "release"}
        BY <2>1 DEF IInv, LiveInv
    <2>2. CASE pc \in {"parse", "get_ir", "parse_failed", "fail"}
        <3>1. HalfFreed \/ held = {}
            BY <2>2 DEF IInv, LiveInv
        <3> QED
            BY <3>1 DEF HalfFreed
    <2>3. CASE pc \in {"move_table", "free_parser"}
        BY <2>3 DEF IInv, LiveInv
    <2> QED
        BY <2>1, <2>2, <2>3 DEF IInv, TypeInv, Labels
<1> QED
    BY <1>1, BlocksAreAccountedFor, PTL
=============================================================================
