------------------------------- MODULE Parser -------------------------------
(***************************************************************************)
(* parser.c with the jump table of jump_table.h and the array of           *)
(* ir_array.c, which it fills line by line.  The jump table is the map     *)
(* that RHTable implements, with the load limit that makes it grow.        *)
(* Tokens come from the lexer, which makes no TOKEN_TYPE; a token's text   *)
(* matters only where a label is read.  Any allocation may fail.           *)
(*                                                                         *)
(* PARSER_MEM_CHECK evaluates its argument twice, so an instruction is     *)
(* stored by two calls.  The first takes the strings of the operands; the  *)
(* second finds them gone and fails an assertion, or, in a build without   *)
(* assertions, stores the instruction once more.  Both builds are covered: *)
(* either outcome may follow.                                              *)
(***************************************************************************)
EXTENDS Opcodes, Integers, FiniteSets

CONSTANTS
    Labels,          \* the texts that may be read as labels
    Words,           \* the words taken for opcodes
    TableInitSize,   \* JUMP_TABLE_INIT_SIZE
    ArrayInitSize,   \* IR_ARRAY_INITIAL_SIZE
    MaxLines,        \* bound: the lines of a program
    NoLabel

ASSUME ParserAssumption ==
    /\ INS_UNKNOWN \in Words /\ Words \subseteq OpcodeWords
    /\ TableInitSize \in Nat \ {0, 1}
    /\ ArrayInitSize \in Nat \ {0}
    /\ MaxLines \in Nat
    /\ NoLabel \notin Labels

VARIABLES
    pc,                       \* what is done next
    instruction,              \* the opcode of the line in progress
    operand_tokens,           \* its operands read so far
    retval,                   \* of parser_parse_line
    table, table_capacity,    \* the jump table
    ir, ir_capacity,          \* the array of instructions
    lines                     \* the lines begun (bounds the exploration)

line_vars  == <<instruction, operand_tokens>>
table_vars == <<table, table_capacity>>
ir_vars    == <<ir, ir_capacity>>
vars == <<pc, instruction, operand_tokens, retval, table, table_capacity, ir, ir_capacity, lines>>

-----------------------------------------------------------------------------
Token(type, name) == [type |-> type, name |-> name]
LabelTokens   == {Token("LABEL", l) : l \in Labels}
StringTokens  == {Token("STRING", l) : l \in Labels}
OperandToken  == LabelTokens \cup StringTokens \cup {Token(t, NoLabel) : t \in {"VARIABLE", "INT"}}

(* Where the table points for a label.                                      *)
NoDestination == -1        \* not written yet
Entry(destination, filled) == [destination |-> destination, destination_filled |-> filled]

Put(l, entry) == [k \in DOMAIN table \cup {l} |-> IF k = l THEN entry ELSE table[k]]

TableFull == 16 * (Cardinality(DOMAIN table) + 1) >= 15 * table_capacity

(* The text that is read as the line's label.  Only some tokens have their  *)
(* text where it is looked for; another may give any, or none.              *)
FirstOwnsText == operand_tokens # <<>> /\ operand_tokens[1].type \in {"LABEL", "STRING"}

label == operand_tokens[1].name

LabelsRead ==
    IF operand_tokens = <<>> THEN {} ELSE IF FirstOwnsText THEN {label} ELSE Labels

(* The error paths of parser_parse_line: free the tokens, return r.         *)
Return(r) ==
    /\ retval' = r
    /\ pc' = "returned"
    /\ instruction' = INS_UNKNOWN
    /\ operand_tokens' = <<>>

-----------------------------------------------------------------------------
(* parser_parse_line, called again and again by parser_parse_file           *)

(* A line need not start with an instruction token: the beginning of any    *)
(* token's value is taken for an opcode, and a number or an address can     *)
(* spell any word.                                                          *)
ParseLine ==
    /\ pc = "line" /\ lines < MaxLines
    /\ lines' = lines + 1
    /\ instruction' \in Words
    /\ pc' = "operands"
    /\ UNCHANGED <<operand_tokens, retval, table_vars, ir_vars>>

(* The end of the file, an unknown token, or no memory for a token.         *)
NoLine ==
    /\ pc = "line"
    /\ \E r \in {"PARSER_MEM_ERR", "PARSER_INVALID_TOKEN", "PARSER_PROGRAM_END"} : Return(r)
    /\ UNCHANGED <<table_vars, ir_vars, lines>>

ReadOperand ==
    /\ pc = "operands" /\ Len(operand_tokens) < get_number_opperands(instruction)
    /\ \E token \in OperandToken : operand_tokens' = Append(operand_tokens, token)
    /\ UNCHANGED <<pc, instruction, retval, table_vars, ir_vars, lines>>

(* No memory; an instruction, the end of the file or an unknown token.      *)
NoOperand ==
    /\ pc = "operands" /\ Len(operand_tokens) < get_number_opperands(instruction)
    /\ \E r \in {"PARSER_MEM_ERR", "PARSER_INVALID_INS_ARGS"} : Return(r)
    /\ UNCHANGED <<table_vars, ir_vars, lines>>

CheckTypes ==
    /\ pc = "operands" /\ Len(operand_tokens) = get_number_opperands(instruction)
    /\ LET types == [n \in 1 .. Len(operand_tokens) |-> operand_tokens[n].type] IN
       \/ /\ ~ArgsValid(instruction, types)
          /\ Return("PARSER_INVALID_INS_ARGS")
       \/ /\ ArgsValid(instruction, types)
          /\ pc' = IF has_label(instruction) THEN "store_label" ELSE "add_elm"
          /\ UNCHANGED <<line_vars, retval>>
    /\ UNCHANGED <<table_vars, ir_vars, lines>>

-----------------------------------------------------------------------------
(* parser_store_label, with jump_table_insert: a full table grows before    *)
(* the label l is looked for again.                                         *)

GrownCapacity == IF TableFull THEN 2 * table_capacity ELSE table_capacity

SizeAfterwards == Len(ir) + 1
NextPosition == Len(ir)                                  \* ir_array_size

LabelEntry(old) == IF instruction = INS_LABEL THEN Entry(NextPosition, TRUE)
                                              ELSE [old EXCEPT !.destination_filled = FALSE]

RepeatedJump(l) == table[l].destination_filled /\ instruction # INS_LABEL
RepeatedDeclaration(l) == table[l].destination_filled /\ instruction = INS_LABEL
Repeated(l) == table[l].destination_filled

StoreNewLabel(l) ==
    /\ l \notin DOMAIN table
    /\ table' = Put(l, LabelEntry(Entry(NoDestination, FALSE)))
    /\ table_capacity' = GrownCapacity
    /\ pc' = "add_elm"
    /\ UNCHANGED <<line_vars, retval, ir_vars, lines>>

StoreKnownLabel(l) ==
    /\ l \in DOMAIN table /\ ~Repeated(l)
    /\ table' = Put(l, LabelEntry(table[l]))
    /\ table_capacity' = GrownCapacity
    /\ pc' = "add_elm"
    /\ UNCHANGED <<line_vars, retval, ir_vars, lines>>

(* PARSER_DUPLICATE_LABEL, which parser_parse_line reports as:              *)
DuplicateLabel(l) ==
    /\ l \in DOMAIN table /\ Repeated(l)
    /\ table_capacity' = GrownCapacity
    /\ Return("PARSER_INVALID_INS_ARGS")
    /\ UNCHANGED <<table, ir_vars, lines>>

(* The table cannot grow, or the label cannot be copied.  The slot that a   *)
(* failed copy leaves behind is the concern of RHTable: parsing ends here.  *)
LabelNotStored(l) ==
    /\ \/ TableFull /\ UNCHANGED table_capacity
       \/ l \notin DOMAIN table /\ table_capacity' = GrownCapacity
    /\ Return("PARSER_MEM_ERR")
    /\ UNCHANGED <<table, ir_vars, lines>>

(* assert(ret == RH_TABLE_SUCCESS) of jump_table_insert, after the growth:  *)
(* the label is known, or it is not copied.                                 *)
GrowthAborts ==
    /\ TableFull
    /\ table_capacity' = GrownCapacity
    /\ pc' = "aborted"
    /\ UNCHANGED <<line_vars, retval, table, ir_vars, lines>>

(* Without an operand a null pointer is read; a number or a frame where the *)
(* address of a text should be may be no address.                           *)
NoLabelThere ==
    /\ ~FirstOwnsText
    /\ pc' = "crashed"
    /\ UNCHANGED <<line_vars, retval, table_vars, ir_vars, lines>>

StoreLabel ==
    /\ pc = "store_label"
    /\ \/ NoLabelThere
       \/ \E l \in LabelsRead :
             StoreNewLabel(l) \/ StoreKnownLabel(l) \/ DuplicateLabel(l) \/ LabelNotStored(l) \/ GrowthAborts

-----------------------------------------------------------------------------
(* ir_array_add_elm, called twice, and back to parser_parse_file            *)

ArrayOverfull == Len(ir) > ir_capacity
ArrayFull == Len(ir) = ir_capacity

ArrayGrows == ir_capacity' = IF ArrayFull THEN 2 * ir_capacity ELSE ir_capacity

element == [opcode |-> instruction,
            label |-> IF has_label(instruction) /\ FirstOwnsText THEN label ELSE NoLabel]

AddElm ==
    /\ pc = "add_elm"
    /\ ir' = Append(ir, element)
    /\ ArrayGrows
    /\ pc' = "add_elm_again"
    /\ UNCHANGED <<line_vars, retval, table_vars, lines>>

(* The copy has the operands without their strings.                         *)
AddElmAgain ==
    /\ pc = "add_elm_again"
    /\ ir' = Append(ir, [opcode |-> instruction, label |-> NoLabel])
    /\ ArrayGrows
    /\ Return("PARSER_SUCCESS")
    /\ UNCHANGED <<table_vars, lines>>

(* What token_move takes from a token.                                      *)
OwnsString(token) == token.type \in {"LABEL", "STRING", "TYPE", "VARIABLE"}
MovesStrings == \E n \in DOMAIN operand_tokens : OwnsString(operand_tokens[n])

(* sb_move_string: assert(string->data != NULL)                             *)
MoveAborts ==
    /\ pc = "add_elm_again" /\ MovesStrings
    /\ ArrayGrows
    /\ pc' = "aborted"
    /\ UNCHANGED <<line_vars, retval, table_vars, ir, lines>>

AddElmFails ==
    /\ pc \in {"add_elm", "add_elm_again"} /\ ArrayFull
    /\ Return("PARSER_MEM_ERR")
    /\ UNCHANGED <<table_vars, ir_vars, lines>>

LineParsed ==
    /\ pc = "returned" /\ retval = "PARSER_SUCCESS"
    /\ pc' = "line"
    /\ UNCHANGED <<line_vars, retval, table_vars, ir_vars, lines>>

FileParsed ==
    /\ pc = "returned" /\ retval = "PARSER_PROGRAM_END"
    /\ pc' = "parsed"
    /\ UNCHANGED <<line_vars, retval, table_vars, ir_vars, lines>>

NoEntries == [l \in {} |-> Entry(NoDestination, FALSE)]

(* parser_free                                                              *)
Release ==
    /\ table' = NoEntries
    /\ table_capacity' = 0
    /\ ir' = <<>>
    /\ ir_capacity' = 0

FileFailed ==
    /\ pc = "returned" /\ retval \notin {"PARSER_SUCCESS", "PARSER_PROGRAM_END"}
    /\ pc' = "failed"
    /\ Release
    /\ UNCHANGED <<line_vars, retval, lines>>

AnyFilled == \E l \in DOMAIN table : table[l].destination_filled
AllFilled == \A l \in DOMAIN table : table[l].destination_filled

(* parser_check_jump_table                                                  *)
CheckJumpTable ==
    /\ pc = "parsed"
    /\ \/ AllFilled /\ pc' = "accepted" /\ UNCHANGED <<table_vars, ir_vars>>
       \/ ~AllFilled /\ pc' = "undefined_label" /\ Release
    /\ UNCHANGED <<line_vars, retval, lines>>

-----------------------------------------------------------------------------
(* parser_create has succeeded.                                             *)
Init ==
    /\ pc = "line"
    /\ instruction = INS_UNKNOWN
    /\ operand_tokens = <<>>
    /\ retval = "PARSER_SUCCESS"
    /\ table = NoEntries
    /\ table_capacity = TableInitSize
    /\ ir = <<>>
    /\ ir_capacity = ArrayInitSize
    /\ lines = 0

Next ==
    \/ ParseLine \/ NoLine \/ ReadOperand \/ NoOperand \/ CheckTypes
    \/ StoreLabel
    \/ AddElm \/ AddElmAgain \/ MoveAborts \/ AddElmFails
    \/ LineParsed \/ FileParsed \/ FileFailed \/ CheckJumpTable

Spec == Init /\ [][Next]_vars

-----------------------------------------------------------------------------
Elements == [opcode : Words, label : Labels \cup {NoLabel}]
Retvals  == {"PARSER_SUCCESS", "PARSER_MEM_ERR", "PARSER_INVALID_TOKEN",
             "PARSER_INVALID_INS_ARGS", "PARSER_PROGRAM_END"}

(* The variables hold values of their types; a line that is about to be     *)
(* stored, or whose label is, has a label for its first operand if that     *)
(* takes nothing else; the array is within its capacity, and there until it *)
(* is freed.                                                                *)
TypeOK ==
    /\ pc \in {"line", "operands", "store_label", "add_elm", "add_elm_again", "returned",
               "parsed", "failed", "aborted", "crashed", "accepted", "undefined_label"}
    /\ instruction \in Words
    /\ operand_tokens \in Seq(OperandToken)
    /\ retval \in Retvals
    /\ DOMAIN table \subseteq Labels
    /\ table \in [DOMAIN table -> [destination : Nat \cup {NoDestination}, destination_filled : BOOLEAN]]
    /\ table_capacity \in Nat
    /\ ir \in Seq(Elements)
    /\ ir_capacity \in Nat
    /\ Len(ir) <= ir_capacity
    /\ pc \notin {"failed", "undefined_label"} => ir_capacity > 0
    /\ lines \in 0 .. MaxLines
    /\ pc = "store_label" => has_label(instruction)
    /\ pc \in {"store_label", "add_elm", "add_elm_again"} /\ TakesLabel(instruction) =>
          operand_tokens # <<>> /\ operand_tokens[1] \in LabelTokens

Positions      == 1 .. Len(ir)
DeclaredAt(l)  == {n \in Positions : ir[n].opcode = INS_LABEL /\ ir[n].label = l}
JumpsTo(l)     == {n \in Positions : has_label(ir[n].opcode) /\ ir[n].opcode # INS_LABEL
                                      /\ ir[n].label = l}
Astray(opcode) == has_label(opcode) /\ ~TakesLabel(opcode)
Parsing        == pc \in {"line", "operands", "store_label", "add_elm_again", "returned", "parsed"}

(* What the label table says of a label agrees with the lines stored so     *)
(* far, except between the two steps that store a label and its             *)
(* instruction, and whatever the table went through: it is filled if and    *)
(* only if its declaration is the instruction at that position, and it is   *)
(* there if some line names it; only a word that is no instruction, read    *)
(* from a number or an address, can have entered it otherwise.  That every  *)
(* line is stored twice leaves the positions right.                         *)
TableMatchesProgram ==
    Parsing /\ (pc = "returned" => retval \in {"PARSER_SUCCESS", "PARSER_PROGRAM_END"}) =>
        \A l \in Labels :
            /\ DeclaredAt(l) = IF l \in DOMAIN table /\ table[l].destination_filled
                               THEN {table[l].destination + 1} ELSE {}
            /\ DeclaredAt(l) \cup JumpsTo(l) # {} => l \in DOMAIN table
            /\ l \in DOMAIN table => \/ DeclaredAt(l) \cup JumpsTo(l) # {}
                                     \/ \E n \in Positions : Astray(ir[n].opcode)

(* Whatever jump or call of an accepted program has its label, the table    *)
(* takes it to the one declaration of that label.                           *)
JumpsResolve ==
    pc = "accepted" =>
        \A n \in Positions :
            ir[n].label # NoLabel =>
                /\ ir[n].label \in DOMAIN table
                /\ DeclaredAt(ir[n].label) = {table[ir[n].label].destination + 1}

(* A consequence of treating every later mention of a declared label as a   *)
(* duplicate: an accepted program jumps and calls forward only, so without  *)
(* a RETURN it cannot loop.                                                 *)
JumpsForward ==
    \A l \in Labels : \A d \in DeclaredAt(l), j \in JumpsTo(l) : j < d

(* string_buffer.h: a string that sb_move_string has taken "should not be   *)
(* referenced again", so none is there to be taken by the second call.      *)
MovedStringsLeftAlone == pc = "add_elm_again" => ~MovesStrings

-----------------------------------------------------------------------------
(* parser_parse_line has returned an error.                                 *)
LineRefused == pc = "returned" /\ retval \notin {"PARSER_SUCCESS", "PARSER_PROGRAM_END"}

(* A line is complete when both its elements are stored.                    *)
Complete == IF pc = "add_elm_again" THEN SubSeq(ir, 1, Len(ir) - 1) ELSE ir
Verdict ==
    CASE pc = "accepted" -> "accepted"
      [] pc = "parsed"   -> "complete"
      [] LineRefused \/ pc \in {"failed", "aborted", "crashed", "undefined_label"} -> "rejected"
      [] OTHER           -> "reading"

Assembled == INSTANCE Assembler WITH
    verdict <- Verdict,
    program <- IF Verdict = "rejected" THEN <<>> ELSE Complete

(* Line by line the parser builds the program the assembler describes: each *)
(* line is stored twice or not at all, and a program is accepted only if    *)
(* every label it uses is declared.                                         *)
ImplementsAssembler == Assembled!Spec
=============================================================================
