--------------------------- MODULE Parser_proofs ----------------------------
(***************************************************************************)
(* For every set of labels, every initial size of the label table and of   *)
(* the array, and programs of any length: the types, the agreement of the  *)
(* label table with the program, and what follows from it for jumps.       *)
(***************************************************************************)
EXTENDS Parser, SequenceTheorems, TLAPS

-----------------------------------------------------------------------------
(* The instruction set                                                      *)

LEMMA LabelInstruction == has_label(INS_LABEL) /\ TakesLabel(INS_LABEL)
<1>1. INS_LABEL.count = 1 /\ INS_LABEL.types[1] = OP_LABEL
  BY DEF INS_LABEL, Opcode
<1> QED
  BY <1>1 DEF has_label, TakesLabel

-----------------------------------------------------------------------------
(* The inductive invariant.  While a line's label has been stored and its   *)
(* element has not, the table is one step ahead of the program; once        *)
(* parsing has failed it may stay ahead until everything is freed.          *)

Live == \/ pc \in {"line", "operands", "store_label", "add_elm", "add_elm_again", "parsed", "accepted"}
        \/ pc = "returned" /\ retval \in {"PARSER_SUCCESS", "PARSER_PROGRAM_END"}

Pending(l) == pc = "add_elm" /\ has_label(instruction) /\ FirstOwnsText /\ l = label
AstrayLine == pc = "add_elm" /\ has_label(instruction) /\ ~FirstOwnsText
AnyAstray  == \E n \in Positions : Astray(ir[n].opcode)
Filled(l)  == l \in DOMAIN table /\ table[l].destination_filled

Agrees(l) ==
    /\ DeclaredAt(l) = IF Filled(l) /\ ~(Pending(l) /\ instruction = INS_LABEL)
                       THEN {table[l].destination + 1} ELSE {}
    /\ Pending(l) \/ DeclaredAt(l) \cup JumpsTo(l) # {} => l \in DOMAIN table
    /\ l \in DOMAIN table =>
          Pending(l) \/ DeclaredAt(l) \cup JumpsTo(l) # {} \/ AstrayLine \/ AnyAstray
    /\ Pending(l) => (Filled(l) <=> instruction = INS_LABEL)
    /\ Pending(l) /\ instruction = INS_LABEL => table[l].destination = Len(ir)

TableAgrees    == Live => \A l \in Labels : Agrees(l)
LabelsRecorded == \A n \in Positions : ir[n].label # NoLabel => has_label(ir[n].opcode)
AcceptedFilled == pc = "accepted" => AllFilled
HalfStored     == pc = "add_elm_again" => Len(ir) > 0 /\ ir[Len(ir)] = element

IInv == TypeOK /\ TableAgrees /\ LabelsRecorded /\ AcceptedFilled /\ HalfStored /\ JumpsForward

-----------------------------------------------------------------------------
(* Types                                                                    *)

LineType ==
    /\ pc \in {"line", "operands", "store_label", "add_elm", "add_elm_again", "returned",
               "parsed", "failed", "aborted", "crashed", "accepted", "undefined_label"}
    /\ instruction \in Words
    /\ operand_tokens \in Seq(OperandToken)
    /\ retval \in Retvals
    /\ lines \in 0 .. MaxLines
LabelAtHand ==
    /\ pc = "store_label" => has_label(instruction)
    /\ pc \in {"store_label", "add_elm", "add_elm_again"} /\ TakesLabel(instruction) =>
          operand_tokens # <<>> /\ operand_tokens[1] \in LabelTokens
Entries == [destination : Nat \cup {NoDestination}, destination_filled : BOOLEAN]
TableType ==
    /\ DOMAIN table \subseteq Labels
    /\ table \in [DOMAIN table -> Entries]
    /\ table_capacity \in Nat
ArrayType ==
    /\ ir \in Seq(Elements)
    /\ ir_capacity \in Nat
    /\ Len(ir) <= ir_capacity
ArrayThere == pc \notin {"failed", "undefined_label"} => ir_capacity > 0

LEMMA TypeParts ==
    /\ TypeOK <=> LineType /\ LabelAtHand /\ TableType /\ ArrayType /\ ArrayThere
    /\ TypeOK' <=> LineType' /\ LabelAtHand' /\ TableType' /\ ArrayType' /\ ArrayThere'
BY DEF TypeOK, ArrayThere, LineType, LabelAtHand, TableType, ArrayType, Entries

(* What is read as a label is one of the texts.                             *)
LEMMA LabelIsLabel ==
    ASSUME LineType
    PROVE  FirstOwnsText => label \in Labels
<1> SUFFICES ASSUME FirstOwnsText PROVE label \in Labels
  OBVIOUS
<1>1. operand_tokens[1] \in OperandToken /\ operand_tokens[1].type \in {"LABEL", "STRING"}
  BY DEF LineType, FirstOwnsText
<1> QED
  BY <1>1 DEF OperandToken, LabelTokens, StringTokens, Token, label

LEMMA ReadIsLabel ==
    ASSUME LineType, NEW l \in LabelsRead
    PROVE  /\ l \in Labels /\ operand_tokens # <<>>
           /\ FirstOwnsText => l = label
BY LabelIsLabel DEF LabelsRead

(* Only a word that is no instruction reads its label from anything else.   *)
LEMMA LabelThere ==
    ASSUME LabelAtHand, pc \in {"store_label", "add_elm", "add_elm_again"}, TakesLabel(instruction)
    PROVE  FirstOwnsText
BY DEF LabelAtHand, LabelTokens, Token, FirstOwnsText

LEMMA ReturnLine ==
    ASSUME LineType, NEW r \in Retvals, Return(r), lines' = lines
    PROVE  LineType' /\ LabelAtHand'
BY ParserAssumption DEF LineType, LabelAtHand, Return

(* A token that fits an operand that takes labels only is a label.          *)
LEMMA LabelsFit ==
    ASSUME LineType, TakesLabel(instruction),
           Len(operand_tokens) = get_number_opperands(instruction),
           ArgsValid(instruction, [n \in 1 .. Len(operand_tokens) |-> operand_tokens[n].type])
    PROVE  operand_tokens # <<>> /\ operand_tokens[1] \in LabelTokens
<1>1. instruction.count \in 0 .. 3 /\ instruction.count > 0 /\ instruction.types[1] = OP_LABEL
  BY ParserAssumption DEF LineType, OpcodeWords, TakesLabel
<1>2. Len(operand_tokens) \in Nat /\ Len(operand_tokens) >= 1 /\ operand_tokens[1] \in OperandToken
  BY <1>1 DEF LineType, get_number_opperands
<1>3. Fits(instruction, 1, operand_tokens[1].type)
  <2> DEFINE types == [n \in 1 .. Len(operand_tokens) |-> operand_tokens[n].type]
  <2>1. 1 \in 1 .. Len(operand_tokens) /\ types[1] = operand_tokens[1].type
    BY <1>2
  <2>2. \A i \in 1 .. Len(operand_tokens) : Fits(instruction, i, types[i])
    BY DEF ArgsValid
  <2> QED
    BY <2>1, <2>2
<1>4. token_to_opcode(operand_tokens[1].type) \subseteq OP_LABEL
  BY <1>1, <1>3 DEF Fits, compare_operand_types, get_operand_type
<1>5. operand_tokens[1].type \notin {"VARIABLE", "INT", "STRING"}
  <2>1. /\ token_to_opcode("INT") = OP_SYMBOL /\ token_to_opcode("STRING") = OP_SYMBOL
        /\ token_to_opcode("VARIABLE") = OP_VARIABLE
    BY DEF token_to_opcode, SymbolTokens
  <2>2. 0 \in OP_SYMBOL /\ 0 \in OP_VARIABLE /\ 0 \notin OP_LABEL
    BY DEF OP_LABEL, OP_SYMBOL, OP_VARIABLE
  <2>3. ASSUME operand_tokens[1].type \in {"INT", "STRING"} PROVE FALSE
    BY <1>4, <2>1, <2>2, <2>3
  <2>4. ASSUME operand_tokens[1].type = "VARIABLE" PROVE FALSE
    BY <1>4, <2>1, <2>2, <2>4
  <2> QED
    BY <2>3, <2>4
<1> QED
  BY <1>2, <1>5 DEF OperandToken, LabelTokens, StringTokens, Token

(* Storing an entry for a label keeps the table's type.                     *)
LEMMA PutType ==
    ASSUME TableType, NEW l \in Labels, NEW e \in Entries, table' = Put(l, e)
    PROVE  /\ DOMAIN table' = DOMAIN table \cup {l}
           /\ table'[l] = e
           /\ \A k \in DOMAIN table \ {l} : table'[k] = table[k]
           /\ table' \in [DOMAIN table' -> Entries]
           /\ DOMAIN table' \subseteq Labels
BY DEF TableType, Put

LEMMA LabelEntryType ==
    ASSUME ArrayType, NEW e \in Entries
    PROVE  /\ LabelEntry(e) \in Entries
           /\ LabelEntry(e).destination_filled <=> instruction = INS_LABEL
           /\ instruction = INS_LABEL => LabelEntry(e).destination = Len(ir)
<1>1. CASE instruction = INS_LABEL
  <2>1. Len(ir) \in Nat
    BY DEF ArrayType
  <2>2. LabelEntry(e) = [destination |-> Len(ir), destination_filled |-> TRUE]
    BY <1>1 DEF LabelEntry, Entry, NextPosition
  <2> QED
    BY <1>1, <2>1, <2>2 DEF Entries
<1>2. CASE instruction # INS_LABEL
  <2>1. LabelEntry(e) = [e EXCEPT !.destination_filled = FALSE]
    BY <1>2 DEF LabelEntry
  <2> QED
    BY <1>2, <2>1 DEF Entries
<1> QED
  BY <1>1, <1>2

LEMMA ReleaseType == Release => TableType' /\ ArrayType'
BY DEF Release, NoEntries, TableType, ArrayType, Entries

LEMMA ElementTypes ==
    ASSUME TypeOK, NEW n \in Positions
    PROVE  ir[n].label \in Labels \cup {NoLabel}
<1>1. ir[n] \in Elements
  BY TypeParts DEF ArrayType, Positions
<1> QED
  BY <1>1 DEF Elements

(* A sequence without its last element.                                     *)
LEMMA WithoutLast ==
    ASSUME NEW S, NEW s \in Seq(S), Len(s) > 0
    PROVE  /\ SubSeq(s, 1, Len(s) - 1) \in Seq(S)
           /\ Len(SubSeq(s, 1, Len(s) - 1)) = Len(s) - 1
           /\ \A i \in 1 .. Len(s) - 1 : SubSeq(s, 1, Len(s) - 1)[i] = s[i]
<1> DEFINE m == Len(s) - 1
<1>1. m \in Nat /\ m <= Len(s) /\ Len(s) \in Nat
  OBVIOUS
<1>2. \A i \in 1 .. m : s[i] \in S
  BY <1>1
<1> HIDE DEF m
<1>3. 1 \in Int /\ m \in Int
  BY <1>1
<1>4. /\ SubSeq(s, 1, m) \in Seq(S)
      /\ Len(SubSeq(s, 1, m)) = IF 1 <= m THEN m - 1 + 1 ELSE 0
      /\ \A i \in 1 .. m - 1 + 1 : SubSeq(s, 1, m)[i] = s[1 + i - 1]
  BY <1>2, <1>3, SubSeqProperties
<1>5. Len(SubSeq(s, 1, m)) = m /\ \A i \in 1 .. m : SubSeq(s, 1, m)[i] = s[i]
  BY <1>1, <1>4
<1> QED
  BY <1>4, <1>5 DEF m

LEMMA InitType == Init => TypeOK
<1> SUFFICES ASSUME Init PROVE LineType /\ LabelAtHand /\ TableType /\ ArrayType /\ ArrayThere
  BY TypeParts
<1>1. LineType /\ LabelAtHand
  BY ParserAssumption DEF Init, LineType, LabelAtHand, Retvals
<1>2. TableType
  BY ParserAssumption DEF Init, NoEntries, TableType, Entries
<1>3. ArrayType /\ ArrayThere
  BY ParserAssumption DEF Init, ArrayType, ArrayThere
<1> QED
  BY <1>1, <1>2, <1>3

(* The array has room for one more element once it has grown.               *)
LEMMA Room ==
    ASSUME ArrayType, ir_capacity > 0, ArrayGrows
    PROVE  ir_capacity' \in Nat /\ Len(ir) + 1 <= ir_capacity'
<1>1. CASE ArrayFull
  <2>1. ir_capacity' = 2 * ir_capacity /\ Len(ir) = ir_capacity
    BY <1>1 DEF ArrayGrows, ArrayFull
  <2> QED
    BY <2>1 DEF ArrayType
<1>2. CASE ~ArrayFull
  <2>1. ir_capacity' = ir_capacity /\ Len(ir) # ir_capacity
    BY <1>2 DEF ArrayGrows, ArrayFull
  <2> QED
    BY <2>1 DEF ArrayType
<1> QED
  BY <1>1, <1>2

LEMMA ElementStored ==
    ASSUME ArrayType, ir_capacity > 0, ArrayGrows, NEW e \in Elements, ir' = Append(ir, e)
    PROVE  ArrayType'
<1>1. ir' \in Seq(Elements) /\ Len(ir') = Len(ir) + 1
  BY DEF ArrayType
<1> QED
  BY <1>1, Room DEF ArrayType

LEMMA ArrayStays ==
    ASSUME ArrayType, ArrayThere, [Next]_vars
    PROVE  ArrayThere'
<1>1. CASE ir_capacity' = ir_capacity /\ pc \notin {"failed", "undefined_label"}
  BY <1>1 DEF ArrayThere
<1>2. CASE AddElm \/ AddElmAgain \/ MoveAborts
  <2>1. ir_capacity \in Nat /\ ir_capacity > 0 /\ ArrayGrows
    BY <1>2 DEF AddElm, AddElmAgain, MoveAborts, ArrayThere, ArrayType
  <2> QED
    BY <2>1 DEF ArrayGrows, ArrayThere
<1>3. CASE FileFailed
  BY <1>3 DEF FileFailed, ArrayThere
<1>4. CASE CheckJumpTable
  BY <1>4 DEF CheckJumpTable, ArrayThere, ir_vars
<1>5. CASE UNCHANGED vars
  BY <1>5 DEF vars, ArrayThere
<1> QED
  BY <1>1, <1>2, <1>3, <1>4, <1>5 DEF Next, ParseLine, NoLine, ReadOperand, NoOperand,
     CheckTypes, StoreLabel, StoreNewLabel, StoreKnownLabel, DuplicateLabel, LabelNotStored,
     GrowthAborts, NoLabelThere, AddElmFails, LineParsed, FileParsed, ir_vars

LEMMA StepType == TypeOK /\ [Next]_vars => TypeOK'
<1> SUFFICES ASSUME LineType, LabelAtHand, TableType, ArrayType, ArrayThere, [Next]_vars
             PROVE  LineType' /\ LabelAtHand' /\ TableType' /\ ArrayType'
  BY TypeParts, ArrayStays
<1>1. ASSUME UNCHANGED table_vars PROVE TableType'
  BY <1>1 DEF TableType, table_vars
<1>2. ASSUME UNCHANGED ir_vars PROVE ArrayType'
  BY <1>2 DEF ArrayType, ir_vars
<1>3. CASE ParseLine
  <2>1. LineType' /\ LabelAtHand'
    BY <1>3, ParserAssumption DEF ParseLine, LineType, LabelAtHand
  <2> QED
    BY <1>1, <1>2, <1>3, <2>1 DEF ParseLine
<1>4. CASE NoLine
  <2>1. \E r \in Retvals : Return(r)
    BY <1>4 DEF NoLine, Retvals
  <2> QED
    BY <1>1, <1>2, <1>4, <2>1, ReturnLine DEF NoLine
<1>5. CASE ReadOperand
  <2>1. LineType' /\ LabelAtHand'
    BY <1>5 DEF ReadOperand, LineType, LabelAtHand
  <2> QED
    BY <1>1, <1>2, <1>5, <2>1 DEF ReadOperand
<1>6. CASE NoOperand
  <2>1. \E r \in Retvals : Return(r)
    BY <1>6 DEF NoOperand, Retvals
  <2> QED
    BY <1>1, <1>2, <1>6, <2>1, ReturnLine DEF NoOperand
<1>7. CASE CheckTypes
  <2> DEFINE types == [n \in 1 .. Len(operand_tokens) |-> operand_tokens[n].type]
  <2>1. CASE ~ArgsValid(instruction, types)
    <3>1. Return("PARSER_INVALID_INS_ARGS") /\ lines' = lines
      BY <1>7, <2>1 DEF CheckTypes
    <3> QED
      BY <1>1, <1>2, <1>7, <3>1, ReturnLine DEF CheckTypes, Retvals
  <2>2. CASE ArgsValid(instruction, types)
    <3>1. /\ pc' = IF has_label(instruction) THEN "store_label" ELSE "add_elm"
          /\ UNCHANGED <<line_vars, retval, lines>>
      BY <1>7, <2>2 DEF CheckTypes
    <3>2. TakesLabel(instruction) => operand_tokens # <<>> /\ operand_tokens[1] \in LabelTokens
      BY <1>7, <2>2, LabelsFit DEF CheckTypes
    <3>3. LineType' /\ LabelAtHand'
      BY <3>1, <3>2 DEF LineType, LabelAtHand, line_vars
    <3> QED
      BY <1>1, <1>2, <1>7, <3>3 DEF CheckTypes
  <2> QED
    BY <2>1, <2>2
<1>8. ASSUME pc = "store_label", pc' = "add_elm", UNCHANGED <<line_vars, retval, ir_vars, lines>>,
             NEW l \in Labels, NEW e \in Entries, table' = Put(l, LabelEntry(e)),
             table_capacity' \in Nat
      PROVE  LineType' /\ LabelAtHand' /\ TableType' /\ ArrayType'
  <2>1. LineType' /\ LabelAtHand'
    BY <1>8 DEF LineType, LabelAtHand, line_vars
  <2>3. TableType'
    BY <1>8, PutType, LabelEntryType DEF TableType
  <2> QED
    BY <1>2, <1>8, <2>1, <2>3
<1>9. GrownCapacity \in Nat
  BY DEF GrownCapacity, TableType
<1>23. \A l \in LabelsRead : l \in Labels
  BY ReadIsLabel
<1>10. ASSUME NEW l \in LabelsRead, StoreLabel, StoreNewLabel(l)
       PROVE  LineType' /\ LabelAtHand' /\ TableType' /\ ArrayType'
  <2>1. Entry(NoDestination, FALSE) \in Entries
    BY DEF Entry, Entries
  <2> QED
    BY <1>8, <1>9, <1>10, <1>23, <2>1 DEF StoreNewLabel, StoreLabel
<1>11. ASSUME NEW l \in LabelsRead, StoreLabel, StoreKnownLabel(l)
       PROVE  LineType' /\ LabelAtHand' /\ TableType' /\ ArrayType'
  <2>1. table[l] \in Entries
    BY <1>11 DEF StoreKnownLabel, TableType
  <2>2. table_capacity' \in Nat
    BY <1>9, <1>11 DEF StoreKnownLabel
  <2> QED
    BY <1>8, <1>11, <1>23, <2>1, <2>2 DEF StoreKnownLabel, StoreLabel
<1>12. ASSUME NEW l \in LabelsRead, DuplicateLabel(l)
       PROVE  LineType' /\ LabelAtHand' /\ TableType' /\ ArrayType'
  <2>1. TableType'
    BY <1>9, <1>12 DEF DuplicateLabel, TableType
  <2> QED
    BY <1>2, <1>12, <2>1, ReturnLine DEF DuplicateLabel, Retvals
<1>13. ASSUME NEW l \in LabelsRead, LabelNotStored(l)
       PROVE  LineType' /\ LabelAtHand' /\ TableType' /\ ArrayType'
  <2>1. table' = table /\ table_capacity' \in {table_capacity, GrownCapacity}
    BY <1>13 DEF LabelNotStored
  <2>2. TableType'
    BY <1>9, <2>1 DEF TableType
  <2> QED
    BY <1>2, <1>13, <2>2, ReturnLine DEF LabelNotStored, Retvals
<1>24. ASSUME GrowthAborts \/ NoLabelThere
       PROVE  LineType' /\ LabelAtHand' /\ TableType' /\ ArrayType'
  <2>1. /\ pc' \in {"aborted", "crashed"} /\ UNCHANGED <<line_vars, retval, table, ir_vars, lines>>
        /\ table_capacity' \in {table_capacity, GrownCapacity}
    BY <1>24 DEF GrowthAborts, NoLabelThere, table_vars
  <2>2. LineType' /\ LabelAtHand' /\ TableType'
    BY <1>9, <2>1 DEF LineType, LabelAtHand, TableType, line_vars
  <2> QED
    BY <1>2, <2>1, <2>2
<1>25. CASE StoreLabel
  BY <1>10, <1>11, <1>12, <1>13, <1>24, <1>25 DEF StoreLabel
<1>14. CASE AddElm
  <2>1. element \in Elements
    BY LabelIsLabel DEF element, Elements, LineType
  <2>2. ir' = Append(ir, element) /\ ArrayGrows /\ ir_capacity > 0
    BY <1>14 DEF AddElm, ArrayThere
  <2>3. ArrayType'
    BY <2>1, <2>2, ElementStored
  <2>4. LineType' /\ LabelAtHand'
    BY <1>14 DEF AddElm, LineType, LabelAtHand, line_vars
  <2> QED
    BY <1>1, <1>14, <2>3, <2>4 DEF AddElm
<1>15. CASE AddElmAgain
  <2> DEFINE e == [opcode |-> instruction, label |-> NoLabel]
  <2>1. e \in Elements
    BY DEF Elements, LineType
  <2>2. ir' = Append(ir, e) /\ ArrayGrows /\ ir_capacity > 0
    BY <1>15 DEF AddElmAgain, ArrayThere
  <2>3. ArrayType'
    BY <2>1, <2>2, ElementStored
  <2> QED
    BY <1>1, <1>15, <2>3, ReturnLine DEF AddElmAgain, Retvals
<1>22. CASE MoveAborts
  <2>1. LineType' /\ LabelAtHand'
    BY <1>22 DEF MoveAborts, LineType, LabelAtHand, line_vars
  <2>2. ArrayGrows /\ ir_capacity > 0 /\ ir' = ir
    BY <1>22 DEF MoveAborts, ArrayThere
  <2>3. ir_capacity' \in Nat /\ Len(ir) + 1 <= ir_capacity'
    BY <2>2, Room
  <2>4. ArrayType'
    BY <2>2, <2>3 DEF ArrayType
  <2> QED
    BY <1>1, <1>22, <2>1, <2>4 DEF MoveAborts
<1>16. CASE AddElmFails
  BY <1>1, <1>2, <1>16, ReturnLine DEF AddElmFails, Retvals
<1>17. CASE LineParsed
  <2>1. LineType' /\ LabelAtHand'
    BY <1>17 DEF LineParsed, LineType, LabelAtHand, line_vars
  <2> QED
    BY <1>1, <1>2, <1>17, <2>1 DEF LineParsed
<1>18. CASE FileParsed
  <2>1. LineType' /\ LabelAtHand'
    BY <1>18 DEF FileParsed, LineType, LabelAtHand, line_vars
  <2> QED
    BY <1>1, <1>2, <1>18, <2>1 DEF FileParsed
<1>19. CASE FileFailed
  <2>1. LineType' /\ LabelAtHand'
    BY <1>19 DEF FileFailed, LineType, LabelAtHand, line_vars
  <2> QED
    BY <1>19, <2>1, ReleaseType DEF FileFailed
<1>20. CASE CheckJumpTable
  <2>1. LineType' /\ LabelAtHand'
    BY <1>20 DEF CheckJumpTable, LineType, LabelAtHand, line_vars
  <2> QED
    BY <1>1, <1>2, <1>20, <2>1, ReleaseType DEF CheckJumpTable
<1>21. CASE UNCHANGED vars
  <2>1. LineType' /\ LabelAtHand'
    BY <1>21 DEF vars, LineType, LabelAtHand
  <2> QED
    BY <1>1, <1>2, <1>21, <2>1 DEF vars, table_vars, ir_vars
<1> QED
  BY <1>3, <1>4, <1>5, <1>6, <1>7, <1>14, <1>15, <1>16,
     <1>17, <1>18, <1>19, <1>20, <1>21, <1>22, <1>25 DEF Next

-----------------------------------------------------------------------------
(* The table and the program                                                *)

(* Between lines, and within a line up to its label, nothing changes.       *)
LEMMA AgreesStays ==
    ASSUME Live, TableAgrees, UNCHANGED <<table, ir>>,
           ~(pc = "add_elm" /\ has_label(instruction)),
           ~(pc' = "add_elm" /\ has_label(instruction'))
    PROVE  TableAgrees'
BY DEF TableAgrees, Agrees, Pending, AstrayLine, AnyAstray, Filled, DeclaredAt, JumpsTo, Positions

(* The program grows by the element of the line.                            *)
LEMMA Grows ==
    ASSUME TypeOK, AddElm, NEW l \in Labels
    PROVE  /\ DeclaredAt(l)' = DeclaredAt(l) \cup
                  (IF Pending(l) /\ instruction = INS_LABEL THEN {Len(ir) + 1} ELSE {})
           /\ JumpsTo(l)' = JumpsTo(l) \cup
                  (IF Pending(l) /\ instruction # INS_LABEL THEN {Len(ir) + 1} ELSE {})
           /\ AnyAstray' <=> AnyAstray \/ Astray(instruction)
<1>1. ir' = Append(ir, element) /\ pc = "add_elm"
  BY DEF AddElm
<1>2. /\ Len(ir) \in Nat
      /\ Positions' = Positions \cup {Len(ir) + 1}
      /\ ir'[Len(ir) + 1] = element
      /\ \A n \in Positions : ir'[n] = ir[n]
  BY <1>1, TypeParts DEF ArrayType, Positions
<1>3. element.opcode = instruction /\ (element.label = l <=> has_label(instruction) /\ FirstOwnsText /\ l = label)
  BY ParserAssumption DEF element
<1>6. AnyAstray' <=> AnyAstray \/ Astray(instruction)
  BY <1>2, <1>3 DEF AnyAstray
<1>4. (instruction = INS_LABEL /\ element.label = l) <=> (Pending(l) /\ instruction = INS_LABEL)
  BY <1>1, <1>3 DEF Pending
<1>5. (has_label(instruction) /\ instruction # INS_LABEL /\ element.label = l)
      <=> (Pending(l) /\ instruction # INS_LABEL)
  BY <1>1, <1>3 DEF Pending
<1> QED
  BY <1>2, <1>3, <1>4, <1>5, <1>6 DEF DeclaredAt, JumpsTo

(* The copy has no label.                                                   *)
LEMMA CopyAdded ==
    ASSUME TypeOK, AddElmAgain
    PROVE  /\ \A l \in Labels : DeclaredAt(l)' = DeclaredAt(l) /\ JumpsTo(l)' = JumpsTo(l)
           /\ LabelsRecorded => LabelsRecorded'
           /\ AnyAstray => AnyAstray'
<1> DEFINE e == [opcode |-> instruction, label |-> NoLabel]
<1>1. ir' = Append(ir, e)
  BY DEF AddElmAgain
<1>2. /\ Len(ir) \in Nat
      /\ Positions' = Positions \cup {Len(ir) + 1}
      /\ ir'[Len(ir) + 1] = e
      /\ \A n \in Positions : ir'[n] = ir[n]
  BY <1>1, TypeParts DEF ArrayType, Positions
<1>3. e.label = NoLabel /\ NoLabel \notin Labels
  BY ParserAssumption
<1> HIDE DEF e
<1> QED
  BY <1>2, <1>3 DEF DeclaredAt, JumpsTo, LabelsRecorded, AnyAstray

LEMMA CopyAgrees ==
    ASSUME TypeOK, TableAgrees, AddElmAgain
    PROVE  TableAgrees'
<1>1. pc = "add_elm_again" /\ pc' = "returned" /\ UNCHANGED table
  BY DEF AddElmAgain, Return, table_vars
<1>2. ASSUME NEW l \in Labels PROVE Agrees(l)'
  <2>1. Agrees(l)
    BY <1>1 DEF TableAgrees, Live
  <2>2. ~Pending(l) /\ ~AstrayLine /\ ~Pending(l)' /\ (Filled(l)' <=> Filled(l))
    BY <1>1 DEF Pending, AstrayLine, Filled
  <2> QED
    BY <1>1, <2>1, <2>2, CopyAdded DEF Agrees
<1> QED
  BY <1>2 DEF TableAgrees

(* Storing a label that is not declared yet.                                *)
LEMMA Stores ==
    ASSUME TypeOK, TableAgrees, pc = "store_label", pc' = "add_elm",
           UNCHANGED <<instruction, operand_tokens, ir>>,
           NEW l \in LabelsRead, ~Filled(l), NEW e \in Entries, table' = Put(l, LabelEntry(e))
    PROVE  TableAgrees'
<1>1. /\ has_label(instruction) /\ l \in Labels /\ label' = label
      /\ FirstOwnsText' <=> FirstOwnsText
      /\ FirstOwnsText => l = label
      /\ instruction = INS_LABEL => FirstOwnsText
  BY TypeParts, ReadIsLabel, LabelInstruction, LabelThere DEF LabelAtHand, label, FirstOwnsText
<1>2. \A k \in Labels : Agrees(k)
  BY DEF TableAgrees, Live
<1>3. /\ \A k \in Labels : DeclaredAt(k)' = DeclaredAt(k) /\ JumpsTo(k)' = JumpsTo(k)
      /\ AnyAstray' <=> AnyAstray
  BY DEF DeclaredAt, JumpsTo, AnyAstray, Positions
<1>4. DOMAIN table' = DOMAIN table \cup {l} /\ table'[l] = LabelEntry(e)
      /\ \A k \in DOMAIN table \ {l} : table'[k] = table[k]
  BY <1>1, TypeParts, PutType, LabelEntryType
<1>5. /\ LabelEntry(e).destination_filled <=> instruction = INS_LABEL
      /\ instruction = INS_LABEL => LabelEntry(e).destination = Len(ir)
  BY TypeParts, LabelEntryType
<1>6. /\ \A k \in Labels : /\ ~Pending(k)
                           /\ Pending(k)' <=> FirstOwnsText /\ k = l
                           /\ Filled(k)' <=> IF k = l THEN instruction = INS_LABEL ELSE Filled(k)
      /\ ~AstrayLine /\ (AstrayLine' <=> ~FirstOwnsText)
  BY <1>1, <1>4, <1>5 DEF Pending, AstrayLine, Filled
<1>7. ASSUME NEW k \in Labels PROVE Agrees(k)'
  <2>1. CASE k = l
    <3>1. DeclaredAt(k) = {}
      BY <1>2, <1>6, <2>1 DEF Agrees
    <3>2. k \in DOMAIN table'
      BY <1>4, <2>1
    <3> QED
      BY <1>1, <1>3, <1>4, <1>5, <1>6, <2>1, <3>1, <3>2 DEF Agrees
  <2>2. CASE k # l
    BY <1>2, <1>3, <1>4, <1>6, <2>2 DEF Agrees, Filled
  <2> QED
    BY <2>1, <2>2
<1> QED
  BY <1>7 DEF TableAgrees

LEMMA ElementAgrees ==
    ASSUME TypeOK, TableAgrees, AddElm
    PROVE  TableAgrees'
<1>1. pc = "add_elm" /\ pc' = "add_elm_again" /\ UNCHANGED table
  BY DEF AddElm, table_vars
<1>3. AstrayLine => Astray(instruction)
  BY TypeParts, LabelThere DEF AstrayLine, Astray
<1>2. ASSUME NEW l \in Labels PROVE Agrees(l)'
  <2>1. Agrees(l)
    BY <1>1 DEF TableAgrees, Live
  <2>2. ~Pending(l)' /\ (Filled(l)' <=> Filled(l)) /\ (AnyAstray' <=> AnyAstray \/ Astray(instruction))
    BY <1>1, Grows DEF Pending, Filled
  <2>3. CASE Pending(l) /\ instruction = INS_LABEL
    BY <1>1, <1>3, <2>1, <2>2, <2>3, Grows DEF Agrees
  <2>4. CASE Pending(l) /\ instruction # INS_LABEL
    BY <1>1, <1>3, <2>1, <2>2, <2>4, Grows DEF Agrees
  <2>5. CASE ~Pending(l)
    BY <1>1, <1>3, <2>1, <2>2, <2>5, Grows DEF Agrees
  <2> QED
    BY <2>3, <2>4, <2>5
<1> QED
  BY <1>2 DEF TableAgrees

LEMMA StepAgrees == TypeOK /\ TableAgrees /\ [Next]_vars => TableAgrees'
<1> SUFFICES ASSUME TypeOK, TableAgrees, [Next]_vars PROVE TableAgrees'
  OBVIOUS
<1>1. CASE ParseLine \/ ReadOperand \/ NoLine \/ LineParsed \/ FileParsed
  <2>1. Live
    BY <1>1 DEF ParseLine, ReadOperand, NoLine, LineParsed, FileParsed, Live
  <2>2. pc # "add_elm" /\ pc' # "add_elm" /\ UNCHANGED <<table, ir>>
    BY <1>1 DEF ParseLine, ReadOperand, NoLine, LineParsed, FileParsed, Return, table_vars, ir_vars
  <2> QED
    BY <2>1, <2>2, AgreesStays
<1>2. CASE CheckTypes
  <2>1. Live /\ pc # "add_elm" /\ UNCHANGED <<table, ir>>
    BY <1>2 DEF CheckTypes, Live, table_vars, ir_vars
  <2>2. ~(pc' = "add_elm" /\ has_label(instruction'))
    BY <1>2 DEF CheckTypes, Return, line_vars
  <2> QED
    BY <2>1, <2>2, AgreesStays
<1>3. ASSUME NEW l \in LabelsRead, StoreLabel, StoreNewLabel(l) PROVE TableAgrees'
  <2>1. Entry(NoDestination, FALSE) \in Entries /\ ~Filled(l)
    BY <1>3 DEF StoreNewLabel, Entry, Entries, Filled
  <2> QED
    BY <1>3, <2>1, Stores DEF StoreLabel, StoreNewLabel, line_vars, ir_vars
<1>4. ASSUME NEW l \in LabelsRead, StoreLabel, StoreKnownLabel(l) PROVE TableAgrees'
  <2>1. table[l] \in Entries /\ ~Filled(l)
    BY <1>4, TypeParts DEF StoreKnownLabel, Repeated, Filled, TableType
  <2> QED
    BY <1>4, <2>1, Stores DEF StoreLabel, StoreKnownLabel, line_vars, ir_vars
<1>10. ASSUME \/ NoLabelThere \/ GrowthAborts
              \/ \E l \in LabelsRead : DuplicateLabel(l) \/ LabelNotStored(l)
       PROVE  TableAgrees'
  <2>1. ~Live'
    BY <1>10 DEF NoLabelThere, GrowthAborts, DuplicateLabel, LabelNotStored, Return, Live
  <2> QED
    BY <2>1 DEF TableAgrees
<1>11. CASE StoreLabel
  BY <1>3, <1>4, <1>10, <1>11 DEF StoreLabel
<1>5. CASE AddElm
  BY <1>5, ElementAgrees
<1>6. CASE NoOperand \/ MoveAborts \/ AddElmFails \/ FileFailed
  <2>1. ~Live'
    BY <1>6 DEF NoOperand, MoveAborts, AddElmFails, FileFailed,
       Return, Live
  <2> QED
    BY <2>1 DEF TableAgrees
<1>7. CASE CheckJumpTable
  <2>1. CASE AllFilled
    <3>1. Live /\ pc # "add_elm" /\ pc' # "add_elm" /\ UNCHANGED <<table, ir>>
      BY <1>7, <2>1 DEF CheckJumpTable, Live, table_vars, ir_vars
    <3> QED
      BY <3>1, AgreesStays
  <2>2. CASE ~AllFilled
    <3>1. ~Live'
      BY <1>7, <2>2 DEF CheckJumpTable, Live
    <3> QED
      BY <3>1 DEF TableAgrees
  <2> QED
    BY <2>1, <2>2
<1>8. CASE UNCHANGED vars
  BY <1>8 DEF vars, TableAgrees, Live, Agrees, Pending, AstrayLine, AnyAstray, FirstOwnsText, Filled, DeclaredAt,
     JumpsTo, Positions, label
<1>9. CASE AddElmAgain
  BY <1>9, CopyAgrees
<1> QED
  BY <1>1, <1>2, <1>5, <1>6, <1>7, <1>8, <1>9, <1>11 DEF Next

(* Only the two calls that store lengthen the array.                        *)
LEMMA ProgramSteps ==
    ASSUME [Next]_vars
    PROVE  AddElm \/ AddElmAgain \/ ir' = ir \/ ir' = <<>>
BY DEF Next, vars, ir_vars, Release, ParseLine, NoLine, ReadOperand, NoOperand, CheckTypes,
   StoreLabel, StoreNewLabel, StoreKnownLabel, DuplicateLabel, LabelNotStored, GrowthAborts, NoLabelThere, MoveAborts, AddElmFails,
   LineParsed, FileParsed, FileFailed, CheckJumpTable

LEMMA StepRecorded == TypeOK /\ LabelsRecorded /\ [Next]_vars => LabelsRecorded'
<1> SUFFICES ASSUME TypeOK, LabelsRecorded, [Next]_vars PROVE LabelsRecorded'
  OBVIOUS
<1>1. CASE AddElm
  <2>1. ir' = Append(ir, element) /\ ir \in Seq(Elements)
    BY <1>1, TypeParts DEF AddElm, ArrayType
  <2>2. element.label # NoLabel => has_label(element.opcode)
    BY DEF element
  <2> QED
    BY <2>1, <2>2 DEF LabelsRecorded, Positions
<1>2. CASE AddElmAgain
  BY <1>2, CopyAdded
<1>3. CASE ir' = ir \/ ir' = <<>>
  BY <1>3 DEF LabelsRecorded, Positions
<1> QED
  BY <1>1, <1>2, <1>3, ProgramSteps

LEMMA StepFilled == AcceptedFilled /\ [Next]_vars => AcceptedFilled'
<1> SUFFICES ASSUME AcceptedFilled, [Next]_vars PROVE AcceptedFilled'
  OBVIOUS
<1>1. CASE CheckJumpTable
  BY <1>1 DEF CheckJumpTable, AcceptedFilled, AllFilled, table_vars
<1>2. CASE UNCHANGED vars
  BY <1>2 DEF vars, AcceptedFilled, AllFilled
<1>3. CASE Next /\ ~CheckJumpTable
  <2>1. pc' # "accepted"
    BY <1>3 DEF Next, Return, ParseLine, NoLine, ReadOperand, NoOperand, CheckTypes,
       StoreLabel, StoreNewLabel, StoreKnownLabel, DuplicateLabel, LabelNotStored, GrowthAborts, NoLabelThere, AddElm, AddElmAgain, MoveAborts, AddElmFails,
       LineParsed, FileParsed, FileFailed
  <2> QED
    BY <2>1 DEF AcceptedFilled
<1> QED
  BY <1>1, <1>2, <1>3

LEMMA StepHalf == TypeOK /\ HalfStored /\ [Next]_vars => HalfStored'
<1> SUFFICES ASSUME TypeOK, HalfStored, [Next]_vars PROVE HalfStored'
  OBVIOUS
<1>1. CASE AddElm
  <2>1. ir' = Append(ir, element) /\ element' = element
    BY <1>1 DEF AddElm, line_vars, element, label, FirstOwnsText
  <2>2. ir \in Seq(Elements)
    BY TypeParts DEF ArrayType
  <2> QED
    BY <2>1, <2>2 DEF HalfStored
<1>2. CASE UNCHANGED vars
  BY <1>2 DEF vars, HalfStored, element, label, FirstOwnsText
<1>3. CASE Next /\ ~AddElm
  <2>1. pc' # "add_elm_again"
    BY <1>3 DEF Next, Return, ParseLine, NoLine, ReadOperand, NoOperand, CheckTypes,
       StoreLabel, StoreNewLabel, StoreKnownLabel, DuplicateLabel, LabelNotStored, GrowthAborts, NoLabelThere, AddElmAgain, MoveAborts, AddElmFails,
       LineParsed, FileParsed, FileFailed, CheckJumpTable
  <2> QED
    BY <2>1 DEF HalfStored
<1> QED
  BY <1>1, <1>2, <1>3

LEMMA StepForward == TypeOK /\ TableAgrees /\ JumpsForward /\ [Next]_vars => JumpsForward'
<1> SUFFICES ASSUME TypeOK, TableAgrees, JumpsForward, [Next]_vars PROVE JumpsForward'
  OBVIOUS
<1>1. CASE AddElm
  <2>1. ASSUME NEW l \in Labels, NEW d \in DeclaredAt(l)', NEW j \in JumpsTo(l)' PROVE j < d
    <3>1. Agrees(l)
      BY <1>1 DEF AddElm, TableAgrees, Live
    <3>2. Len(ir) \in Nat /\ DeclaredAt(l) \subseteq 1 .. Len(ir) /\ JumpsTo(l) \subseteq 1 .. Len(ir)
      BY TypeParts DEF ArrayType, DeclaredAt, JumpsTo, Positions
    <3>3. CASE Pending(l) /\ instruction = INS_LABEL
      <4>1. DeclaredAt(l)' = {Len(ir) + 1} /\ JumpsTo(l)' = JumpsTo(l)
        BY <1>1, <3>1, <3>3, Grows DEF Agrees
      <4> QED
        BY <2>1, <3>2, <4>1
    <3>4. CASE Pending(l) /\ instruction # INS_LABEL
      <4>1. DeclaredAt(l)' = {}
        BY <1>1, <3>1, <3>4, Grows DEF Agrees
      <4> QED
        BY <2>1, <4>1
    <3>5. CASE ~Pending(l)
      <4>1. DeclaredAt(l)' = DeclaredAt(l) /\ JumpsTo(l)' = JumpsTo(l)
        BY <1>1, <3>5, Grows
      <4> QED
        BY <2>1, <4>1 DEF JumpsForward
    <3> QED
      BY <3>3, <3>4, <3>5
  <2> QED
    BY <2>1 DEF JumpsForward
<1>2. CASE ir' = ir
  BY <1>2 DEF JumpsForward, DeclaredAt, JumpsTo, Positions
<1>3. CASE ir' = <<>>
  BY <1>3 DEF JumpsForward, DeclaredAt, JumpsTo, Positions
<1>4. CASE AddElmAgain
  BY <1>4, CopyAdded DEF JumpsForward
<1> QED
  BY <1>1, <1>2, <1>3, <1>4, ProgramSteps

-----------------------------------------------------------------------------
LEMMA InitIInv == Init => IInv
<1> SUFFICES ASSUME Init PROVE IInv
  OBVIOUS
<1>1. ir = <<>> /\ pc = "line" /\ DOMAIN table = {}
  BY DEF Init, NoEntries
<1>2. Positions = {} /\ \A l \in Labels : DeclaredAt(l) = {} /\ JumpsTo(l) = {}
  BY <1>1 DEF Positions, DeclaredAt, JumpsTo
<1>3. TableAgrees
  BY <1>1, <1>2 DEF TableAgrees, Agrees, Pending, AstrayLine, Filled
<1> QED
  BY <1>1, <1>2, <1>3, InitType DEF IInv, LabelsRecorded, AcceptedFilled, HalfStored, JumpsForward

(* The strengthened invariant holds in every state.                         *)
THEOREM Invariant == Spec => []IInv
<1>1. IInv /\ [Next]_vars => IInv'
  BY StepType, StepAgrees, StepRecorded, StepFilled, StepHalf, StepForward DEF IInv
<1> QED
  BY InitIInv, <1>1, PTL DEF Spec

(* The variables keep their types, with any number of lines and labels.     *)
THEOREM TypeCorrect == Spec => []TypeOK
<1>1. IInv => TypeOK
  BY DEF IInv
<1> QED
  BY Invariant, <1>1, PTL

(* Between lines the label table says what the program says, whatever words *)
(* its lines begin with.                                                    *)
THEOREM TableCorrect == Spec => []TableMatchesProgram
<1>1. IInv => TableMatchesProgram
  <2> SUFFICES ASSUME IInv, Live, pc # "add_elm", NEW l \in Labels
               PROVE  /\ DeclaredAt(l) = IF Filled(l) THEN {table[l].destination + 1} ELSE {}
                      /\ DeclaredAt(l) \cup JumpsTo(l) # {} => l \in DOMAIN table
                      /\ l \in DOMAIN table => DeclaredAt(l) \cup JumpsTo(l) # {} \/ AnyAstray
    BY DEF TableMatchesProgram, Parsing, Live, Filled, AnyAstray
  <2>1. Agrees(l) /\ ~Pending(l) /\ ~AstrayLine
    BY DEF IInv, TableAgrees, Pending, AstrayLine
  <2> QED
    BY <2>1 DEF Agrees
<1> QED
  BY Invariant, <1>1, PTL

(* In an accepted program every jump and call finds the one declaration of  *)
(* its label, whatever the growth of the tables and however many lines.     *)
THEOREM JumpsCorrect == Spec => []JumpsResolve
<1>1. IInv => JumpsResolve
  <2> SUFFICES ASSUME IInv, pc = "accepted", NEW n \in Positions, ir[n].label # NoLabel
               PROVE  /\ ir[n].label \in DOMAIN table
                      /\ DeclaredAt(ir[n].label) = {table[ir[n].label].destination + 1}
    BY DEF JumpsResolve
  <2> DEFINE l == ir[n].label
  <2>1. l \in Labels
    BY ElementTypes DEF IInv
  <2>5. Agrees(l) /\ ~Pending(l)
    BY <2>1 DEF IInv, TableAgrees, Live, Pending
  <2>2. n \in DeclaredAt(l) \cup JumpsTo(l)
    BY DEF IInv, LabelsRecorded, DeclaredAt, JumpsTo
  <2>3. l \in DOMAIN table
    BY <2>2, <2>5 DEF Agrees
  <2>4. Filled(l)
    BY <2>3 DEF IInv, AcceptedFilled, AllFilled, Filled
  <2> QED
    BY <2>3, <2>4, <2>5 DEF Agrees
<1> QED
  BY Invariant, <1>1, PTL

(* An accepted program has no jump backwards.                               *)
THEOREM ForwardOnly == Spec => []JumpsForward
<1>1. IInv => JumpsForward
  BY DEF IInv
<1> QED
  BY Invariant, <1>1, PTL

-----------------------------------------------------------------------------
(* The parser implements the assembler                                      *)

Program == IF Verdict = "rejected" THEN <<>> ELSE Complete

LEMMA VerdictOf ==
    /\ pc = "accepted" => Verdict = "accepted"
    /\ pc = "parsed" => Verdict = "complete"
    /\ LineRefused \/ pc \in {"failed", "aborted", "crashed", "undefined_label"} => Verdict = "rejected"
    /\ pc \in {"line", "operands", "store_label", "add_elm", "add_elm_again"} => Verdict = "reading"
    /\ pc = "returned" /\ ~LineRefused => Verdict = "reading"
BY DEF Verdict, LineRefused

LEMMA VerdictNext ==
    /\ pc' = "accepted" => Verdict' = "accepted"
    /\ pc' = "parsed" => Verdict' = "complete"
    /\ LineRefused' \/ pc' \in {"failed", "aborted", "crashed", "undefined_label"} => Verdict' = "rejected"
    /\ pc' \in {"line", "operands", "store_label", "add_elm", "add_elm_again"} => Verdict' = "reading"
    /\ pc' = "returned" /\ ~LineRefused' => Verdict' = "reading"
BY DEF Verdict, LineRefused

(* The instruction set is the same in both modules.                         *)
LEMMA SameInstructions ==
    /\ Assembled!INS_LABEL = INS_LABEL
    /\ \A op : Assembled!has_label(op) <=> has_label(op)
    /\ \A op : Assembled!TakesLabel(op) <=> TakesLabel(op)
BY DEF INS_LABEL, Assembled!INS_LABEL, Opcode, Assembled!Opcode, OP_LABEL, Assembled!OP_LABEL,
   has_label, Assembled!has_label, TakesLabel, Assembled!TakesLabel

LEMMA DeclaredLabels ==
    \A l : l \in Assembled!Declared <=>
             /\ l # NoLabel
             /\ \E m \in 1 .. Len(Program) : Program[m].opcode = INS_LABEL /\ Program[m].label = l
BY SameInstructions, LabelInstruction
   DEF Assembled!Declared, Assembled!Declares, Assembled!Mentions, Program

(* While the copy is to be stored the program lacks the last element.       *)
LEMMA Stored ==
    ASSUME TypeOK, AddElm, NEW e \in Elements, ir' = Append(ir, e)
    PROVE  Complete' = ir /\ Complete = ir /\ Len(ir') = Len(ir) + 1
<1>1. pc = "add_elm" /\ pc' = "add_elm_again"
  BY DEF AddElm
<1>2. ir \in Seq(Elements)
  BY TypeParts DEF ArrayType
<1>3. Len(ir') = Len(ir) + 1 /\ SubSeq(ir', 1, Len(ir') - 1) = ir
  BY <1>2
<1> QED
  BY <1>1, <1>3 DEF Complete

(* A line whose copy is about to be stored names no label declared before.  *)
LEMMA LabelIsNew ==
    ASSUME IInv, pc = "add_elm_again", has_label(instruction), FirstOwnsText
    PROVE  label \notin Assembled!Declared \cup {NoLabel}
<1>1. label \in Labels /\ label # NoLabel
  BY TypeParts, LabelIsLabel, ParserAssumption DEF IInv
<1>2. /\ ir \in Seq(Elements) /\ Len(ir) \in Positions /\ Len(ir) \in Nat
      /\ ir[Len(ir)].opcode = instruction /\ ir[Len(ir)].label = label
  BY TypeParts DEF IInv, HalfStored, element, ArrayType, Positions
<1>3. Program = SubSeq(ir, 1, Len(ir) - 1)
  BY VerdictOf DEF Program, Complete
<1>4. /\ Len(Program) = Len(ir) - 1
      /\ \A m \in 1 .. Len(Program) : m \in Positions /\ m < Len(ir) /\ Program[m] = ir[m]
  <2>1. /\ Len(Program) = Len(ir) - 1
        /\ \A m \in 1 .. Len(ir) - 1 : Program[m] = ir[m]
    BY <1>2, <1>3, WithoutLast DEF Positions
  <2> QED
    BY <1>2, <2>1 DEF Positions
<1>5. \A m \in DeclaredAt(label) : ~(m < Len(ir))
  <2>1. CASE instruction = INS_LABEL
    <3>1. Len(ir) \in DeclaredAt(label)
      BY <1>2, <2>1 DEF DeclaredAt
    <3>2. Agrees(label) /\ ~Pending(label)
      BY <1>1 DEF IInv, TableAgrees, Live, Pending
    <3>3. \E d : DeclaredAt(label) = {d}
      BY <3>1, <3>2 DEF Agrees
    <3>4. \A m \in DeclaredAt(label) : m = Len(ir)
      BY <3>1, <3>3
    <3> QED
      BY <1>2, <3>4
  <2>2. CASE instruction # INS_LABEL
    <3>1. Len(ir) \in JumpsTo(label)
      BY <1>2, <2>2 DEF JumpsTo
    <3>2. \A m \in DeclaredAt(label) : Len(ir) < m
      BY <1>1, <3>1 DEF IInv, JumpsForward
    <3>3. DeclaredAt(label) \subseteq 1 .. Len(ir)
      BY DEF DeclaredAt, Positions
    <3> QED
      BY <1>2, <3>2, <3>3
  <2> QED
    BY <2>1, <2>2
<1>6. ASSUME NEW m \in 1 .. Len(Program), Program[m].opcode = INS_LABEL, Program[m].label = label
      PROVE  FALSE
  <2>1. m \in DeclaredAt(label) /\ m < Len(ir)
    BY <1>4, <1>6 DEF DeclaredAt
  <2> QED
    BY <1>5, <2>1
<1> QED
  BY <1>1, <1>6, DeclaredLabels

(* A program that has passed the check uses declared labels only.           *)
LEMMA LabelsDeclared ==
    ASSUME IInv, pc = "parsed", AllFilled
    PROVE  Assembled!Used \subseteq Assembled!Declared
<1>1. Program = ir
  BY VerdictOf DEF Program, Complete
<1>2. ASSUME NEW n \in Positions, has_label(ir[n].opcode), ir[n].label # NoLabel
      PROVE  ir[n].label \in Assembled!Declared
  <2> DEFINE l == ir[n].label
  <2>1. l \in Labels
    BY <1>2, ElementTypes DEF IInv
  <2>2. Agrees(l) /\ ~Pending(l)
    BY <2>1 DEF IInv, TableAgrees, Live, Pending
  <2>3. n \in DeclaredAt(l) \cup JumpsTo(l)
    BY <1>2 DEF DeclaredAt, JumpsTo
  <2>4. Filled(l)
    BY <2>2, <2>3 DEF Agrees, AllFilled, Filled
  <2>5. DeclaredAt(l) # {}
    BY <2>2, <2>4 DEF Agrees
  <2> QED
    BY <1>1, <1>2, <2>5, DeclaredLabels DEF DeclaredAt, Positions
<1> QED
  BY <1>1, <1>2, SameInstructions DEF Assembled!Used, Assembled!Mentions, Program, Positions

(* Storing the copy completes the line.                                     *)
LEMMA CopyCompletes ==
    ASSUME IInv, AddElmAgain
    PROVE  Assembled!AddLine(element) /\ element \in Elements
<1>1. /\ pc = "add_elm_again" /\ pc' = "returned" /\ retval' = "PARSER_SUCCESS"
      /\ ir' = Append(ir, [opcode |-> instruction, label |-> NoLabel])
  BY DEF AddElmAgain, Return
<1>2. element \in Elements
  BY TypeParts, LabelIsLabel DEF IInv, element, Elements, LineType
<1>3. ir \in Seq(Elements) /\ Len(ir) > 0 /\ ir[Len(ir)] = element
  BY <1>1, TypeParts DEF IInv, HalfStored, ArrayType
<1>4. Program = SubSeq(ir, 1, Len(ir) - 1) /\ Verdict = "reading"
  BY <1>1, VerdictOf DEF Program, Complete
<1>5. Program' = ir' /\ Verdict' = "reading"
  BY <1>1, VerdictNext DEF Program, Complete, LineRefused
<1>6. Assembled!Copy(element) = [opcode |-> instruction, label |-> NoLabel]
  BY DEF Assembled!Copy, element
<1>7. Append(ir, Assembled!Copy(element)) = SubSeq(ir, 1, Len(ir) - 1) \o <<element, Assembled!Copy(element)>>
  <2> DEFINE c == Assembled!Copy(element)
             front == SubSeq(ir, 1, Len(ir) - 1)
  <2>1. c \in Elements
    BY <1>2, <1>6 DEF Elements, element
  <2> HIDE DEF c
  <2>2. /\ Len(ir) \in Nat /\ front \in Seq(Elements) /\ Len(front) = Len(ir) - 1
        /\ \A i \in 1 .. Len(ir) - 1 : front[i] = ir[i]
    BY <1>3, WithoutLast
  <2> HIDE DEF front
  <2>3. /\ Len(Append(ir, c)) = Len(ir) + 1
        /\ \A i \in 1 .. Len(ir) : Append(ir, c)[i] = ir[i]
        /\ Append(ir, c)[Len(ir) + 1] = c
        /\ Append(ir, c) \in Seq(Elements)
    BY <1>3, <2>1, <2>2
  <2>4. /\ Len(<<element, c>>) = 2 /\ <<element, c>>[1] = element /\ <<element, c>>[2] = c
        /\ <<element, c>> \in Seq(Elements)
    BY <1>2, <2>1
  <2>5. front \o <<element, c>> \in Seq(Elements) /\ Len(front \o <<element, c>>) = Len(ir) + 1
    BY <1>2, <2>1, <2>2
  <2>6. /\ \A i \in 1 .. Len(ir) - 1 : (front \o <<element, c>>)[i] = front[i]
        /\ (front \o <<element, c>>)[Len(ir)] = element
        /\ (front \o <<element, c>>)[Len(ir) + 1] = c
    BY <1>2, <1>3, <2>1, <2>2
  <2>7. \A i \in 1 .. Len(ir) + 1 : Append(ir, c)[i] = (front \o <<element, c>>)[i]
    BY <1>3, <2>2, <2>3, <2>6
  <2> QED
    BY <2>2, <2>3, <2>5, <2>7 DEF front, c
<1>8. /\ element.label \notin Assembled!Declared
      /\ TakesLabel(element.opcode) => element.label # NoLabel
      /\ element.label # NoLabel => has_label(element.opcode)
  <2>1. CASE has_label(instruction) /\ FirstOwnsText
    BY <1>1, <2>1, LabelIsNew DEF element
  <2>2. CASE ~(has_label(instruction) /\ FirstOwnsText)
    <3>1. element.label = NoLabel /\ element.opcode = instruction
      BY <2>2 DEF element
    <3>2. ~TakesLabel(instruction)
      BY <1>1, <2>2, TypeParts, LabelThere DEF IInv, TakesLabel, has_label
    <3> QED
      BY <3>1, <3>2, DeclaredLabels
  <2> QED
    BY <2>1, <2>2
<1>9. Program' = Program \o <<element, Assembled!Copy(element)>>
  BY <1>1, <1>4, <1>5, <1>6, <1>7
<1> QED
  BY <1>2, <1>4, <1>5, <1>8, <1>9, SameInstructions DEF Assembled!AddLine, Program

(* Any step that ends in a refusal drops the program.                       *)
LEMMA Refuses ==
    ASSUME Verdict \in {"reading", "complete"}, Verdict' = "rejected"
    PROVE  Assembled!Reject
<1>1. Program' = <<>>
  BY DEF Program
<1> QED
  BY <1>1 DEF Assembled!Reject, Program

LEMMA StepImplements ==
    IInv /\ [Next]_vars => [Assembled!Next]_(Assembled!vars)
<1> SUFFICES ASSUME IInv, [Next]_vars
             PROVE  Assembled!Next \/ (Program' = Program /\ Verdict' = Verdict)
  BY DEF Assembled!vars, Program
<1>1. CASE AddElmAgain
  BY <1>1, CopyCompletes DEF Assembled!Next
<1>2. CASE AddElm
  <2>1. ir' = Append(ir, element) /\ pc = "add_elm" /\ pc' = "add_elm_again"
    BY <1>2 DEF AddElm
  <2>2. element \in Elements
    BY TypeParts, LabelIsLabel DEF IInv, element, Elements, LineType
  <2>3. Complete' = ir /\ Complete = ir
    BY <1>2, <2>1, <2>2, Stored DEF IInv
  <2> QED
    BY <2>1, <2>3, VerdictOf, VerdictNext DEF Program
<1>3. CASE ParseLine \/ ReadOperand \/ CheckTypes \/ StoreLabel \/ NoLine \/ NoOperand \/ LineParsed
  <2>1. ir' = ir /\ pc \in {"line", "operands", "store_label", "returned"} /\ ~LineRefused
    BY <1>3 DEF ParseLine, NoLine, ReadOperand, NoOperand, CheckTypes, LineParsed, ir_vars, LineRefused,
       StoreLabel, StoreNewLabel, StoreKnownLabel, DuplicateLabel, LabelNotStored, GrowthAborts, NoLabelThere
  <2>2. pc' \in {"line", "operands", "store_label", "add_elm", "returned", "aborted", "crashed"}
    BY <1>3 DEF ParseLine, NoLine, ReadOperand, NoOperand, CheckTypes, LineParsed, Return, line_vars,
       StoreLabel, StoreNewLabel, StoreKnownLabel, DuplicateLabel, LabelNotStored, GrowthAborts, NoLabelThere
  <2>3. Verdict = "reading" /\ Verdict' \in {"reading", "rejected"}
    BY <2>1, <2>2, VerdictOf, VerdictNext
  <2>4. Complete = ir /\ Complete' = ir'
    BY <2>1, <2>2 DEF Complete
  <2>5. CASE Verdict' = "reading"
    BY <2>1, <2>3, <2>4, <2>5 DEF Program
  <2>6. CASE Verdict' = "rejected"
    BY <2>3, <2>6, Refuses DEF Assembled!Next
  <2> QED
    BY <2>3, <2>5, <2>6
<1>4. CASE AddElmFails \/ MoveAborts
  <2>1. pc \in {"add_elm", "add_elm_again"} /\ (LineRefused' \/ pc' = "aborted")
    BY <1>4 DEF AddElmFails, MoveAborts, Return, LineRefused
  <2>2. Verdict = "reading" /\ Verdict' = "rejected"
    BY <2>1, VerdictOf, VerdictNext
  <2> QED
    BY <2>2, Refuses DEF Assembled!Next
<1>5. CASE FileParsed
  <2>1. pc = "returned" /\ ~LineRefused /\ pc' = "parsed" /\ ir' = ir
    BY <1>5 DEF FileParsed, LineRefused, ir_vars
  <2>2. Verdict = "reading" /\ Verdict' = "complete"
    BY <2>1, VerdictOf, VerdictNext
  <2>3. Program' = Program
    BY <2>1, <2>2 DEF Program, Complete
  <2> QED
    BY <2>2, <2>3 DEF Assembled!Next, Assembled!EndOfFile, Program
<1>6. CASE FileFailed
  <2>1. Verdict = "rejected" /\ Verdict' = "rejected"
    BY <1>6, VerdictOf, VerdictNext DEF FileFailed, LineRefused
  <2> QED
    BY <2>1 DEF Program
<1>7. CASE CheckJumpTable
  <2>1. CASE AllFilled
    <3>1. pc = "parsed" /\ pc' = "accepted" /\ ir' = ir
      BY <1>7, <2>1 DEF CheckJumpTable, ir_vars
    <3>2. Verdict = "complete" /\ Verdict' = "accepted"
      BY <3>1, VerdictOf, VerdictNext
    <3>3. Program' = Program
      BY <3>1, <3>2 DEF Program, Complete
    <3>4. Assembled!Used \subseteq Assembled!Declared
      BY <2>1, <3>1, LabelsDeclared
    <3> QED
      BY <3>2, <3>3, <3>4 DEF Assembled!Next, Assembled!Accept, Program
  <2>2. CASE ~AllFilled
    <3>1. Verdict = "complete" /\ Verdict' = "rejected"
      BY <1>7, <2>2, VerdictOf, VerdictNext DEF CheckJumpTable
    <3> QED
      BY <3>1, Refuses DEF Assembled!Next
  <2> QED
    BY <2>1, <2>2
<1>8. CASE UNCHANGED vars
  BY <1>8 DEF vars, Program, Verdict, Complete, LineRefused
<1> QED
  BY <1>1, <1>2, <1>3, <1>4, <1>5, <1>6, <1>7, <1>8 DEF Next

(* Every run of the parser is a run of the assembler: a line is stored      *)
(* twice or not at all, and a program is accepted only if every label it    *)
(* uses is declared in it, once and later.                                  *)
THEOREM Implements == Spec => ImplementsAssembler
<1>1. Init => Assembled!Init
  BY VerdictOf DEF Init, Assembled!Init, Complete
<1> QED
  BY Invariant, StepImplements, <1>1, PTL DEF Spec, ImplementsAssembler, Assembled!Spec
=============================================================================
