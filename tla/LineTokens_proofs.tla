------------------------- MODULE LineTokens_proofs -------------------------
(***************************************************************************)
(* Theorems about TypeChecks and LineTokens.                               *)
(*                                                                         *)
(* The check of the operands is right for every word taken for an opcode:  *)
(* CheckInv says how far its loop has come, and FitsIsTakes that comparing *)
(* the bits of two operand types is asking whether the token belongs to    *)
(* the language of the operand.  Who owns the strings of a line, MemoryInv *)
(* says label by label: the tokens, then the first of the elements, and    *)
(* once the tokens are freed nobody or the array.                          *)
(***************************************************************************)
EXTENDS LineTokens, SequenceTheorems, FiniteSetTheorems, TLAPS

Called == opcode \in Words

CheckInv ==
    pc \in {"loop", "return"} =>
        /\ Called
        /\ arg_tokens \in Seq(OperandTokens) /\ Len(arg_tokens) = opcode.count
        /\ i \in 0 .. opcode.count
        /\ \A n \in 1 .. i : Fits(opcode, n, arg_tokens[n])
        /\ pc = "return" =>
              \/ result = TRUE /\ i = opcode.count /\ failed_arg = ALL_ARGS_VALID
              \/ result = FALSE /\ i < opcode.count /\ failed_arg = i /\ ~FitsHere

(* Where the line is, and the operands as far as they have been read.       *)
Labels == {"line", "operands", "loop", "return", "add_elm", "add_elm_again", "cleanup", "aborted",
           "crashed", "returned", "released"}

ReadInv ==
    /\ pc \in Labels
    /\ pc = "line" => arg_tokens = <<>> /\ i = 0
    /\ pc = "operands" =>
        /\ Called
        /\ arg_tokens \in Seq(OperandTokens) /\ Len(arg_tokens) <= opcode.count
        /\ i = 0
    /\ arg_tokens \in Seq(AllTokens) /\ Len(arg_tokens) <= 3

(* What the line begins with.                                               *)
FirstInv ==
    /\ pc \notin {"line", "returned", "released"} =>
          first \in AllTokens \ {"UNKNOWN", "EOF"} /\ opcode \in OpcodesOf(first)
    /\ pc = "crashed" => first \in {"INT", "FLOAT", "STRING", "LABEL", "TYPE"}

(* The elements that store the line: the first has the strings, the second, *)
(* if there is one, finds none.                                             *)
WithStrings == [n \in alloced_tokens |-> {n} \cap strings]
Emptied     == [n \in alloced_tokens |-> {}]
StoredOnce  == elements = <<WithStrings>>
StoredTwice == elements = <<WithStrings, Emptied>>
NotStored   == elements = <<>>

OfOperands == strings \cap alloced_tokens
OfFirst    == strings \ alloced_tokens

TokensInv ==
    /\ pc = "line" => tokens = {} /\ freed_tokens = Never
    /\ pc \notin {"line", "returned", "released"} =>
        /\ tokens = {0} \cup alloced_tokens /\ freed_tokens = Never
        /\ first \notin {"UNKNOWN", "EOF"}
    /\ pc \in {"returned", "released"} => tokens \subseteq {0} \cup alloced_tokens
    /\ strings \subseteq tokens
    /\ TokensFreedOnce

StringsInv ==
    /\ pc \in {"line", "operands", "loop", "return", "add_elm", "crashed"} =>
        in_token = strings /\ NotStored
    /\ pc \in {"add_elm_again", "aborted"} =>
        in_token = OfFirst /\ StoredOnce
    /\ pc = "cleanup" =>
        \/ in_token = strings /\ NotStored
        \/ in_token = OfFirst /\ (StoredOnce \/ StoredTwice)
    /\ pc \notin {"returned", "released"} => freed_strings = Never
    /\ pc = "returned" =>
        /\ in_token = OfFirst
        /\ \/ NotStored /\ freed_strings = OncePer(OfOperands, Never)
           \/ (StoredOnce \/ StoredTwice) /\ freed_strings = Never

LineInv == CheckInv /\ ReadInv /\ FirstInv /\ TokensInv /\ StringsInv

-----------------------------------------------------------------------------
(* Words and instructions                                                   *)

LEMMA WordFields ==
    ASSUME NEW op \in Words
    PROVE  op.count \in 0 .. 3
BY WordsAssumption DEF OpcodeWords

(* Comparing bits is asking for the language of the operand.                *)
LEMMA FitsIsTakes ==
    ASSUME NEW op, NEW n, NEW type \in OperandTokens
    PROVE  Fits(op, n, type) <=> type \in Takes(op.types[n])
<1> DEFINE asked == op.types[n]
<1>1. Fits(op, n, type) <=> token_to_opcode(type) \subseteq asked
  BY DEF Fits, compare_operand_types, get_operand_type
<1>2. "VARIABLE" \notin SymbolTokens /\ "LABEL" \notin SymbolTokens /\ "TYPE" \notin SymbolTokens
  BY DEF SymbolTokens
<1>3. /\ OP_SYMBOL \subseteq asked <=> 0 \in asked
      /\ OP_VARIABLE \subseteq asked <=> 0 \in asked /\ 1 \in asked
      /\ OP_LABEL \subseteq asked <=> 2 \in asked
      /\ OP_TYPE \subseteq asked <=> 3 \in asked
  BY DEF OP_SYMBOL, OP_VARIABLE, OP_LABEL, OP_TYPE
<1> HIDE DEF asked
<1>4. CASE type \in SymbolTokens
  <2>1. token_to_opcode(type) = OP_SYMBOL
    BY <1>2, <1>4, Zenon DEF token_to_opcode
  <2>2. type \in Takes(asked) <=> 0 \in asked
    BY <1>2, <1>4 DEF Takes
  <2> QED
    BY <1>1, <1>3, <2>1, <2>2 DEF asked
<1>5. CASE type = "VARIABLE"
  <2>1. token_to_opcode(type) = OP_VARIABLE
    BY <1>2, <1>5 DEF token_to_opcode
  <2>2. type \in Takes(asked) <=> 0 \in asked /\ 1 \in asked
    BY <1>2, <1>5 DEF Takes
  <2> QED
    BY <1>1, <1>3, <2>1, <2>2 DEF asked
<1>6. CASE type = "LABEL"
  <2>1. token_to_opcode(type) = OP_LABEL
    BY <1>2, <1>6 DEF token_to_opcode
  <2>2. type \in Takes(asked) <=> 2 \in asked
    BY <1>2, <1>6 DEF Takes
  <2> QED
    BY <1>1, <1>3, <2>1, <2>2 DEF asked
<1>7. CASE type = "TYPE"
  <2>1. token_to_opcode(type) = OP_TYPE
    BY <1>2, <1>7 DEF token_to_opcode
  <2>2. type \in Takes(asked) <=> 3 \in asked
    BY <1>2, <1>7 DEF Takes
  <2> QED
    BY <1>1, <1>3, <2>1, <2>2 DEF asked
<1> QED
  BY <1>4, <1>5, <1>6, <1>7 DEF OperandTokens

(* What an instruction may look like: only its first operand is a label.    *)
Shapes == {<<>>, <<OP_VARIABLE>>, <<OP_LABEL>>, <<OP_SYMBOL>>, Var_Sym, <<OP_SYMBOL, OP_TYPE>>,
           Var_Sym_Sym, Label_Sym_Sym}

LEMMA OpcodeShapes ==
    ASSUME NEW op \in Opcodes
    PROVE  \E n : \E types \in Shapes : op = Opcode(n, types)
<1>1. /\ <<>> \in Shapes /\ <<OP_VARIABLE>> \in Shapes /\ <<OP_LABEL>> \in Shapes
      /\ <<OP_SYMBOL>> \in Shapes /\ Var_Sym \in Shapes /\ <<OP_SYMBOL, OP_TYPE>> \in Shapes
      /\ Var_Sym_Sym \in Shapes /\ Label_Sym_Sym \in Shapes
  BY DEF Shapes
<1> HIDE DEF Shapes
<1>2. CASE op \in OtherOpcodes
  BY <1>1, <1>2 DEF OtherOpcodes
<1>3. CASE op \notin OtherOpcodes
  BY <1>1, <1>3 DEF Opcodes, INS_MOVE, INS_CREATE_F, INS_PUSH_F, INS_POP_F,
     INS_DEFVAR, INS_CALL, INS_RETURN, INS_PUSHS, INS_POPS, INS_READ, INS_LABEL, INS_JUMP,
     INS_JUMPEQ, INS_JUMPNEQ
<1> QED
  BY <1>2, <1>3

(* An instruction with a label has an operand that takes labels and nothing *)
(* else, and no other operand of any instruction takes one.                 *)
LEMMA InstructionLabels ==
    ASSUME NEW op \in Opcodes
    PROVE  /\ has_label(op) => op.count > 0 /\ op.types[1] = OP_LABEL
           /\ op.count \in 0 .. 3
           /\ ~has_label(op) => 2 \notin op.types[1]
           /\ \A n \in 2 .. op.count : 2 \notin op.types[n]
<1>1. 2 \in OP_LABEL /\ 2 \notin OP_SYMBOL /\ 2 \notin OP_VARIABLE /\ 2 \notin OP_TYPE
  BY DEF OP_SYMBOL, OP_VARIABLE, OP_LABEL, OP_TYPE
<1> DEFINE S == OP_SYMBOL  V == OP_VARIABLE  L == OP_LABEL  T == OP_TYPE
<1>2. PICK n : \E types \in Shapes : op = Opcode(n, types)
  BY OpcodeShapes
<1>3. PICK types : /\ op = Opcode(n, types)
                   /\ types \in {<<>>, <<V>>, <<L>>, <<S>>, <<V, S>>, <<S, T>>, <<V, S, S>>, <<L, S, S>>}
  BY <1>2 DEF Shapes, Var_Sym, Var_Sym_Sym, Label_Sym_Sym
<1>4. /\ op.count = Len(types)
      /\ \A k \in 1 .. 3 : op.types[k] = IF k \in DOMAIN types THEN types[k] ELSE {}
  BY <1>3 DEF Opcode
<1>5. has_label(op) <=> 2 \in op.types[1]
  BY DEF has_label, OP_LABEL
<1> HIDE DEF S, V, L, T
<1>6. 2 \in L /\ 2 \notin S /\ 2 \notin V /\ 2 \notin T
  BY <1>1 DEF S, V, L, T
<1>7. /\ 2 \in op.types[1] => op.count > 0 /\ op.types[1] = L
      /\ op.count \in 0 .. 3
      /\ \A k \in 2 .. op.count : 2 \notin op.types[k]
  <2>1. CASE types = <<>>
    BY <1>4, <1>6, <2>1
  <2>2. CASE types \in {<<V>>, <<L>>, <<S>>}
    BY <1>4, <1>6, <2>2
  <2>3. CASE types \in {<<V, S>>, <<S, T>>}
    BY <1>4, <1>6, <2>3
  <2>4. CASE types \in {<<V, S, S>>, <<L, S, S>>}
    <3>1. Len(types) = 3 /\ DOMAIN types = 1 .. 3
      BY <2>4
    <3>2. types[1] \in {V, L} /\ types[2] = S /\ types[3] = S
      BY <2>4
    <3>3. op.count = 3 /\ \A k \in 1 .. 3 : op.types[k] = types[k]
      BY <1>4, <3>1
    <3> QED
      BY <1>6, <3>2, <3>3
  <2> QED
    BY <1>3, <2>1, <2>2, <2>3, <2>4
<1> QED
  BY <1>5, <1>7 DEF L

-----------------------------------------------------------------------------
(* The check of the operands                                                *)

LEMMA CheckStep ==
    ASSUME CheckInv, ArgFails \/ ArgFits \/ AllFit
    PROVE  CheckInv'
<1>1. pc = "loop" /\ Called /\ opcode.count \in 0 .. 3
  BY WordFields DEF ArgFails, ArgFits, AllFit, CheckInv, Called
<1>2. CASE ArgFails
  BY <1>1, <1>2 DEF ArgFails, CheckInv, Called, FitsHere, FailedHere, get_number_opperands
<1>3. CASE ArgFits
  <2>1. \A n \in 1 .. i + 1 : Fits(opcode, n, arg_tokens[n])
    BY <1>1, <1>3 DEF ArgFits, CheckInv, FitsHere
  <2> QED
    BY <1>1, <1>3, <2>1 DEF ArgFits, CheckInv, Called, get_number_opperands
<1>4. CASE AllFit
  BY <1>1, <1>4 DEF AllFit, CheckInv, Called, get_number_opperands
<1> QED
  BY <1>2, <1>3, <1>4

LEMMA CheckStays ==
    ASSUME CheckInv, UNCHANGED vars
    PROVE  CheckInv'
BY DEF CheckInv, Called, FitsHere, vars

LEMMA MisfitsAre ==
    ASSUME CheckInv, pc \in {"loop", "return"}
    PROVE  \A n \in 1 .. opcode.count : n \in Misfits <=> ~Fits(opcode, n, arg_tokens[n])
<1>1. ASSUME NEW n \in 1 .. opcode.count
      PROVE  n \in Misfits <=> ~Fits(opcode, n, arg_tokens[n])
  <2>1. arg_tokens[n] \in OperandTokens
    BY DEF CheckInv
  <2>2. Fits(opcode, n, arg_tokens[n]) <=> arg_tokens[n] \in Takes(opcode.types[n])
    BY <2>1, FitsIsTakes DEF CheckInv, Called
  <2> QED
    BY <2>2 DEF Misfits
<1> QED
  BY <1>1

LEMMA CheckedRight ==
    ASSUME CheckInv
    PROVE  FirstMisfitNamed
<1> SUFFICES ASSUME pc = "return"
             PROVE  IF result THEN Misfits = {} /\ failed_arg = ALL_ARGS_VALID
                    ELSE /\ failed_arg + 1 \in Misfits
                         /\ \A n \in Misfits : failed_arg < n
  BY DEF FirstMisfitNamed
<1>1. /\ Misfits \subseteq 1 .. opcode.count
      /\ \A n \in 1 .. opcode.count : n \in Misfits <=> ~Fits(opcode, n, arg_tokens[n])
      /\ opcode.count \in 0 .. 3
  BY MisfitsAre, WordFields DEF Misfits, CheckInv, Called
<1>2. CASE result = TRUE /\ i = opcode.count /\ failed_arg = ALL_ARGS_VALID
  BY <1>1, <1>2 DEF CheckInv
<1>3. CASE result = FALSE /\ i < opcode.count /\ failed_arg = i /\ ~FitsHere
  <2>1. i \in Nat /\ \A n \in 1 .. i : n \notin Misfits
    BY <1>1, <1>3 DEF CheckInv
  <2>2. i + 1 \in Misfits
    BY <1>1, <1>3, <2>1 DEF FitsHere
  <2> QED
    BY <1>1, <1>3, <2>1, <2>2
<1> QED
  BY <1>2, <1>3 DEF CheckInv

LEMMA LabelsRight ==
    ASSUME CheckInv, FirstInv, pc = "return", result, first = "INSTRUCTION"
    PROVE  /\ has_label(opcode) <=> arg_tokens # <<>> /\ arg_tokens[1] = "LABEL"
           /\ \A n \in 2 .. Len(arg_tokens) : arg_tokens[n] # "LABEL"
<1>1. opcode \in Opcodes
  BY DEF FirstInv, OpcodesOf
<1>2. /\ arg_tokens \in Seq(OperandTokens) /\ Len(arg_tokens) = opcode.count
      /\ \A n \in 1 .. opcode.count : Fits(opcode, n, arg_tokens[n])
  BY DEF CheckInv
<1>3. ASSUME NEW n \in 1 .. opcode.count
      PROVE  arg_tokens[n] \in OperandTokens /\ arg_tokens[n] \in Takes(opcode.types[n])
  <2>1. arg_tokens[n] \in OperandTokens
    BY <1>2
  <2> QED
    BY <1>2, <2>1, FitsIsTakes
<1>4. \A type : "LABEL" \in Takes(type) => 2 \in type
  BY DEF Takes, SymbolTokens
<1>5. Takes(OP_LABEL) = {"LABEL"}
  BY DEF Takes, OP_LABEL
<1>6. /\ has_label(opcode) => opcode.count > 0 /\ opcode.types[1] = OP_LABEL
      /\ opcode.count \in 0 .. 3
      /\ ~has_label(opcode) => 2 \notin opcode.types[1]
      /\ \A n \in 2 .. opcode.count : 2 \notin opcode.types[n]
  BY <1>1, InstructionLabels
<1>7. ASSUME has_label(opcode) PROVE arg_tokens # <<>> /\ arg_tokens[1] = "LABEL"
  <2>1. 1 \in 1 .. opcode.count
    BY <1>6, <1>7
  <2>2. arg_tokens[1] = "LABEL"
    BY <1>3, <1>5, <1>6, <1>7, <2>1
  <2> QED
    BY <1>2, <2>1, <2>2
<1>8. ASSUME arg_tokens # <<>>, arg_tokens[1] = "LABEL" PROVE has_label(opcode)
  <2>1. Len(arg_tokens) # 0 /\ 1 \in 1 .. opcode.count
    BY <1>2, <1>6, <1>8
  <2> QED
    BY <1>3, <1>4, <1>6, <1>8, <2>1
<1>9. ASSUME NEW n \in 2 .. Len(arg_tokens) PROVE arg_tokens[n] # "LABEL"
  <2>1. n \in 1 .. opcode.count /\ n \in 2 .. opcode.count
    BY <1>2, <1>6
  <2> QED
    BY <1>3, <1>4, <1>6, <2>1
<1> QED
  BY <1>7, <1>8, <1>9

(* For every word taken for an opcode and every list of operands, a call of *)
(* instruction_args_valid stands before, at or behind the first operand     *)
(* that does not fit.                                                       *)
THEOREM CheckIsInductive == Spec => []CheckInv
<1>1. ASSUME Init PROVE CheckInv
  <2>1. Called /\ opcode.count \in 0 .. 3
    BY <1>1, WordFields DEF Init, Called
  <2>2. arg_tokens \in [1 .. opcode.count -> OperandTokens]
    BY <1>1 DEF Init, get_number_opperands
  <2>3. arg_tokens \in Seq(OperandTokens) /\ Len(arg_tokens) = opcode.count
    BY <2>1, <2>2
  <2> QED
    BY <1>1, <2>1, <2>3 DEF Init, CheckInv
<1>2. ASSUME CheckInv, [Next]_vars PROVE CheckInv'
  BY <1>2, CheckStep, CheckStays DEF Next
<1> QED
  BY <1>1, <1>2, PTL DEF Spec

(* For every word and every list of operands, the check accepts             *)
(* exactly the lists that opcodes.h allows and names the first operand      *)
(* that does not fit.                                                       *)
THEOREM CheckNamesFirstMisfit == Spec => []FirstMisfitNamed
BY CheckIsInductive, CheckedRight, PTL

(* The loop computes what Parser takes its result to be.                    *)
THEOREM LoopIsArgsValid == Spec => [](pc = "return" => (result <=> ArgsValid(opcode, arg_tokens)))
<1>1. ASSUME CheckInv, pc = "return" PROVE result <=> ArgsValid(opcode, arg_tokens)
  <2>1. CASE result = TRUE /\ i = opcode.count
    BY <1>1, <2>1 DEF CheckInv, ArgsValid, get_number_opperands
  <2>2. CASE result = FALSE /\ i < opcode.count /\ ~FitsHere
    <3>1. i + 1 \in 1 .. opcode.count
      <4>1. i \in 0 .. opcode.count /\ opcode.count \in 0 .. 3
        BY <1>1, WordFields DEF CheckInv, Called
      <4> QED
        BY <2>2, <4>1
    <3> QED
      BY <2>2, <3>1 DEF ArgsValid, FitsHere, get_number_opperands
  <2> QED
    BY <1>1, <2>1, <2>2 DEF CheckInv
<1>2. CheckInv => (pc = "return" => (result <=> ArgsValid(opcode, arg_tokens)))
  BY <1>1
<1> QED
  BY <1>2, CheckIsInductive, PTL

-----------------------------------------------------------------------------
(* The line: its operands                                                   *)

LEMMA OperandsAre ==
    ASSUME ReadInv
    PROVE  /\ Len(arg_tokens) \in 0 .. 3
           /\ alloced_tokens \subseteq 1 .. 3
           /\ 0 \notin alloced_tokens
<1>1. Len(arg_tokens) \in Nat /\ Len(arg_tokens) <= 3
  <2>1. arg_tokens \in Seq(AllTokens) /\ Len(arg_tokens) <= 3
    BY DEF ReadInv
  <2> QED
    BY <2>1
<1>2. ASSUME NEW n \in Nat, n <= 3
      PROVE  n \in 0 .. 3 /\ 1 .. n \subseteq 1 .. 3 /\ 0 \notin 1 .. n
  BY <1>2
<1> QED
  BY <1>1, <1>2 DEF alloced_tokens

(* Steps in which the check has no part.                                    *)
Unread == UNCHANGED <<check_vars, arg_tokens>> /\ pc \notin {"line", "operands"}
          /\ pc' \in {"add_elm", "add_elm_again", "cleanup", "aborted", "crashed", "returned", "released"}

LEMMA UnreadStep ==
    ASSUME CheckInv, ReadInv, Unread
    PROVE  CheckInv' /\ ReadInv'
BY DEF CheckInv, ReadInv, Unread, Labels

LEMMA FirstTokenRead ==
    ASSUME ReadInv, FirstToken
    PROVE  CheckInv' /\ ReadInv'
<1>1. opcode' \in Words
  <2>1. Opcodes \subseteq Words /\ SmallNumbers \subseteq Words
    BY WordsAssumption DEF SmallNumbers
  <2>2. \A type : OpcodesOf(type) \in {Opcodes, SmallNumbers, Words}
    <3> HIDE DEF Opcodes, SmallNumbers
    <3> QED
      BY DEF OpcodesOf
  <2> QED
    BY <2>1, <2>2 DEF FirstToken
<1>2. opcode'.count \in 0 .. 3
  BY <1>1, WordFields
<1>3. /\ arg_tokens' = arg_tokens /\ arg_tokens = <<>> /\ i' = i /\ i = 0 /\ pc' = "operands"
  BY DEF FirstToken, ReadInv
<1>4. Len(arg_tokens) = 0 /\ arg_tokens \in Seq(OperandTokens) /\ arg_tokens \in Seq(AllTokens)
  BY <1>3
<1> QED
  BY <1>1, <1>2, <1>3, <1>4 DEF CheckInv, ReadInv, Labels, Called

LEMMA OperandRead ==
    ASSUME ReadInv, ReadOperand
    PROVE  CheckInv' /\ ReadInv'
<1>1. /\ Called /\ i = 0 /\ arg_tokens \in Seq(OperandTokens) /\ arg_tokens \in Seq(AllTokens)
      /\ Len(arg_tokens) < opcode.count /\ UNCHANGED <<opcode, i>>
  BY DEF ReadInv, ReadOperand, MoreOperands, get_number_opperands, check_vars
<1>2. opcode.count \in 0 .. 3
  BY <1>1, WordFields DEF Called
<1>3. PICK type \in AllTokens : /\ arg_tokens' = Append(arg_tokens, type)
                                /\ pc' = IF type \in OperandTokens THEN "operands" ELSE "cleanup"
  BY DEF ReadOperand
<1>4. arg_tokens' \in Seq(AllTokens) /\ Len(arg_tokens') = Len(arg_tokens) + 1
      /\ Len(arg_tokens) \in Nat
  BY <1>1, <1>3
<1>5. ASSUME type \in OperandTokens PROVE arg_tokens' \in Seq(OperandTokens)
  BY <1>1, <1>3, <1>5
<1>6. pc' \in {"operands", "cleanup"} /\ Called' /\ i' = 0 /\ opcode' = opcode
  BY <1>1, <1>3 DEF Called
<1>7. pc' = "operands" => type \in OperandTokens
  BY <1>3
<1>8. Len(arg_tokens') <= opcode.count /\ Len(arg_tokens') <= 3
  <2>1. ASSUME NEW n \in Nat, NEW m \in 0 .. 3, n < m PROVE n + 1 <= m /\ n + 1 <= 3
    BY <2>1
  <2> QED
    BY <1>1, <1>2, <1>4, <2>1
<1> QED
  BY <1>4, <1>5, <1>6, <1>7, <1>8 DEF CheckInv, ReadInv, Labels

LEMMA ReadStep ==
    ASSUME CheckInv, ReadInv, [LineNext]_line_vars
    PROVE  CheckInv' /\ ReadInv'
<1>1. CASE FirstToken
  BY <1>1, FirstTokenRead
<1>2. CASE ReadOperand
  BY <1>2, OperandRead
<1>3. CASE NoFirstToken \/ EndOrUnknown \/ NoOperand
  <2>1. UNCHANGED <<check_vars, arg_tokens>> /\ pc' \in {"returned", "cleanup"}
    BY <1>3 DEF NoFirstToken, EndOrUnknown, NoOperand
  <2> QED
    BY <2>1 DEF CheckInv, ReadInv, Labels
<1>4. CASE OperandsRead
  <2>1. Called /\ opcode.count \in 0 .. 3
    BY <1>4, WordFields DEF OperandsRead, ReadInv, Called
  <2> QED
    BY <1>4, <2>1 DEF OperandsRead, CheckInv, ReadInv, Labels, Called, check_vars, get_number_opperands
<1>5. CASE Check
  <2>1. CheckInv'
    BY <1>5, CheckStep DEF Check
  <2>2. UNCHANGED arg_tokens /\ pc' \in {"loop", "return"}
    BY <1>5 DEF Check, ArgFails, ArgFits, AllFit
  <2> QED
    BY <2>1, <2>2 DEF ReadInv, Labels
<1>6. CASE Checked \/ StoreLabel \/ AddElm \/ AddElmAgain \/ NoRoom \/ Cleanup \/ ReleaseArray
  <2>1. Unread
    BY <1>6 DEF Checked, StoreLabel, AddElm, AddElmAgain, NoRoom, Cleanup, ReleaseArray, Unread
  <2> QED
    BY <2>1, UnreadStep
<1>7. CASE UNCHANGED line_vars
  BY <1>7, CheckStays DEF ReadInv, Called, line_vars, vars
<1> QED
  BY <1>1, <1>2, <1>3, <1>4, <1>5, <1>6, <1>7 DEF LineNext

(* What a line begins with stays, and only a number or an address spells a  *)
(* word that has a label but no operand for it.                             *)
LEMMA FirstStep ==
    ASSUME CheckInv, ReadInv, FirstInv, [LineNext]_line_vars
    PROVE  FirstInv'
<1>1. CASE FirstToken
  BY <1>1 DEF FirstToken, FirstInv
<1>2. CASE StoreLabel
  <2>1. /\ pc = "return" /\ result /\ has_label(opcode) /\ UNCHANGED <<first, opcode>>
        /\ first \in AllTokens \ {"UNKNOWN", "EOF"} /\ opcode \in OpcodesOf(first)
        /\ pc' # "line"
    BY <1>2 DEF StoreLabel, FirstInv, check_vars, line
  <2>2. ASSUME pc' = "crashed" PROVE first \in {"INT", "FLOAT", "STRING", "LABEL", "TYPE"}
    <3>1. ~FirstOwnsText
      BY <1>2, <2>2 DEF StoreLabel
    <3>2. first # "INSTRUCTION"
      <4>1. ASSUME first = "INSTRUCTION" PROVE arg_tokens # <<>> /\ arg_tokens[1] = "LABEL"
        BY <2>1, <4>1, LabelsRight
      <4> QED
        BY <3>1, <4>1 DEF FirstOwnsText
    <3>3. first \notin {"VARIABLE", "NIL", "BOOL"}
      <4>1. \A op \in SmallNumbers : ~has_label(op)
        BY DEF SmallNumbers, has_label, OP_LABEL
      <4> QED
        BY <2>1, <4>1 DEF OpcodesOf
    <3> QED
      BY <2>1, <3>2, <3>3 DEF AllTokens, OperandTokens, SymbolTokens
  <2> QED
    BY <2>1, <2>2 DEF FirstInv
<1>3. ASSUME UNCHANGED <<first, opcode>>, pc' \in {"returned", "released"} \/ pc \notin {"line", "returned", "released"},
             pc' # "crashed" \/ pc = "crashed"
      PROVE  FirstInv'
  BY <1>3 DEF FirstInv
<1>4. CASE NoFirstToken \/ EndOrUnknown
  BY <1>4 DEF NoFirstToken, EndOrUnknown, FirstInv
<1>5. CASE NoOperand \/ ReadOperand \/ OperandsRead \/ Check \/ Checked
  BY <1>3, <1>5 DEF NoOperand, ReadOperand, MoreOperands, OperandsRead, Check, ArgFails, ArgFits, AllFit,
     Checked, check_vars, line
<1>6. CASE AddElm \/ AddElmAgain \/ NoRoom \/ Cleanup \/ ReleaseArray
  BY <1>3, <1>6 DEF AddElm, AddElmAgain, NoRoom, Cleanup, ReleaseArray, check_vars, line
<1>7. CASE UNCHANGED line_vars
  BY <1>7 DEF FirstInv, line_vars, vars, line
<1> QED
  BY <1>1, <1>2, <1>4, <1>5, <1>6, <1>7 DEF LineNext

-----------------------------------------------------------------------------
(* The line: its tokens                                                     *)

LEMMA OnceFreed ==
    ASSUME NEW S, NEW n \in 0 .. 3, NEW f
    PROVE  /\ OncePer(S, f)[n] = IF n \in S THEN f[n] + 1 ELSE f[n]
           /\ Never[n] = 0
           /\ OncePer(S, Never)[n] = IF n \in S THEN 1 ELSE 0
BY DEF OncePer, Never

Obtained == tokens = {0} \cup alloced_tokens /\ freed_tokens = Never /\ first \notin {"UNKNOWN", "EOF"}

LEMMA TokensStep ==
    ASSUME ReadInv, ReadInv', TokensInv, [LineNext]_line_vars
    PROVE  TokensInv'
<1>0. /\ alloced_tokens \subseteq 1 .. 3 /\ 0 \notin alloced_tokens
      /\ Len(arg_tokens) \in 0 .. 3
  BY OperandsAre
<1>1. CASE NoFirstToken
  BY <1>1 DEF NoFirstToken, TokensInv, TokensFreedOnce, line
<1>2. CASE EndOrUnknown
  <2>1. /\ tokens = {} /\ strings = {} /\ freed_tokens' = Never
        /\ tokens' = {0} /\ strings' \subseteq {0} /\ pc' = "returned"
        /\ first' \in {"UNKNOWN", "EOF"} /\ alloced_tokens' = alloced_tokens
    BY <1>2 DEF EndOrUnknown, Obtain, TokensInv, alloced_tokens
  <2>2. Never[0] = 0
    BY OnceFreed
  <2> QED
    BY <2>1, <2>2 DEF TokensInv, TokensFreedOnce
<1>3. CASE FirstToken
  <2>1. /\ tokens = {} /\ strings = {} /\ freed_tokens' = Never
        /\ tokens' = {0} /\ strings' \subseteq {0} /\ pc' = "operands"
        /\ first' \notin {"UNKNOWN", "EOF"}
    BY <1>3 DEF FirstToken, Obtain, TokensInv
  <2>2. alloced_tokens' = {}
    <3>1. Len(<<>>) = 0 /\ 1 .. 0 = {}
      OBVIOUS
    <3> QED
      BY <1>3, <3>1 DEF FirstToken, ReadInv, alloced_tokens
  <2> QED
    BY <2>1, <2>2 DEF TokensInv, TokensFreedOnce
<1>4. CASE ReadOperand
  <2>1. PICK type \in AllTokens : /\ arg_tokens' = Append(arg_tokens, type)
                                  /\ Obtain(Len(arg_tokens'), type)
    BY <1>4 DEF ReadOperand
  <2>2. Len(arg_tokens') = Len(arg_tokens) + 1
    BY <2>1 DEF ReadInv
  <2>3. alloced_tokens' = alloced_tokens \cup {Len(arg_tokens')}
    <3>1. \A n \in 0 .. 3 : 1 .. n + 1 = (1 .. n) \cup {n + 1}
      OBVIOUS
    <3> QED
      BY <1>0, <2>2, <3>1 DEF alloced_tokens
  <2>4. pc = "operands" /\ pc' \in {"operands", "cleanup"} /\ UNCHANGED <<first, freed_tokens>>
    BY <1>4 DEF ReadOperand, MoreOperands
  <2>5. /\ tokens' = tokens \cup {Len(arg_tokens')}
        /\ strings' \subseteq strings \cup {Len(arg_tokens')}
    BY <2>1 DEF Obtain
  <2> QED
    BY <2>3, <2>4, <2>5 DEF TokensInv, TokensFreedOnce
<1>5. ASSUME UNCHANGED <<arg_tokens, first, tokens, strings, freed_tokens>>,
             pc \notin {"line", "returned", "released"},
             pc' \notin {"line", "returned", "released"}
      PROVE  TokensInv'
  BY <1>5 DEF TokensInv, TokensFreedOnce, alloced_tokens
<1>6. CASE NoOperand \/ OperandsRead
  BY <1>5, <1>6 DEF NoOperand, OperandsRead, MoreOperands, line
<1>7. CASE Check
  BY <1>5, <1>7 DEF Check, ArgFails, ArgFits, AllFit, line
<1>8. CASE Checked \/ StoreLabel \/ NoRoom
  BY <1>5, <1>8 DEF Checked, StoreLabel, NoRoom, line
<1>9. CASE AddElm \/ AddElmAgain
  BY <1>5, <1>9 DEF AddElm, AddElmAgain
<1>10. CASE Cleanup
  <2>1. /\ pc' = "returned" /\ UNCHANGED <<arg_tokens, first, tokens, strings>>
        /\ freed_tokens' = OncePer(alloced_tokens \cup {0}, freed_tokens)
        /\ Obtained /\ strings \subseteq tokens
    BY <1>10 DEF Cleanup, TokensInv, ToBeFreed, Obtained
  <2>2. \A n \in tokens : freed_tokens'[n] = 1
    BY <1>0, <2>1, OnceFreed DEF Obtained
  <2> QED
    BY <2>1, <2>2 DEF TokensInv, TokensFreedOnce, Obtained, alloced_tokens
<1>11. CASE ReleaseArray
  BY <1>11 DEF ReleaseArray, TokensInv, TokensFreedOnce, alloced_tokens
<1>12. CASE UNCHANGED line_vars
  BY <1>12 DEF TokensInv, TokensFreedOnce, alloced_tokens, line_vars, vars, line
<1> QED
  BY <1>1, <1>2, <1>3, <1>4, <1>6, <1>7, <1>8, <1>9, <1>10, <1>11, <1>12 DEF LineNext

-----------------------------------------------------------------------------
(* The line: its strings                                                    *)

LEMMA StringsStep ==
    ASSUME ReadInv, TokensInv, StringsInv, [LineNext]_line_vars
    PROVE  StringsInv'
<1>0. alloced_tokens \subseteq 1 .. 3 /\ 0 \notin alloced_tokens
  BY OperandsAre
<1> DEFINE Reading == {"line", "operands", "loop", "return", "add_elm"}
<1>1. ASSUME in_token = strings, NotStored, freed_strings = Never,
             in_token' = strings', UNCHANGED <<elements, freed_strings>>,
             pc' \in Reading \cup {"cleanup", "crashed"}
      PROVE  StringsInv'
  BY <1>1 DEF StringsInv, NotStored
<1>2. CASE NoFirstToken \/ EndOrUnknown
  <2>1. /\ pc' = "returned" /\ NotStored' /\ freed_strings' = Never
        /\ in_token' = strings' /\ arg_tokens' = <<>> /\ strings' \subseteq {0}
    BY <1>2 DEF NoFirstToken, EndOrUnknown, Obtain, StringsInv, NotStored, ReadInv, TokensInv, line
  <2>2. alloced_tokens' = {}
    <3>1. Len(<<>>) = 0 /\ 1 .. 0 = {}
      OBVIOUS
    <3> QED
      BY <2>1, <3>1 DEF alloced_tokens
  <2>3. OncePer({}, Never) = Never
    <3>1. OncePer({}, Never) = [n \in 0 .. 3 |-> Never[n]]
      BY DEF OncePer
    <3> QED
      BY <3>1 DEF Never
  <2>4. in_token' = OfFirst' /\ OfOperands' = {}
    BY <2>1, <2>2 DEF OfFirst, OfOperands
  <2> QED
    BY <2>1, <2>3, <2>4 DEF StringsInv
<1>3. CASE FirstToken \/ ReadOperand
  BY <1>1, <1>3 DEF FirstToken, ReadOperand, MoreOperands, Obtain, StringsInv
<1>4. CASE NoOperand \/ OperandsRead \/ Check \/ Checked \/ StoreLabel
  BY <1>1, <1>4 DEF NoOperand, MoreOperands, OperandsRead, Check, ArgFails, ArgFits, AllFit, Checked, StoreLabel,
     StringsInv, line
<1>5. CASE AddElm
  <2>1. /\ in_token = strings /\ elements = <<>> /\ freed_strings' = Never
        /\ pc' = "add_elm_again" /\ UNCHANGED <<arg_tokens, strings>>
        /\ in_token' = OfFirst /\ elements' = Append(elements, WithStrings)
    BY <1>5 DEF AddElm, StringsInv, NotStored, LeavesStrings, OfFirst, WithStrings
  <2>2. elements' = <<WithStrings>>
    BY <2>1
  <2>3. WithStrings' = WithStrings /\ OfFirst' = OfFirst
    BY <2>1 DEF WithStrings, OfFirst, alloced_tokens
  <2> QED
    BY <2>1, <2>2, <2>3 DEF StringsInv, StoredOnce
<1>6. CASE AddElmAgain
  <2>1. /\ in_token = OfFirst /\ StoredOnce /\ freed_strings' = Never
        /\ UNCHANGED <<arg_tokens, strings>>
    BY <1>6 DEF AddElmAgain, StringsInv
  <2>2. WithStrings' = WithStrings /\ OfFirst' = OfFirst /\ Emptied' = Emptied
    BY <2>1 DEF WithStrings, OfFirst, Emptied, alloced_tokens
  <2>3. CASE pc' = "aborted" /\ UNCHANGED <<elements, in_token>>
    BY <2>1, <2>2, <2>3 DEF StringsInv, StoredOnce
  <2>4. CASE /\ elements' = Append(elements, [n \in alloced_tokens |-> {n} \cap in_token])
             /\ in_token' = LeavesStrings /\ pc' = "cleanup"
    <3>1. [n \in alloced_tokens |-> {n} \cap in_token] = Emptied
      BY <2>1 DEF Emptied, OfFirst
    <3>2. elements' = <<WithStrings, Emptied>>
      <4>1. ASSUME NEW a, NEW b PROVE Append(<<a>>, b) = <<a, b>>
        <5>1. <<a>> \in Seq({a, b}) /\ <<a, b>> \in Seq({a, b}) /\ Len(<<a>>) = 1 /\ Len(<<a, b>>) = 2
          OBVIOUS
        <5>2. /\ Append(<<a>>, b) \in Seq({a, b}) /\ Len(Append(<<a>>, b)) = 2
              /\ Append(<<a>>, b)[1] = a /\ Append(<<a>>, b)[2] = b
          BY <5>1
        <5>3. \A n \in 1 .. 2 : Append(<<a>>, b)[n] = <<a, b>>[n]
          BY <5>2
        <5> QED
          BY <5>1, <5>2, <5>3, SeqEqual
      <4>2. elements' = Append(<<WithStrings>>, Emptied)
        BY <2>1, <2>4, <3>1 DEF StoredOnce
      <4> QED
        BY <4>1, <4>2
    <3>3. in_token' = OfFirst
      BY <2>1, <2>4 DEF LeavesStrings, OfFirst
    <3> QED
      BY <2>1, <2>2, <2>4, <3>2, <3>3 DEF StringsInv, StoredTwice
  <2> QED
    BY <1>6, <2>3, <2>4 DEF AddElmAgain
<1>7. CASE NoRoom
  <2>1. /\ UNCHANGED <<arg_tokens, line>> /\ pc \in {"add_elm", "add_elm_again"} /\ pc' = "cleanup"
    BY <1>7 DEF NoRoom
  <2> QED
    BY <2>1 DEF StringsInv, NotStored, StoredOnce, StoredTwice, WithStrings, OfFirst, alloced_tokens, line
<1>8. CASE Cleanup
  <2>1. /\ pc = "cleanup" /\ pc' = "returned" /\ freed_strings = Never
        /\ UNCHANGED <<arg_tokens, strings, elements>>
        /\ in_token' = in_token \ alloced_tokens
        /\ freed_strings' = OncePer(in_token \cap alloced_tokens, Never)
    BY <1>8 DEF Cleanup, StringsInv, ToBeFreed
  <2>2. /\ WithStrings' = WithStrings /\ OfFirst' = OfFirst /\ Emptied' = Emptied
        /\ OfOperands' = OfOperands
    BY <2>1 DEF WithStrings, OfFirst, OfOperands, Emptied, alloced_tokens
  <2>3. CASE in_token = strings /\ NotStored
    <3>1. in_token' = OfFirst /\ in_token \cap alloced_tokens = OfOperands
      BY <2>1, <2>3 DEF OfFirst, OfOperands
    <3> QED
      BY <2>1, <2>2, <2>3, <3>1 DEF StringsInv, NotStored
  <2>4. CASE in_token = OfFirst /\ (StoredOnce \/ StoredTwice)
    <3>1. in_token' = OfFirst /\ in_token \cap alloced_tokens = {}
      BY <2>1, <2>4 DEF OfFirst
    <3>2. OncePer({}, Never) = Never
      <4>1. OncePer({}, Never) = [n \in 0 .. 3 |-> Never[n]]
        BY DEF OncePer
      <4> QED
        BY <4>1 DEF Never
    <3> QED
      BY <2>1, <2>2, <2>4, <3>1, <3>2 DEF StringsInv, StoredOnce, StoredTwice
  <2> QED
    BY <2>1, <2>3, <2>4 DEF StringsInv
<1>9. CASE ReleaseArray
  BY <1>9 DEF ReleaseArray, StringsInv
<1>10. CASE UNCHANGED line_vars
  BY <1>10 DEF StringsInv, NotStored, StoredOnce, StoredTwice, WithStrings, Emptied, OfFirst, OfOperands,
     alloced_tokens, line_vars, vars, line
<1> QED
  BY <1>2, <1>3, <1>4, <1>5, <1>6, <1>7, <1>8, <1>9, <1>10 DEF LineNext

(* Which elements point to a string.                                        *)
LEMMA ElementsAre ==
    ASSUME NEW n
    PROVE  /\ NotStored => Elements(n) = {}
           /\ StoredOnce \/ StoredTwice => Elements(n) = IF n \in OfOperands THEN {1} ELSE {}
<1>1. ASSUME NotStored PROVE Elements(n) = {}
  BY <1>1 DEF NotStored, Elements
<1>2. ASSUME StoredOnce \/ StoredTwice
      PROVE  Elements(n) = IF n \in OfOperands THEN {1} ELSE {}
  <2> DEFINE Has(e) == \E k \in DOMAIN elements[e] : n \in elements[e][k]
  <2>1. /\ 1 \in DOMAIN elements /\ elements[1] = WithStrings
        /\ \A e \in DOMAIN elements : e # 1 => elements[e] = Emptied
    BY <1>2 DEF StoredOnce, StoredTwice
  <2>2. Has(1) <=> n \in OfOperands
    BY <2>1 DEF WithStrings, OfOperands
  <2>3. \A e \in DOMAIN elements : e # 1 => ~Has(e)
    BY <2>1 DEF Emptied
  <2>4. Elements(n) = {e \in DOMAIN elements : Has(e)}
    BY DEF Elements
  <2> QED
    BY <2>1, <2>2, <2>3, <2>4
<1> QED
  BY <1>1, <1>2

-----------------------------------------------------------------------------
(* The properties                                                           *)

(* Label by label: how far the check has come, which tokens the line has,   *)
(* and who points to their strings.                                         *)
THEOREM LineIsInductive == LineSpec => []LineInv
<1>1. ASSUME LineInit PROVE LineInv
  <2>1. Len(arg_tokens) = 0 /\ arg_tokens \in Seq(AllTokens)
    BY <1>1 DEF LineInit
  <2> QED
    BY <1>1, <2>1 DEF LineInit, LineInv, CheckInv, ReadInv, FirstInv, Labels, TokensInv, TokensFreedOnce, StringsInv,
       NotStored
<1>2. ASSUME LineInv, [LineNext]_line_vars PROVE LineInv'
  BY <1>2, ReadStep, FirstStep, TokensStep, StringsStep DEF LineInv
<1> QED
  BY <1>1, <1>2, PTL DEF LineSpec

LEMMA StringsOfTheLine ==
    ASSUME LineInv
    PROVE  /\ alloced_tokens \subseteq 1 .. 3 /\ 0 \notin alloced_tokens
           /\ strings \subseteq {0} \cup alloced_tokens
           /\ OfOperands \cap {0} = {} /\ OfFirst \subseteq {0}
           /\ strings = OfOperands \cup OfFirst /\ OfOperands \cap OfFirst = {}
<1>1. alloced_tokens \subseteq 1 .. 3 /\ 0 \notin alloced_tokens
  BY OperandsAre DEF LineInv
<1>2. strings \subseteq {0} \cup alloced_tokens
  BY DEF LineInv, TokensInv
<1> QED
  BY <1>1, <1>2 DEF OfOperands, OfFirst

LEMMA OwnedOnce ==
    ASSUME LineInv
    PROVE  StringsOwnedOnce
<1> SUFFICES ASSUME pc # "released", NEW n \in strings
             PROVE  /\ Owners(n) + freed_strings[n] = 1
                    /\ n \in in_token /\ freed_tokens[n] > 0 => n = 0
  BY DEF StringsOwnedOnce
<1>1. n \in 0 .. 3 /\ (n \in OfOperands <=> n \notin OfFirst) /\ (n \in OfFirst => n = 0)
  BY StringsOfTheLine
<1>2. /\ Never[n] = 0
      /\ OncePer(OfOperands, Never)[n] = IF n \in OfOperands THEN 1 ELSE 0
  BY <1>1, OnceFreed
<1>3. Cardinality({}) = 0 /\ Cardinality({1}) = 1
  BY FS_EmptySet, FS_Singleton
<1>4. ASSUME in_token = strings, NotStored, freed_strings = Never
      PROVE  Owners(n) + freed_strings[n] = 1
  BY <1>2, <1>3, <1>4, ElementsAre DEF Owners
<1>5. ASSUME in_token = OfFirst, (StoredOnce \/ StoredTwice), freed_strings = Never
      PROVE  Owners(n) + freed_strings[n] = 1
  BY <1>1, <1>2, <1>3, <1>5, ElementsAre DEF Owners
<1>6. ASSUME in_token = OfFirst, NotStored, freed_strings = OncePer(OfOperands, Never)
      PROVE  Owners(n) + freed_strings[n] = 1
  BY <1>1, <1>2, <1>3, <1>6, ElementsAre DEF Owners
<1>7. pc \in {"line", "operands", "loop", "return", "add_elm", "add_elm_again", "aborted", "crashed",
              "cleanup", "returned"}
  BY DEF LineInv, ReadInv, Labels
<1>8. Owners(n) + freed_strings[n] = 1
  BY <1>4, <1>5, <1>6, <1>7 DEF LineInv, StringsInv
<1>9. ASSUME n \in in_token, freed_tokens[n] > 0 PROVE n = 0
  <2>1. CASE pc = "returned"
    BY <1>1, <1>9, <2>1 DEF LineInv, StringsInv
  <2>2. CASE pc # "returned"
    <3>1. freed_tokens = Never
      BY <2>2 DEF LineInv, TokensInv
    <3> QED
      BY <1>2, <1>9, <3>1
  <2> QED
    BY <2>1, <2>2
<1> QED
  BY <1>8, <1>9

(* However parser_parse_line is left, a token it obtained was freed once,   *)
(* but for the one that ended the program or spelled nothing.               *)
THEOREM TokensAreFreedOnce == LineSpec => []TokensFreedOnce
<1>1. LineInv => TokensFreedOnce
  BY DEF LineInv, TokensInv
<1> QED
  BY <1>1, LineIsInductive, PTL

(* A string is freed or pointed to by one token or one operand of the       *)
(* array, also when the line is stored twice.                               *)
THEOREM StringsAreOwnedOnce == LineSpec => []StringsOwnedOnce
BY LineIsInductive, OwnedOnce, PTL

(* The check inside of the line, with the tokens the line has read, names   *)
(* the first operand that does not fit.                                     *)
THEOREM LineNamesFirstMisfit == LineSpec => []FirstMisfitNamed
<1>1. LineInv => FirstMisfitNamed
  BY CheckedRight DEF LineInv
<1> QED
  BY <1>1, LineIsInductive, PTL

(* A line that begins with an instruction and passes the check has its      *)
(* label where the instruction has a label, and no other; and a line that   *)
(* ends the process at a label that is not there began with a number or an  *)
(* address.                                                                 *)
THEOREM LineKeepsLabelsApart == LineSpec => []LabelsWhereLabelsBelong
<1>1. LineInv => LabelsWhereLabelsBelong
  BY LabelsRight DEF LineInv, FirstInv, LabelsWhereLabelsBelong
<1> QED
  BY <1>1, LineIsInductive, PTL

LEMMA ReleaseStep ==
    ASSUME LineInv, ReleaseArray, NEW n \in strings
    PROVE  freed_strings'[n] = IF n = 0 \/ (n > 1 /\ Elements(n) # {}) THEN 0 ELSE 1
<1> DEFINE firsts == UNION {FirstOperand(elements[e]) : e \in DOMAIN elements}
<1>1. freed_strings' = OncePer(firsts, freed_strings) /\ pc = "returned"
  BY DEF ReleaseArray
<1>2. n \in 0 .. 3 /\ (n \in OfOperands <=> n # 0) /\ strings \subseteq {0} \cup alloced_tokens
  BY StringsOfTheLine
<1>3. /\ freed_strings'[n] = IF n \in firsts THEN freed_strings[n] + 1 ELSE freed_strings[n]
      /\ Never[n] = 0
      /\ OncePer(OfOperands, Never)[n] = IF n \in OfOperands THEN 1 ELSE 0
  <2> HIDE DEF firsts
  <2>1. OncePer(firsts, freed_strings)[n] = IF n \in firsts THEN freed_strings[n] + 1 ELSE freed_strings[n]
    BY <1>2, OnceFreed
  <2> QED
    BY <1>1, <1>2, <2>1, OnceFreed
<1>4. CASE NotStored /\ freed_strings = OncePer(OfOperands, Never)
  <2>1. n \notin firsts
    BY <1>4 DEF NotStored
  <2> QED
    BY <1>2, <1>3, <1>4, <2>1, ElementsAre
<1>5. CASE (StoredOnce \/ StoredTwice) /\ freed_strings = Never
  <2>1. /\ 1 \in DOMAIN elements /\ elements[1] = WithStrings
        /\ \A e \in DOMAIN elements : e # 1 => elements[e] = Emptied
    BY <1>5 DEF StoredOnce, StoredTwice
  <2>2. \A e \in DOMAIN elements : e # 1 => FirstOperand(elements[e]) = {}
    BY <2>1 DEF Emptied, FirstOperand
  <2>3. n \in firsts <=> n \in FirstOperand(WithStrings)
    BY <2>1, <2>2
  <2>4. n \in FirstOperand(WithStrings) <=> n = 1
    BY <1>2 DEF FirstOperand, WithStrings
  <2> QED
    BY <1>2, <1>3, <1>5, <2>3, <2>4, ElementsAre
<1> QED
  BY <1>1, <1>4, <1>5 DEF LineInv, StringsInv

(* The release of the array frees what is left of the strings of a line but *)
(* for three: the one it began with, and those of its second and third      *)
(* operand if it was stored.                                                *)
THEOREM ReleaseLosesThree == LineSpec => ReleaseFreesTheRest
<1>1. ASSUME LineInv, [LineNext]_line_vars
      PROVE  [pc' = "released" =>
                 \A n \in strings :
                     freed_strings'[n] = IF n = 0 \/ (n > 1 /\ Elements(n) # {}) THEN 0 ELSE 1]_line_vars
  <2> SUFFICES ASSUME LineNext, pc' = "released"
               PROVE  \A n \in strings :
                          freed_strings'[n] = IF n = 0 \/ (n > 1 /\ Elements(n) # {}) THEN 0 ELSE 1
    BY <1>1
  <2>1. ReleaseArray
    BY DEF LineNext, NoFirstToken, EndOrUnknown, FirstToken, NoOperand, ReadOperand, OperandsRead, Check,
       ArgFails, ArgFits, AllFit, Checked, StoreLabel, AddElm, AddElmAgain, NoRoom, Cleanup, MoreOperands
  <2> QED
    BY <1>1, <2>1, ReleaseStep
<1> QED
  BY <1>1, LineIsInductive, PTL DEF LineSpec, ReleaseFreesTheRest
=============================================================================
