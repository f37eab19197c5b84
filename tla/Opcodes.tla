------------------------------ MODULE Opcodes -------------------------------
(***************************************************************************)
(* The instruction set of opcodes.h and the operand check of               *)
(* type_checks.c.  An opcode is a word of 32 bits with fields for the      *)
(* operand count, the instruction number and the type of each of three     *)
(* operands; here it is the record of those fields, and an operand type,   *)
(* which the code compares bit by bit, is the set of its bits.  The fields *)
(* are independent: a word that is no instruction may have types for more  *)
(* operands than it counts.                                                *)
(***************************************************************************)
EXTENDS Naturals, Sequences

OP_SYMBOL   == {0}
OP_VARIABLE == {0, 1}
OP_LABEL    == {2}
OP_TYPE     == {3}

Opcode(number, types) ==
    [number |-> number,
     count  |-> Len(types),
     types  |-> [n \in 1..3 |-> IF n \in DOMAIN types THEN types[n] ELSE {}]]

(* Every word: 6, 2 and three times 8 bits.                                 *)
OpcodeWords == [number : 0..63, count : 0..3, types : [1..3 -> SUBSET (0..7)]]

(* The operand types of the instructions, by their numbers.                 *)
Var_Sym_Sym   == <<OP_VARIABLE, OP_SYMBOL, OP_SYMBOL>>
Label_Sym_Sym == <<OP_LABEL, OP_SYMBOL, OP_SYMBOL>>
Var_Sym       == <<OP_VARIABLE, OP_SYMBOL>>

INS_UNKNOWN  == Opcode(0, <<>>)
INS_MOVE     == Opcode(10, Var_Sym)
INS_CREATE_F == Opcode(35, <<>>)
INS_PUSH_F   == Opcode(32, <<>>)
INS_POP_F    == Opcode(33, <<>>)
INS_DEFVAR   == Opcode(22, <<OP_VARIABLE>>)
INS_CALL     == Opcode(11, <<OP_LABEL>>)
INS_RETURN   == Opcode(23, <<>>)
INS_PUSHS    == Opcode(18, <<OP_SYMBOL>>)
INS_POPS     == Opcode(12, <<>>)
INS_READ     == Opcode(14, <<OP_SYMBOL, OP_TYPE>>)
INS_LABEL    == Opcode(20, <<OP_LABEL>>)
INS_JUMP     == Opcode(16, <<OP_LABEL>>)
INS_JUMPEQ   == Opcode(31, Label_Sym_Sym)
INS_JUMPNEQ  == Opcode(34, Label_Sym_Sym)

(* ADD, SUB, MUL, IDIV, LT, GT, EQ, AND, OR, NOT, STR2INT, CONCAT, GETCHAR  *)
(* and SETCHAR; INT2CHAR, STRLEN and TYPE; WRITE, EXIT and DPRINT; BREAK.   *)
OtherOpcodes ==
    {Opcode(n, Var_Sym_Sym) : n \in (1..9) \cup {13, 24, 27, 28, 29}}
    \cup {Opcode(n, Var_Sym) : n \in {15, 25, 30}}
    \cup {Opcode(n, <<OP_SYMBOL>>) : n \in {17, 19, 26}}
    \cup {Opcode(21, <<>>)}

Opcodes ==
    {INS_MOVE, INS_CREATE_F, INS_PUSH_F, INS_POP_F, INS_DEFVAR, INS_CALL,
     INS_RETURN, INS_PUSHS, INS_POPS, INS_READ, INS_LABEL, INS_JUMP,
     INS_JUMPEQ, INS_JUMPNEQ} \cup OtherOpcodes

get_number_opperands(opcode) == opcode.count
get_operand_type(opcode, i)  == opcode.types[i]

(* One bit of the field of the first operand, whether there is one or not.  *)
has_label(opcode) == OP_LABEL \subseteq opcode.types[1]

(* An operand that takes labels and nothing else: so it is in every         *)
(* instruction with a label, and in some words that are none.               *)
TakesLabel(opcode) == opcode.count > 0 /\ opcode.types[1] = OP_LABEL

(* (opt1 & opt2) == opt2: opt1 is the instruction's type, opt2 the token's. *)
compare_operand_types(opt1, opt2) == opt2 \subseteq opt1

-----------------------------------------------------------------------------
(* Token types of operands and what the instruction set makes of them.      *)

SymbolTokens  == {"INT", "STRING", "FLOAT", "BOOL", "NIL"}
OperandTokens == SymbolTokens \cup {"VARIABLE", "LABEL", "TYPE"}

UnmappedLabel(type) ==
    CASE type \in SymbolTokens -> OP_SYMBOL
      [] type = "VARIABLE"     -> OP_VARIABLE
      [] type = "LABEL"        -> {}
      [] type = "TYPE"         -> OP_TYPE

token_to_opcode(type) ==
    CASE type \in SymbolTokens -> OP_SYMBOL
      [] type = "VARIABLE"     -> OP_VARIABLE
      [] type = "LABEL"        -> OP_LABEL
      [] type = "TYPE"         -> OP_TYPE

Fits(opcode, i, type) ==
    compare_operand_types(get_operand_type(opcode, i), token_to_opcode(type))

(* What instruction_args_valid returns as its result.                       *)
ArgsValid(opcode, types) ==
    \A i \in 1 .. get_number_opperands(opcode) : Fits(opcode, i, types[i])
=============================================================================
