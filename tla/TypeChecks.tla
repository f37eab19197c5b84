----------------------------- MODULE TypeChecks -----------------------------
(***************************************************************************)
(* instruction_args_valid of type_checks.c: a loop over the operands of    *)
(* one instruction that stops at the first whose token does not fit.  The  *)
(* parser calls it with as many tokens as the opcode has operands.         *)
(***************************************************************************)
EXTENDS Opcodes, Integers

CONSTANT Words     \* the words taken for opcodes

ASSUME WordsAssumption == Opcodes \cup {INS_UNKNOWN} \subseteq Words /\ Words \subseteq OpcodeWords

VARIABLES
    opcode, arg_tokens,   \* the arguments
    i,                    \* the loop counter, from 0
    result, failed_arg,   \* what is returned
    pc

vars == <<opcode, arg_tokens, i, result, failed_arg, pc>>

ALL_ARGS_VALID == -1

FitsHere == Fits(opcode, i + 1, arg_tokens[i + 1])

(* The call, with any opcode and any tokens that can be operands.           *)
Init ==
    /\ opcode \in Words
    /\ arg_tokens \in [1 .. get_number_opperands(opcode) -> OperandTokens]
    /\ i = 0
    /\ result = FALSE
    /\ failed_arg = ALL_ARGS_VALID
    /\ pc = "loop"

FailedAfter == i + 1
FailedHere == i

ArgFails ==
    /\ pc = "loop" /\ i < get_number_opperands(opcode) /\ ~FitsHere
    /\ result' = FALSE
    /\ failed_arg' = FailedHere
    /\ pc' = "return"
    /\ UNCHANGED <<opcode, arg_tokens, i>>

ArgFits ==
    /\ pc = "loop" /\ i < get_number_opperands(opcode) /\ FitsHere
    /\ i' = i + 1
    /\ UNCHANGED <<opcode, arg_tokens, result, failed_arg, pc>>

AllFit ==
    /\ pc = "loop" /\ i = get_number_opperands(opcode)
    /\ result' = TRUE
    /\ failed_arg' = ALL_ARGS_VALID
    /\ pc' = "return"
    /\ UNCHANGED <<opcode, arg_tokens, i>>

Next == ArgFails \/ ArgFits \/ AllFit
Spec == Init /\ [][Next]_vars

-----------------------------------------------------------------------------
(* The language of the operands, written without masks: the tokens that    *)
(* each bit of an operand type lets in.  A variable needs two of them.      *)
Takes(type) ==
    (IF 0 \in type THEN SymbolTokens ELSE {})
    \cup (IF 0 \in type /\ 1 \in type THEN {"VARIABLE"} ELSE {})
    \cup (IF 2 \in type THEN {"LABEL"} ELSE {})
    \cup (IF 3 \in type THEN {"TYPE"} ELSE {})

Misfits == {n \in 1 .. opcode.count : arg_tokens[n] \notin Takes(opcode.types[n])}

(* The loop accepts exactly the argument lists that the bit masks of        *)
(* opcodes.h allow, and for every other one it names the first argument     *)
(* that does not fit, whatever word it is given.                            *)
FirstMisfitNamed ==
    pc = "return" =>
        IF result THEN Misfits = {} /\ failed_arg = ALL_ARGS_VALID
        ELSE /\ failed_arg + 1 \in Misfits
             /\ \A n \in Misfits : failed_arg < n
=============================================================================
