----------------------------- MODULE LineTokens -----------------------------
(***************************************************************************)
(* One call of parser_parse_line with the tokens it obtains, checks, hands *)
(* over and frees (tokens.c), the element of ir_array.c that takes their   *)
(* strings, and the release of the array.  Parser has the same line        *)
(* without its memory; here the memory is the matter, and TypeChecks is    *)
(* the check of the operands in the middle.                                *)
(*                                                                         *)
(* Token 0 is the one the line begins with, token n its n-th operand; its  *)
(* string, if it owns one, has the same name.  Tokens may have any type    *)
(* that the check and token_free know, also those which today's lexer does *)
(* not make.  With the assertions of the default build or without them:    *)
(* either outcome may follow.                                              *)
(***************************************************************************)
EXTENDS TypeChecks, FiniteSets

VARIABLES
    first,               \* the type of the token the line begins with
    tokens, strings,     \* what was allocated: the tokens, and the strings in them
    in_token,            \* the strings that a token points to
    elements,            \* the array: for each element the strings it points to
    freed_tokens, freed_strings     \* how often each was freed

line == <<first, tokens, strings, in_token, elements, freed_tokens, freed_strings>>
line_vars == <<vars, line>>
check_vars == <<opcode, i, result, failed_arg>>

Never == [n \in 0 .. 3 |-> 0]
OncePer(S, freed) == [n \in 0 .. 3 |-> IF n \in S THEN freed[n] + 1 ELSE freed[n]]

AllTokens == OperandTokens \cup {"INSTRUCTION", "UNKNOWN", "EOF"}
OwnsString(type) == type \in {"LABEL", "STRING", "TYPE", "VARIABLE"}

alloced_tokens == 1 .. Len(arg_tokens)

Obtain(n, type) ==
    /\ tokens' = tokens \cup {n}
    /\ strings' = IF OwnsString(type) THEN strings \cup {n} ELSE strings
    /\ in_token' = IF OwnsString(type) THEN in_token \cup {n} ELSE in_token

-----------------------------------------------------------------------------
(* The first four bytes of a token's value, taken for an opcode.  A frame,  *)
(* nil and a Boolean are the numbers 0 to 2; a number, or the address of a  *)
(* text, can be any word.                                                   *)
SmallNumbers == {w \in Words : w.number = 0 /\ w.count = 0 /\ w.types[1] = {} /\ w.types[2] = {}
                                /\ w.types[3] \in {{}, {0}, {1}}}
OpcodesOf(type) ==
    CASE type = "INSTRUCTION"                  -> Opcodes
      [] type \in {"VARIABLE", "NIL", "BOOL"} -> SmallNumbers
      [] OTHER                                 -> Words

NoFirstToken ==
    /\ pc = "line"
    /\ pc' = "returned"
    /\ UNCHANGED <<check_vars, arg_tokens, line>>

(* The token stays: the labels that free it are behind the jump.            *)
EndOrUnknown ==
    /\ pc = "line"
    /\ first' \in {"UNKNOWN", "EOF"}
    /\ Obtain(0, first')
    /\ pc' = "returned"
    /\ UNCHANGED <<check_vars, arg_tokens, elements, freed_tokens, freed_strings>>

FirstToken ==
    /\ pc = "line"
    /\ first' \in AllTokens \ {"UNKNOWN", "EOF"}
    /\ Obtain(0, first')
    /\ opcode' \in OpcodesOf(first')
    /\ pc' = "operands"
    /\ UNCHANGED <<arg_tokens, i, result, failed_arg, elements, freed_tokens, freed_strings>>

MoreOperands == pc = "operands" /\ Len(arg_tokens) < get_number_opperands(opcode)

NoOperand ==
    /\ MoreOperands
    /\ pc' = "cleanup"
    /\ UNCHANGED <<check_vars, arg_tokens, line>>

ReadOperand ==
    /\ MoreOperands
    /\ \E type \in AllTokens :
          /\ arg_tokens' = Append(arg_tokens, type)
          /\ Obtain(Len(arg_tokens'), type)
          /\ pc' = IF type \in OperandTokens THEN "operands" ELSE "cleanup"
    /\ UNCHANGED <<check_vars, first, elements, freed_tokens, freed_strings>>

OperandsRead ==
    /\ pc = "operands" /\ Len(arg_tokens) = get_number_opperands(opcode)
    /\ pc' = "loop"
    /\ UNCHANGED <<check_vars, arg_tokens, line>>

Check == (ArgFails \/ ArgFits \/ AllFit) /\ UNCHANGED line

FirstOwnsText == arg_tokens # <<>> /\ arg_tokens[1] \in {"LABEL", "STRING", "TYPE"}

Checked ==
    /\ pc = "return"
    /\ \/ ~result /\ pc' = "cleanup"
       \/ result /\ ~has_label(opcode) /\ pc' = "add_elm"
    /\ UNCHANGED <<check_vars, arg_tokens, line>>

(* parser_store_label reads the first operand as one that owns a text.  The *)
(* bytes of a value of another type are no address, or they are; without an *)
(* operand there is a null pointer.                                         *)
StoreLabel ==
    /\ pc = "return" /\ result /\ has_label(opcode)
    /\ \/ arg_tokens # <<>> /\ pc' \in {"add_elm", "cleanup"}
       \/ ~FirstOwnsText /\ pc' = "crashed"
    /\ UNCHANGED <<check_vars, arg_tokens, line>>

-----------------------------------------------------------------------------
(* token_move, for every operand: the strings are in the element only.      *)
CopiesStrings == in_token
LeavesStrings == in_token \ alloced_tokens

AddElm ==
    /\ pc = "add_elm"
    /\ elements' = Append(elements, [n \in alloced_tokens |-> {n} \cap in_token])
    /\ in_token' = LeavesStrings
    /\ pc' = "add_elm_again"
    /\ UNCHANGED <<check_vars, arg_tokens, first, tokens, strings, freed_tokens, freed_strings>>

(* The second call has the emptied tokens: an assertion fails, or the       *)
(* element has operands without strings.                                    *)
AddElmAgain ==
    /\ pc = "add_elm_again"
    /\ \/ /\ elements' = Append(elements, [n \in alloced_tokens |-> {n} \cap in_token])
          /\ in_token' = LeavesStrings
          /\ pc' = "cleanup"
       \/ /\ alloced_tokens \cap (strings \ in_token) # {}
          /\ pc' = "aborted"
          /\ UNCHANGED <<elements, in_token>>
    /\ UNCHANGED <<check_vars, arg_tokens, first, tokens, strings, freed_tokens, freed_strings>>

NoRoom ==
    /\ pc \in {"add_elm", "add_elm_again"}
    /\ pc' = "cleanup"
    /\ UNCHANGED <<check_vars, arg_tokens, line>>

AllButLast == 1 .. Len(arg_tokens) - 1
ToBeFreed == alloced_tokens

(* The operands with token_free, the first token without.                   *)
Cleanup ==
    /\ pc = "cleanup"
    /\ freed_strings' = OncePer(in_token \cap ToBeFreed, freed_strings)
    /\ freed_tokens' = OncePer(ToBeFreed \cup {0}, freed_tokens)
    /\ in_token' = in_token \ ToBeFreed
    /\ pc' = "returned"
    /\ UNCHANGED <<check_vars, arg_tokens, first, tokens, strings, elements>>

(* __elm_array_clear calls token_free once for each operand, always on the  *)
(* first of a copy of the element.                                          *)
NoOperands(elm) == {}
FirstOperand(elm) == UNION {elm[n] : n \in DOMAIN elm \cap {1}}

ReleaseArray ==
    /\ pc = "returned"
    /\ freed_strings' = OncePer(UNION {FirstOperand(elements[e]) : e \in DOMAIN elements}, freed_strings)
    /\ elements' = <<>>
    /\ pc' = "released"
    /\ UNCHANGED <<check_vars, arg_tokens, first, tokens, strings, in_token, freed_tokens>>

-----------------------------------------------------------------------------
LineInit ==
    /\ opcode = INS_UNKNOWN
    /\ arg_tokens = <<>>
    /\ i = 0
    /\ result = FALSE
    /\ failed_arg = ALL_ARGS_VALID
    /\ pc = "line"
    /\ first = "NONE"
    /\ tokens = {} /\ strings = {} /\ in_token = {}
    /\ elements = <<>>
    /\ freed_tokens = Never /\ freed_strings = Never

LineNext ==
    \/ NoFirstToken \/ EndOrUnknown \/ FirstToken
    \/ NoOperand \/ ReadOperand \/ OperandsRead
    \/ Check \/ Checked \/ StoreLabel
    \/ AddElm \/ AddElmAgain \/ NoRoom
    \/ Cleanup \/ ReleaseArray

LineSpec == LineInit /\ [][LineNext]_line_vars

-----------------------------------------------------------------------------
(* In a line that begins with an instruction no label ends up where the     *)
(* interpreter reads a value or a variable, and no value where it looks up  *)
(* a label: has_label, by which the parser decides to record a label,       *)
(* agrees with the tokens that were accepted.  What else a line begins with *)
(* can spell a word whose label is no label, or is not there; but only a    *)
(* number and an address can.                                               *)
LabelsWhereLabelsBelong ==
    /\ pc = "return" /\ result /\ first = "INSTRUCTION" =>
          /\ has_label(opcode) <=> arg_tokens # <<>> /\ arg_tokens[1] = "LABEL"
          /\ \A n \in 2 .. Len(arg_tokens) : arg_tokens[n] # "LABEL"
    /\ pc = "crashed" => first \in {"INT", "FLOAT", "STRING", "LABEL", "TYPE"}

(* Whatever way parser_parse_line is left, every token it obtained has been *)
(* freed once, unless it is the one that ended the program or spelled       *)
(* nothing: that one is lost.                                               *)
TokensFreedOnce ==
    pc \in {"returned", "released"} =>
        \A n \in tokens :
            freed_tokens[n] = IF n = 0 /\ first \in {"UNKNOWN", "EOF"} THEN 0 ELSE 1

Elements(n) == {e \in DOMAIN elements : \E k \in DOMAIN elements[e] : n \in elements[e][k]}
Owners(n) == Cardinality(Elements(n)) + (IF n \in in_token THEN 1 ELSE 0)

(* Until the array is released a string is freed, never to be freed again,  *)
(* or pointed to by one token or by one operand of one element, although    *)
(* the line is stored twice; and no pointer is left in a freed token but    *)
(* that of a string the line begins with.                                   *)
StringsOwnedOnce ==
    pc # "released" =>
        \A n \in strings :
            /\ Owners(n) + freed_strings[n] = 1
            /\ n \in in_token /\ freed_tokens[n] > 0 => n = 0

(* When the array goes too, three strings are lost, and no others: the one  *)
(* that a line begins with, and those of the second and the third operand   *)
(* of a line that was stored.                                               *)
ReleaseFreesTheRest ==
    [][pc' = "released" =>
          \A n \in strings :
              freed_strings'[n] = IF n = 0 \/ (n > 1 /\ Elements(n) # {}) THEN 0 ELSE 1]_line_vars
=============================================================================
