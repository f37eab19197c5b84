---------------------------- MODULE LineTokensMC ----------------------------
(* Instances of LineTokens for TLC: besides the instruction set the numbers *)
(* 0 to 2, and words that only a token of another type spells.  The first   *)
(* has the bit of a label and no operands (0x40000), the next take a number *)
(* or a variable for the label of their first operand, and the last takes   *)
(* labels further back.                                                     *)
EXTENDS LineTokens

Word(number, count, t1, t2, t3) == [number |-> number, count |-> count, types |-> <<t1, t2, t3>>]

MCWords ==
    Opcodes \cup {Word(0, 0, {}, {}, {}), Word(0, 0, {}, {}, {0}), Word(0, 0, {}, {}, {1})}
    \cup {Word(0, 0, OP_LABEL, {}, {}), Word(20, 1, {0, 1, 2}, {}, {7}),
          Word(63, 2, {0, 2, 3}, OP_VARIABLE, {0}), Word(10, 3, {0}, {2, 3}, {0, 1, 2})}
=============================================================================
