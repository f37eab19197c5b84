------------------------------ MODULE ParserMC ------------------------------
(* Instances of Parser for TLC.  One label fills a table of two slots, and  *)
(* three one of four.  Of the words that are no instructions the first has  *)
(* a label and no operands (0x40000), and the second takes a number or a    *)
(* text for its label.                                                      *)
EXTENDS Parser, TLC

CONSTANTS a, b, c

MCLabels       == {a, b, c}
MCInstructions == {INS_LABEL, INS_JUMPEQ, INS_DEFVAR}
MCWords        == {INS_UNKNOWN, Opcode(63, <<{0, 2}>>),
                   [number |-> 0, count |-> 0, types |-> <<OP_LABEL, {}, {}>>]} \cup MCInstructions
LabelSymmetry  == Permutations(MCLabels)
=============================================================================
