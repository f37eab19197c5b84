---------------------------- MODULE StringBuffer ----------------------------
(***************************************************************************)
(* The growing buffer of string_buffer.h and DynBuf.c (StringMut): a block *)
(* of cells data[0], data[1], ... of which the first length hold text.     *)
(* What lies behind them stays as it was: zeros from calloc, older text,   *)
(* or what realloc found there.                                            *)
(***************************************************************************)
EXTENDS Integers, Sequences

CONSTANTS
    NUL,     \* the zero byte
    Junk     \* what a cell that was never written holds

StringMut(data, length) == [data |-> data, length |-> length]

capacity(buf) == Len(buf.data)
cell(buf, n) == buf.data[n + 1]                 \* data[n]

sb_init(initial_capacity) == StringMut([n \in 1 .. initial_capacity |-> NUL], 0)

MustGrowWhenFull(buf) == buf.length >= capacity(buf)
MustGrow(buf) == buf.length + 1 >= capacity(buf)

Grown(buf) == [buf EXCEPT !.data = @ \o [n \in 1 .. capacity(buf) |-> Junk]]

(* Where realloc fails, sb_append_char returns false and changes nothing.   *)
sb_append_char(buf, c) ==
    LET grown == IF MustGrow(buf) THEN Grown(buf) ELSE buf
    IN  StringMut([grown.data EXCEPT ![buf.length + 1] = c], buf.length + 1)

NotReset(buf) == buf
sb_reset(buf) == [buf EXCEPT !.length = 0]

(* __sb_free                                                                *)
sb_free(buf) == StringMut(<<>>, 0)

sb_get_substring(buf, offset, len) == SubSeq(buf.data, offset + 1, offset + len)
=============================================================================
