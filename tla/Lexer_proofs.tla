---------------------------- MODULE Lexer_proofs ----------------------------
(***************************************************************************)
(* Theorems about Lexer, for all files and every initial capacity of the   *)
(* buffer.  First the buffer by itself: its line, the position in it and   *)
(* the cell behind it.  Then the words of a file, by the text alone: where *)
(* they start, and that what follows a word does not change what it is.    *)
(* Then the buffer against the file: the line in it is a piece of the      *)
(* file, and the tokens are the words passed.                              *)
(***************************************************************************)
EXTENDS Lexer, SequenceTheorems, FiniteSetTheorems, WellFoundedInduction, TLAPS

(* A set of numbers has a least one.                                        *)
LEMMA LeastNumber ==
    ASSUME NEW T \in SUBSET Nat, T # {}
    PROVE  \E n \in T : \A k \in T : n <= k
<1>1. PICK n \in T : \A k \in T : ~(<<k, n>> \in OpToRel(<, Nat))
  BY WFMin, NatLessThanWellFounded
<1>2. \A k \in T : <<k, n>> \in OpToRel(<, Nat) <=> k < n
  BY DEF OpToRel
<1>3. n \in Nat /\ \A k \in T : k \in Nat
  OBVIOUS
<1>4. \A k \in T : ~(k < n)
  BY <1>1, <1>2
<1>5. \A k \in T : n <= k
  BY <1>3, <1>4
<1> QED
  BY <1>5

(* The buffer, whatever is done to it.                                      *)
BufferOK(buf) == buf \in [data : Seq(Cells), length : Nat] /\ buf.length < capacity(buf)

LEMMA InitBuffer == BufferOK(sb_init(InitialCapacity))
BY LexerAssumption DEF BufferOK, sb_init, StringMut, capacity, Cells

LEMMA GrownBuffer ==
    ASSUME NEW buf, BufferOK(buf)
    PROVE  /\ Grown(buf).data \in Seq(Cells)
           /\ Grown(buf).length = buf.length
           /\ Len(Grown(buf).data) = 2 * Len(buf.data)
<1> DEFINE fresh == [n \in 1 .. capacity(buf) |-> Junk]
<1>1. Len(buf.data) \in Nat
  BY DEF BufferOK
<1>2. fresh \in Seq(Cells) /\ Len(fresh) = Len(buf.data)
  BY <1>1 DEF capacity, Cells
<1>3. Grown(buf).data = buf.data \o fresh /\ Grown(buf).length = buf.length
  BY DEF Grown, BufferOK
<1>4. buf.data \in Seq(Cells)
  BY DEF BufferOK
<1> HIDE DEF fresh
<1>5. buf.data \o fresh \in Seq(Cells)
  BY <1>2, <1>4
<1>6. Len(buf.data \o fresh) = Len(buf.data) + Len(fresh)
  BY <1>2, <1>4
<1> QED
  BY <1>1, <1>2, <1>3, <1>5, <1>6

LEMMA AppendedBuffer ==
    ASSUME NEW buf, NEW c \in Chars, BufferOK(buf)
    PROVE  BufferOK(sb_append_char(buf, c))
<1> DEFINE grown == IF MustGrow(buf) THEN Grown(buf) ELSE buf
<1>1. /\ buf.data \in Seq(Cells) /\ Len(buf.data) \in Nat
      /\ buf.length \in Nat /\ buf.length < Len(buf.data)
  BY DEF BufferOK, capacity
<1>2. grown.data \in Seq(Cells) /\ buf.length + 1 < Len(grown.data)
  BY <1>1, GrownBuffer DEF MustGrow, capacity
<1>3. sb_append_char(buf, c) = [data |-> [grown.data EXCEPT ![buf.length + 1] = c], length |-> buf.length + 1]
  BY DEF sb_append_char, StringMut
<1> HIDE DEF grown
<1>4. [grown.data EXCEPT ![buf.length + 1] = c] \in Seq(Cells)
  BY <1>1, <1>2 DEF Cells
<1>5. Len([grown.data EXCEPT ![buf.length + 1] = c]) = Len(grown.data)
  BY <1>1, <1>2
<1> QED
  BY <1>1, <1>2, <1>3, <1>4, <1>5 DEF BufferOK, capacity

LEMMA ResetBuffer ==
    ASSUME NEW buf, BufferOK(buf)
    PROVE  BufferOK(sb_reset(buf)) /\ sb_reset(buf).length = 0
BY DEF BufferOK, sb_reset, capacity

-----------------------------------------------------------------------------
(* The end of the word that starts here lies in the line, and is the first. *)
LEMMA WordEndInLine ==
    ASSUME TypeOK, ~LineUsed
    PROVE  /\ WordEnd \in current_pos_in_line + 1 .. Line.length
           /\ WordEnd = Line.length \/ EndsWord(cell(Line, WordEnd))
           /\ \A k \in current_pos_in_line + 1 .. WordEnd - 1 : ~EndsWord(cell(Line, k))
<1> DEFINE ends == {n \in current_pos_in_line + 1 .. Line.length :
                       n = Line.length \/ EndsWord(cell(Line, n))}
<1>1. current_pos_in_line \in Nat /\ Line.length \in Nat /\ current_pos_in_line < Line.length
  BY DEF TypeOK, LineUsed
<1>2. ends \in SUBSET Nat /\ Line.length \in ends
  BY <1>1
<1>3. PICK n \in ends : \A k \in ends : n <= k
  BY <1>2, LeastNumber
<1>4. \A k \in current_pos_in_line + 1 .. n - 1 : ~EndsWord(cell(Line, k))
  BY <1>1, <1>3
<1>5. \E m \in current_pos_in_line + 1 .. Line.length :
        /\ m = Line.length \/ EndsWord(cell(Line, m))
        /\ \A k \in current_pos_in_line + 1 .. m - 1 : ~EndsWord(cell(Line, k))
  BY <1>3, <1>4
<1> QED
  BY <1>5 DEF WordEnd

(* The word is a piece of the buffer.                                       *)
LEMMA WordType ==
    ASSUME TypeOK, RoomBehindLine, pc # "freed", ~LineUsed
    PROVE  Word \in Seq(Cells) \ {<<>>}
<1>1. /\ current_pos_in_line \in Nat /\ Line.length \in Nat
      /\ Line.data \in Seq(Cells) /\ Len(Line.data) \in Nat /\ Line.length < Len(Line.data)
  BY DEF TypeOK, RoomBehindLine, capacity
<1>2. WordEnd \in current_pos_in_line + 1 .. Line.length
  BY WordEndInLine
<1>3. Word = SubSeq(Line.data, current_pos_in_line + 1, WordEnd)
  BY <1>1, <1>2 DEF Word, sb_get_substring
<1>4. \A n \in current_pos_in_line + 1 .. WordEnd : Line.data[n] \in Cells
  BY <1>1, <1>2
<1>5. Len(Word) = WordEnd - current_pos_in_line
  BY <1>1, <1>2, <1>3
<1>6. Word \in Seq(Cells)
  BY <1>1, <1>2, <1>3, <1>4
<1> QED
  BY <1>1, <1>2, <1>5, <1>6

LEMMA TokenTypeType == \A word, after : TokenType(word, after) \in TokenTypes
<1> TAKE word, after
<1>1. is_literal(word) => word[1] \in {"int", "nil", "bool", "string"}
  BY DEF is_literal, StartsWith
<1>2. is_literal(word) => lex_literal(word, after) \in {"INT", "BOOL", "NIL", "STRING", "UNKNOWN"}
  BY <1>1 DEF lex_literal
<1> QED
  BY <1>2 DEF TokenType, TokenTypes

-----------------------------------------------------------------------------
(* The types and the room behind the line hold together: a word is made of  *)
(* cells of the buffer because the line lies inside it.                     *)
IInv == TypeOK /\ RoomBehindLine

LEMMA BufferInvariant == IInv /\ pc # "freed" => BufferOK(Line)
BY DEF IInv, TypeOK, RoomBehindLine, BufferOK, Line

LEMMA InitHolds == Init => IInv
<1> SUFFICES ASSUME Init PROVE IInv
  OBVIOUS
<1>1. BufferOK(Line)
  BY InitBuffer DEF Init, Line
<1>2. Line \in [data : Seq(Cells), length : Nat] /\ Line.length = 0
  BY <1>1 DEF Init, BufferOK, Line, sb_init, StringMut
<1>3. file \in Files /\ Len(file) \in Nat /\ file_pos = 0
  BY LexerAssumption DEF Init
<1>4. file_pos \in 0 .. Len(file)
  BY <1>3
<1>5. tokens \in Seq([type : TokenTypes, word : Seq(Cells) \ {<<>>}, line : Nat])
  BY DEF Init
<1>6. line_is_exhausted \in BOOLEAN /\ out_of_memory \in BOOLEAN
  BY DEF Init
<1>7. current_pos_in_line \in Nat /\ line_number \in Nat /\ current_pos_in_line <= Line.length
  BY <1>2 DEF Init
<1>8. TypeOK
  BY <1>2, <1>3, <1>4, <1>5, <1>6, <1>7 DEF Init, TypeOK
<1> QED
  BY <1>1, <1>8 DEF IInv, RoomBehindLine, BufferOK

(* What the parts of the invariant need of a step that changes the buffer.  *)
LEMMA StreamStep ==
    ASSUME IInv, BufferOK(current_line_buffer'),
           pc' \in {"reading", "scanning"},
           pc' = "scanning" => current_pos_in_line' <= current_line_buffer'.length,
           file' = file, file_pos' \in 0 .. Len(file),
           current_pos_in_line' \in Nat, line_is_exhausted' \in BOOLEAN,
           line_number' \in Nat, UNCHANGED results
    PROVE  IInv'
BY DEF IInv, TypeOK, RoomBehindLine, BufferOK, Line, results

(* A step that keeps the buffer and the tokens.                             *)
LEMMA LineStep ==
    ASSUME IInv, pc # "freed", UNCHANGED <<file, current_line_buffer, line_number, tokens>>,
           file_pos' \in 0 .. Len(file),
           pc' \in {"call", "scanning", "eof", "no_token"},
           pc' \in {"call", "scanning"} => current_pos_in_line' <= Line.length,
           current_pos_in_line' \in Nat, line_is_exhausted' \in BOOLEAN,
           out_of_memory' \in BOOLEAN
    PROVE  IInv'
BY DEF IInv, TypeOK, RoomBehindLine, Line

LEMMA TokenStep ==
    ASSUME IInv, AtWord, NEW type \in TokenTypes, ReturnToken(type), out_of_memory' \in BOOLEAN
    PROVE  IInv'
<1>1. ~LineUsed /\ pc # "freed" /\ TypeOK /\ RoomBehindLine
  BY DEF AtWord, IInv
<1>2. Word \in Seq(Cells) \ {<<>>}
  BY <1>1, WordType
<1>3. WordEnd \in current_pos_in_line + 1 .. Line.length
  BY <1>1, WordEndInLine
<1>4. [type |-> type, word |-> Word, line |-> line_number]
        \in [type : TokenTypes, word : Seq(Cells) \ {<<>>}, line : Nat]
  BY <1>1, <1>2 DEF TypeOK
<1>5. tokens' \in Seq([type : TokenTypes, word : Seq(Cells) \ {<<>>}, line : Nat])
  BY <1>1, <1>4 DEF TypeOK, ReturnToken
<1>6. current_pos_in_line' \in Nat /\ current_pos_in_line' <= Line.length
  BY <1>1, <1>3 DEF TypeOK, ReturnToken, PastWord
<1>7. pc' = "call" /\ UNCHANGED <<stream, line_is_exhausted>>
  BY DEF ReturnToken
<1>8. TypeOK'
  BY <1>1, <1>5, <1>6, <1>7 DEF TypeOK, stream, Line
<1> QED
  BY <1>1, <1>7, <1>8 DEF IInv, RoomBehindLine, stream, Line

LEMMA Step == IInv /\ [Next]_vars => IInv'
<1> SUFFICES ASSUME IInv, [Next]_vars PROVE IInv'
  OBVIOUS
<1> USE BufferInvariant
<1>0. /\ file \in Seq(Chars) /\ Len(file) \in Nat /\ file_pos \in 0 .. Len(file)
      /\ current_pos_in_line \in Nat /\ line_number \in Nat
      /\ line_is_exhausted \in BOOLEAN /\ out_of_memory \in BOOLEAN
      /\ pc \in {"call", "scanning"} => current_pos_in_line <= Line.length
      /\ Line.length \in Nat
  BY LexerAssumption DEF IInv, TypeOK
<1>1. CASE StartLine
  <2>1. BufferOK(current_line_buffer')
    BY <1>1, ResetBuffer DEF StartLine, Line
  <2> QED
    BY <1>0, <1>1, <2>1, StreamStep DEF StartLine, position
<1>2. CASE SameLine
  BY <1>0, <1>2, LineStep DEF SameLine, stream, position, results
<1>3. CASE ReadChar
  <2> DEFINE c == file[file_pos + 1]
  <2>1. c \in Chars /\ file_pos' \in 0 .. Len(file)
    BY <1>0, <1>3 DEF ReadChar
  <2>2. current_line_buffer' = sb_append_char(Line, c)
    BY <1>3 DEF ReadChar
  <2>3. BufferOK(current_line_buffer')
    <3>1. BufferOK(Line)
      BY <1>3 DEF ReadChar
    <3> QED
      BY <2>1, <2>2, <3>1, AppendedBuffer
  <2>4. CASE c = Newline
    <3>1. LineRead
      BY <1>3, <2>4 DEF ReadChar
    <3>2. current_pos_in_line' = 0 /\ current_pos_in_line' <= current_line_buffer'.length
      BY <2>3, <3>1 DEF LineRead, BufferOK
    <3>3. current_pos_in_line' \in Nat
      BY <3>2
    <3>4. pc' \in {"reading", "scanning"} /\ line_is_exhausted' \in BOOLEAN
      BY <3>1 DEF LineRead
    <3>5. file' = file /\ line_number' \in Nat /\ UNCHANGED results
      BY <1>0, <1>3 DEF ReadChar
    <3> QED
      BY <2>1, <2>3, <3>2, <3>3, <3>4, <3>5, StreamStep
  <2>5. CASE c # Newline
    <3>1. pc' = "reading" /\ UNCHANGED position
      BY <1>3, <2>5 DEF ReadChar
    <3> QED
      BY <1>0, <1>3, <2>1, <2>3, <3>1, StreamStep DEF ReadChar, position
  <2> QED
    BY <2>4, <2>5
<1>4. CASE ReadFails
  <2>1. file_pos' \in 0 .. Len(file)
    BY <1>0, <1>4 DEF ReadFails
  <2> QED
    BY <1>0, <1>4, <2>1, LineStep DEF ReadFails, position
<1>5. CASE LastLine
  <2>1. pc' = "scanning" /\ current_pos_in_line' = 0 /\ line_is_exhausted' = FALSE
    BY <1>5 DEF LastLine, LineRead
  <2>2. current_pos_in_line' <= Line.length
    BY <1>0, <2>1
  <2> QED
    BY <1>0, <1>5, <2>1, <2>2, LineStep DEF LastLine, stream, results
<1>6. CASE EndOfFile
  BY <1>0, <1>6, LineStep DEF EndOfFile, ReturnEOF, NoMemory, stream, position
<1>7. CASE SkipSpace
  <2>1. current_pos_in_line' \in Nat /\ current_pos_in_line' <= Line.length
    BY <1>0, <1>7 DEF SkipSpace, LineUsed
  <2> QED
    BY <1>0, <1>7, <2>1, LineStep DEF SkipSpace, stream, results
<1>8. CASE SkipComment
  BY <1>0, <1>8, LineStep DEF SkipComment, RestSkipped, stream, results
<1>9. CASE LineDone
  BY <1>0, <1>9, LineStep DEF LineDone, stream, results
<1>10. CASE NoToken
  BY <1>0, <1>10, LineStep DEF NoToken, NoMemory, AtWord, stream, position
<1>11. CASE LexWord
  <2>1. PICK junk \in {NUL, Junk} : ReturnToken(TokenType(Word, After(junk)))
    BY <1>11 DEF LexWord
  <2> QED
    BY <1>0, <1>11, <2>1, TokenTypeType, TokenStep DEF LexWord
<1>12. CASE CopyFails
  BY <1>12, TokenStep DEF CopyFails, TokenTypes
<1>13. CASE lexer_free
  <2>1. /\ current_line_buffer' \in [data : Seq(Cells), length : Nat]
        /\ pc' = "freed"
    BY <1>13 DEF lexer_free, sb_free, StringMut
  <2> QED
    BY <1>13, <2>1 DEF lexer_free, position, results, IInv, TypeOK, RoomBehindLine, Line
<1>14. CASE UNCHANGED vars
  BY <1>14 DEF vars, IInv, TypeOK, RoomBehindLine, Line
<1> QED
  BY <1>1, <1>2, <1>3, <1>4, <1>5, <1>6, <1>7, <1>8, <1>9, <1>10, <1>11, <1>12, <1>14, <1>13
  DEF Next, get_next_token

(* The types hold always: a position in a line that is being scanned lies   *)
(* in the line, and every token has a text that was in the buffer.          *)
THEOREM TypeCorrect == Spec => []TypeOK
<1>1. IInv => TypeOK
  BY DEF IInv
<1> QED
  BY InitHolds, Step, <1>1, PTL DEF Spec

(* The buffer always has a cell behind the line, whatever its initial       *)
(* capacity and however it grew, so looking one character past a word never *)
(* leaves the allocation.                                                   *)
THEOREM RoomCorrect == Spec => []RoomBehindLine
<1>1. IInv => RoomBehindLine
  BY DEF IInv
<1> QED
  BY InitHolds, Step, <1>1, PTL DEF Spec

-----------------------------------------------------------------------------
(* The words of a file, by the text alone                                   *)

AtLineStart(f, n) == n = 0 \/ n = Len(f) \/ f[n] = Newline
Newlines(f, n)    == {k \in 1 .. n : f[k] = Newline}
WordsUpTo(f, n)   == {s \in WordStarts(f) : s <= n}

(* A comment begins in the line it ends.                                    *)
LEMMA CommentInLine ==
    ASSUME NEW f, NEW b \in Nat, NEW n \in Nat,
           b = 0 \/ f[b] = Newline,
           \A m \in 1 .. n : f[b + m] # Newline
    PROVE  InComment(f, b + n) <=> \E m \in 1 .. n : f[b + m] = "#"
<1>1. ASSUME InComment(f, b + n) PROVE \E m \in 1 .. n : f[b + m] = "#"
  <2>1. PICK c \in 1 .. b + n : f[c] = "#" /\ \A k \in c .. b + n : f[k] # Newline
    BY <1>1 DEF InComment
  <2>2. c > b
    BY <2>1
  <2>3. c - b \in 1 .. n /\ b + (c - b) = c
    BY <2>2
  <2> QED
    BY <2>1, <2>3
<1>2. ASSUME NEW m \in 1 .. n, f[b + m] = "#" PROVE InComment(f, b + n)
  <2>1. \A k \in b + m .. b + n : f[k] # Newline
    <3> TAKE k \in b + m .. b + n
    <3>1. k - b \in 1 .. n /\ b + (k - b) = k
      OBVIOUS
    <3> QED
      BY <3>1
  <2>2. b + m \in 1 .. b + n
    OBVIOUS
  <2> QED
    BY <1>2, <2>1, <2>2 DEF InComment
<1> QED
  BY <1>1, <1>2

(* Where a line has had neither a comment nor a line end, the characters    *)
(* that are no white space are those of words.                              *)
LEMMA WordInLine ==
    ASSUME NEW f, NEW b \in Nat, NEW n \in Nat \ {0},
           b = 0 \/ f[b] = Newline, b + n <= Len(f), Len(f) \in Nat,
           \A m \in 1 .. n : f[b + m] # Newline /\ f[b + m] # "#"
    PROVE  InWord(f, b + n) <=> f[b + n] # Blank
<1>1. ~InComment(f, b + n)
  BY CommentInLine
<1>2. n \in 1 .. n /\ b + n \in 1 .. Len(f)
  OBVIOUS
<1>3. f[b + n] # Newline
  BY <1>2
<1> QED
  BY <1>1, <1>2, <1>3 DEF InWord, Spaces

(* The words that start in a part of the file.                              *)
LEMMA WordsFinite ==
    ASSUME NEW f, Len(f) \in Nat, NEW n \in Int
    PROVE  /\ IsFiniteSet(WordsUpTo(f, n)) /\ Cardinality(WordsUpTo(f, n)) \in Nat
           /\ IsFiniteSet(WordStarts(f)) /\ Cardinality(WordStarts(f)) \in Nat
           /\ Cardinality(WordsUpTo(f, n)) <= Cardinality(WordStarts(f))
           /\ n >= Len(f) => WordsUpTo(f, n) = WordStarts(f)
<1>1. IsFiniteSet(1 .. Len(f))
  BY FS_Interval
<1>2. WordStarts(f) \subseteq 1 .. Len(f)
  BY DEF WordStarts
<1>3. IsFiniteSet(WordStarts(f))
  BY <1>1, <1>2, FS_Subset
<1>4. WordsUpTo(f, n) \subseteq WordStarts(f)
  BY DEF WordsUpTo
<1>5. n >= Len(f) => WordsUpTo(f, n) = WordStarts(f)
  BY <1>2 DEF WordsUpTo
<1> QED
  BY <1>3, <1>4, <1>5, FS_Subset, FS_CardinalityType

LEMMA NoWordStarts ==
    ASSUME NEW f, Len(f) \in Nat, NEW a \in Nat, NEW b \in Nat, a <= b,
           \A s \in a + 1 .. b : s \notin WordStarts(f)
    PROVE  WordsUpTo(f, b) = WordsUpTo(f, a)
BY DEF WordsUpTo, WordStarts

LEMMA OneWordStarts ==
    ASSUME NEW f, Len(f) \in Nat, NEW a \in Nat, NEW b \in Nat, a < b,
           a + 1 \in WordStarts(f),
           \A s \in a + 2 .. b : s \notin WordStarts(f)
    PROVE  Cardinality(WordsUpTo(f, b)) = Cardinality(WordsUpTo(f, a)) + 1
<1>1. WordsUpTo(f, b) = WordsUpTo(f, a) \cup {a + 1}
  BY DEF WordsUpTo, WordStarts
<1>2. a + 1 \notin WordsUpTo(f, a)
  BY DEF WordsUpTo
<1>3. IsFiniteSet(WordsUpTo(f, a))
  BY WordsFinite
<1> HIDE DEF WordsUpTo
<1> QED
  BY <1>1, <1>2, <1>3, FS_AddElement

(* The words are numbered in the order of their starts.                     *)
LEMMA StartIs ==
    ASSUME Len(file) \in Nat, NEW s \in WordStarts(file),
           NEW k, Cardinality(WordsUpTo(file, s - 1)) = k - 1
    PROVE  Start(k) = s
<1> DEFINE Before(x) == {r \in WordStarts(file) : r < x}
<1>1. ASSUME NEW x \in WordStarts(file)
      PROVE  /\ x \in Nat /\ Before(x) = WordsUpTo(file, x - 1)
             /\ IsFiniteSet(Before(x)) /\ Cardinality(Before(x)) \in Nat
  <2>1. x \in Nat /\ x - 1 \in Int /\ Before(x) = WordsUpTo(file, x - 1)
    BY DEF WordsUpTo, WordStarts
  <2> HIDE DEF Before
  <2> QED
    BY <2>1, WordsFinite
<1>2. ASSUME NEW x \in WordStarts(file), NEW y \in WordStarts(file), x < y
      PROVE  Cardinality(Before(x)) < Cardinality(Before(y))
  <2>1. IsFiniteSet(Before(y)) /\ Before(x) \subseteq Before(y) /\ x \in Before(y) /\ x \notin Before(x)
    <3>1. x \in Nat /\ y \in Nat /\ WordStarts(file) \subseteq Nat
      BY <1>1
    <3> QED
      BY <1>1, <1>2, <3>1
  <2> HIDE DEF Before
  <2>2. /\ Cardinality(Before(x)) <= Cardinality(Before(y))
        /\ Cardinality(Before(x)) # Cardinality(Before(y))
    BY <2>1, FS_Subset
  <2>3. Cardinality(Before(x)) \in Nat /\ Cardinality(Before(y)) \in Nat
    BY <2>1, FS_Subset, FS_CardinalityType
  <2> QED
    BY <2>2, <2>3
<1>3. Cardinality(Before(s)) = k - 1
  BY <1>1
<1>4. ASSUME NEW t \in WordStarts(file), Cardinality(Before(t)) = k - 1 PROVE t = s
  <2>1. Cardinality(Before(t)) \in Nat /\ Cardinality(Before(s)) \in Nat
    BY <1>1
  <2>2. t \in Nat /\ s \in Nat
    BY <1>1
  <2> HIDE DEF Before
  <2>3. ~(t < s)
    BY <1>2, <1>3, <1>4, <2>1
  <2>4. ~(s < t)
    BY <1>2, <1>3, <1>4, <2>1
  <2> QED
    BY <2>2, <2>3, <2>4
<1> QED
  BY <1>3, <1>4 DEF Start

-----------------------------------------------------------------------------
(* What a word is does not depend on the text behind it, if it is sealed by *)
(* the white space or the comment that ends it.                             *)

Seals(after) == Len(after) > 0 /\ after[1] \in Spaces \cup {"#"}
TypeOfWord(word) == TokenType(word, <<"#">>)

LEMMA HashSeals == Seals(<<"#">>)
BY DEF Seals

LEMMA IdentifierSealed ==
    ASSUME NEW S, NEW text \in Seq(S), NEW after \in Seq(S), Seals(after)
    PROVE  is_identifier(text, after) <=>
              /\ text # <<>> /\ IsName(text[1])
              /\ \A n \in 1 .. Len(text) : IsName(text[n]) \/ text[n] = Digits
<1>1. (text \o after)[1] = IF 1 <= Len(text) THEN text[1] ELSE after[1]
  <2>1. 1 \in 1 .. Len(text) + Len(after)
    BY LenProperties DEF Seals
  <2> QED
    BY <2>1, ConcatProperties, LenProperties
<1>2. ~IsName(after[1])
  BY DEF Seals, IsName, Marks, Named
<1>3. text # <<>> <=> 1 <= Len(text)
  BY EmptySeq, LenProperties
<1> QED
  BY <1>1, <1>2, <1>3 DEF is_identifier

LEMMA NumberSealed ==
    ASSUME NEW S, NEW text \in Seq(S), NEW after \in Seq(S), Seals(after)
    PROVE  IsNumber(text, after) <=>
              /\ text # <<>>
              /\ \E n \in 1 .. Len(text) : EndsNumber(text[n]) /\ \A k \in 1 .. n - 1 : text[k] = Digits
<1> DEFINE all == text \o after
           EndsAt(s, n) == EndsNumber(s[n]) /\ \A k \in 1 .. n - 1 : s[k] = Digits
<1>1. /\ Len(text) \in Nat /\ Len(after) \in Nat /\ Len(after) > 0
      /\ Len(all) = Len(text) + Len(after)
      /\ \A n \in 1 .. Len(all) : all[n] = IF n <= Len(text) THEN text[n] ELSE after[n - Len(text)]
  BY ConcatProperties, LenProperties DEF Seals
<1> HIDE DEF all
<1>2. ~EndsNumber(after[1]) /\ after[1] # Digits
  BY LexerAssumption DEF Seals, EndsNumber, Digits, Spaces, Blank, Newline, Named
<1>3. all[Len(text) + 1] = after[1]
  BY <1>1
<1>4. ASSUME NEW n \in 1 .. Len(text) PROVE EndsAt(all, n) <=> EndsAt(text, n)
  BY <1>1
<1>5. ASSUME NEW n \in 1 .. Len(all), EndsAt(all, n) PROVE n \in 1 .. Len(text)
  <2>1. CASE n = Len(text) + 1
    BY <1>2, <1>3, <1>5, <2>1
  <2>2. CASE n > Len(text) + 1
    <3>1. Len(text) + 1 \in 1 .. n - 1
      BY <1>1, <2>2
    <3> QED
      BY <1>2, <1>3, <1>5, <3>1
  <2> QED
    BY <1>1, <2>1, <2>2
<1>6. (\E n \in 1 .. Len(all) : EndsAt(all, n)) <=> \E n \in 1 .. Len(text) : EndsAt(text, n)
  <2> HIDE DEF EndsAt
  <2> QED
    BY <1>1, <1>4, <1>5
<1> QED
  BY <1>6 DEF IsNumber, all

LEMMA WordTypeSealed ==
    ASSUME NEW S, "#" \in S, NEW word \in Seq(S), NEW after \in Seq(S), Seals(after)
    PROVE  TokenType(word, after) = TypeOfWord(word)
<1> DEFINE text == Rest(word)
<1>1. <<"#">> \in Seq(S)
  OBVIOUS
<1>2. text \in Seq(S)
  <2>1. Len(word) \in Nat /\ \A i \in 3 .. Len(word) : word[i] \in S
    BY LenProperties
  <2> QED
    BY <2>1, SubSeqProperties DEF Rest
<1>3. is_identifier(text, after) <=> is_identifier(text, <<"#">>)
  <2> HIDE DEF text
  <2> QED
    BY <1>1, <1>2, HashSeals, IdentifierSealed
<1>4. IsNumber(text, after) <=> IsNumber(text, <<"#">>)
  <2> HIDE DEF text
  <2> QED
    BY <1>1, <1>2, HashSeals, NumberSealed
<1>5. is_variable(word, after) <=> is_variable(word, <<"#">>)
  BY <1>3 DEF is_variable
<1>6. lex_literal(word, after) = lex_literal(word, <<"#">>)
  BY <1>4 DEF lex_literal
<1> QED
  BY <1>5, <1>6 DEF TokenType, TypeOfWord

-----------------------------------------------------------------------------
(* The line in the buffer is a piece of the file                            *)

InLoop == pc \in {"call", "reading", "scanning"}

(* How much of the file is in front of the line, and how much of it is in   *)
(* front of what get_next_token has still to look at.                       *)
Base == file_pos - Line.length
Passed ==
    IF pc = "reading" THEN Base
    ELSE IF pc = "call" /\ line_is_exhausted THEN file_pos
    ELSE Base + current_pos_in_line

LinePlaced ==
    /\ Line.length <= file_pos
    /\ \A n \in 1 .. Line.length : Line.data[n] = file[Base + n]
    /\ AtLineStart(file, Base)
    /\ \A n \in 1 .. Line.length - 1 : file[Base + n] # Newline
    /\ pc = "reading" /\ Line.length > 0 => file[file_pos] # Newline
    /\ pc # "reading" => AtLineStart(file, file_pos)
    /\ pc = "scanning" => Line.length > 0 /\ ~line_is_exhausted
    /\ pc = "call" /\ Line.length = 0 => file_pos = 0 /\ line_number = 0
    /\ (pc # "call" \/ Line.length > 0) /\ Base < Len(file) =>
          line_number = Cardinality(Newlines(file, Base)) + 1
    /\ pc = "scanning" \/ (pc = "call" /\ ~line_is_exhausted) =>
          \A n \in 1 .. current_pos_in_line : file[Base + n] # "#"

LineInv == InLoop => LinePlaced

LEMMA LineFacts ==
    ASSUME IInv
    PROVE  /\ file \in Seq(Chars) /\ Len(file) \in Nat /\ file_pos \in 0 .. Len(file)
           /\ Line.length \in Nat /\ current_pos_in_line \in Nat /\ line_number \in Nat
           /\ line_is_exhausted \in BOOLEAN /\ out_of_memory \in BOOLEAN
           /\ pc \in {"call", "scanning"} => current_pos_in_line <= Line.length
BY LexerAssumption DEF IInv, TypeOK

LEMMA AppendedText ==
    ASSUME NEW buf, NEW c, BufferOK(buf)
    PROVE  /\ sb_append_char(buf, c).length = buf.length + 1
           /\ \A n \in 1 .. buf.length : sb_append_char(buf, c).data[n] = buf.data[n]
           /\ sb_append_char(buf, c).data[buf.length + 1] = c
<1> DEFINE grown == IF MustGrow(buf) THEN Grown(buf) ELSE buf
<1>1. /\ buf.data \in Seq(Cells) /\ Len(buf.data) \in Nat
      /\ buf.length \in Nat /\ buf.length < Len(buf.data)
  BY DEF BufferOK, capacity
<1>2. /\ grown.data \in Seq(Cells) /\ buf.length + 1 < Len(grown.data)
      /\ \A n \in 1 .. buf.length : grown.data[n] = buf.data[n]
  <2>1. CASE MustGrow(buf)
    <3> DEFINE fresh == [n \in 1 .. capacity(buf) |-> Junk]
    <3>1. fresh \in Seq(Cells)
      BY <1>1 DEF capacity, Cells
    <3>2. Grown(buf).data = buf.data \o fresh
      BY DEF Grown, BufferOK
    <3> HIDE DEF fresh
    <3>3. \A n \in 1 .. buf.length : (buf.data \o fresh)[n] = buf.data[n]
      BY <1>1, <3>1, ConcatProperties, LenProperties
    <3> QED
      BY <1>1, <2>1, <3>2, <3>3, GrownBuffer DEF MustGrow, capacity
  <2>2. CASE ~MustGrow(buf)
    BY <1>1, <2>2 DEF MustGrow, capacity
  <2> QED
    BY <2>1, <2>2
<1>3. sb_append_char(buf, c) = [data |-> [grown.data EXCEPT ![buf.length + 1] = c], length |-> buf.length + 1]
  BY DEF sb_append_char, StringMut
<1> HIDE DEF grown
<1>4. buf.length + 1 \in DOMAIN grown.data
  BY <1>1, <1>2
<1> QED
  BY <1>1, <1>2, <1>3, <1>4

(* One more line end is behind the line when it has been read to its end.   *)
LEMMA NextNumber ==
    ASSUME NEW f, NEW b \in Nat, NEW n \in Nat, b < n, f[n] = Newline,
           \A m \in b + 1 .. n - 1 : f[m] # Newline
    PROVE  Cardinality(Newlines(f, n)) = Cardinality(Newlines(f, b)) + 1
<1>1. Newlines(f, n) = Newlines(f, b) \cup {n} /\ n \notin Newlines(f, b)
  BY DEF Newlines
<1>2. IsFiniteSet(Newlines(f, b))
  <2>1. IsFiniteSet(1 .. b)
    BY FS_Interval
  <2> QED
    BY <2>1, FS_Subset DEF Newlines
<1> HIDE DEF Newlines
<1> QED
  BY <1>1, <1>2, FS_AddElement

(* A step that keeps the line and at most its end is looked at differently. *)
LEMMA SameLinePlaced ==
    ASSUME IInv, LinePlaced, Line.length > 0, AtLineStart(file, file_pos),
           UNCHANGED <<file, file_pos, current_line_buffer, line_number>>,
           pc' \in {"call", "scanning"}, pc' = "scanning" => ~line_is_exhausted',
           ~line_is_exhausted' \/ pc' = "scanning" =>
              \A n \in 1 .. current_pos_in_line' : file[Base + n] # "#"
    PROVE  LinePlaced'
BY DEF LinePlaced, Line, Base

(* The characters that have been skipped and those of the word that starts  *)
(* here: no comment among them, no white space in the word, and the word is *)
(* as long as it can be.                                                    *)
LEMMA InsideWord ==
    ASSUME IInv, LinePlaced, AtWord
    PROVE  /\ WordEnd \in current_pos_in_line + 1 .. Line.length
           /\ \A n \in 1 .. WordEnd : file[Base + n] # "#"
           /\ \A n \in current_pos_in_line + 1 .. WordEnd : file[Base + n] \notin Spaces
           /\ WordEnd < Line.length => file[Base + WordEnd + 1] \in Spaces \cup {"#"}
<1>0. /\ current_pos_in_line \in Nat /\ Line.length \in Nat /\ file_pos \in Nat
      /\ pc = "scanning" /\ ~LineUsed /\ Here \notin Spaces \cup {"#"}
  BY LineFacts DEF AtWord
<1>1. /\ WordEnd \in current_pos_in_line + 1 .. Line.length
      /\ WordEnd = Line.length \/ EndsWord(cell(Line, WordEnd))
      /\ \A k \in current_pos_in_line + 1 .. WordEnd - 1 : ~EndsWord(cell(Line, k))
  BY <1>0, WordEndInLine DEF IInv
<1>2. \A k \in 0 .. Line.length - 1 : cell(Line, k) = file[Base + (k + 1)]
  BY <1>0 DEF LinePlaced, cell
<1>3. ASSUME NEW n \in current_pos_in_line + 1 .. WordEnd PROVE ~EndsWord(file[Base + n])
  <2>1. n - 1 \in 0 .. Line.length - 1 /\ (n - 1) + 1 = n
    BY <1>0, <1>1
  <2>2. cell(Line, n - 1) = file[Base + n]
    BY <1>2, <2>1
  <2>3. CASE n = current_pos_in_line + 1
    BY <1>0, <2>2, <2>3 DEF Here, EndsWord
  <2>4. CASE n - 1 \in current_pos_in_line + 1 .. WordEnd - 1
    BY <1>1, <2>2, <2>4
  <2> QED
    BY <1>0, <1>1, <2>3, <2>4
<1>4. \A n \in 1 .. current_pos_in_line : file[Base + n] # "#"
  BY <1>0 DEF LinePlaced
<1>5. \A n \in 1 .. WordEnd : file[Base + n] # "#"
  <2> TAKE n \in 1 .. WordEnd
  <2>1. CASE n \in 1 .. current_pos_in_line
    BY <1>4, <2>1
  <2>2. CASE n \in current_pos_in_line + 1 .. WordEnd
    BY <1>3, <2>2 DEF EndsWord
  <2> QED
    BY <1>0, <1>1, <2>1, <2>2
<1>6. \A n \in current_pos_in_line + 1 .. WordEnd : file[Base + n] \notin Spaces
  BY <1>3 DEF EndsWord
<1>7. WordEnd < Line.length => file[Base + WordEnd + 1] \in Spaces \cup {"#"}
  <2> SUFFICES ASSUME WordEnd < Line.length PROVE file[Base + WordEnd + 1] \in Spaces \cup {"#"}
    OBVIOUS
  <2>1. WordEnd \in 0 .. Line.length - 1 /\ Base + WordEnd + 1 = Base + (WordEnd + 1)
    BY <1>0, <1>1 DEF Base
  <2> QED
    BY <1>1, <1>2, <2>1 DEF EndsWord
<1> QED
  BY <1>1, <1>5, <1>6, <1>7

LEMMA LineStepPlaced == IInv /\ LineInv /\ [Next]_vars => LineInv'
<1> SUFFICES ASSUME IInv, LineInv, [Next]_vars, InLoop' PROVE LinePlaced'
  BY DEF LineInv
<1>0. /\ file \in Seq(Chars) /\ Len(file) \in Nat /\ file_pos \in 0 .. Len(file)
      /\ Line.length \in Nat /\ current_pos_in_line \in Nat /\ line_number \in Nat
      /\ pc \in {"call", "scanning"} => current_pos_in_line <= Line.length
  BY LineFacts
<1>1. CASE StartLine
  <2>1. LinePlaced /\ pc = "call" /\ pc' = "reading"
    BY <1>1 DEF StartLine, LineInv, InLoop
  <2>2. Line.length' = 0 /\ UNCHANGED <<file, file_pos>> /\ line_number' = line_number + 1
    <3>1. BufferOK(Line)
      BY <1>1, BufferInvariant DEF StartLine
    <3> QED
      BY <1>1, <3>1, ResetBuffer DEF StartLine, Line
  <2>3. Base' = file_pos /\ AtLineStart(file, file_pos)
    BY <1>0, <2>1, <2>2 DEF Base, LinePlaced
  <2>4. ASSUME file_pos < Len(file) PROVE line_number' = Cardinality(Newlines(file, file_pos)) + 1
    <3>1. CASE Line.length = 0
      <4>1. file_pos = 0 /\ line_number = 0
        BY <2>1, <3>1 DEF LinePlaced
      <4>2. Newlines(file, 0) = {}
        BY DEF Newlines
      <4> QED
        BY <2>2, <4>1, <4>2, FS_EmptySet
    <3>2. CASE Line.length > 0
      <4>1. Base \in Nat /\ Base < file_pos /\ Base + Line.length = file_pos
        BY <1>0, <2>1, <3>2 DEF Base, LinePlaced
      <4>2. file[file_pos] = Newline
        BY <2>3, <2>4, <4>1 DEF AtLineStart
      <4>3. \A m \in Base + 1 .. file_pos - 1 : file[m] # Newline
        <5> TAKE m \in Base + 1 .. file_pos - 1
        <5>1. m - Base \in 1 .. Line.length - 1 /\ Base + (m - Base) = m
          BY <1>0, <4>1
        <5> QED
          BY <2>1, <5>1 DEF LinePlaced
      <4>4. Cardinality(Newlines(file, file_pos)) = Cardinality(Newlines(file, Base)) + 1
        BY <1>0, <4>1, <4>2, <4>3, NextNumber
      <4>5. line_number = Cardinality(Newlines(file, Base)) + 1
        BY <1>0, <2>1, <3>2, <4>1 DEF LinePlaced
      <4> QED
        BY <2>2, <4>4, <4>5
    <3> QED
      BY <1>0, <3>1, <3>2
  <2> QED
    BY <1>0, <2>1, <2>2, <2>3, <2>4 DEF LinePlaced
<1>2. CASE SameLine
  <2>1. LinePlaced /\ Line.length > 0 /\ ~line_is_exhausted
    BY <1>0, <1>2 DEF SameLine, LineInv, InLoop, LineUsed
  <2> QED
    BY <1>2, <2>1, SameLinePlaced DEF SameLine, stream, position, LinePlaced
<1>3. CASE ReadChar
  <2> DEFINE c == file[file_pos + 1]
  <2>1. LinePlaced /\ pc = "reading" /\ file_pos < Len(file)
    BY <1>3 DEF ReadChar, LineInv, InLoop
  <2>2. /\ Line.length' = Line.length + 1
        /\ \A n \in 1 .. Line.length : Line.data'[n] = Line.data[n]
        /\ Line.data'[Line.length + 1] = c
    <3>1. BufferOK(Line)
      BY <2>1, BufferInvariant
    <3>2. Line' = sb_append_char(Line, c)
      BY <1>3 DEF ReadChar, Line
    <3> QED
      BY <3>1, <3>2, AppendedText
  <2>3. file_pos' = file_pos + 1 /\ UNCHANGED <<file, line_number>> /\ Base' = Base /\ Base + Line.length = file_pos
    BY <1>0, <1>3, <2>2 DEF ReadChar, Base
  <2>4. /\ pc' = IF c = Newline THEN "scanning" ELSE "reading"
        /\ c = Newline => current_pos_in_line' = 0 /\ ~line_is_exhausted'
    BY <1>3, <2>1 DEF ReadChar, LineRead
  <2>5. \A n \in 1 .. Line.length' : Line.data'[n] = file[Base + n]
    <3> TAKE n \in 1 .. Line.length'
    <3>1. CASE n = Line.length + 1
      <4>1. Base + n = file_pos + 1
        BY <1>0, <2>3, <3>1 DEF Base
      <4> QED
        BY <2>2, <3>1, <4>1
    <3>2. CASE n \in 1 .. Line.length
      BY <2>1, <2>2, <3>2 DEF LinePlaced
    <3> QED
      BY <1>0, <2>2, <3>1, <3>2
  <2>6. \A n \in 1 .. Line.length : file[Base + n] # Newline
    <3> TAKE n \in 1 .. Line.length
    <3>1. CASE n = Line.length
      BY <2>1, <2>3, <3>1 DEF LinePlaced
    <3>2. CASE n \in 1 .. Line.length - 1
      BY <2>1, <3>2 DEF LinePlaced
    <3> QED
      BY <1>0, <3>1, <3>2
  <2>7. AtLineStart(file, Base) /\ (Base < Len(file) => line_number = Cardinality(Newlines(file, Base)) + 1)
    BY <2>1 DEF LinePlaced
  <2> QED
    BY <1>0, <2>1, <2>2, <2>3, <2>4, <2>5, <2>6, <2>7 DEF LinePlaced, AtLineStart
<1>4. CASE ReadFails
  BY <1>4 DEF ReadFails, InLoop
<1>5. CASE LastLine
  <2>1. LinePlaced /\ Line.length > 0 /\ AtLineStart(file, file_pos)
    BY <1>5 DEF LastLine, LineInv, InLoop, AtLineStart
  <2>2. pc' = "scanning" /\ current_pos_in_line' = 0 /\ ~line_is_exhausted' /\ UNCHANGED stream
    BY <1>5 DEF LastLine, LineRead
  <2>3. \A n \in 1 .. current_pos_in_line' : file[Base + n] # "#"
    BY <2>2
  <2> QED
    BY <2>1, <2>2, <2>3, SameLinePlaced DEF stream
<1>6. CASE EndOfFile
  BY <1>6 DEF EndOfFile, ReturnEOF, NoMemory, InLoop
<1>7. CASE SkipSpace
  <2>1. LinePlaced /\ pc = "scanning" /\ ~LineUsed /\ Here \in Spaces
    BY <1>7 DEF SkipSpace, LineInv, InLoop
  <2>2. file[Base + (current_pos_in_line + 1)] = Here
    BY <1>0, <2>1 DEF LinePlaced, Here, cell, LineUsed
  <2>3. Here # "#"
    BY <2>1 DEF Spaces, Blank, Newline
  <2>4. \A n \in 1 .. current_pos_in_line + 1 : file[Base + n] # "#"
    <3> TAKE n \in 1 .. current_pos_in_line + 1
    <3>1. CASE n = current_pos_in_line + 1
      BY <2>2, <2>3, <3>1
    <3>2. CASE n \in 1 .. current_pos_in_line
      BY <2>1, <3>2 DEF LinePlaced
    <3> QED
      BY <1>0, <3>1, <3>2
  <2> QED
    BY <1>7, <2>1, <2>4, SameLinePlaced DEF SkipSpace, stream, LinePlaced
<1>8. CASE SkipComment
  <2>1. LinePlaced /\ Line.length > 0 /\ AtLineStart(file, file_pos)
    BY <1>8 DEF SkipComment, LineInv, InLoop, LinePlaced
  <2> QED
    BY <1>8, <2>1, SameLinePlaced DEF SkipComment, RestSkipped, stream
<1>9. CASE LineDone
  <2>1. LinePlaced /\ Line.length > 0 /\ AtLineStart(file, file_pos)
    BY <1>9 DEF LineDone, LineInv, InLoop, LinePlaced
  <2> QED
    BY <1>9, <2>1, SameLinePlaced DEF LineDone, stream
<1>10. CASE NoToken
  BY <1>10 DEF NoToken, NoMemory, InLoop
<1>11. ASSUME AtWord, NEW type, ReturnToken(type) PROVE LinePlaced'
  <2>1. LinePlaced /\ Line.length > 0 /\ AtLineStart(file, file_pos) /\ ~LineUsed
    BY <1>11 DEF AtWord, LineInv, InLoop, LinePlaced
  <2>2. \A n \in 1 .. WordEnd : file[Base + n] # "#"
    BY <1>11, InsideWord DEF LineInv, InLoop, AtWord
  <2> QED
    BY <1>11, <2>1, <2>2, SameLinePlaced DEF ReturnToken, PastWord, stream
<1>12. CASE LexWord \/ CopyFails
  BY <1>11, <1>12 DEF LexWord, CopyFails
<1>13. CASE lexer_free
  BY <1>13 DEF lexer_free, InLoop
<1>14. CASE UNCHANGED vars
  BY <1>14 DEF vars, LineInv, LinePlaced, InLoop, Line, Base
<1> QED
  BY <1>1, <1>2, <1>3, <1>4, <1>5, <1>6, <1>7, <1>8, <1>9, <1>10, <1>12, <1>14, <1>13
  DEF Next, get_next_token

-----------------------------------------------------------------------------
(* The tokens are the words of the part of the file that has been passed    *)

WordsPlaced ==
    /\ Len(tokens) = Cardinality(WordsUpTo(file, Passed))
    /\ InWord(file, Passed + 1) => ~InWord(file, Passed)

WordsInv == InLoop => WordsPlaced

LEMMA StartStays == UNCHANGED file => \A k : Start(k)' = Start(k)
BY DEF Start

(* A line that has characters begins behind a line end or with the file.    *)
LEMMA LineBegins ==
    ASSUME IInv, LinePlaced, Line.length > 0
    PROVE  /\ Base \in Nat /\ Base < file_pos /\ Base + Line.length = file_pos
           /\ Base = 0 \/ file[Base] = Newline
BY LineFacts DEF LinePlaced, Base, AtLineStart

LEMMA WordFound ==
    ASSUME IInv, LinePlaced, WordsPlaced, AtWord
    PROVE  /\ Passed \in Nat /\ Base + WordEnd \in Nat
           /\ Passed < Base + WordEnd /\ Base + WordEnd <= file_pos
           /\ Passed + 1 \in WordStarts(file)
           /\ \A s \in Passed + 2 .. Base + WordEnd : s \notin WordStarts(file)
           /\ \A k \in Passed + 1 .. Base + WordEnd : InWord(file, k)
           /\ ~InWord(file, Base + WordEnd + 1)
           /\ LineOf(file, Passed + 1) = line_number
<1>0. /\ file \in Seq(Chars) /\ Len(file) \in Nat /\ file_pos \in 0 .. Len(file)
      /\ current_pos_in_line \in Nat /\ Line.length \in Nat
      /\ pc = "scanning" /\ current_pos_in_line < Line.length
  BY LineFacts DEF AtWord, LineUsed
<1>1. /\ Base \in Nat /\ Base < file_pos /\ Base + Line.length = file_pos
      /\ Base = 0 \/ file[Base] = Newline
  BY <1>0, LineBegins
<1>2. /\ WordEnd \in current_pos_in_line + 1 .. Line.length
      /\ \A n \in 1 .. WordEnd : file[Base + n] # "#"
      /\ \A n \in current_pos_in_line + 1 .. WordEnd : file[Base + n] \notin Spaces
      /\ WordEnd < Line.length => file[Base + WordEnd + 1] \in Spaces \cup {"#"}
  BY InsideWord
<1>3. Passed = Base + current_pos_in_line
  BY <1>0 DEF Passed
<1>4. \A n \in 1 .. WordEnd : file[Base + n] # Newline
  <2> TAKE n \in 1 .. WordEnd
  <2>1. CASE n \in 1 .. Line.length - 1
    BY <2>1 DEF LinePlaced
  <2>2. CASE n \in current_pos_in_line + 1 .. WordEnd
    BY <1>2, <2>2 DEF Spaces
  <2> QED
    BY <1>0, <1>2, <2>1, <2>2
<1>5. ASSUME NEW k \in Passed + 1 .. Base + WordEnd PROVE InWord(file, k)
  <2> DEFINE n == k - Base
  <2>1. n \in current_pos_in_line + 1 .. WordEnd /\ Base + n = k /\ n \in Nat \ {0}
    BY <1>0, <1>1, <1>2, <1>3
  <2>2. Base + n <= Len(file)
    BY <1>0, <1>1, <1>2, <2>1
  <2>3. \A m \in 1 .. n : file[Base + m] # Newline /\ file[Base + m] # "#"
    BY <1>2, <1>4, <2>1
  <2>4. file[Base + n] # Blank
    BY <1>2, <2>1 DEF Spaces
  <2> HIDE DEF n
  <2> QED
    BY <1>0, <1>1, <2>1, <2>2, <2>3, <2>4, WordInLine
<1>6. ~InWord(file, Base + WordEnd + 1)
  <2>1. CASE WordEnd = Line.length
    <3>1. Base + WordEnd = file_pos /\ file[file_pos] # Newline /\ file_pos # 0
      BY <1>0, <1>1, <1>2, <1>4, <2>1
    <3>2. file_pos = Len(file)
      BY <1>0, <3>1 DEF LinePlaced, AtLineStart
    <3> QED
      BY <1>0, <3>1, <3>2 DEF InWord
  <2>2. CASE WordEnd < Line.length
    <3>1. CASE file[Base + WordEnd + 1] \in Spaces
      BY <3>1 DEF InWord
    <3>2. CASE file[Base + WordEnd + 1] = "#"
      <4>1. Base + WordEnd + 1 \in 1 .. Base + WordEnd + 1
        BY <1>0, <1>1, <1>2
      <4>2. InComment(file, Base + WordEnd + 1)
        BY <3>2, <4>1 DEF InComment, Newline
      <4> QED
        BY <4>2 DEF InWord
    <3> QED
      BY <1>2, <2>2, <3>1, <3>2
  <2> QED
    BY <1>0, <1>2, <2>1, <2>2
<1>7. /\ Passed \in Nat /\ Base + WordEnd \in Nat
      /\ Passed < Base + WordEnd /\ Base + WordEnd <= file_pos
  BY <1>0, <1>1, <1>2, <1>3
<1>8. Passed + 1 \in WordStarts(file)
  <2>1. InWord(file, Passed + 1) /\ (Passed + 1) - 1 = Passed
    BY <1>5, <1>7
  <2> QED
    BY <2>1 DEF WordsPlaced, WordStarts, InWord
<1>9. \A s \in Passed + 2 .. Base + WordEnd : s \notin WordStarts(file)
  <2> TAKE s \in Passed + 2 .. Base + WordEnd
  <2>1. s - 1 \in Passed + 1 .. Base + WordEnd
    BY <1>7
  <2> QED
    BY <1>5, <2>1 DEF WordStarts
<1>10. LineOf(file, Passed + 1) = line_number
  <2>1. line_number = Cardinality(Newlines(file, Base)) + 1
    BY <1>0, <1>1 DEF LinePlaced
  <2>2. Newlines(file, Passed) = Newlines(file, Base)
    <3>1. ASSUME NEW k \in Base + 1 .. Passed PROVE file[k] # Newline
      <4>1. k - Base \in 1 .. WordEnd /\ Base + (k - Base) = k
        BY <1>0, <1>1, <1>2, <1>3
      <4> QED
        BY <1>4, <4>1
    <3>2. Passed \in Nat /\ Base \in Nat /\ Base <= Passed
      BY <1>0, <1>1, <1>3
    <3> QED
      BY <3>1, <3>2 DEF Newlines
  <2>3. (Passed + 1) - 1 = Passed
    BY <1>7
  <2> QED
    BY <2>1, <2>2, <2>3 DEF LineOf, Newlines
<1> QED
  BY <1>5, <1>6, <1>7, <1>8, <1>9, <1>10

LEMMA Piece ==
    ASSUME NEW S, NEW s, NEW a \in Nat, NEW n \in Nat, \A i \in a + 1 .. a + n : s[i] \in S
    PROVE  /\ SubSeq(s, a + 1, a + n) \in Seq(S)
           /\ Len(SubSeq(s, a + 1, a + n)) = n
           /\ \A i \in 1 .. n : SubSeq(s, a + 1, a + n)[i] = s[a + i]
<1>1. a + 1 \in Int /\ a + n \in Int /\ a + n - (a + 1) + 1 = n
  OBVIOUS
<1>2. /\ SubSeq(s, a + 1, a + n) \in Seq(S)
      /\ Len(SubSeq(s, a + 1, a + n)) = IF a + 1 <= a + n THEN a + n - (a + 1) + 1 ELSE 0
      /\ \A i \in 1 .. a + n - (a + 1) + 1 : SubSeq(s, a + 1, a + n)[i] = s[a + 1 + i - 1]
  BY <1>1, SubSeqProperties
<1>3. Len(SubSeq(s, a + 1, a + n)) = n
  BY <1>1, <1>2
<1>4. \A i \in 1 .. n : a + 1 + i - 1 = a + i
  OBVIOUS
<1> QED
  BY <1>1, <1>2, <1>3, <1>4

(* The word is what the file has there.                                     *)
LEMMA WordIsThere ==
    ASSUME IInv, LinePlaced, WordsPlaced, AtWord
    PROVE  /\ Len(Word) = WordEnd - current_pos_in_line
           /\ Passed + Len(Word) = Base + WordEnd
           /\ IsWordAt(Word, Passed + 1)
<1>0. /\ file \in Seq(Chars) /\ Len(file) \in Nat /\ file_pos \in 0 .. Len(file)
      /\ current_pos_in_line \in Nat /\ Line.length \in Nat /\ Base \in Int
      /\ pc = "scanning"
  BY LineFacts DEF AtWord, Base
<1>1. WordEnd \in current_pos_in_line + 1 .. Line.length
  BY InsideWord
<1>2. Passed = Base + current_pos_in_line
  BY <1>0 DEF Passed
<1>3. Word = SubSeq(Line.data, current_pos_in_line + 1, WordEnd)
  BY <1>0, <1>1 DEF Word, sb_get_substring
<1>4. \A i \in current_pos_in_line + 1 .. WordEnd : Line.data[i] = file[Base + i]
  BY <1>0, <1>1 DEF LinePlaced
<1>5. \A i \in current_pos_in_line + 1 .. WordEnd : Base + i \in 1 .. Len(file)
  <2> TAKE i \in current_pos_in_line + 1 .. WordEnd
  <2>1. Passed \in Nat /\ Base + WordEnd <= file_pos
    BY WordFound
  <2> QED
    BY <1>0, <1>1, <1>2, <2>1
<1>6. \A i \in current_pos_in_line + 1 .. WordEnd : Line.data[i] \in Chars
  BY <1>0, <1>4, <1>5, LenProperties
<1>7. /\ Word \in Seq(Chars)
      /\ Len(Word) = WordEnd - current_pos_in_line
      /\ \A i \in 1 .. Len(Word) : Word[i] = file[Passed + i]
  <2>2. /\ Word \in Seq(Chars)
        /\ Len(Word) = WordEnd - current_pos_in_line
        /\ \A i \in 1 .. Len(Word) : Word[i] = Line.data[current_pos_in_line + i]
    <3> DEFINE n == WordEnd - current_pos_in_line
    <3>1. n \in Nat /\ current_pos_in_line + n = WordEnd
      BY <1>0, <1>1
    <3> HIDE DEF n
    <3>2. /\ SubSeq(Line.data, current_pos_in_line + 1, current_pos_in_line + n) \in Seq(Chars)
          /\ Len(SubSeq(Line.data, current_pos_in_line + 1, current_pos_in_line + n)) = n
          /\ \A i \in 1 .. n : SubSeq(Line.data, current_pos_in_line + 1, current_pos_in_line + n)[i]
                                  = Line.data[current_pos_in_line + i]
      BY <1>0, <1>6, <3>1, Piece
    <3> QED
      BY <1>3, <3>1, <3>2 DEF n
  <2>3. ASSUME NEW i \in 1 .. Len(Word) PROVE Word[i] = file[Passed + i]
    <3>1. current_pos_in_line + i \in current_pos_in_line + 1 .. WordEnd
      BY <1>0, <1>1, <2>2
    <3>2. Base + (current_pos_in_line + i) = Passed + i
      BY <1>0, <1>1, <1>2, <2>2
    <3> QED
      BY <1>4, <2>2, <3>1, <3>2
  <2> QED
    BY <2>2, <2>3
<1>8. Passed \in Nat /\ Passed + Len(Word) = Base + WordEnd /\ Base + WordEnd <= Len(file)
  <2>1. Passed \in Nat /\ Base + WordEnd <= Len(file)
    <3>1. Passed \in Nat /\ Base + WordEnd \in Nat /\ Base + WordEnd <= file_pos
      BY WordFound
    <3> QED
      BY <1>0, <3>1
  <2>2. Passed + Len(Word) = Base + WordEnd
    <3>1. Len(Word) = WordEnd - current_pos_in_line
      BY <1>7
    <3> QED
      BY <1>0, <1>1, <1>2, <3>1
  <2> QED
    BY <2>1, <2>2
<1>9. Word = SubSeq(file, Passed + 1, Passed + Len(Word))
  <2>1. \A i \in Passed + 1 .. Passed + Len(Word) : file[i] \in Chars
    <3>1. \A i \in 1 .. Len(file) : file[i] \in Chars
      BY <1>0, LenProperties
    <3>2. Passed + 1 .. Passed + Len(Word) \subseteq 1 .. Len(file)
      BY <1>0, <1>8
    <3> QED
      BY <3>1, <3>2
  <2>2. Len(Word) \in Nat
    BY <1>7, LenProperties
  <2>3. /\ SubSeq(file, Passed + 1, Passed + Len(Word)) \in Seq(Chars)
        /\ Len(SubSeq(file, Passed + 1, Passed + Len(Word))) = Len(Word)
        /\ \A i \in 1 .. Len(Word) : SubSeq(file, Passed + 1, Passed + Len(Word))[i] = file[Passed + i]
    BY <1>8, <2>1, <2>2, Piece
  <2> QED
    BY <1>7, <2>3, SeqEqual
<1>10. IsWordAt(Word, Passed + 1)
  <2>1. (Passed + 1) + Len(Word) - 1 = Passed + Len(Word) /\ (Passed + 1) + Len(Word) = Base + WordEnd + 1
    BY <1>0, <1>1, <1>2, <1>7
  <2>2. /\ \A k \in Passed + 1 .. Base + WordEnd : InWord(file, k)
        /\ ~InWord(file, Base + WordEnd + 1)
    BY WordFound
  <2> QED
    BY <1>8, <1>9, <2>1, <2>2 DEF IsWordAt
<1> QED
  BY <1>7, <1>8, <1>10

TokensPlaced ==
    \A k \in 1 .. Len(tokens) :
        IsWordAt(tokens[k].word, Start(k)) /\ tokens[k].line = LineOf(file, Start(k))

(* Save for the word that ends the file, the types are those of the words.  *)
TypesPlaced ==
    \A k \in 1 .. Len(tokens) : ~EndsFile(k) => tokens[k].type = TypeOfWord(tokens[k].word)
TypesInv == ~out_of_memory => TypesPlaced

LEMMA SameWordsPlaced ==
    ASSUME WordsPlaced, UNCHANGED <<file, tokens>>, Passed' = Passed
    PROVE  WordsPlaced'
BY DEF WordsPlaced

(* No word is in what is passed over.                                       *)
LEMMA SkippedWords ==
    ASSUME WordsPlaced, UNCHANGED <<file, tokens>>, Len(file) \in Nat,
           Passed \in Nat, Passed' \in Nat, Passed < Passed',
           \A s \in Passed + 1 .. Passed' : ~InWord(file, s)
    PROVE  WordsPlaced'
<1>1. \A s \in Passed + 1 .. Passed' : s \notin WordStarts(file)
  BY DEF WordStarts
<1>2. WordsUpTo(file, Passed') = WordsUpTo(file, Passed)
  BY <1>1, NoWordStarts
<1>3. ~InWord(file, Passed')
  OBVIOUS
<1> QED
  BY <1>2, <1>3 DEF WordsPlaced

LEMMA AppendedToken ==
    ASSUME IInv, AtWord, NEW type \in TokenTypes, ReturnToken(type)
    PROVE  /\ Len(tokens) \in Nat /\ Len(tokens') = Len(tokens) + 1
           /\ \A k \in 1 .. Len(tokens) : tokens'[k] = tokens[k]
           /\ tokens'[Len(tokens) + 1] = [type |-> type, word |-> Word, line |-> line_number]
<1> DEFINE Tokens == [type : TokenTypes, word : Seq(Cells) \ {<<>>}, line : Nat]
           token == [type |-> type, word |-> Word, line |-> line_number]
<1>1. Word \in Seq(Cells) \ {<<>>}
  BY WordType DEF AtWord, IInv
<1>2. tokens \in Seq(Tokens) /\ token \in Tokens
  BY <1>1 DEF IInv, TypeOK
<1>3. tokens' = Append(tokens, token)
  BY DEF ReturnToken
<1> HIDE DEF Tokens, token
<1>4. /\ Len(tokens) \in Nat /\ Len(tokens') = Len(tokens) + 1
      /\ \A k \in 1 .. Len(tokens) : tokens'[k] = tokens[k]
      /\ tokens'[Len(tokens) + 1] = token
  BY <1>2, <1>3, AppendProperties, LenProperties
<1> QED
  BY <1>4 DEF token

LEMMA TokenStepPlaced ==
    ASSUME IInv, LinePlaced, WordsPlaced, TokensPlaced, AtWord,
           NEW type \in TokenTypes, ReturnToken(type)
    PROVE  /\ Start(Len(tokens) + 1) = Passed + 1
           /\ WordsPlaced' /\ TokensPlaced'
           /\ Len(tokens') <= Cardinality(WordStarts(file))
<1>0. Len(file) \in Nat /\ pc = "scanning" /\ ~line_is_exhausted
  BY LineFacts DEF AtWord, LinePlaced
<1>1. /\ Len(tokens) \in Nat /\ Len(tokens') = Len(tokens) + 1
      /\ \A k \in 1 .. Len(tokens) : tokens'[k] = tokens[k]
      /\ tokens'[Len(tokens) + 1].word = Word /\ tokens'[Len(tokens) + 1].line = line_number
  <2>1. /\ Len(tokens) \in Nat /\ Len(tokens') = Len(tokens) + 1
        /\ \A k \in 1 .. Len(tokens) : tokens'[k] = tokens[k]
        /\ tokens'[Len(tokens) + 1] = [type |-> type, word |-> Word, line |-> line_number]
    BY AppendedToken
  <2> QED
    BY <2>1
<1>2. /\ Passed \in Nat /\ Base + WordEnd \in Nat
      /\ Passed < Base + WordEnd /\ Base + WordEnd <= file_pos
      /\ Passed + 1 \in WordStarts(file)
      /\ \A s \in Passed + 2 .. Base + WordEnd : s \notin WordStarts(file)
      /\ ~InWord(file, Base + WordEnd + 1)
      /\ LineOf(file, Passed + 1) = line_number
  BY WordFound
<1>3. Start(Len(tokens) + 1) = Passed + 1
  <2>1. Cardinality(WordsUpTo(file, (Passed + 1) - 1)) = (Len(tokens) + 1) - 1
    <3>1. (Passed + 1) - 1 = Passed /\ (Len(tokens) + 1) - 1 = Len(tokens)
      BY <1>1, <1>2
    <3> QED
      BY <3>1 DEF WordsPlaced
  <2> QED
    BY <1>2, <2>1, StartIs, LineFacts
<1>4. UNCHANGED <<file, file_pos, current_line_buffer>> /\ pc' = "call" /\ ~line_is_exhausted'
  BY <1>0 DEF ReturnToken, stream
<1>5. Passed' = Base + WordEnd
  BY <1>4 DEF ReturnToken, PastWord, Passed, Base, Line
<1>6. Cardinality(WordsUpTo(file, Base + WordEnd)) = Cardinality(WordsUpTo(file, Passed)) + 1
  BY <1>2, LineFacts, OneWordStarts
<1>7. WordsPlaced'
  BY <1>1, <1>2, <1>4, <1>5, <1>6 DEF WordsPlaced
<1>8. TokensPlaced'
  <2> SUFFICES ASSUME NEW k \in 1 .. Len(tokens')
               PROVE  IsWordAt(tokens'[k].word, Start(k)) /\ tokens'[k].line = LineOf(file, Start(k))
    BY <1>4, StartStays DEF TokensPlaced, IsWordAt
  <2>1. CASE k \in 1 .. Len(tokens)
    BY <1>1, <2>1 DEF TokensPlaced
  <2>2. CASE k = Len(tokens) + 1
    BY <1>1, <1>2, <1>3, <2>2, WordIsThere
  <2> QED
    BY <1>1, <2>1, <2>2
<1>9. Len(tokens') <= Cardinality(WordStarts(file))
  <2>1. Cardinality(WordsUpTo(file, Base + WordEnd)) <= Cardinality(WordStarts(file))
    BY <1>0, <1>2, WordsFinite
  <2> QED
    BY <1>1, <1>6, <2>1 DEF WordsPlaced
<1> QED
  BY <1>3, <1>7, <1>8, <1>9

(* Behind a word that does not end the file is what sealed it.              *)
LEMMA WordSealed ==
    ASSUME IInv, LinePlaced, WordsPlaced, AtWord, NEW junk \in {NUL, Junk},
           Passed + Len(Word) < Len(file)
    PROVE  TokenType(Word, After(junk)) = TypeOfWord(Word)
<1> DEFINE S == Cells \cup {"#"}
           behind == sb_get_substring(Line, WordEnd, capacity(Line) - WordEnd)
<1>0. /\ Line.data \in Seq(Cells) /\ Len(Line.data) \in Nat /\ Line.length < Len(Line.data)
      /\ Line.length \in Nat /\ current_pos_in_line \in Nat /\ file_pos \in 0 .. Len(file)
      /\ Len(file) \in Nat /\ pc = "scanning" /\ capacity(Line) = Len(Line.data)
  BY LineFacts DEF IInv, TypeOK, RoomBehindLine, AtWord, capacity
<1>1. WordEnd \in current_pos_in_line + 1 .. Line.length
  BY InsideWord
<1>2. WordEnd < Line.length
  <2>1. Passed + Len(Word) = Base + WordEnd
    BY WordIsThere
  <2>2. SUFFICES ASSUME WordEnd = Line.length PROVE FALSE
    BY <1>0, <1>1
  <2>3. Base + WordEnd = file_pos /\ file_pos # Len(file)
    BY <1>0, <2>1, <2>2 DEF Base
  <2>4. file_pos # 0
    BY <1>0, <1>1 DEF LinePlaced
  <2>5. file[file_pos] = Newline
    BY <1>0, <2>3, <2>4 DEF LinePlaced, AtLineStart
  <2>6. file[Base + WordEnd] \notin Spaces
    BY <1>0, <1>1, InsideWord
  <2> QED
    BY <2>3, <2>5, <2>6 DEF Spaces
<1>3. Line.data[WordEnd + 1] \in Spaces \cup {"#"}
  <2>1. file[Base + WordEnd + 1] \in Spaces \cup {"#"}
    BY <1>2, InsideWord
  <2>2. WordEnd + 1 \in 1 .. Line.length /\ Base + (WordEnd + 1) = Base + WordEnd + 1
    BY <1>0, <1>1, <1>2 DEF Base
  <2> QED
    BY <2>1, <2>2 DEF LinePlaced
<1>4. /\ behind \in Seq(Cells) /\ Len(behind) \in Nat /\ Len(behind) > 0
      /\ behind[1] = Line.data[WordEnd + 1]
  <2> DEFINE n == Len(Line.data) - WordEnd
  <2>1. WordEnd \in Nat /\ n \in Nat /\ n > 0 /\ capacity(Line) - WordEnd = n /\ WordEnd + n = Len(Line.data)
    BY <1>0, <1>1
  <2> HIDE DEF n
  <2>2. \A i \in WordEnd + 1 .. WordEnd + n : Line.data[i] \in Cells
    BY <1>0, <2>1, LenProperties
  <2>3. /\ behind \in Seq(Cells) /\ Len(behind) = n
        /\ \A i \in 1 .. n : behind[i] = Line.data[WordEnd + i]
    <3>1. behind = SubSeq(Line.data, WordEnd + 1, WordEnd + n)
      BY <2>1 DEF sb_get_substring
    <3>2. /\ SubSeq(Line.data, WordEnd + 1, WordEnd + n) \in Seq(Cells)
          /\ Len(SubSeq(Line.data, WordEnd + 1, WordEnd + n)) = n
          /\ \A i \in 1 .. n : SubSeq(Line.data, WordEnd + 1, WordEnd + n)[i] = Line.data[WordEnd + i]
      BY <2>1, <2>2, Piece
    <3> HIDE DEF behind
    <3> QED
      BY <3>1, <3>2
  <2> QED
    BY <2>1, <2>3
<1>5. After(junk) = [n \in 1 .. Len(behind) |-> IF behind[n] = Junk THEN junk ELSE behind[n]]
  BY DEF After
<1> HIDE DEF behind
<1>6. After(junk) \in Seq(S)
  BY <1>4, <1>5 DEF Cells
<1>7. Seals(After(junk))
  <2>1. behind[1] # Junk
    BY <1>3, <1>4, LexerAssumption DEF Named
  <2>2. Len(After(junk)) = Len(behind) /\ After(junk)[1] = behind[1]
    BY <1>4, <1>5, <2>1
  <2> QED
    BY <1>3, <1>4, <2>2 DEF Seals
<1>8. Word \in Seq(S)
  <2>1. Word \in Seq(Cells)
    BY <1>0, WordType DEF AtWord, IInv
  <2> QED
    BY <2>1
<1> HIDE DEF S
<1> QED
  <2>1. "#" \in S
    BY DEF S
  <2> QED
    BY <1>6, <1>7, <1>8, <2>1, WordTypeSealed

(* A word is passed over only as a token.                                   *)
LEMMA WordsStepPlaced ==
    ASSUME IInv, LineInv, WordsInv, TokensPlaced, [Next]_vars
    PROVE  WordsInv'
<1> SUFFICES ASSUME InLoop' PROVE WordsPlaced'
  BY DEF WordsInv
<1>0. /\ Len(file) \in Nat /\ file_pos \in 0 .. Len(file)
      /\ Line.length \in Nat /\ current_pos_in_line \in Nat
      /\ pc \in {"call", "scanning"} => current_pos_in_line <= Line.length
  BY LineFacts
<1>1. CASE StartLine
  <2>1. WordsPlaced /\ LinePlaced
    BY <1>1 DEF StartLine, WordsInv, LineInv, InLoop
  <2>2. BufferOK(Line)
    BY <1>1, BufferInvariant DEF StartLine
  <2>3. Line'.length = 0 /\ UNCHANGED <<file, file_pos, tokens>> /\ pc = "call" /\ pc' = "reading"
    BY <1>1, <2>2, ResetBuffer DEF StartLine, Line, results
  <2>4. Passed = file_pos
    BY <1>0, <1>1 DEF StartLine, Passed, Base, LineUsed
  <2>5. Passed' = file_pos
    BY <1>0, <2>3 DEF Passed, Base
  <2> QED
    BY <2>1, <2>3, <2>4, <2>5, SameWordsPlaced
<1>2. CASE SameLine
  <2>1. WordsPlaced /\ UNCHANGED <<file, tokens>>
    BY <1>2 DEF SameLine, WordsInv, InLoop, stream, results
  <2>2. Passed' = Passed
    BY <1>2 DEF SameLine, stream, position, Passed, Base, Line
  <2> QED
    BY <2>1, <2>2, SameWordsPlaced
<1>3. CASE ReadChar
  <2>1. WordsPlaced /\ UNCHANGED <<file, tokens>>
    BY <1>3 DEF ReadChar, WordsInv, InLoop, results
  <2>2. BufferOK(Line)
    BY <1>3, BufferInvariant DEF ReadChar
  <2>3. Line'.length = Line.length + 1 /\ file_pos' = file_pos + 1
    BY <1>3, <2>2, AppendedText DEF ReadChar, Line
  <2>4. Base' = Base
    BY <1>0, <2>3 DEF Base
  <2>5. /\ pc = "reading" /\ pc' \in {"reading", "scanning"}
        /\ pc' = "scanning" => current_pos_in_line' = 0
    BY <1>3 DEF ReadChar, LineRead
  <2>6. Passed' = Passed
    BY <1>0, <2>4, <2>5 DEF Passed, Base
  <2> QED
    BY <2>1, <2>6, SameWordsPlaced
<1>4. CASE ReadFails
  BY <1>4 DEF ReadFails, InLoop
<1>5. CASE LastLine
  <2>1. WordsPlaced /\ UNCHANGED <<file, tokens>>
    BY <1>5 DEF LastLine, WordsInv, InLoop, stream, results
  <2>2. Passed' = Passed
    BY <1>0, <1>5 DEF LastLine, LineRead, stream, Passed, Base, Line
  <2> QED
    BY <2>1, <2>2, SameWordsPlaced
<1>6. CASE EndOfFile
  BY <1>6 DEF EndOfFile, ReturnEOF, NoMemory, InLoop
<1>7. CASE SkipSpace
  <2>1. WordsPlaced /\ LinePlaced /\ pc = "scanning" /\ UNCHANGED <<file, tokens>>
    BY <1>7 DEF SkipSpace, WordsInv, LineInv, InLoop, stream, results
  <2>2. Passed = Base + current_pos_in_line /\ Passed' = Passed + 1
    BY <1>0, <1>7, <2>1 DEF SkipSpace, stream, Passed, Base, Line
  <2>3. Base \in Nat
    BY <1>0, <2>1, LineBegins DEF LinePlaced
  <2>4. ~InWord(file, Passed + 1)
    <3>1. current_pos_in_line + 1 \in 1 .. Line.length /\ Base + (current_pos_in_line + 1) = Passed + 1
      BY <1>0, <1>7, <2>2, <2>3 DEF SkipSpace, LineUsed
    <3>2. file[Passed + 1] = Here
      BY <2>1, <3>1 DEF LinePlaced, Here, cell
    <3> QED
      BY <1>7, <3>2 DEF SkipSpace, InWord
  <2>5. Passed \in Nat /\ Passed' \in Nat
    BY <1>0, <2>2, <2>3
  <2>6. \A s \in Passed + 1 .. Passed' : ~InWord(file, s)
    BY <2>2, <2>4, <2>5
  <2> QED
    BY <1>0, <2>1, <2>2, <2>5, <2>6, SkippedWords
<1>8. CASE SkipComment
  <2>1. WordsPlaced /\ LinePlaced /\ pc = "scanning" /\ UNCHANGED <<file, file_pos, tokens>>
    BY <1>8 DEF SkipComment, WordsInv, LineInv, InLoop, stream, results
  <2>2. Passed = Base + current_pos_in_line /\ Passed' = file_pos
    BY <1>8, <2>1 DEF SkipComment, RestSkipped, stream, Passed
  <2>3. Base \in Nat /\ Base + Line.length = file_pos
    BY <1>0, <2>1, LineBegins DEF LinePlaced
  <2>4. current_pos_in_line + 1 \in 1 .. Line.length /\ Base + (current_pos_in_line + 1) = Passed + 1
    BY <1>0, <1>8, <2>2, <2>3 DEF SkipComment, LineUsed
  <2>5. file[Passed + 1] = "#"
    BY <1>8, <2>1, <2>4 DEF SkipComment, LinePlaced, Here, cell
  <2>6. Passed \in Nat /\ Passed' \in Nat /\ Passed < Passed'
    BY <1>0, <2>2, <2>3, <2>4
  <2>7. ASSUME NEW s \in Passed + 1 .. Passed', file[s] # Newline PROVE InComment(file, s)
    <3>1. \A k \in Passed + 1 .. s : file[k] # Newline
      <4> TAKE k \in Passed + 1 .. s
      <4>1. CASE k = s
        BY <2>7, <4>1
      <4>2. CASE k - Base \in 1 .. Line.length - 1
        <5>1. Base + (k - Base) = k
          BY <2>3
        <5> QED
          BY <2>1, <4>2, <5>1 DEF LinePlaced
      <4> QED
        BY <1>0, <2>2, <2>3, <2>6, <4>1, <4>2
    <3>2. Passed + 1 \in 1 .. s
      BY <2>6
    <3> QED
      BY <2>5, <3>1, <3>2 DEF InComment
  <2>8. \A s \in Passed + 1 .. Passed' : ~InWord(file, s)
    BY <2>7 DEF InWord, Spaces
  <2> QED
    BY <1>0, <2>1, <2>6, <2>8, SkippedWords
<1>9. CASE LineDone
  <2>1. WordsPlaced /\ pc = "scanning" /\ UNCHANGED <<file, file_pos, tokens>>
    BY <1>9 DEF LineDone, WordsInv, InLoop, stream, results
  <2>2. Passed' = Passed
    BY <1>0, <1>9, <2>1 DEF LineDone, stream, Passed, Base, LineUsed
  <2> QED
    BY <2>1, <2>2, SameWordsPlaced
<1>10. CASE NoToken
  BY <1>10 DEF NoToken, NoMemory, InLoop
<1>11. ASSUME AtWord, NEW type \in TokenTypes, ReturnToken(type) PROVE WordsPlaced'
  <2>1. WordsPlaced /\ LinePlaced
    BY <1>11 DEF AtWord, WordsInv, LineInv, InLoop
  <2> QED
    BY <1>11, <2>1, TokenStepPlaced
<1>12. CASE LexWord \/ CopyFails
  BY <1>11, <1>12, TokenTypeType DEF LexWord, CopyFails, TokenTypes
<1>13. CASE lexer_free
  BY <1>13 DEF lexer_free, InLoop
<1>14. CASE UNCHANGED vars
  <2>1. WordsPlaced /\ UNCHANGED <<file, tokens>>
    BY <1>14 DEF vars, WordsInv, InLoop
  <2>2. Passed' = Passed
    BY <1>14 DEF vars, Passed, Base, Line
  <2> QED
    BY <2>1, <2>2, SameWordsPlaced
<1> QED
  BY <1>1, <1>2, <1>3, <1>4, <1>5, <1>6, <1>7, <1>8, <1>9, <1>10, <1>12, <1>14, <1>13
  DEF Next, get_next_token

-----------------------------------------------------------------------------
(* What a step does to the tokens: it keeps them, or returns the word that  *)
(* starts here.                                                             *)
LEMMA TokenOrSame ==
    ASSUME [Next]_vars
    PROVE  \/ UNCHANGED <<file, tokens>> /\ (pc' = "eof" => pc = "eof" \/ out_of_memory' \/ EndOfFile)
              /\ (out_of_memory => out_of_memory')
           \/ AtWord /\ UNCHANGED file /\ pc' = "call"
              /\ \E type \in TokenTypes :
                    /\ ReturnToken(type)
                    /\ ~out_of_memory' => ~out_of_memory /\ \E junk \in {NUL, Junk} : type = TokenType(Word, After(junk))
<1>1. CASE LexWord
  <2>1. PICK junk \in {NUL, Junk} : ReturnToken(TokenType(Word, After(junk)))
    BY <1>1 DEF LexWord
  <2>2. AtWord /\ UNCHANGED <<file, out_of_memory>> /\ pc' = "call"
    BY <1>1, <2>1 DEF LexWord, ReturnToken, stream
  <2> QED
    BY <2>1, <2>2, TokenTypeType
<1>2. CASE CopyFails
  <2>1. AtWord /\ ReturnToken("UNKNOWN") /\ out_of_memory' /\ UNCHANGED file /\ pc' = "call"
    BY <1>2 DEF CopyFails, ReturnToken, stream
  <2> QED
    BY <2>1 DEF TokenTypes
<1>3. CASE ~LexWord /\ ~CopyFails
  BY <1>3 DEF Next, get_next_token, vars, stream, results, StartLine, SameLine, ReadChar, LineRead,
              ReadFails, LastLine, EndOfFile, ReturnEOF, SkipSpace, SkipComment, LineDone,
              NoToken, NoMemory, lexer_free
<1> QED
  BY <1>1, <1>2, <1>3

FileInv == IInv /\ LineInv /\ WordsInv /\ TokensAreWords /\ TypesInv

LEMMA SplitWords ==
    TokensAreWords <=>
        /\ Len(tokens) <= Cardinality(WordStarts(file))
        /\ TokensPlaced
        /\ pc = "eof" /\ ~out_of_memory => Len(tokens) = Cardinality(WordStarts(file))
BY DEF TokensAreWords, TokensPlaced

LEMMA TokensStep ==
    ASSUME FileInv, [Next]_vars
    PROVE  TokensAreWords'
<1>0. /\ TokensPlaced /\ Len(tokens) <= Cardinality(WordStarts(file))
      /\ pc = "eof" /\ ~out_of_memory => Len(tokens) = Cardinality(WordStarts(file))
      /\ IInv /\ LineInv /\ WordsInv
  BY SplitWords DEF FileInv
<1>1. CASE UNCHANGED <<file, tokens>> /\ (pc' = "eof" => pc = "eof" \/ out_of_memory' \/ EndOfFile)
           /\ (out_of_memory => out_of_memory')
  <2>1. TokensPlaced'
    BY <1>0, <1>1, StartStays DEF TokensPlaced, IsWordAt
  <2>2. ASSUME EndOfFile PROVE Len(tokens) = Cardinality(WordStarts(file))
    <3>1. WordsPlaced /\ pc = "reading" /\ file_pos = Len(file) /\ Line.length = 0 /\ Len(file) \in Nat
      BY <1>0, <2>2, LineFacts DEF EndOfFile, WordsInv, InLoop
    <3>2. Passed = Len(file)
      BY <3>1 DEF Passed, Base
    <3>3. WordsUpTo(file, Len(file)) = WordStarts(file)
      BY <3>1, WordsFinite
    <3> QED
      BY <3>1, <3>2, <3>3 DEF WordsPlaced
  <2> QED
    BY <1>0, <1>1, <2>1, <2>2, SplitWords DEF TokensAreWords, TokensPlaced
<1>2. ASSUME AtWord, UNCHANGED file, pc' = "call", NEW type \in TokenTypes, ReturnToken(type)
      PROVE  TokensAreWords'
  <2>1. WordsPlaced /\ LinePlaced
    BY <1>0, <1>2 DEF AtWord, WordsInv, LineInv, InLoop
  <2>2. TokensPlaced' /\ Len(tokens') <= Cardinality(WordStarts(file))
    BY <1>0, <1>2, <2>1, TokenStepPlaced
  <2> QED
    BY <1>2, <2>2 DEF TokensAreWords, TokensPlaced
<1> QED
  BY <1>1, <1>2, TokenOrSame

LEMMA TypesStep ==
    ASSUME FileInv, [Next]_vars
    PROVE  TypesInv'
<1> SUFFICES ASSUME ~out_of_memory' PROVE TypesPlaced'
  BY DEF TypesInv
<1>1. CASE UNCHANGED <<file, tokens>> /\ (out_of_memory => out_of_memory')
  BY <1>1, StartStays DEF FileInv, TypesInv, TypesPlaced, EndsFile
<1>2. ASSUME AtWord, UNCHANGED file, ~out_of_memory, NEW type \in TokenTypes, ReturnToken(type),
             NEW junk \in {NUL, Junk}, type = TokenType(Word, After(junk))
      PROVE  TypesPlaced'
  <2>1. WordsPlaced /\ LinePlaced /\ TokensPlaced /\ IInv /\ TypesPlaced
    BY <1>2, SplitWords DEF FileInv, AtWord, WordsInv, LineInv, InLoop, TypesInv
  <2>2. /\ Len(tokens) \in Nat /\ Len(tokens') = Len(tokens) + 1
        /\ \A k \in 1 .. Len(tokens) : tokens'[k] = tokens[k]
        /\ tokens'[Len(tokens) + 1].word = Word /\ tokens'[Len(tokens) + 1].type = type
    <3>1. /\ Len(tokens) \in Nat /\ Len(tokens') = Len(tokens) + 1
          /\ \A k \in 1 .. Len(tokens) : tokens'[k] = tokens[k]
          /\ tokens'[Len(tokens) + 1] = [type |-> type, word |-> Word, line |-> line_number]
      BY <1>2, <2>1, AppendedToken
    <3> QED
      BY <3>1
  <2> SUFFICES ASSUME NEW k \in 1 .. Len(tokens'), ~(Start(k) + Len(tokens'[k].word) > Len(file))
               PROVE  tokens'[k].type = TypeOfWord(tokens'[k].word)
    BY <1>2, StartStays DEF TypesPlaced, EndsFile
  <2>3. CASE k \in 1 .. Len(tokens)
    BY <2>1, <2>2, <2>3 DEF TypesPlaced, EndsFile
  <2>4. CASE k = Len(tokens) + 1
    <3>1. Start(k) = Passed + 1
      BY <1>2, <2>1, <2>4, TokenStepPlaced
    <3>2. Passed \in Nat /\ Len(Word) \in Nat /\ Len(file) \in Nat
      <4>1. Word \in Seq(Cells)
        BY <1>2, <2>1, WordType DEF AtWord, IInv
      <4> QED
        BY <1>2, <2>1, <4>1, LineFacts, WordFound, LenProperties
    <3>3. Passed + Len(Word) < Len(file)
      BY <2>2, <2>4, <3>1, <3>2
    <3> QED
      BY <1>2, <2>1, <2>2, <2>4, <3>3, WordSealed
  <2> QED
    BY <2>2, <2>3, <2>4
<1> QED
  BY <1>1, <1>2, TokenOrSame

LEMMA FileStep == FileInv /\ [Next]_vars => FileInv'
<1> SUFFICES ASSUME FileInv, [Next]_vars PROVE FileInv'
  OBVIOUS
<1>1. IInv /\ LineInv /\ WordsInv /\ TokensPlaced
  BY SplitWords DEF FileInv
<1> QED
  BY <1>1, Step, LineStepPlaced, WordsStepPlaced, TokensStep, TypesStep DEF FileInv

LEMMA FileInit == Init => FileInv
<1> SUFFICES ASSUME Init PROVE FileInv
  OBVIOUS
<1>1. IInv
  BY InitHolds
<1>2. /\ Line.length = 0 /\ pc = "call" /\ file_pos = 0 /\ line_is_exhausted /\ current_pos_in_line = 0
      /\ line_number = 0 /\ tokens = <<>> /\ Len(tokens) = 0 /\ Len(file) \in Nat
  BY <1>1, LineFacts DEF Init, Line, sb_init, StringMut
<1>3. Base = 0 /\ Passed = 0
  BY <1>2 DEF Base, Passed
<1>4. LineInv
  BY <1>2, <1>3 DEF LineInv, LinePlaced, AtLineStart
<1>5. WordsInv
  <2>1. WordsUpTo(file, 0) = {}
    BY DEF WordsUpTo, WordStarts
  <2>2. ~InWord(file, 0)
    BY DEF InWord
  <2> QED
    BY <1>2, <1>3, <2>1, <2>2, FS_EmptySet DEF WordsInv, WordsPlaced
<1>6. TokensAreWords
  <2>1. Cardinality(WordStarts(file)) \in Nat
    BY <1>2, WordsFinite
  <2> QED
    BY <1>2, <2>1 DEF TokensAreWords
<1>7. TypesInv
  BY <1>2 DEF TypesInv, TypesPlaced
<1> QED
  BY <1>1, <1>4, <1>5, <1>6, <1>7 DEF FileInv

(* What the buffer holds is the line of the file that is being looked at,   *)
(* and what get_next_token has returned are the words in front of it.       *)
THEOREM LinesAreOfTheFile == Spec => []FileInv
BY FileInit, FileStep, PTL DEF Spec

(* For every file, however its lines are laid out and however the buffer    *)
(* has to grow: the tokens are its words in order, none twice and none left *)
(* out, with their lines, also when an allocation fails on the way.         *)
THEOREM TokensAreTheWords == Spec => []TokensAreWords
<1>1. FileInv => TokensAreWords
  BY DEF FileInv
<1> QED
  BY LinesAreOfTheFile, <1>1, PTL

(* The same word has the same type wherever it is in the file, whatever the *)
(* buffer held before, but for the word that ends the file.                 *)
THEOREM WordsKeepTheirType == Spec => []SameWordSameType
<1>1. FileInv => SameWordSameType
  BY DEF FileInv, TypesInv, TypesPlaced, SameWordSameType
<1> QED
  BY LinesAreOfTheFile, <1>1, PTL
=============================================================================
