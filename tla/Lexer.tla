------------------------------- MODULE Lexer --------------------------------
(***************************************************************************)
(* lexer.c: get_next_token, called until it returns the token of the end   *)
(* of the file.  It reads the file line by line into a buffer and returns  *)
(* the words of the line.  One action is one round of one of its loops.    *)
(* Any allocation may fail.                                                *)
(*                                                                         *)
(* A cell of the file and of the buffer stands for a run of characters     *)
(* that the lexer treats alike: a name of letters, digits, or one of the   *)
(* characters @ : # and white space.                                       *)
(***************************************************************************)
EXTENDS StringBuffer, FiniteSets

CONSTANTS
    Chars,             \* the kinds of characters of a file
    Files,             \* the files explored
    InitialCapacity    \* SB_DEFAULT_INITIAL_CAPACITY

Blank   == "blank"     \* white space but the end of a line
Newline == "newline"
Digits  == "9"
Spaces  == {Blank, Newline}
Named   == Spaces \cup {"#", "@", ":", Digits}
Marks   == Named \cup {NUL}

(* The zero byte, and what an allocation leaves behind, are none of the     *)
(* characters that the lexer compares with.                                 *)
ASSUME LexerAssumption ==
    /\ Files \subseteq Seq(Chars)
    /\ InitialCapacity \in Nat \ {0, 1}
    /\ NUL \notin Named /\ Junk \notin Named

VARIABLES
    pc,                     \* what get_next_token does next
    file, file_pos,         \* the input stream and how much of it has been read
    current_line_buffer,
    current_pos_in_line,
    line_is_exhausted,
    line_number,
    tokens,                 \* the tokens returned so far
    out_of_memory           \* some allocation has failed

stream   == <<file, file_pos, current_line_buffer, line_number>>
position == <<current_pos_in_line, line_is_exhausted>>
results  == <<tokens, out_of_memory>>
vars == <<pc, file, file_pos, current_line_buffer, current_pos_in_line, line_is_exhausted,
          line_number, tokens, out_of_memory>>

-----------------------------------------------------------------------------
(* What a word is.  The code sees a view of the buffer, so that text behind *)
(* the word can be read as well: after.                                     *)

instruction_map ==
    <<"LT", "GT", "EQ", "OR", "ADD", "SUB", "MUL", "AND", "NOT", "MOVE", "CALL", "POPS", "IDIV",
      "READ", "TYPE", "JUMP", "EXIT", "PUSHS", "WRITE", "LABEL", "BREAK", "DEFVAR", "RETURN",
      "CONCAT", "STRLEN", "DPRINT", "STR2INT", "GETCHAR", "SETCHAR", "INT2CHAR", "JUMPIFEQ",
      "PUSHFRAME", "POPFFRAME", "JUMPIFNEQ", "CREATEFRAME">>

(* Where the names of a length start and end in the map, from 0.            *)
ins_index_map ==
    <<{}, {}, 0 .. 3, 4 .. 8, 9 .. 16, 17 .. 20, 21 .. 25, 26 .. 28, 29 .. 30, 31 .. 33, {}, {35}>>

get_instruction_indexes(name) == IF Len(name) > 11 THEN {} ELSE ins_index_map[Len(name) + 1]

(* Behind the end of the map there is no name.                              *)
is_instruction(word) ==
    /\ Len(word) = 1
    /\ \E n \in get_instruction_indexes(word[1]) :
          n < Len(instruction_map) /\ word[1] = instruction_map[n + 1]

IsName(c) == c \notin Marks

(* The first character is looked at even if the text is empty.              *)
is_identifier(text, after) ==
    /\ IsName((text \o after)[1])
    /\ \A n \in 1 .. Len(text) : IsName(text[n]) \/ text[n] = Digits

StartsWith(word, prefixes) == Len(word) >= 2 /\ word[1] \in prefixes /\ word[2] = "@"
Rest(word) == SubSeq(word, 3, Len(word))

is_variable(word, after) ==
    StartsWith(word, {"GF", "LF", "TF"}) /\ is_identifier(Rest(word), after)

is_label(word) ==
    word[Len(word)] = ":" /\ is_identifier(SubSeq(word, 1, Len(word) - 1), <<":">>)

is_literal(word) == StartsWith(word, {"int", "nil", "bool", "string"})

(* strtoull reads on behind the word; the digits must end in a zero byte.   *)
EndsNumberAtSpace(c) == c \in {NUL} \cup Spaces
EndsNumber(c) == c = NUL

IsNumber(text, after) ==
    LET all == text \o after IN
    text # <<>> /\ \E n \in 1 .. Len(all) : EndsNumber(all[n]) /\ \A k \in 1 .. n - 1 : all[k] = Digits

IsBoolean(text) == text = <<"true">> \/ text = <<"false">>

lex_literal(word, after) ==
    LET text == Rest(word) IN
    CASE word[1] = "int"    -> IF IsNumber(text, after) THEN "INT" ELSE "UNKNOWN"
      [] word[1] = "bool"   -> IF IsBoolean(text) THEN "BOOL" ELSE "UNKNOWN"
      [] word[1] = "nil"    -> "NIL"
      [] word[1] = "string" -> "STRING"

(* The type of the new token, as far as memory allows.                      *)
TokenType(word, after) ==
    IF is_instruction(word) THEN "INSTRUCTION"
    ELSE IF is_variable(word, after) THEN "VARIABLE"
    ELSE IF is_label(word) THEN "LABEL"
    ELSE IF is_literal(word) THEN lex_literal(word, after)
    ELSE "UNKNOWN"

-----------------------------------------------------------------------------
Line == current_line_buffer
Here == cell(Line, current_pos_in_line)
LineUsed == current_pos_in_line >= Line.length

(* get_next_token returns NULL.                                             *)
NoMemory ==
    /\ pc' = "no_token"
    /\ out_of_memory' = TRUE

(* The token of the end of the file, or NULL.                               *)
ReturnEOF ==
    \/ pc' = "eof" /\ UNCHANGED out_of_memory
    \/ NoMemory

(* get_next_token, called by the parser or by itself.                       *)
StartLine ==
    /\ pc = "call" /\ (line_is_exhausted \/ LineUsed)
    /\ pc' = "reading"
    /\ current_line_buffer' = sb_reset(Line)
    /\ line_number' = line_number + 1
    /\ UNCHANGED <<file, file_pos, position, results>>

SameLine ==
    /\ pc = "call" /\ ~line_is_exhausted /\ ~LineUsed
    /\ pc' = "scanning"
    /\ UNCHANGED <<stream, position, results>>

(* lexer_read_next_line                                                     *)
LineRead ==
    /\ pc' = "scanning"
    /\ current_pos_in_line' = 0
    /\ line_is_exhausted' = FALSE

ReadChar ==
    /\ pc = "reading" /\ file_pos < Len(file)
    /\ LET c == file[file_pos + 1] IN
       /\ current_line_buffer' = sb_append_char(Line, c)
       /\ IF c = Newline THEN LineRead ELSE UNCHANGED <<pc, position>>
    /\ file_pos' = file_pos + 1
    /\ UNCHANGED <<file, line_number, results>>

(* realloc fails: a character has been read, and the line is given up.      *)
ReadFails ==
    /\ pc = "reading" /\ file_pos < Len(file) /\ MustGrow(Line)
    /\ file_pos' = file_pos + 1
    /\ pc' \in {"eof", "no_token"}
    /\ out_of_memory' = TRUE
    /\ UNCHANGED <<file, current_line_buffer, line_number, position, tokens>>

LastLine ==
    /\ pc = "reading" /\ file_pos = Len(file) /\ Line.length > 0
    /\ LineRead
    /\ UNCHANGED <<stream, results>>

EndOfFile ==
    /\ pc = "reading" /\ file_pos = Len(file) /\ Line.length = 0
    /\ ReturnEOF
    /\ UNCHANGED <<stream, position, tokens>>

(* Back in get_next_token                                                   *)
SkipSpace ==
    /\ pc = "scanning" /\ ~LineUsed /\ Here \in Spaces
    /\ current_pos_in_line' = current_pos_in_line + 1
    /\ UNCHANGED <<pc, stream, line_is_exhausted, results>>

RestKept == line_is_exhausted
RestSkipped == TRUE

SkipComment ==
    /\ pc = "scanning" /\ ~LineUsed /\ Here = "#"
    /\ line_is_exhausted' = RestSkipped
    /\ pc' = "call"
    /\ UNCHANGED <<stream, current_pos_in_line, results>>

LineDone ==
    /\ pc = "scanning" /\ LineUsed
    /\ line_is_exhausted' = TRUE
    /\ pc' = "call"
    /\ UNCHANGED <<stream, current_pos_in_line, results>>

AtWord == pc = "scanning" /\ ~LineUsed /\ Here \notin Spaces \cup {"#"}

NoToken ==
    /\ AtWord
    /\ NoMemory
    /\ UNCHANGED <<stream, position, tokens>>

EndsWord(c) == c \in Spaces \cup {"#"}

(* The position behind the word that starts here.                           *)
WordEnd ==
    CHOOSE n \in current_pos_in_line + 1 .. Line.length :
        /\ n = Line.length \/ EndsWord(cell(Line, n))
        /\ \A k \in current_pos_in_line + 1 .. n - 1 : ~EndsWord(cell(Line, k))

Word == sb_get_substring(Line, current_pos_in_line, WordEnd - current_pos_in_line)

(* The cells behind the word; a cell never written reads as a zero byte or  *)
(* as some character, which Junk stands for.                                *)
After(junk) ==
    LET behind == sb_get_substring(Line, WordEnd, capacity(Line) - WordEnd)
    IN  [n \in 1 .. Len(behind) |-> IF behind[n] = Junk THEN junk ELSE behind[n]]

PastSeparator == WordEnd + 1
PastWord == WordEnd

ReturnToken(type) ==
    /\ tokens' = Append(tokens, [type |-> type, word |-> Word, line |-> line_number])
    /\ current_pos_in_line' = PastWord
    /\ pc' = "call"
    /\ UNCHANGED <<stream, line_is_exhausted>>

LexWord ==
    /\ AtWord
    /\ \E junk \in {NUL, Junk} : ReturnToken(TokenType(Word, After(junk)))
    /\ UNCHANGED out_of_memory

(* The text of a variable, a label or a string cannot be copied.            *)
CopyFails ==
    /\ AtWord
    /\ \E junk \in {NUL, Junk} : TokenType(Word, After(junk)) \in {"VARIABLE", "LABEL", "STRING"}
    /\ ReturnToken("UNKNOWN")
    /\ out_of_memory' = TRUE

(* parser_free, when the parser has got the last token.                     *)
lexer_free ==
    /\ pc \in {"eof", "no_token"}
    /\ pc' = "freed"
    /\ current_line_buffer' = sb_free(Line)
    /\ UNCHANGED <<file, file_pos, line_number, position, results>>

-----------------------------------------------------------------------------
(* lexer_init has succeeded.                                                *)
Init ==
    /\ pc = "call"
    /\ file \in Files
    /\ file_pos = 0
    /\ current_line_buffer = sb_init(InitialCapacity)
    /\ current_pos_in_line = 0
    /\ line_is_exhausted = TRUE
    /\ line_number = 0
    /\ tokens = <<>>
    /\ out_of_memory = FALSE

get_next_token ==
    \/ StartLine \/ SameLine
    \/ ReadChar \/ ReadFails \/ LastLine \/ EndOfFile
    \/ SkipSpace \/ SkipComment \/ LineDone
    \/ NoToken \/ LexWord \/ CopyFails

Next == get_next_token \/ lexer_free

(* The only thread of the process keeps running, and the parser keeps       *)
(* calling until the end of the file.                                       *)
Spec == Init /\ [][Next]_vars
FairSpec == Spec /\ WF_vars(Next)

-----------------------------------------------------------------------------
(* The values of the variables; the position in the line stays inside the   *)
(* line, so that no character is taken from behind it.                      *)
Cells == Chars \cup {NUL, Junk}

TokenTypes == {"INSTRUCTION", "VARIABLE", "LABEL", "INT", "BOOL", "NIL", "STRING", "UNKNOWN"}

TypeOK ==
    /\ pc \in {"call", "reading", "scanning", "eof", "no_token", "freed"}
    /\ file \in Files
    /\ file_pos \in 0 .. Len(file)
    /\ Line \in [data : Seq(Cells), length : Nat]
    /\ current_pos_in_line \in Nat
    /\ pc \in {"call", "scanning"} => current_pos_in_line <= Line.length
    /\ line_is_exhausted \in BOOLEAN /\ out_of_memory \in BOOLEAN
    /\ line_number \in Nat
    /\ tokens \in Seq([type : TokenTypes, word : Seq(Cells) \ {<<>>}, line : Nat])

(* Behind every line there is a cell of the buffer.  The checks of words    *)
(* rely on it: is_identifier looks at the first character of an empty text, *)
(* strtoull at the one that follows a number.                               *)
RoomBehindLine == pc # "freed" => Line.length < capacity(Line)

(* The words of a file, from the text alone: the longest stretches without  *)
(* white space outside comments.                                            *)
InComment(f, n) == \E c \in 1 .. n : f[c] = "#" /\ \A k \in c .. n : f[k] # Newline
InWord(f, n) == n \in 1 .. Len(f) /\ f[n] \notin Spaces /\ ~InComment(f, n)
WordStarts(f) == {n \in 1 .. Len(f) : InWord(f, n) /\ ~InWord(f, n - 1)}
LineOf(f, n) == Cardinality({k \in 1 .. n - 1 : f[k] = Newline}) + 1

(* Where the k-th word starts.                                              *)
Start(k) == CHOOSE s \in WordStarts(file) : Cardinality({r \in WordStarts(file) : r < s}) = k - 1

IsWordAt(word, n) ==
    /\ word = SubSeq(file, n, n + Len(word) - 1)
    /\ \A k \in n .. n + Len(word) - 1 : InWord(file, k)
    /\ ~InWord(file, n + Len(word))

(* get_next_token returns the words of the file in their order, each with   *)
(* the number of its line, none twice and none left out; the end of the     *)
(* file is returned behind the last of them, unless memory ran out.  The    *)
(* lines go through one buffer that grows and is used again.                *)
TokensAreWords ==
    /\ Len(tokens) <= Cardinality(WordStarts(file))
    /\ \A k \in 1 .. Len(tokens) :
          IsWordAt(tokens[k].word, Start(k)) /\ tokens[k].line = LineOf(file, Start(k))
    /\ pc = "eof" /\ ~out_of_memory => Len(tokens) = Cardinality(WordStarts(file))

(* What a word means does not depend on what was in the buffer before it or *)
(* comes after it: the same word has the same type everywhere, save for the *)
(* word that ends the file, behind which the buffer holds older text.       *)
EndsFile(k) == Start(k) + Len(tokens[k].word) > Len(file)

SameWordSameType ==
    \A j, k \in 1 .. Len(tokens) :
        /\ tokens[j].word = tokens[k].word
        /\ ~out_of_memory /\ ~EndsFile(j) /\ ~EndsFile(k)
        => tokens[j].type = tokens[k].type

(* Every file comes to an end: get_next_token calls itself for lines        *)
(* without a word, and its loops advance.                                   *)
LexerEnds == <>(pc \in {"eof", "no_token"})

(* lexer.c:462: a literal is a number if strtoull has converted the whole   *)
(* text; of a text of digits only it converts the whole.                    *)
NumbersAccepted ==
    \A k \in 1 .. Len(tokens) :
        tokens[k].word = <<"int", "@", Digits>> => tokens[k].type = "INT"
=============================================================================
