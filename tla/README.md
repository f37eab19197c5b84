# Verification of the interpreter

The repository is an interpreter for a small three-address language (IPPcode
style): it reads a program, turns it into an array of instructions and a table
of jump labels, and executes it on a memory of variable frames and stacks.  It
is one process with one thread.  What makes it hard to get right is not
concurrency but long sequences of legal calls on shared, hand-written data
structures, allocations that fail between two steps of one call, ownership that
moves by `memcpy`, and the hand-over of results from one phase to the next.

## Inventory

| Part | Source | State | Operations | Used by |
|---|---|---|---|---|
| Robin Hood table | `src/robin_hood_table.c` | entries, keys and data arrays, size, capacity | init, insert, look_up, delete, resize, clear, free, iterate, move | jump table, memory frames |
| Jump table | `headders/jump_table.h` | a Robin Hood table of {destination, filled} | insert (with growth), lookup, check_entries | parser, interpreter |
| Memory frame | `headders/memory_frame.h` | a Robin Hood table of values | insert_new_val (with growth), get, move, free | memory |
| Stacks | `headders/stacks.h` | data, size, capacity | push (with growth), top, pop, free | memory |
| Memory | `src/memory.c` | global, temporary and local frames; value and call stack | frame create, push, drop; variable get, insert; stack push, pop | interpreter |
| Memory values | `src/memory_value.c` | a tagged union that may own a string | create, copy, move, free | memory, interpreter |
| Interpreter | `src/interpreter.c` | the code position | one step per instruction | main |
| IR array | `src/ir_array.c` | elements, size, capacity | add, free | parser, main |
| Parser | `src/parser.c` | lexer, jump table, IR array | create, parse_line, store_label, parse_file, get_ir, free | main |
| Operand checks | `headders/opcodes.h`, `src/type_checks.c` | none | operand counts and types of an opcode | parser |
| Tokens | `src/tokens.c` | a tagged union that may own a string | move, free | parser, IR array |
| Lexer | `src/lexer.c` | position in the file, line buffer | get_next_token | parser |
| Strings | `headders/string_buffer.h`, `src/DynBuf.c` | short and heap strings, growing buffers | copy, move, view, append, free | all |
| Hashes | `headders/hashes.h` | none | hash of a string | Robin Hood table |
| Program | `src/main.c` | the objects above, created and released in order | main | |

How they interact: `main` creates a parser, which pulls tokens from the lexer,
checks operands, enters labels in the jump table and appends to the IR array.
`main` then takes the array and the table from the parser, frees the parser,
initialises the memory and calls `interpret_ir`, which reads the array and the
table and changes the memory.  Errors travel upwards as return codes.  There are
no callbacks but the deleters of tables and stacks, which free what the elements
own.

What makes each part correct, and where it is hard:

- *Table*: a probe may give up early, so every entry must be where its hash and
  distance say, with no gap before it, through swaps, shifts and rehashing; data
  indices must not be lost or shared; pointers given out must stay valid; a
  probe must end.  A key copy can fail after the swaps have been made.
- *Parser and jump table*: the label of a line is recorded before its
  instruction is stored, the macro that checks the call evaluates it twice, jumps
  come before or after declarations, and the table may grow in between; an
  accepted program must have every label where the table says.
- *Operand checks*: bit masks and field indices must accept what the language
  means, and no label may end up where a value is read.
- *Stacks, memory and interpreter*: frames, strings and addresses move between
  places; each must be in one place and be freed once, whichever step fails.
- *Strings, lexer, tokens, program*: overflow and growth of buffers, look-up
  ranges, who frees what on which error path, in which order.

`PROJECT.json` lists the hazards at their lines with the properties that would
catch them.

## Modules and what they stand for

| Module | Stands for | An action is |
|---|---|---|
| `Dict` | the map a table promises | a call, its effect, its answer |
| `RHTable` | `robin_hood_table.c` | one loop iteration of one function |
| `RHTable_proofs` | theorems on `RHTable`: safety, pointers, that it implements `Dict` | |
| `Opcodes` | `opcodes.h`, the checks of `type_checks.c` as a function | (no state) |
| `TypeChecks` | `instruction_args_valid` | one round of its loop |
| `LineTokens` | the memory of a line: `tokens.c`, `parser_parse_line`, the elements of `ir_array.c` | a token obtained, a round of the check, an element, a release |
| `LineTokens_proofs` | theorems on `TypeChecks` and `LineTokens` | |
| `Assembler` | what the parser promises: programs as text alone | one line |
| `Parser` | `parser.c`, `jump_table.h`, `ir_array.c` | one exit or one step of `parser_parse_line`: a token, the type check, the label, the element |
| `Parser_proofs` | theorems on `Parser` | |
| `Frames` | what a program does to names, values and its position | one instruction |
| `Stacks` | the macros of `stacks.h` | (operators on a stack record) |
| `Interpreter` | `interpret_ir`, `memory.c`, `memory_frame.h`, the release in `main` | one instruction |
| `Interpreter_proofs` | theorems on `Interpreter` | |
| `StringBuffer` | the growing buffer of `string_buffer.h`, `DynBuf.c` | (operators on a buffer record) |
| `Texts` | what each kind of call on strings promises | one call |
| `Strings` | `DynBuf.c` and `string_buffer.h` on a heap of blocks | one call |
| `MemoryValue` | `memory_value.c`, with the strings that values own | one call |
| `MemoryValue_proofs` | theorems on `MemoryValue` and its `Strings` | |
| `Keys` | which bytes `get_hash` reads and what `sb_cmp` compares; theorems | |
| `Lexer` | `lexer.c` | one round of a loop of `get_next_token` or `lexer_read_next_line` |
| `Lexer_proofs` | theorems on `Lexer` | |
| `Program` | `main.c`, `parser_create`, `parser_get_ir`, `parser_free`, `memory_init` | one block allocated, handed over or freed |
| `Program_proofs` | theorems on `Program` | |
| `RHTableMC`, `LexerMC`, `ParserMC`, `LineTokensMC`, `InterpreterMC`, `MemoryValueMC` | constants for TLC | |
| `RHTableLostMC` | the table after failed copies: constants, a history, two properties | |

`RHTable` keeps the split of the code: `entries` holds the metadata that moves,
`entry_keys` and `entry_data` stay where they are, and an entry points to them
with `data_index`.  The entry being carried by a walk is `hand`; `hole` is the
slot of the first swap.  The hash is an arbitrary constant function, so nothing
depends on the mixing in `hashes.h`.  A distance has 16 bits in the code
(`robin_hood_table.h:11`), and so it is counted modulo `DistanceLimit`
(`Further`), which is 65536.  A key whose copy failed is `NoKey`; reading it may do
anything, including end the process (`Crash`).

`Dict` is the map as the code keeps it: an insertion of a key that is there
answers `KEY_FOUND` and leaves the data alone, against the header, which has it
update them (`robin_hood_table.h:152`).

`Parser` and `Interpreter` use the table as the map that `RHTable` is proved to
implement, with its load limit of 15/16, which decides when it grows.  In
`Parser`, `pc` tells how far a line has come.  The label goes into `table` on the
way from `store_label` to `add_elm`, and the element into `ir` afterwards, so
there is a state in which the table is ahead of the program.  The call that
stores an element is the argument of `PARSER_MEM_CHECK` (`parser.c:94`), which
evaluates it twice: `AddElm` is the first call, and the second finds the strings
of the operands moved away.  In the default build it fails the assertion of
`sb_move_string` (`MoveAborts`), unless no operand owns a string; with `NDEBUG` it
stores a copy without strings (`AddElmAgain`).  The model lets either follow, so
what holds of it holds of both builds.  The other assertion in reach of the
parser, behind the growth of the label table, needs a full table and hence two
lines with labels, which only a build without it gets to.

A line may begin with a token of any type, and its value is read as an opcode
(`parser.c:56`).  `Words` are the opcodes that the first tokens of a file spell, the
instruction set and any others: a number spells every one.  What is asked of such a
word is what the code asks of its bits.  `has_label` tests one bit of the field of the
first operand, so that a word can have a label and take something else there as well
(`TakesLabel` says when it cannot), or have no operands at all; `parser_store_label` then
reads a null pointer or a number as a string, which is `crashed`.

`Interpreter` starts from an array as the headers describe it, each instruction
once and with its strings, under the parser's rule for labels (`Accepted`): labels
are positions, and jumps and calls go forward, which is what `Parser_proofs`
shows of accepted programs.  A literal is known by the position of its
instruction and is taken to be a string, since no other literal owns memory;
`string_frees` counts how often its characters were freed.  A frame is known by
the order of its creation; `frees` counts how often it was freed.  The end of the
process is a `status`: an error code that `main` returns, `aborted` for a failed
assertion (the default build has them), `undefined` for a read outside an array
or of an operand that was never written, `exit 99`, and `key lost` for a name
whose copy failed, behind which the model does not look.

`Frames` is a program as its author sees it: the instructions and the position,
what the names of the global, the temporary and each local frame stand for, the
values pushed, and how many calls there are to return from.  A step is the
instruction at the position, and says which name it defines or assigns and in
which frame, what it pushes or takes, and where it goes, or for which reason it ends
the program.  `Interpreter` implements it under a mapping that takes tables, addresses
and capacities away.  Where the code departs from what one would expect, `Frames` does
so too, and no further: a local variable is defined in the global frame
(`interpreter.c:282`), the use of a local frame ends in `lost`, of which nothing
more is said (`stack_top` hands out the slot above it), POPS assigns the value
that was popped before (`stale`) and to a variable that no operand names, and RETURN
goes to the start or behind a label that is called.

`LineTokens` follows the same line as `Parser`, through its memory.  Token 0 is the
one the line begins with; a token and its string have one name, and `in_token`
and `elements` say who points to the string.  `Parser` has no memory of tokens and
`LineTokens` no table: neither depends on the other's part, except for where a
line is given up, which both leave open.  Its tokens are of every type the code
knows, so that the release is checked for strings the lexer does not make today.

`Strings` is the library of strings as calls on a heap.  A block is a number with
a size and what was written; a string is its data, length and capacity, and a size
is reduced modulo `SIZE_MAX + 1` where the code adds or doubles.  A call includes
its allocations, each of which may fail.  The allocator is that of glibc: half the
address space is the largest block, and `realloc` to no bytes frees.  A block that
`realloc` moves keeps its name, since its owner learns the new address; the one
pointer that does not, the text that is being appended, is `Stale`.  `MemoryValue`
adds the values, whose type decides which of two kinds of string is freed.
`Texts` has neither blocks nor capacities: it says what a call that makes, copies,
appends to, empties, frees, moves or leaves a string does to the texts that the slots
hold, that a failed call does nothing to them, and that only an empty text or one
that is appended to itself may become undefined.  Which of these each function of the
code is, `StringCallsKeepPromises` and `ValueCallsKeepPromises` say, call by call, and
`ImplementsTexts` asks it of every step.
`StringBuffer` is the same buffer for the lexer's sake, which looks behind the
length: there the cells matter and the heap does not.

`Keys` says up to which length a key may be taken for what `RHTable` takes it, a
value with an arbitrary hash that is compared by `=`.

`Lexer` keeps the buffer as it is: behind the line in progress are the rest of
older lines, the zeros of `calloc`, or what `realloc` found (`Junk`).  A cell
stands for a run of characters that the lexer treats alike, so that a word is two
or three cells; the names of the instructions are the code's, and they are looked
up by their length in the code's ranges.  What reads past a word reads the cells
behind it (`After`).  So `GF@`, whose name is empty, is a variable at the end of a
file when an older line left a letter behind it, and nowhere else.

`Program` is about who owns which block, in which order blocks are made, handed
over, unwound and freed.  Parsing and interpreting are one step each: a program of
some length or an error, a code or the end of the process.  `block` is the fate of
a block, `held` the blocks the parser's fields point to (`parser_get_ir` and
`parser_move_table` clear a field each), and an action handles one block, so that
any step of `parser_create` and `memory_init` may fail.  Using a freed block makes
the status `undefined`, behind which the model does not look.  A table counts as
one block, as does a stack; what their elements own is with `Interpreter`.

What `Interpreter` shows therefore holds of the interpreter as a component.  The
program as a whole gets less far: in the default build only lines without
strings pass the parser; with `NDEBUG` each instruction runs twice, the second
time without strings, so that a `CALL` looks up an empty label; and the lexer as
it is lets no program reach `CREATEFRAME` or `POPFRAME` (`lexer.c:72`,
`lexer.c:84`: the name is misspelt, and the range for names of eleven characters
begins behind the table).

## Runs

| Run | Question | Instance |
|---|---|---|
| `table` | Does the table keep the Robin Hood invariants, implement `Dict`, keep pointers stable, and iterate exactly? | four keys, two values, 4 slots growing to 8; homes 3, 1, 3 and 0 (7, 1, 7 and 0 after growth), three finger prints so that probes collide and wrap, one insertion swaps twice, and a rehash swaps; up to the first copy of a key that fails |
| `table_lost` | What do the slots that failed copies cost do to the keys that are stored; which calls return? | two keys with one finger print, homes 1 and 0 (3 and 0 after growth), 2 slots growing to 4, two failed copies anywhere and any calls behind them; distances of two bits, which a walk in circles exceeds |
| `lexer` | Are the tokens the words of the file, with their lines; does a word mean the same everywhere; does the file end? | every file of up to six cells of names, comments, blanks and line ends; every pair of 14 well and badly formed words with every end; a buffer of 4 cells that grows |
| `strings` | Has each block one owner, are claimed capacities there, where is freed memory touched, what loses a value's type, and does each call do what is said of it, or nothing? | one `StringMut`, one `String`, two values (symmetric) and two blocks; a literal of two characters; sizes up to 7, blocks up to 3 |
| `operand_types` | Does the loop over the operands accept what the masks mean, and name the first misfit; where can a label be; is each token freed once, has each string one owner, and which are never freed? | a line that begins with a token of any type, for every instruction, the numbers 0 to 2 and four words that are no instructions, with every list of tokens, given up anywhere |
| `parser` | Do table and program agree, do accepted jumps resolve and go forward, is the assembler implemented, although every line is stored twice? | three labels, four lines that begin with LABEL, JUMPIFEQ, DEFVAR or one of three words that are no instructions, table of 2 slots (grows at the second new label and when a label follows the third), array of 2 (grows twice), any allocation failing |
| `interpreter` | Do frames and strings have one owner and one release, do pushes stay inside, does each instruction do what `Frames` says, does only RETURN loop? | all programs of 5 instructions over frames and variables, of 6 over values, of 6 over labels, jumps and calls |
| `program` | Is nothing left allocated on any path through `main`, does nobody free what another has freed, and where is a freed block used? | each of four allocations of the parser and four of the memory failing; programs of 0, 1 and 2 instructions |

The instances are small, but each bound is past the point where something new
can happen: the table goes through its load limit, a wrap, two swaps in one insertion
and a rehash; the parser's table and array both grow in the middle of a line; stacks
start with one slot and a frame with two, so that both grow within a program.
In `strings`, two blocks are an old one and a new one; a size of 7 lets a length of 3
grow into a capacity that no block has and one that wraps to nothing, and lets the
second guard of `sb_append_string` refuse.
`MaxInstructions` tells an empty program from others, which is
all that `main` depends on.  `table` explores nothing behind the first failed copy
(`MCSpec`); `table_lost` explores everything behind two of them, which take every
slot of a table of two and half of one of four, but for an insertion that has
dropped the entry in its hand (`dropped`).  A value whose string
has lost its type is not followed further, nor is a copy made into a place whose string
was freed (`Untyped`, `Vacant`).
`MaxLines`, `MaxCapacity`, `MaxCopyFailures`, `MaxFrames` and `MaxDepth` only bound
the exploration.  In `interpreter`, `MaxFrames` and `MaxDepth` exceed the length of
a program, so they never stop one that has no RETURN.  `CHECK_DEADLOCK FALSE`
stands where the system stops: a parsed or failed program, an ended process, or
a bound.

`table_lost` is about slots that hold no key because its copy failed after the swaps were
made.  Such a slot hides no key that is stored, and shares its data index with none
(`LostSlotsHideNothing`).  Every call on such a table returns, or ends the process on the
key that was never written, but for an insertion that finds no empty slot
(`CallsReturn`).  Outside stand two things that the code does.  An insertion may take the
unwritten key of a slot for its own after it has swapped, and then drops the entry in
its hand (`dropped`); and slots that were lost are not counted in the size, so that an
insertion into a table with none left is not refused as full
(`robin_hood_table.h:162`) but turns in circles.

`program` finds nothing leaked when `main` returns, and names the three ways to use
a freed block (`UsedAfterFree` says there are no others): after a refused line,
`parser_parse_file` has freed the parser (`parser.c:163`) and `main` frees it again
(`main.c:171`); when `memory_init` fails, the parser freed at `main.c:154` is freed
again; and for a program without instructions `parser_get_ir` asks `realloc` for no
bytes, which frees the elements in the C library the project is built with, takes
the NULL for a failure to shrink, and hands out the freed pointer (`parser.c:147`),
which `interpret_ir` reads.  The way an undefined label takes, where the parser is
still there, is clean.  A file stays open only after an interpretation.
`NothingLeft` is about the ways on which `main` returns.  A failed `memory_init`
leads to the parser that is freed twice, and so nothing is said of what it leaves.

`strings` names the two ways in which calls that respect the assertions touch freed
memory (`UndefinedTwoWays` says there are no others).  A string appended to itself
is copied from where it was before `realloc` (`DynBuf.c:102`).  And a `String` of no
length that is made mutable has capacity 0, which `sb_append_char` doubles to 0: the
`realloc` frees the block, its NULL is taken for a failure, and the string points to
nothing (`DynBuf.c:30`).  Neither happens in the program today.  `OnlyCopyLosesType`
names the one call that leaves a string in a value that does not say so
(`memory_value.c:217`).

`operand_types` says which memory of a line is lost: the token that ends the program or
is unknown (`parser.c:53`), a string that a line begins with (`parser.c:104`), and, when
the array is released, the strings of the second and third operand of each stored
line, since `__elm_array_clear` frees the first operand as often as there are operands,
in a copy (`ir_array.c:117`).  Nothing is freed twice on the way.

`OnlyReturnLoops` says that a program without RETURN comes to an end.  One that runs
off the end of its instructions, which the code does not check, has ended in this
sense: the model calls it `undefined` and looks no further.

Four runs show where the code does otherwise than its documentation says:

- `numbers_accepted`: an integer literal followed by white space, a line end or a
  comment is an unknown token; only one that ends the file can be accepted.
- `parser_moved_strings`: the strings of an instruction are moved a second time
  after they are gone, because the check around the call evaluates it twice.
- `pops_take_the_top`: the stacks hand out the slot above the top.  RETURN thereby
  restarts the program, POPS assigns nothing, and POPFRAME aborts.
- `literal_freed_twice`: a string pushed by PUSHS is freed with the instructions
  and again with the stack.

In other places the models follow the code where its documentation says something
else, and the properties are about what the code does:

- An insertion of a key that is in the table leaves its data as they were
  (`Dict!InsertExisting`); `robin_hood_table.h:152` has it update them.
- An insertion into a table without an empty slot does not end
  (`RHTableLostMC!Ends`); `robin_hood_table.h:162` has it answer that the table is full.
- A line that begins with a number can have a label by `has_label` without one, or
  anything, among its operands (`LabelsWhereLabelsBelong`); `opcodes.h:142` has it
  check for a label operand.
- An operand of type symbol refuses variables (`Takes`), contrary to the comment at
  `opcodes.h:29`; the interpreter's branches for variables are never reached.
- `memory_value_get_str_mut` copies the text of a string literal and leaves the
  value its own (`ValueCallsKeepPromises`); `memory_value.h:261-263` has it moved.
- `memory_value_free` returns before it makes the value undefined
  (`memory_value.c:119`, `memory_value.c:130`); `memory_value.h:226` has it undefined.

## Fairness

Three liveness properties are checked.  `CallsReturn` (`RHTableLostMC`) assumes weak
fairness of the steps inside a function, `OnlyReturnLoops` (`Interpreter`) that of
the interpreter's step, `LexerEnds` (`Lexer`) that of the lexer's, whose caller asks
for tokens until the file ends: the only thread of the process keeps running.  Calls on
the table are not assumed to happen.

## Proofs

What TLC shows on a small instance the theorems show for every value of the
constants.  Where an invariant had to be strengthened, TLC checked the stronger one on
the instance of the run before it was proved.  The assumptions are those the
modules state of their constants, and TLC evaluates them in the runs.

| Proved of | Invariants | Action properties and refinements |
|---|---|---|
| `RHTable` | `TypeOK`, `IndexesDistinct`, `ProbePathsHeld`, `SizeCountsEntries`, `KeysWrittenBeforeRead`, `IterationExact` | `PointersStable`, `ImplementsDict` |
| `Parser` | `TypeOK`, `TableMatchesProgram`, `JumpsResolve`, `JumpsForward` | `ImplementsAssembler` |
| `Interpreter` | `TypeOK`, `PushesInsideAllocation`, `FramesInOnePlace`, `FramesReleasedOnce`, `StringsHaveOneOwner` | `ImplementsFrames` |
| `Program` | `NothingLeft`, `UsedAfterFree`, `FieldsPointToBlocks` | |
| `MemoryValue` | `BlocksOwnedOnce`, `ClaimsAllocated` | `UndefinedTwoWays`, `OnlyCopyLosesType`, `ImplementsTexts` |
| `Lexer` | `TypeOK`, `RoomBehindLine`, `TokensAreWords`, `SameWordSameType` | |
| `TypeChecks`, `LineTokens` | `FirstMisfitNamed`, `LabelsWhereLabelsBelong`, `TokensFreedOnce`, `StringsOwnedOnce` | `ReleaseFreesTheRest` |

### The table

`RHTable_proofs` holds for every set of keys, every hash function and every capacity
that is a power of two.  All but `TypeCorrect` assume `DistancesFit`, that no table
has more than `DistanceLimit` slots.  In a larger one a distance of 16 bits may be cut
off, and a probe would give up too early.

`TypeCorrect` is inductive as it stands, as it says that a probe's position, the
slot it left behind and the index of the entry it carries lie inside the arrays:
no swap, shift or rehash indexes outside them.

The other properties are not inductive: between two iterations of a loop an entry is in
two slots or in none, and half of the keys are in the old arrays.  The invariant
`Sound` says, in each part, where a call in progress stands.

- `HandSound`: which entry is in hand, that the slot it left is occupied by its
  successor, and that between that slot and the probe no slot is empty, so a walk
  cannot come round to its own hole.
- `Distinct`: data indexes differ, with the entry in hand counted instead of the
  copy in the hole.
- `Counted`: the slots in use against `size`, in a resize against what has been moved;
  there is an empty slot, and while a key is being inserted there are two.
- `KeysSound`: each index in use has a key of its own, the others have none.
- `OldSound`: in a resize, the pairs of key and data in the new arrays are those that the
  loop has passed in the old ones.
- `Routed`: entries lie where their hash and distance say, with the slots between
  held by entries at least as far from home, and so does the probe; the key looked
  for is at none of the slots passed.
- `IterSound`: an iteration has seen the keys of the slots it has passed.

A slot that is proved empty ends every probe, but that the probe gets there is
liveness and stays with TLC.  `Sound` is about a table none of whose key copies has
failed, and so the invariants, `ImplementsDict` and `PointersStable` are about the
calls up to the first failure; `ImplementsDict` includes the call in which it happens.
What is left of them behind it is weaker, and with the run `table_lost`.

For `ImplementsDict` the map is read off the data indexes in use
(`ContentsOf`): swaps and shifts keep the set of them with their keys, so they
stutter; an insertion adds one, a deletion gives one up, and in a resize the
pairs of the old arrays are those of the new ones when the loop ends.  That a
search which gives up early answers what `Dict` does is `Routed`.

### The parser

`Parser_proofs`: for every set of labels, every set of words that lines may begin with,
every initial size of table and array and programs of any length.  None of the
properties is inductive.  The invariant `IInv` adds to the types that

- the table agrees with the program *as it will be when the line is done*
  (`TableAgrees`): while an instruction waits to be stored, its label is already
  in the table;
- only an element whose opcode has a label by `has_label` is stored with one (`LabelsRecorded`);
- while the copy of an instruction is due, the instruction is the last element
  (`HalfStored`);
- an accepted program has no unfilled entry (`AcceptedFilled`);
- jumps go forward (`JumpsForward`).

A line that begins with a word that is no instruction may enter a label without
storing one, so that the table can mention labels that no element has
(`AstrayLine`, `AnyAstray`).  It cannot declare one, as only LABEL does.

From it follow `TypeCorrect`, `TableCorrect`, `JumpsCorrect` and `ForwardOnly`, and
`Implements`: every step of the parser is a step of `Assembler` or leaves it
unchanged, where a line becomes visible to `Assembler` once its copy is stored and
a refused line drops the program.  The proofs use the assumptions on the constants only
(`ParserAssumption`: words are opcodes, sizes are positive, the label table starts with
more than one slot, `NoLabel` is no label).  One lemma computes the operand types of the instruction set.

### The lexer and the keys

`Lexer_proofs`: `TypeCorrect` and `RoomCorrect`, for all files and every initial
capacity of at least two.  They hold together only: a word is a piece of the
buffer because the line lies inside it, and the line does because the buffer grows
one cell before it is full.  That the word ends inside the line rests on the least
element of a set of numbers.

The other two properties compare the buffer with the file, of which the program sees
a character at a time.  `FileInv` keeps them together:

- `LineInv`: in front of the line in the buffer is a line end or the beginning of the
  file, its cells are the characters of the file up to `file_pos`, and its number is
  that of the line ends before it.  Nothing that `sb_reset` or a growth leaves behind
  the length is taken for a character of the line.
- `WordsInv`: there are as many tokens as words begin in what has been passed
  (`Passed`), and what has been passed does not end inside a word.  A step passes blanks, a
  comment, the end of a line or one whole word, so a word is never met twice or
  skipped; a failed allocation stops the count where it is.
- `TokensAreWords` itself, since the next token is placed behind the earlier ones.
- `TypesInv`: recognising a word looks one cell behind it.  `IdentifierSealed`,
  `NumberSealed` and `WordTypeSealed` say that with white space or a `#` in that cell
  the type depends on the word alone; only the word that ends the file can have
  something else behind it.

What counts as a word of the file is said without the lexer (`WordStarts`, `InWord`), for
sequences of any characters.  `LexerAssumption` adds that the zero byte and what an
allocation leaves behind are none of the characters the lexer compares with.

`Keys`: for every length that an `int` can hold, the hash reads the bytes of the key,
each once, and no others (`ReadsTheKey`, `ReadsEachByteOnce`), and `sb_cmp` is 0 for
equal keys only (`CmpTellsApart`).  For longer keys neither is so
(`LongKeysReadElsewhere`, `LongKeysTakenForTheSame`).  The only assumption is that
`INT_MAX` is a number; that a length becomes an `int` by its low bits is what the
compiler the project is built with does.

### The line

`LineTokens_proofs` gives the reasons for what the run has enumerated, a line of every
instruction with every list of tokens.

- The check: a word has at most three operands, and only the first of an instruction
  may be a label (`OpcodeTypes`).  The words that are no instructions have any three
  fields, and `LabelsWhereLabelsBelong` says of them how a line ends that reads a label
  which is not there.  Comparing the bits of two operand types is asking whether
  the token belongs to the language of the operand (`FitsIsTakes`).  With that, an
  invariant on the loop counter (`CheckInv`) gives `FirstMisfitNamed` and
  `LabelsWhereLabelsBelong`, for a call by itself as for one in a line, and
  `LoopIsArgsValid`: the loop returns what `Parser` takes its result to be.
- The memory: until the first call of `ir_array_add_elm` the tokens have all the
  strings, afterwards the first element has those of the operands, and a second element
  has none (`StringsInv`); which of the two it was decides whether the cleanup frees
  strings or leaves them to the array.  `TokensInv` says that the tokens are freed in
  one place.  `StringsOwnedOnce` counts the owners from that, and
  `ReleaseFreesTheRest` looks at what the release reads of an element.

### The interpreter

`Interpreter_proofs` holds for programs of every length, any initial size of stacks and
frames, and any allocation failing.

- `PushesInsideAllocation` needs the sizes of all three stacks against what was allocated
  for them.  A push that fails ends the program, and so nothing follows on the
  doubled capacity.
- `FramesInOnePlace` and `FramesReleasedOnce` rest on `FramesPlaced`: what is in a
  place has not been freed, everything else has, but for the one frame a
  PUSHFRAME had in hand when memory ran out.  The slots above the top of the stack
  of frames hold nothing, which is why a POPFRAME, which takes one of them,
  cannot give a frame a second place.
- `StringsHaveOneOwner` rests on `StringsAhead`: in a program without RETURN, no
  variable or slot holds a literal of an instruction still to come.
- `ImplementsFrames` rests on these and on `AboveInv`, which says what lies above the tops
  of the stacks, where POPS and RETURN read: the value popped before or none
  (`StaleValues`), and the start or a position that some CALL stored
  (`StalePositions`).  It goes through the instructions one by one; the growth of a
  frame, failed growths and capacities are invisible.

It assumes of programs what `Parser` delivers (`Accepted`), that DEFVAR and MOVE name
a variable (`WellFormed`), and that names are finitely many; of the model's own values
that "no frame" is not a table.

### The program

`Program_proofs`: the three properties follow from `LiveInv`, which says for each
label of `main` and for each block of the part in progress which blocks are
allocated and which of them the parser's fields point to, and from `ExitInv`, the places
in which a process leaves.  The allocated blocks are always a beginning or an end of the
lists in which they are made and released, and that is what makes the unwinding
right whichever step fails.

### Strings and values

`MemoryValue_proofs` holds for any number of strings and values, every size of the
address space and all literals.  A call does one of six things to the heap: it
makes a string, writes behind one, empties one, frees one, loses the block of one to
`realloc`, or hands a block over.  Each is a lemma that it keeps `HeapInv` and has
one effect on the texts, and each call is a lemma that says which it does.
`StringsKeepPromises` and `ValuesKeepPromises` tie these to the calls of `Texts`.

- `HeapInv`: every block has an owner and no two; a string without a block is blank; a
  string whose block is gone claims nothing; the others claim no more than was written
  and allocated.
- `MutableInv`: what can be appended to, be it a `StringMut` or the string of a value
  that is one, has its length within its capacity.  Without it the growth in
  `sb_append_string` would not be known to make room, as capacities wrap around.

From these follow `BlocksOwnedOnce` and `ClaimsAllocated`, that there are two ways to touch
freed memory and no more (`UndefinedTwoWays`), that only a copy loses a type, and
`ImplementsTexts`.  The assumptions say that the kinds of slots differ from each other and from
literals, that a missing string is no text (`SlotsAssumption`), and how the largest
block and the default capacity relate (`StringsAssumption`).

### Only model-checked

- `CallsReturn`, `OnlyReturnLoops`, `LexerEnds`: liveness under fairness is beyond the
  prover.
- `LostSlotsHideNothing`, which is about the calls that follow a failed copy.  Every other
  safety invariant, action property and refinement that a passing run checks is proved
  as well.
- That `Keys` computes what the loop of the hash does byte by byte would need
  induction over data; the theorems are about which bytes are read.

## Not modelled, and the plan

1. `Lexer` composed with `Parser`.  The parser depends on the order and the types of
   the tokens only, and takes any.
2. A value whose string lost its type, and a copy into a place whose string was
   freed, in `MemoryValue`.

3. An invariant of the table that survives failed copies, so that what `table_lost` shows
   can be proved.

Left out for good: the mixing of the hashes (any hash will do), `memory_value_store`,
which does not compile and is used nowhere, the getters and conversions of values,
which only read, `rh_table_move` other than as a change of a frame's owner, the layout of
one allocation holding three arrays, printing of errors, and the help text of the
program.
