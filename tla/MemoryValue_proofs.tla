------------------------- MODULE MemoryValue_proofs -------------------------
(***************************************************************************)
(* The properties of strings and of the values that own them, for any      *)
(* number of variables, every size of the address space and all literals.  *)
(*                                                                         *)
(* A call does one of six things to the heap: it makes a string, writes    *)
(* behind one, empties one, frees one, has the block of one freed by       *)
(* realloc, or hands a block over.  Each keeps HeapInv and has one effect  *)
(* on the texts (TextMap); which of them a call does is a lemma of its     *)
(* own.  MutableInv adds what a string must have to grow, and the type of  *)
(* a value is where it is known to have it.                                *)
(***************************************************************************)
EXTENDS MemoryValue, SequenceTheorems, FiniteSetTheorems, WellFoundedInduction, TLAPS

BlockRecord  == [size : 0 .. PTRDIFF_MAX, text : Seq(Chars)]
StringRecord == [data : Blocks \cup {NULL}, length : Nat, capacity : Nat]

HeapType ==
    /\ Live \subseteq Blocks
    /\ heap \in [Live -> BlockRecord]
    /\ string \in [Slots -> StringRecord]

Owned ==
    /\ \A b \in Live : \E x \in Slots : string[x].data = b
    /\ \A x, y \in Slots : Holds(x) /\ string[y].data = string[x].data => x = y
    /\ \A x \in Slots : ~Holds(x) => string[x] = NoString
    /\ \A x \in Slots : Dangling(x) => Emptied(x)

Claimed ==
    \A x \in Slots : Holds(x) /\ ~Dangling(x) =>
        /\ string[x].length <= Len(heap[string[x].data].text)
        /\ string[x].length <= heap[string[x].data].size
        /\ string[x].capacity <= heap[string[x].data].size

HeapInv == HeapType /\ Owned /\ Claimed

(* What may be appended to, now or after it has been handed over.           *)
Mutable(x) == x \in Muts \/ (x \in Vals /\ type[x] = "STRING_MUT")
MutableInv == \A x \in Slots : Mutable(x) => string[x].length <= string[x].capacity

TypeInv ==
    /\ reply \in {"true", "false", "undefined"}
    /\ type \in [Vals -> Types]

IInv == HeapInv /\ TypeInv /\ MutableInv

(* The texts of the strings: the state of the promise.                      *)
TextMap == [x \in Slots |-> IF Holds(x) THEN TextOf(x) ELSE NULL]

-----------------------------------------------------------------------------
(* Numbers, blocks and texts                                                *)

LEMMA Sizes ==
    /\ PTRDIFF_MAX \in Nat /\ SIZE_MAX \in Nat /\ 2 * PTRDIFF_MAX <= SIZE_MAX
    /\ DefaultCapacity \in Nat /\ DefaultCapacity > 0 /\ DefaultCapacity <= PTRDIFF_MAX
BY StringsAssumption DEF PTRDIFF_MAX

LEMMA NoWrap ==
    ASSUME NEW n \in Nat, n <= SIZE_MAX
    PROVE  size_t(n) = n
BY Sizes DEF size_t

(* A set of numbers has a least one.                                        *)
LEMMA LeastNumber ==
    ASSUME NEW T \in SUBSET Nat, T # {}
    PROVE  \E n \in T : \A k \in T : n <= k
<1>1. PICK n \in T : \A k \in T : ~(<<k, n>> \in OpToRel(<, Nat))
    BY WFMin, NatLessThanWellFounded
<1>2. \A k \in T : <<k, n>> \in OpToRel(<, Nat) <=> k < n
    BY DEF OpToRel
<1>3. n \in Nat /\ \A k \in T : k \in Nat
    OBVIOUS
<1>4. \A k \in T : ~(k < n)
    BY <1>1, <1>2
<1>5. \A k \in T : n <= k
    BY <1>3, <1>4
<1> QED
    BY <1>5

LEMMA NewBlockIsFresh ==
    ASSUME Fresh # {}
    PROVE  NewBlock \in Fresh
<1>1. Fresh \in SUBSET Nat
    BY StringsAssumption DEF Fresh
<1>2. \E b \in Fresh : \A c \in Fresh : b <= c
    BY <1>1, LeastNumber
<1> QED
    BY <1>2 DEF NewBlock

(* The text of a string, read off its record and the heap.                  *)
TextAt(h, r) == IF r.length = 0 THEN <<>> ELSE SubSeq(h[r.data].text, 1, r.length)

LEMMA TextMapIs ==
    /\ TextMap = [x \in Slots |-> IF string[x].data = NULL THEN NULL ELSE TextAt(heap, string[x])]
    /\ TextMap' = [x \in Slots |-> IF string'[x].data = NULL THEN NULL ELSE TextAt(heap', string'[x])]
BY DEF TextMap, TextOf, TextAt, Holds

LEMMA Prefix ==
    ASSUME NEW t \in Seq(Chars), NEW n \in Nat, n <= Len(t)
    PROVE  SubSeq(t, 1, n) \in Seq(Chars) /\ Len(SubSeq(t, 1, n)) = n
<1>1. 1 \in 1 .. Len(t) + 1 /\ n \in 0 .. Len(t)
    OBVIOUS
<1>2. \A k \in 1 .. n : k \in 1 .. Len(t)
    OBVIOUS
<1>3. SubSeq(t, 1, n) \in Seq(Chars) /\ Len(SubSeq(t, 1, n)) = IF 1 <= n THEN n - 1 + 1 ELSE 0
    BY <1>1, <1>2, SubSeqProperties
<1> QED
    BY <1>3

LEMMA TextIs ==
    ASSUME HeapInv, NEW x \in Slots, Holds(x)
    PROVE  /\ TextMap[x] = TextOf(x)
           /\ TextOf(x) \in Seq(Chars) /\ Len(TextOf(x)) = string[x].length
           /\ TextOf(x) # NULL
           /\ Dangling(x) => TextOf(x) = <<>>
<1>1. string[x] \in StringRecord /\ string[x].length \in Nat
    BY DEF HeapInv, HeapType, StringRecord
<1>2. Dangling(x) => string[x].length = 0
    BY DEF HeapInv, Owned, Emptied
<1>3. CASE string[x].length = 0
    <2>1. <<>> \in Seq(Chars) /\ Len(<<>>) = 0
        OBVIOUS
    <2>2. TextOf(x) = <<>>
        BY <1>3 DEF TextOf
    <2>3. TextMap[x] = TextOf(x)
        BY DEF TextMap
    <2> QED
        BY <1>3, <2>1, <2>2, <2>3, SlotsAssumption
<1>4. CASE string[x].length # 0
    <2>1. string[x].data \in Live
        BY <1>2, <1>4 DEF Dangling
    <2>2. heap[string[x].data].text \in Seq(Chars) /\ string[x].length <= Len(heap[string[x].data].text)
        BY <2>1, <1>2, <1>4 DEF HeapInv, HeapType, Claimed, BlockRecord
    <2>3. TextOf(x) = SubSeq(heap[string[x].data].text, 1, string[x].length)
        BY <1>4 DEF TextOf
    <2>4. TextOf(x) \in Seq(Chars) /\ Len(TextOf(x)) = string[x].length
        BY <2>2, <2>3, <1>1, Prefix
    <2> QED
        BY <2>4, <1>2, <1>4, SlotsAssumption DEF TextMap
<1> QED
    BY <1>3, <1>4

(* A string whose record and block a call leaves alone keeps its text.      *)
LEMMA TextStays ==
    ASSUME HeapInv, NEW x \in Slots, string'[x] = string[x],
           string[x].data \in Live => heap'[string[x].data] = heap[string[x].data]
    PROVE  TextMap'[x] = TextMap[x]
<1>1. CASE string[x].data = NULL
    BY <1>1, TextMapIs
<1>2. CASE string[x].data # NULL /\ string[x].length = 0
    BY <1>2, TextMapIs DEF TextAt
<1>3. CASE string[x].data # NULL /\ string[x].length # 0
    <2>1. string[x].data \in Live
        BY <1>3 DEF HeapInv, Owned, Emptied, Dangling, Holds
    <2>2. TextAt(heap', string'[x]) = TextAt(heap, string[x])
        BY <2>1 DEF TextAt
    <2> QED
        BY <2>2, TextMapIs
<1> QED
    BY <1>1, <1>2, <1>3

(* A call that changes the text of one string, or none.                     *)
LEMMA TextOfOne ==
    ASSUME NEW x \in Slots, NEW t,
           TextMap'[x] = t,
           \A y \in Slots \ {x} : TextMap'[y] = TextMap[y]
    PROVE  TextMap' = [TextMap EXCEPT ![x] = t]
<1>1. DOMAIN TextMap = Slots /\ DOMAIN TextMap' = Slots
    BY DEF TextMap
<1>2. TextMap' = [y \in Slots |-> TextMap'[y]]
    BY TextMapIs
<1>3. [TextMap EXCEPT ![x] = t] = [y \in Slots |-> IF y = x THEN t ELSE TextMap[y]]
    BY <1>1
<1>4. \A y \in Slots : TextMap'[y] = IF y = x THEN t ELSE TextMap[y]
    OBVIOUS
<1> QED
    BY <1>2, <1>3, <1>4

LEMMA TextOfNone ==
    ASSUME \A y \in Slots : TextMap'[y] = TextMap[y]
    PROVE  TextMap' = TextMap
BY DEF TextMap

(* What a call may be given to read.                                        *)
LEMMA ViewIs ==
    ASSUME HeapInv, NEW view \in Views
    PROVE  /\ Text(view) \in Seq(Chars)
           /\ Length(view) \in Nat /\ Length(view) <= PTRDIFF_MAX /\ Length(view) = Len(Text(view))
           /\ Text(view) \in Promised!Known
           /\ view \in Slots => Length(view) = string[view].length /\ TextMap[view] = Text(view)
<1>1. CASE view \in Literals
    <2>1. Text(view) = view /\ view \in Seq(Chars) /\ Len(view) <= PTRDIFF_MAX
        BY <1>1, StringsAssumption DEF Text
    <2>2. view \notin Slots
        BY <1>1, SlotsAssumption
    <2>3. Text(view) \in Promised!Known
        BY <1>1, <2>1 DEF Promised!Known
    <2> QED
        BY <2>1, <2>2, <2>3 DEF Length
<1>2. CASE view \notin Literals
    <2>1. view \in Slots /\ Holds(view) /\ Text(view) = TextOf(view)
        BY <1>2 DEF Views, Text
    <2>2. /\ TextMap[view] = TextOf(view) /\ TextOf(view) # NULL
          /\ TextOf(view) \in Seq(Chars) /\ Len(TextOf(view)) = string[view].length
        BY <2>1, TextIs
    <2>3. string[view].length \in Nat /\ string[view].length <= PTRDIFF_MAX
        <3>1. string[view].length \in Nat
            BY <2>1 DEF HeapInv, HeapType, StringRecord
        <3>2. CASE Dangling(view)
            BY <3>2, <2>1, Sizes DEF HeapInv, Owned, Emptied
        <3>3. CASE ~Dangling(view)
            <4>1. string[view].data \in Live /\ string[view].length <= heap[string[view].data].size
                BY <3>3, <2>1 DEF HeapInv, Claimed, Dangling
            <4>2. heap[string[view].data].size \in 0 .. PTRDIFF_MAX
                BY <4>1 DEF HeapInv, HeapType, BlockRecord
            <4> QED
                BY <3>1, <4>1, <4>2, Sizes
        <3> QED
            BY <3>2, <3>3
    <2>4. Text(view) \in Promised!Known
        BY <2>1, <2>2 DEF Promised!Known, TextMap
    <2> QED
        BY <2>1, <2>2, <2>3, <2>4 DEF Length
<1> QED
    BY <1>1, <1>2

-----------------------------------------------------------------------------
(* The six effects                                                          *)

(* A new block for a string that had none.                                  *)
Make(out, size, t, capacity) ==
    /\ Fresh # {}
    /\ heap' = With(NewBlock, size, t)
    /\ string' = [string EXCEPT ![out] = String(NewBlock, Len(t), capacity)]

(* Text behind that of a string, in its block.                              *)
Write(buf, t, size, capacity) ==
    /\ heap' = With(string[buf].data, size, Written(string[buf].data, string[buf].length, t))
    /\ string' = [string EXCEPT ![buf] = String(string[buf].data, string[buf].length + Len(t), capacity)]

Empty(buf) == string' = [string EXCEPT ![buf].length = 0] /\ UNCHANGED heap

Free(x) ==
    /\ heap' = IF Holds(x) THEN Without(string[x].data) ELSE heap
    /\ string' = [string EXCEPT ![x] = NoString]

FreedByRealloc(buf) == heap' = Without(string[buf].data) /\ UNCHANGED string

Transfer(from, to, capacity) == string' = Transferred(from, to, capacity) /\ UNCHANGED heap

-----------------------------------------------------------------------------
LEMMA Holder ==
    ASSUME HeapInv, NEW x \in Slots, Holds(x)
    PROVE  /\ string[x].data \in Blocks
           /\ \A y \in Slots \ {x} : string[y].data # string[x].data
           /\ ~Dangling(x) => string[x].data \in Live
           /\ \A b \in Live \ {string[x].data} : \E y \in Slots \ {x} : string[y].data = b
<1>1. string[x].data \in Blocks
    BY DEF HeapInv, HeapType, StringRecord, Holds
<1>2. \A y \in Slots \ {x} : string[y].data # string[x].data
    BY DEF HeapInv, Owned
<1>3. ~Dangling(x) => string[x].data \in Live
    BY DEF Dangling
<1>4. \A b \in Live \ {string[x].data} : \E y \in Slots \ {x} : string[y].data = b
    BY DEF HeapInv, Owned
<1> QED
    BY <1>1, <1>2, <1>3, <1>4

LEMMA MakeEffect ==
    ASSUME HeapInv, NEW out \in Slots, ~Holds(out),
           NEW size \in 0 .. PTRDIFF_MAX, NEW t \in Seq(Chars), Len(t) <= size,
           NEW capacity \in Nat, capacity <= size,
           Make(out, size, t, capacity)
    PROVE  HeapInv' /\ TextMap' = [TextMap EXCEPT ![out] = t]
<1> DEFINE b == NewBlock
<1>1. b \in Blocks /\ b \notin Live /\ (\A y \in Slots : string[y].data # b) /\ b # NULL
    BY NewBlockIsFresh, StringsAssumption DEF Make, Fresh
<1> HIDE DEF b
<1>2. /\ Live' = Live \cup {b}
      /\ \A c \in Live : heap'[c] = heap[c]
      /\ heap'[b] = [size |-> size, text |-> t]
      /\ heap' \in [Live' -> BlockRecord]
    <2>1. heap' = [c \in Live \cup {b} |-> IF c = b THEN [size |-> size, text |-> t] ELSE heap[c]]
        BY DEF Make, With, b
    <2>2. Live' = Live \cup {b}
        BY <2>1 DEF Live
    <2>3. heap'[b] = [size |-> size, text |-> t] /\ \A c \in Live : heap'[c] = heap[c]
        BY <2>1, <1>1
    <2>4. [size |-> size, text |-> t] \in BlockRecord /\ \A c \in Live : heap[c] \in BlockRecord
        BY DEF BlockRecord, HeapInv, HeapType
    <2>5. \A c \in Live \cup {b} : heap'[c] \in BlockRecord
        BY <2>3, <2>4
    <2> QED
        BY <2>1, <2>2, <2>3, <2>5
<1>3. /\ string' \in [Slots -> StringRecord]
      /\ string'[out] = [data |-> b, length |-> Len(t), capacity |-> capacity]
      /\ \A x \in Slots \ {out} : string'[x] = string[x]
    <2>1. string' = [string EXCEPT ![out] = [data |-> b, length |-> Len(t), capacity |-> capacity]]
        BY DEF Make, String, b
    <2>2. [data |-> b, length |-> Len(t), capacity |-> capacity] \in StringRecord
        BY <1>1 DEF StringRecord
    <2> QED
        BY <2>1, <2>2 DEF HeapInv, HeapType
<1>4. HeapType'
    BY <1>1, <1>2, <1>3 DEF HeapType, HeapInv
<1>5. Owned'
    <2>1. \A c \in Live' : \E x \in Slots : string'[x].data = c
        <3> SUFFICES ASSUME NEW c \in Live' PROVE \E x \in Slots : string'[x].data = c
            OBVIOUS
        <3>1. CASE c = b
            BY <3>1, <1>3
        <3>2. CASE c # b
            <4>1. PICK x \in Slots : string[x].data = c
                BY <3>2, <1>2 DEF HeapInv, Owned
            <4>2. c # NULL /\ x # out
                BY <4>1, <3>2, <1>2, StringsAssumption DEF HeapInv, HeapType, Holds
            <4> QED
                BY <4>1, <4>2, <1>3
        <3> QED
            BY <3>1, <3>2
    <2>2. \A x, y \in Slots : (Holds(x))' /\ string'[y].data = string'[x].data => x = y
        <3> SUFFICES ASSUME NEW x \in Slots, NEW y \in Slots, string'[x].data # NULL, string'[y].data = string'[x].data
                     PROVE  x = y
            BY DEF Holds
        <3>1. CASE x = out
            BY <3>1, <1>1, <1>3
        <3>2. CASE y = out
            BY <3>2, <1>1, <1>3
        <3>3. CASE x # out /\ y # out
            BY <3>3, <1>3 DEF HeapInv, Owned, Holds
        <3> QED
            BY <3>1, <3>2, <3>3
    <2>3. \A x \in Slots : (~Holds(x))' => string'[x] = NoString
        BY <1>1, <1>3 DEF HeapInv, Owned, Holds
    <2>4. \A x \in Slots : (Dangling(x))' => (Emptied(x))'
        <3> SUFFICES ASSUME NEW x \in Slots, (Dangling(x))' PROVE (Emptied(x))'
            OBVIOUS
        <3>1. x # out
            BY <1>2, <1>3 DEF Dangling
        <3>2. Dangling(x) /\ string'[x] = string[x]
            BY <3>1, <1>2, <1>3 DEF Dangling, Holds
        <3>3. Emptied(x)
            BY <3>2 DEF HeapInv, Owned
        <3> QED
            BY <3>2, <3>3 DEF Emptied
    <2> QED
        BY <2>1, <2>2, <2>3, <2>4 DEF Owned
<1>6. Claimed'
    <2> SUFFICES ASSUME NEW x \in Slots, (Holds(x))', (~Dangling(x))'
                 PROVE  /\ string'[x].length <= Len(heap'[string'[x].data].text)
                        /\ string'[x].length <= heap'[string'[x].data].size
                        /\ string'[x].capacity <= heap'[string'[x].data].size
        BY DEF Claimed
    <2>1. CASE x = out
        BY <2>1, <1>2, <1>3
    <2>2. CASE x # out
        <3>1. string'[x] = string[x]
            BY <2>2, <1>3
        <3>2. Holds(x) /\ string[x].data # b /\ string[x].data \in Live
            BY <3>1, <1>1, <1>2 DEF Holds, Dangling
        <3> QED
            BY <3>1, <3>2, <1>2 DEF HeapInv, Claimed, Dangling
    <2> QED
        BY <2>1, <2>2
<1>7. TextMap'[out] = t
    <2>1. TextMap'[out] = TextAt(heap', string'[out])
        BY <1>1, <1>3, TextMapIs
    <2>2. CASE Len(t) = 0
        BY <2>1, <2>2, <1>3 DEF TextAt
    <2>3. CASE Len(t) # 0
        BY <2>1, <2>3, <1>2, <1>3, SubSeqFull DEF TextAt
    <2> QED
        BY <2>2, <2>3
<1>8. \A y \in Slots \ {out} : TextMap'[y] = TextMap[y]
    BY <1>2, <1>3, TextStays
<1> QED
    BY <1>4, <1>5, <1>6, <1>7, <1>8, TextOfOne DEF HeapInv

LEMMA WriteEffect ==
    ASSUME HeapInv, NEW buf \in Slots, Holds(buf), ~Dangling(buf),
           NEW size \in 0 .. PTRDIFF_MAX, NEW t \in Seq(Chars), string[buf].length + Len(t) <= size,
           NEW capacity \in Nat, capacity <= size,
           Write(buf, t, size, capacity)
    PROVE  HeapInv' /\ TextMap' = [TextMap EXCEPT ![buf] = TextMap[buf] \o t]
<1> DEFINE b == string[buf].data
           n == string[buf].length
           old == heap[b].text
           new == SubSeq(old, 1, n) \o t
<1>1. /\ b \in Blocks /\ b \in Live /\ b # NULL
      /\ \A y \in Slots \ {buf} : string[y].data # b
    BY Holder DEF Holds
<1>2. n \in Nat /\ old \in Seq(Chars) /\ n <= Len(old)
    BY <1>1 DEF HeapInv, HeapType, Claimed, BlockRecord, StringRecord
<1>3. /\ SubSeq(old, 1, n) \in Seq(Chars) /\ Len(SubSeq(old, 1, n)) = n
    BY <1>2, Prefix
<1>4. new \in Seq(Chars) /\ Len(new) = n + Len(t)
    BY <1>3, ConcatProperties
<1>5. TextMap[buf] = SubSeq(old, 1, n)
    <2>1. TextMap[buf] = TextAt(heap, string[buf])
        BY <1>1, TextMapIs
    <2>2. CASE n = 0
        <3>1. SubSeq(old, 1, n) = <<>>
            BY <2>2, <1>3
        <3> QED
            BY <3>1, <2>1, <2>2 DEF TextAt
    <2>3. CASE n # 0
        BY <2>1, <2>3 DEF TextAt
    <2> QED
        BY <2>2, <2>3
<1>6. /\ heap' = [c \in Live \cup {b} |-> IF c = b THEN [size |-> size, text |-> new] ELSE heap[c]]
      /\ string' = [string EXCEPT ![buf] = [data |-> b, length |-> n + Len(t), capacity |-> capacity]]
    BY DEF Write, With, Written, String
<1> HIDE DEF new
<1>7. /\ Live' = Live
      /\ \A c \in Live \ {b} : heap'[c] = heap[c]
      /\ heap'[b] = [size |-> size, text |-> new]
      /\ heap' \in [Live' -> BlockRecord]
    <2>1. Live' = Live
        BY <1>1, <1>6 DEF Live
    <2>2. heap'[b] = [size |-> size, text |-> new] /\ \A c \in Live \ {b} : heap'[c] = heap[c]
        BY <1>1, <1>6
    <2>3. [size |-> size, text |-> new] \in BlockRecord /\ \A c \in Live : heap[c] \in BlockRecord
        BY <1>4 DEF BlockRecord, HeapInv, HeapType
    <2>4. \A c \in Live \cup {b} : heap'[c] \in BlockRecord
        BY <2>2, <2>3
    <2> QED
        BY <2>1, <2>2, <2>4, <1>1, <1>6
<1>8. /\ string' \in [Slots -> StringRecord]
      /\ string'[buf] = [data |-> b, length |-> n + Len(t), capacity |-> capacity]
      /\ \A x \in Slots \ {buf} : string'[x] = string[x]
    <2>1. [data |-> b, length |-> n + Len(t), capacity |-> capacity] \in StringRecord
        BY <1>1, <1>2 DEF StringRecord
    <2> QED
        BY <2>1, <1>6 DEF HeapInv, HeapType
<1> HIDE DEF n, old
<1>9. HeapType'
    BY <1>7, <1>8 DEF HeapType, HeapInv
<1>10. \A x \in Slots : string'[x].data = string[x].data
    BY <1>8
<1>11. Owned'
    <2>1. \A c \in Live' : \E x \in Slots : string'[x].data = c
        BY <1>7, <1>10 DEF HeapInv, Owned
    <2>2. \A x, y \in Slots : (Holds(x))' /\ string'[y].data = string'[x].data => x = y
        BY <1>10 DEF HeapInv, Owned, Holds
    <2>3. \A x \in Slots : (~Holds(x))' => string'[x] = NoString
        BY <1>1, <1>8 DEF HeapInv, Owned, Holds
    <2>4. \A x \in Slots : (Dangling(x))' => (Emptied(x))'
        <3> SUFFICES ASSUME NEW x \in Slots, (Dangling(x))' PROVE (Emptied(x))'
            OBVIOUS
        <3>1. x # buf
            BY <1>1, <1>7, <1>8 DEF Dangling
        <3>2. Dangling(x) /\ string'[x] = string[x]
            BY <3>1, <1>7, <1>8 DEF Dangling, Holds
        <3>3. Emptied(x)
            BY <3>2 DEF HeapInv, Owned
        <3> QED
            BY <3>2, <3>3 DEF Emptied
    <2> QED
        BY <2>1, <2>2, <2>3, <2>4 DEF Owned
<1>12. Claimed'
    <2> SUFFICES ASSUME NEW x \in Slots, (Holds(x))', (~Dangling(x))'
                 PROVE  /\ string'[x].length <= Len(heap'[string'[x].data].text)
                        /\ string'[x].length <= heap'[string'[x].data].size
                        /\ string'[x].capacity <= heap'[string'[x].data].size
        BY DEF Claimed
    <2>1. CASE x = buf
        BY <2>1, <1>4, <1>7, <1>8 DEF n
    <2>2. CASE x # buf
        <3>1. string'[x] = string[x]
            BY <2>2, <1>8
        <3>2. Holds(x) /\ string[x].data # b /\ string[x].data \in Live
            BY <3>1, <2>2, <1>1, <1>7 DEF Holds, Dangling
        <3> QED
            BY <3>1, <3>2, <1>7 DEF HeapInv, Claimed, Dangling
    <2> QED
        BY <2>1, <2>2
<1>13. TextMap'[buf] = TextMap[buf] \o t
    <2>1. TextMap'[buf] = TextAt(heap', string'[buf])
        BY <1>1, <1>8, TextMapIs
    <2>2. CASE n + Len(t) = 0
        <3>1. TextMap'[buf] = <<>>
            BY <2>1, <2>2, <1>8 DEF TextAt
        <3>2. new = <<>>
            <4>1. new \in Seq(Chars) /\ Len(new) = 0
                BY <2>2, <1>4
            <4> QED
                BY <4>1
        <3> QED
            BY <3>1, <3>2, <1>5 DEF new
    <2>3. CASE n + Len(t) # 0
        <3>1. TextMap'[buf] = SubSeq(new, 1, n + Len(t))
            <4>1. heap'[b].text = new /\ string'[buf].data = b /\ string'[buf].length = n + Len(t)
                BY <1>7, <1>8
            <4> QED
                BY <2>1, <2>3, <4>1 DEF TextAt
        <3>2. SubSeq(new, 1, n + Len(t)) = new
            BY <1>4, SubSeqFull
        <3> QED
            BY <3>1, <3>2, <1>5 DEF new
    <2> QED
        BY <2>2, <2>3
<1>14. \A y \in Slots \ {buf} : TextMap'[y] = TextMap[y]
    <2> SUFFICES ASSUME NEW y \in Slots \ {buf} PROVE TextMap'[y] = TextMap[y]
        OBVIOUS
    <2>1. string'[y] = string[y] /\ (string[y].data \in Live => heap'[string[y].data] = heap[string[y].data])
        BY <1>1, <1>7, <1>8
    <2> QED
        BY <2>1, TextStays
<1> QED
    BY <1>9, <1>11, <1>12, <1>13, <1>14, TextOfOne DEF HeapInv

LEMMA EmptyEffect ==
    ASSUME HeapInv, NEW buf \in Slots, Holds(buf), Empty(buf)
    PROVE  HeapInv' /\ TextMap' = [TextMap EXCEPT ![buf] = <<>>]
<1>1. /\ heap' = heap /\ Live' = Live
      /\ string' \in [Slots -> StringRecord]
      /\ string'[buf].data = string[buf].data /\ string'[buf].length = 0
      /\ string'[buf].capacity = string[buf].capacity
      /\ \A x \in Slots \ {buf} : string'[x] = string[x]
    <2>1. [string[buf] EXCEPT !.length = 0] \in StringRecord
        BY DEF HeapInv, HeapType, StringRecord
    <2>2. string' = [string EXCEPT ![buf] = [string[buf] EXCEPT !.length = 0]]
        BY DEF Empty
    <2>3. heap' = heap /\ Live' = Live
        BY DEF Empty, Live
    <2> QED
        BY <2>1, <2>2, <2>3 DEF HeapInv, HeapType, StringRecord
<1>2. \A x \in Slots : string'[x].data = string[x].data /\ (Holds(x))' = Holds(x) /\ (Dangling(x))' = Dangling(x)
    BY <1>1 DEF Holds, Dangling
<1>3. HeapType'
    BY <1>1 DEF HeapInv, HeapType
<1>4. Owned'
    <2>1. \A c \in Live' : \E x \in Slots : string'[x].data = c
        BY <1>1, <1>2 DEF HeapInv, Owned
    <2>2. \A x, y \in Slots : (Holds(x))' /\ string'[y].data = string'[x].data => x = y
        BY <1>2 DEF HeapInv, Owned
    <2>3. \A x \in Slots : (~Holds(x))' => string'[x] = NoString
        BY <1>1, <1>2 DEF HeapInv, Owned
    <2>4. \A x \in Slots : (Dangling(x))' => (Emptied(x))'
        BY <1>1, <1>2 DEF HeapInv, Owned, Emptied
    <2> QED
        BY <2>1, <2>2, <2>3, <2>4 DEF Owned
<1>5. Claimed'
    <2> SUFFICES ASSUME NEW x \in Slots, Holds(x), ~Dangling(x)
                 PROVE  /\ string'[x].length <= Len(heap[string[x].data].text)
                        /\ string'[x].length <= heap[string[x].data].size
                        /\ string'[x].capacity <= heap[string[x].data].size
        BY <1>1, <1>2 DEF Claimed
    <2>1. heap[string[x].data] \in BlockRecord /\ string[x].length \in Nat
        BY DEF Dangling, HeapInv, HeapType, StringRecord
    <2>2. CASE x = buf
        BY <2>1, <2>2, <1>1 DEF HeapInv, Claimed, BlockRecord
    <2>3. CASE x # buf
        BY <2>3, <1>1 DEF HeapInv, Claimed
    <2> QED
        BY <2>2, <2>3
<1>6. TextMap'[buf] = <<>>
    BY <1>1, TextMapIs DEF TextAt, Holds
<1>7. \A y \in Slots \ {buf} : TextMap'[y] = TextMap[y]
    BY <1>1, TextStays
<1> QED
    BY <1>3, <1>4, <1>5, <1>6, <1>7, TextOfOne DEF HeapInv

(* The block of a string goes, and nobody else's.                           *)
LEMMA BlockGone ==
    ASSUME HeapInv, NEW x \in Slots, Holds(x), ~Dangling(x), heap' = Without(string[x].data)
    PROVE  /\ Live' = Live \ {string[x].data}
           /\ \A c \in Live' : heap'[c] = heap[c]
           /\ heap' \in [Live' -> BlockRecord]
           /\ \A y \in Slots \ {x} : string[y].data # string[x].data
           /\ \A c \in Live' : \E y \in Slots \ {x} : string[y].data = c
<1>1. Live' = Live \ {string[x].data}
    BY DEF Without, Live
<1>2. heap' \in [Live' -> BlockRecord] /\ \A c \in Live' : heap'[c] = heap[c]
    BY <1>1 DEF Without, HeapInv, HeapType
<1> QED
    BY <1>1, <1>2, Holder

LEMMA FreeEffect ==
    ASSUME HeapInv, NEW x \in Slots, ~Dangling(x), Free(x)
    PROVE  HeapInv' /\ TextMap' = [TextMap EXCEPT ![x] = NULL]
<1>1. /\ string' \in [Slots -> StringRecord]
      /\ string'[x] = NoString /\ NoString.data = NULL /\ NoString.length = 0 /\ NoString.capacity = 0
      /\ \A y \in Slots \ {x} : string'[y] = string[y]
    <2>1. NoString \in StringRecord
        BY DEF NoString, String, StringRecord
    <2> QED
        BY <2>1 DEF Free, HeapInv, HeapType, NoString, String
<1>2. CASE Holds(x)
    <2>1. /\ Live' = Live \ {string[x].data}
          /\ \A c \in Live' : heap'[c] = heap[c]
          /\ heap' \in [Live' -> BlockRecord]
          /\ \A y \in Slots \ {x} : string[y].data # string[x].data
          /\ \A c \in Live' : \E y \in Slots \ {x} : string[y].data = c
        BY <1>2, BlockGone DEF Free
    <2>2. \A y \in Slots \ {x} : string[y].data \in Live => string[y].data \in Live' /\ heap'[string[y].data] = heap[string[y].data]
        BY <2>1
    <2> QED
        <3>1. HeapType'
            BY <1>1, <2>1 DEF HeapInv, HeapType
        <3>2. Owned'
            <4>1. \A c \in Live' : \E y \in Slots : string'[y].data = c
                BY <1>1, <2>1
            <4>2. \A y, z \in Slots : (Holds(y))' /\ string'[z].data = string'[y].data => y = z
                BY <1>1 DEF HeapInv, Owned, Holds
            <4>3. \A y \in Slots : (~Holds(y))' => string'[y] = NoString
                BY <1>1 DEF HeapInv, Owned, Holds
            <4>4. \A y \in Slots : (Dangling(y))' => (Emptied(y))'
                <5> SUFFICES ASSUME NEW y \in Slots, (Dangling(y))' PROVE (Emptied(y))'
                    OBVIOUS
                <5>1. y # x /\ string'[y] = string[y]
                    BY <1>1 DEF Dangling, Holds
                <5>2. Dangling(y)
                    BY <5>1, <2>2 DEF Dangling, Holds
                <5> QED
                    BY <5>1, <5>2 DEF HeapInv, Owned, Emptied
            <4> QED
                BY <4>1, <4>2, <4>3, <4>4 DEF Owned
        <3>3. Claimed'
            <4> SUFFICES ASSUME NEW y \in Slots, (Holds(y))', (~Dangling(y))'
                         PROVE  /\ string'[y].length <= Len(heap'[string'[y].data].text)
                                /\ string'[y].length <= heap'[string'[y].data].size
                                /\ string'[y].capacity <= heap'[string'[y].data].size
                BY DEF Claimed
            <4>1. y # x /\ string'[y] = string[y] /\ Holds(y) /\ string[y].data \in Live'
                BY <1>1 DEF Holds, Dangling
            <4>2. ~Dangling(y) /\ heap'[string[y].data] = heap[string[y].data]
                BY <4>1, <2>1 DEF Dangling
            <4> QED
                BY <4>1, <4>2 DEF HeapInv, Claimed
        <3>4. TextMap'[x] = NULL
            BY <1>1, TextMapIs
        <3>5. \A y \in Slots \ {x} : TextMap'[y] = TextMap[y]
            BY <1>1, <2>2, TextStays
        <3> QED
            BY <3>1, <3>2, <3>3, <3>4, <3>5, TextOfOne DEF HeapInv
<1>3. CASE ~Holds(x)
    <2>1. heap' = heap /\ string[x] = NoString
        BY <1>3 DEF Free, HeapInv, Owned
    <2>2. string' = string
        BY <2>1, <1>1 DEF HeapInv, HeapType
    <2>3. HeapInv'
        BY <2>1, <2>2 DEF HeapInv, HeapType, Owned, Claimed, Holds, Dangling, Emptied, Live
    <2>4. TextMap'[x] = NULL
        BY <1>1, TextMapIs
    <2>5. \A y \in Slots \ {x} : TextMap'[y] = TextMap[y]
        BY <2>1, <2>2, TextStays
    <2> QED
        BY <2>3, <2>4, <2>5, TextOfOne
<1> QED
    BY <1>2, <1>3

LEMMA ReallocEffect ==
    ASSUME HeapInv, NEW buf \in Slots, Holds(buf), ~Dangling(buf),
           string[buf].length = 0, string[buf].capacity = 0, FreedByRealloc(buf)
    PROVE  HeapInv' /\ TextMap' = TextMap
<1>1. string' = string
    BY DEF FreedByRealloc
<1>2. /\ Live' = Live \ {string[buf].data}
      /\ \A c \in Live' : heap'[c] = heap[c]
      /\ heap' \in [Live' -> BlockRecord]
      /\ \A y \in Slots \ {buf} : string[y].data # string[buf].data
      /\ \A c \in Live' : \E y \in Slots \ {buf} : string[y].data = c
    BY BlockGone DEF FreedByRealloc
<1>3. \A y \in Slots \ {buf} : string[y].data \in Live => string[y].data \in Live' /\ heap'[string[y].data] = heap[string[y].data]
    BY <1>2
<1>4. HeapType'
    BY <1>1, <1>2 DEF HeapInv, HeapType
<1>5. Owned'
    <2>1. \A c \in Live' : \E y \in Slots : string'[y].data = c
        BY <1>1, <1>2
    <2>2. /\ \A y, z \in Slots : (Holds(y))' /\ string'[z].data = string'[y].data => y = z
          /\ \A y \in Slots : (~Holds(y))' => string'[y] = NoString
        BY <1>1 DEF HeapInv, Owned, Holds
    <2>3. \A y \in Slots : (Dangling(y))' => (Emptied(y))'
        <3> SUFFICES ASSUME NEW y \in Slots, (Dangling(y))' PROVE (Emptied(y))'
            OBVIOUS
        <3>1. CASE y = buf
            BY <3>1, <1>1 DEF Emptied
        <3>2. CASE y # buf
            <4>1. Dangling(y)
                BY <3>2, <1>1, <1>3 DEF Dangling, Holds
            <4> QED
                BY <4>1, <1>1 DEF HeapInv, Owned, Emptied
        <3> QED
            BY <3>1, <3>2
    <2> QED
        BY <2>1, <2>2, <2>3 DEF Owned
<1>6. Claimed'
    <2> SUFFICES ASSUME NEW y \in Slots, (Holds(y))', (~Dangling(y))'
                 PROVE  /\ string'[y].length <= Len(heap'[string'[y].data].text)
                        /\ string'[y].length <= heap'[string'[y].data].size
                        /\ string'[y].capacity <= heap'[string'[y].data].size
        BY DEF Claimed
    <2>1. Holds(y) /\ string[y].data \in Live'
        BY <1>1 DEF Holds, Dangling
    <2>2. ~Dangling(y) /\ heap'[string[y].data] = heap[string[y].data]
        BY <2>1, <1>2 DEF Dangling
    <2> QED
        BY <2>1, <2>2, <1>1 DEF HeapInv, Claimed
<1>7. \A y \in Slots : TextMap'[y] = TextMap[y]
    <2> SUFFICES ASSUME NEW y \in Slots PROVE TextMap'[y] = TextMap[y]
        OBVIOUS
    <2>1. CASE y = buf
        BY <2>1, <1>1, TextMapIs DEF TextAt
    <2>2. CASE y # buf
        BY <2>2, <1>1, <1>3, TextStays
    <2> QED
        BY <2>1, <2>2
<1> QED
    BY <1>4, <1>5, <1>6, <1>7, TextOfNone DEF HeapInv

(* A block changes hands; the string it leaves has none any more.           *)
LEMMA TransferEffect ==
    ASSUME HeapInv, NEW from \in Slots, NEW to \in Slots, from # to, ~Holds(to),
           NEW capacity \in Nat, capacity <= string[from].length \/ capacity <= string[from].capacity,
           Transfer(from, to, capacity)
    PROVE  /\ HeapInv'
           /\ TextMap' = [TextMap EXCEPT ![to] = TextMap[from], ![from] = NULL]
<1> DEFINE moved == [data |-> string[from].data, length |-> string[from].length, capacity |-> capacity]
<1>1. heap' = heap /\ Live' = Live
    BY DEF Transfer, Live
<1>2. string[from] \in StringRecord /\ string[to] = NoString /\ moved \in StringRecord /\ NoString \in StringRecord
    BY DEF HeapInv, HeapType, Owned, StringRecord, NoString, String
<1>3. /\ string' \in [Slots -> StringRecord]
      /\ string'[from] = NoString /\ string'[to] = moved
      /\ \A x \in Slots \ {from, to} : string'[x] = string[x]
    <2>1. string' = [string EXCEPT ![to] = moved, ![from] = NoString]
        BY DEF Transfer, Transferred, String
    <2> HIDE DEF moved
    <2> QED
        BY <2>1, <1>2 DEF HeapInv, HeapType
<1>4. NoString.data = NULL /\ NoString.length = 0 /\ NoString.capacity = 0
    BY DEF NoString, String
<1>5. /\ moved.data = string[from].data /\ moved.length = string[from].length /\ moved.capacity = capacity
      /\ Holds(from) \/ (~Holds(from) /\ moved = NoString)
    <2>1. moved.data = string[from].data /\ moved.length = string[from].length /\ moved.capacity = capacity
        OBVIOUS
    <2>2. CASE ~Holds(from)
        <3>1. string[from] = NoString /\ capacity = 0
            BY <2>2, <1>4 DEF HeapInv, Owned
        <3> QED
            BY <3>1, <2>1, <2>2 DEF NoString, String
    <2> QED
        BY <2>1, <2>2
<1> HIDE DEF moved
<1>6. string[from].length \in Nat /\ string[from].capacity \in Nat
    BY <1>2 DEF StringRecord
<1>7. HeapType'
    BY <1>1, <1>3 DEF HeapInv, HeapType
<1>8. Owned'
    <2>1. \A c \in Live' : \E x \in Slots : string'[x].data = c
        <3> SUFFICES ASSUME NEW c \in Live PROVE \E x \in Slots : string'[x].data = c
            BY <1>1
        <3>1. PICK x \in Slots : string[x].data = c
            BY DEF HeapInv, Owned
        <3>2. x # to
            BY <3>1, <1>2, <1>4, StringsAssumption DEF HeapInv, HeapType
        <3>3. CASE x = from
            BY <3>1, <3>3, <1>3, <1>5
        <3>4. CASE x # from
            BY <3>1, <3>2, <3>4, <1>3
        <3> QED
            BY <3>3, <3>4
    <2>2. \A x, y \in Slots : (Holds(x))' /\ string'[y].data = string'[x].data => x = y
        <3> SUFFICES ASSUME NEW x \in Slots, NEW y \in Slots, string'[x].data # NULL, string'[y].data = string'[x].data
                     PROVE  x = y
            BY DEF Holds
        <3>1. x # from /\ y # from
            BY <1>3, <1>4
        <3> DEFINE was(z) == IF z = to THEN from ELSE z
        <3>2. string[was(x)].data = string'[x].data /\ string[was(y)].data = string'[y].data
            BY <3>1, <1>3, <1>5
        <3>3. was(x) \in Slots /\ was(y) \in Slots
            OBVIOUS
        <3>4. was(x) = was(y)
            BY <3>2, <3>3 DEF HeapInv, Owned, Holds
        <3> QED
            BY <3>1, <3>4
    <2>3. \A x \in Slots : (~Holds(x))' => string'[x] = NoString
        <3> SUFFICES ASSUME NEW x \in Slots, string'[x].data = NULL PROVE string'[x] = NoString
            BY DEF Holds
        <3>1. CASE x = from
            BY <3>1, <1>3
        <3>2. CASE x = to
            BY <3>2, <1>3, <1>5 DEF Holds
        <3>3. CASE x # from /\ x # to
            BY <3>3, <1>3 DEF HeapInv, Owned, Holds
        <3> QED
            BY <3>1, <3>2, <3>3
    <2>4. \A x \in Slots : (Dangling(x))' => (Emptied(x))'
        <3> SUFFICES ASSUME NEW x \in Slots, (Dangling(x))' PROVE (Emptied(x))'
            OBVIOUS
        <3>1. x # from
            BY <1>3, <1>4 DEF Dangling, Holds
        <3>2. CASE x = to
            <4>1. Dangling(from)
                BY <3>2, <1>1, <1>3, <1>5 DEF Dangling, Holds
            <4>2. string[from].length = 0 /\ string[from].capacity = 0
                BY <4>1 DEF HeapInv, Owned, Emptied
            <4>3. capacity = 0
                BY <4>2
            <4> QED
                BY <3>2, <4>2, <4>3, <1>3, <1>5 DEF Emptied
        <3>3. CASE x # to
            BY <3>1, <3>3, <1>1, <1>3 DEF HeapInv, Owned, Dangling, Holds, Emptied
        <3> QED
            BY <3>2, <3>3
    <2> QED
        BY <2>1, <2>2, <2>3, <2>4 DEF Owned
<1>9. Claimed'
    <2> SUFFICES ASSUME NEW x \in Slots, (Holds(x))', (~Dangling(x))'
                 PROVE  /\ string'[x].length <= Len(heap'[string'[x].data].text)
                        /\ string'[x].length <= heap'[string'[x].data].size
                        /\ string'[x].capacity <= heap'[string'[x].data].size
        BY DEF Claimed
    <2>1. x # from
        BY <1>3, <1>4 DEF Holds
    <2>2. CASE x = to
        <3>1. Holds(from) /\ ~Dangling(from) /\ string'[x].data = string[from].data
              /\ string'[x].length = string[from].length /\ string'[x].capacity = capacity
            BY <2>2, <1>1, <1>3, <1>5 DEF Holds, Dangling
        <3>2. heap[string[from].data] \in BlockRecord
            BY <3>1 DEF HeapInv, HeapType, Dangling
        <3>3. /\ string[from].length <= Len(heap[string[from].data].text)
              /\ string[from].length <= heap[string[from].data].size
              /\ string[from].capacity <= heap[string[from].data].size
            BY <3>1 DEF HeapInv, Claimed
        <3>4. heap[string[from].data].size \in Nat
            BY <3>2, Sizes DEF BlockRecord
        <3>5. capacity <= heap[string[from].data].size
            BY <3>3, <3>4, <1>6
        <3> QED
            BY <3>1, <3>3, <3>5, <1>1
    <2>3. CASE x # to
        BY <2>1, <2>3, <1>1, <1>3 DEF HeapInv, Claimed, Dangling, Holds
    <2> QED
        BY <2>2, <2>3
<1>10. TextMap' = [TextMap EXCEPT ![to] = TextMap[from], ![from] = NULL]
    <2>1. TextMap'[from] = NULL
        BY <1>3, <1>4, TextMapIs
    <2>2. TextMap'[to] = TextMap[from]
        <3>1. string'[to].data = string[from].data /\ string'[to].length = string[from].length
            BY <1>3, <1>5
        <3>2. TextAt(heap', string'[to]) = TextAt(heap, string[from])
            BY <3>1, <1>1 DEF TextAt
        <3> QED
            BY <3>1, <3>2, TextMapIs
    <2>3. \A y \in Slots \ {from, to} : TextMap'[y] = TextMap[y]
        BY <1>1, <1>3, TextStays
    <2>4. TextMap' = [y \in Slots |-> TextMap'[y]] /\ DOMAIN TextMap = Slots
        BY DEF TextMap
    <2>5. [TextMap EXCEPT ![to] = TextMap[from], ![from] = NULL]
            = [y \in Slots |-> IF y = from THEN NULL ELSE IF y = to THEN TextMap[from] ELSE TextMap[y]]
        BY <2>4
    <2>6. \A y \in Slots : TextMap'[y] = IF y = from THEN NULL ELSE IF y = to THEN TextMap[from] ELSE TextMap[y]
        BY <2>1, <2>2, <2>3
    <2> QED
        BY <2>4, <2>5, <2>6
<1> QED
    BY <1>7, <1>8, <1>9, <1>10 DEF HeapInv

LEMMA NoEffect ==
    ASSUME HeapInv, UNCHANGED <<heap, string>>
    PROVE  HeapInv' /\ TextMap' = TextMap
<1>1. HeapInv'
    BY DEF HeapInv, HeapType, Owned, Claimed, Holds, Dangling, Emptied, Live
<1>2. \A y \in Slots : TextMap'[y] = TextMap[y]
    BY TextStays
<1> QED
    BY <1>1, <1>2, TextOfNone

-----------------------------------------------------------------------------
(* What the promise makes of an effect and an answer                        *)

LEMMA PromisedMake ==
    ASSUME NEW x \in Slots, NEW t, TextMap[x] = NULL,
           \/ reply' = "true" /\ TextMap' = [TextMap EXCEPT ![x] = t]
           \/ reply' = "false" /\ TextMap' = TextMap
    PROVE  Promised!Make(x, t)
BY DEF Promised!Make, Promised!Succeeds, Promised!Fails, TextMap

LEMMA PromisedAppend ==
    ASSUME NEW x \in Slots, NEW t, TextMap[x] # NULL,
           \/ reply' = "true" /\ TextMap' = [TextMap EXCEPT ![x] = TextMap[x] \o t]
           \/ reply' = "false" /\ TextMap' = TextMap
           \/ reply' = "undefined" /\ TextMap' = TextMap /\ TextMap[x] \in {<<>>, t}
    PROVE  Promised!AppendText(x, t)
BY DEF Promised!AppendText, Promised!Succeeds, Promised!Fails, Promised!Undefined, TextMap

LEMMA PromisedReset ==
    ASSUME NEW x \in Slots, TextMap[x] # NULL, reply' = "true", TextMap' = [TextMap EXCEPT ![x] = <<>>]
    PROVE  Promised!Reset(x)
BY DEF Promised!Reset, Promised!Succeeds, TextMap

LEMMA PromisedFree ==
    ASSUME NEW x \in Slots,
           \/ reply' = "true" /\ TextMap' = [TextMap EXCEPT ![x] = NULL]
           \/ reply' = "undefined" /\ TextMap' = TextMap /\ TextMap[x] = <<>>
    PROVE  Promised!Free(x)
BY DEF Promised!Free, Promised!Succeeds, Promised!Undefined, TextMap

LEMMA PromisedMove ==
    ASSUME NEW x \in Slots, NEW to \in Slots, TextMap[to] = NULL, reply' = "true",
           TextMap' = [TextMap EXCEPT ![to] = TextMap[x], ![x] = NULL]
    PROVE  Promised!Move(x, to)
BY DEF Promised!Move, Promised!Succeeds, TextMap

LEMMA PromisedLeave ==
    ASSUME reply' = "true", TextMap' = TextMap
    PROVE  Promised!Leave
BY DEF Promised!Leave, Promised!Succeeds, TextMap

(* The calls of the promise                                                 *)
LEMMA PromisedCalls ==
    ASSUME NEW x \in Slots
    PROVE  /\ Promised!Leave => Promised!Call
           /\ Promised!Reset(x) => Promised!Call
           /\ Promised!Free(x) => Promised!Call
           /\ \A t, u \in Promised!Known : Promised!Make(x, t \o u) => Promised!Call
           /\ \A t \in Promised!Known : Promised!AppendText(x, t) => Promised!Call
           /\ \A c \in Chars : Promised!AppendText(x, <<c>>) => Promised!Call
           /\ \A to \in Slots \ {x} : Promised!Move(x, to) => Promised!Call
<1>1. \A c \in Chars : <<c>> \in {<<d>> : d \in Chars}
    OBVIOUS
<1> QED
    BY <1>1 DEF Promised!Call

LEMMA CallThatFails ==
    ASSUME Promised!Call, reply' = "false"
    PROVE  Promised!Fails
BY DEF Promised!Call, Promised!Leave, Promised!Make, Promised!AppendText, Promised!Reset, Promised!Free,
       Promised!Move, Promised!Succeeds, Promised!Undefined

LEMMA NoTextIs ==
    ASSUME NEW x \in Slots
    PROVE  ~Holds(x) => TextMap[x] = NULL
BY DEF TextMap

(* A call that went well, and what it left alone.                           *)
Kept == HeapInv' /\ Promised!Call
OnlyAt(x) == string' \in [Slots -> StringRecord] /\ \A y \in Slots \ {x} : string'[y] = string[y]
CanGrow(x) == string[x].length <= string[x].capacity

LEMMA Refused ==
    ASSUME HeapInv, UNCHANGED <<heap, string>>
    PROVE  HeapInv' /\ TextMap' = TextMap /\ \A x \in Slots : OnlyAt(x)
<1>1. HeapInv' /\ TextMap' = TextMap
    BY NoEffect
<1>2. \A x \in Slots : OnlyAt(x)
    BY DEF OnlyAt, HeapInv, HeapType
<1> QED
    BY <1>1, <1>2

-----------------------------------------------------------------------------
(* The calls that make a string                                             *)

LEMMA Joined ==
    ASSUME HeapInv, NEW view1 \in Views, NEW view2 \in Views
    PROVE  /\ Text(view1) \o Text(view2) \in Seq(Chars)
           /\ Len(Text(view1) \o Text(view2)) = Length(view1) + Length(view2)
<1>1. Text(view1) \in Seq(Chars) /\ Length(view1) = Len(Text(view1))
    BY ViewIs
<1>2. Text(view2) \in Seq(Chars) /\ Length(view2) = Len(Text(view2))
    BY ViewIs
<1> QED
    BY <1>1, <1>2, ConcatProperties

(* A copy is the text and nothing behind it.                                *)
LEMMA Copied ==
    ASSUME HeapInv, NEW view \in Views
    PROVE  <<>> \in Promised!Known /\ Text(view) = Text(view) \o <<>>
<1>1. Text(view) \in Seq(Chars)
    BY ViewIs
<1> QED
    BY <1>1, ConcatEmptySeq DEF Promised!Known

(* Every text that is made is one that the promise knows.                   *)
LEMMA MadeOfKnown ==
    ASSUME HeapInv, NEW out \in Slots
    PROVE  /\ Promised!Make(out, <<>>) => Promised!Call
           /\ \A view \in Views : Promised!Make(out, Text(view)) => Promised!Call
           /\ \A view1, view2 \in Views : Promised!Make(out, Text(view1) \o Text(view2)) => Promised!Call
<1>1. <<>> \in Promised!Known /\ <<>> = <<>> \o <<>>
    BY DEF Promised!Known
<1>2. ASSUME NEW view1 \in Views, NEW view2 \in Views, Promised!Make(out, Text(view1) \o Text(view2))
      PROVE  Promised!Call
    <2>1. Text(view1) \in Promised!Known
        BY ViewIs
    <2>2. Text(view2) \in Promised!Known
        BY ViewIs
    <2> QED
        BY <1>2, <2>1, <2>2, PromisedCalls
<1>3. ASSUME NEW view \in Views, Promised!Make(out, Text(view))
      PROVE  Promised!Call
    <2>1. Text(view) \in Promised!Known
        BY ViewIs
    <2>2. Text(view) = Text(view) \o <<>>
        BY Copied
    <2>3. Promised!Make(out, Text(view) \o <<>>)
        BY <1>3, <2>2
    <2> QED
        BY <1>1, <2>1, <2>3, PromisedCalls
<1>4. ASSUME Promised!Make(out, <<>>)
      PROVE  Promised!Call
    <2>1. Promised!Make(out, <<>> \o <<>>)
        BY <1>1, <1>4
    <2> QED
        BY <1>1, <2>1, PromisedCalls
<1> QED
    BY <1>2, <1>3, <1>4

LEMMA NewMutCall ==
    ASSUME HeapInv, NEW out \in Slots, ~Holds(out),
           NEW n \in Nat, NEW t \in Seq(Chars), Len(t) <= n,
           NewMut(out, n, t)
    PROVE  /\ HeapInv' /\ Promised!Make(out, t)
           /\ OnlyAt(out) /\ (CanGrow(out))' /\ reply' \in {"true", "false"}
<1> DEFINE size == InitialCapacity(n)
<1>1. size \in Nat /\ Len(t) <= size
    BY Sizes DEF InitialCapacity
<1>2. TextMap[out] = NULL /\ string[out] = NoString
    BY NoTextIs DEF HeapInv, Owned
<1>3. CASE /\ CanAllocate(size)
           /\ heap' = With(NewBlock, size, t)
           /\ string' = [string EXCEPT ![out] = String(NewBlock, Len(t), size)]
           /\ Answer("true")
    <2>1. size \in 0 .. PTRDIFF_MAX /\ Make(out, size, t, size)
        BY <1>1, <1>3, Sizes DEF CanAllocate, Make
    <2>2. HeapInv' /\ TextMap' = [TextMap EXCEPT ![out] = t]
        <3>1. size <= size
            BY <1>1
        <3> HIDE DEF size
        <3> QED
            BY <1>1, <2>1, <3>1, MakeEffect
    <2>3. Promised!Make(out, t)
        BY <2>2, <1>2, <1>3, PromisedMake DEF Answer
    <2>4. OnlyAt(out)
        BY <2>2, <1>3 DEF OnlyAt, HeapInv, HeapType
    <2>5. (CanGrow(out))'
        <3>1. string'[out] = String(NewBlock, Len(t), size)
            BY <1>3 DEF HeapInv, HeapType
        <3> QED
            BY <3>1, <1>1 DEF CanGrow, String
    <2> QED
        BY <2>2, <2>3, <2>4, <2>5, <1>3 DEF Answer
<1>4. CASE Refuse
    <2>1. UNCHANGED <<heap, string>> /\ reply' = "false"
        BY <1>4 DEF Refuse, Answer
    <2>2. HeapInv' /\ TextMap' = TextMap /\ OnlyAt(out)
        BY <2>1, Refused
    <2>3. (CanGrow(out))'
        BY <2>1, <1>2 DEF CanGrow, NoString, String
    <2> QED
        BY <2>1, <2>2, <2>3, <1>2, PromisedMake
<1> QED
    BY <1>3, <1>4 DEF NewMut

LEMMA NewStringCall ==
    ASSUME HeapInv, NEW out \in Slots, ~Holds(out), NEW t \in Seq(Chars), NewString(out, t)
    PROVE  HeapInv' /\ Promised!Make(out, t) /\ OnlyAt(out) /\ reply' \in {"true", "false"}
<1> DEFINE size == Len(t)
<1>1. size \in Nat
    OBVIOUS
<1>2. TextMap[out] = NULL
    BY NoTextIs
<1>3. CASE /\ CanAllocate(size)
           /\ heap' = With(NewBlock, size, t)
           /\ string' = [string EXCEPT ![out] = String(NewBlock, size, 0)]
           /\ Answer("true")
    <2>1. size \in 0 .. PTRDIFF_MAX /\ Make(out, size, t, 0)
        BY <1>1, <1>3, Sizes DEF CanAllocate, Make
    <2>2. HeapInv' /\ TextMap' = [TextMap EXCEPT ![out] = t]
        <3>1. Len(t) <= size /\ 0 \in Nat /\ 0 <= size
            BY <1>1
        <3> HIDE DEF size
        <3> QED
            BY <2>1, <3>1, MakeEffect
    <2>3. Promised!Make(out, t)
        BY <2>2, <1>2, <1>3, PromisedMake DEF Answer
    <2>4. OnlyAt(out)
        BY <2>2, <1>3 DEF OnlyAt, HeapInv, HeapType
    <2> QED
        BY <2>2, <2>3, <2>4, <1>3 DEF Answer
<1>4. CASE Refuse
    <2>1. UNCHANGED <<heap, string>> /\ reply' = "false"
        BY <1>4 DEF Refuse, Answer
    <2>2. HeapInv' /\ TextMap' = TextMap /\ OnlyAt(out)
        BY <2>1, Refused
    <2> QED
        BY <2>1, <2>2, <1>2, PromisedMake
<1> QED
    BY <1>3, <1>4 DEF NewString

LEMMA InitCall ==
    ASSUME HeapInv, NEW out \in Slots, ~Holds(out), NEW n \in {0, 1}, sb_init(out, n)
    PROVE  /\ HeapInv' /\ Promised!Make(out, <<>>)
           /\ OnlyAt(out) /\ (CanGrow(out))' /\ reply' \in {"true", "false"}
<1>1. <<>> \in Seq(Chars) /\ Len(<<>>) = 0 /\ n \in Nat /\ 0 <= n
    OBVIOUS
<1>2. NewMut(out, n, <<>>)
    BY DEF sb_init
<1> QED
    BY <1>1, <1>2, NewMutCall

LEMMA CopyMutCall ==
    ASSUME HeapInv, NEW out \in Slots, ~Holds(out), NEW view \in Views, sb_copy_mut(out, view)
    PROVE  /\ HeapInv' /\ Promised!Make(out, Text(view))
           /\ OnlyAt(out) /\ (CanGrow(out))' /\ reply' \in {"true", "false"}
<1>1. /\ Text(view) \in Seq(Chars) /\ Length(view) \in Nat /\ Length(view) = Len(Text(view))
      /\ Len(Text(view)) <= Length(view)
    BY ViewIs
<1>2. NewMut(out, Length(view), Text(view))
    BY DEF sb_copy_mut
<1> QED
    BY <1>1, <1>2, NewMutCall

LEMMA ConcatMutCall ==
    ASSUME HeapInv, NEW out \in Slots, ~Holds(out), NEW view1 \in Views, NEW view2 \in Views,
           sb_concat_mut(out, view1, view2)
    PROVE  /\ HeapInv' /\ Promised!Make(out, Text(view1) \o Text(view2))
           /\ OnlyAt(out) /\ (CanGrow(out))' /\ reply' \in {"true", "false"}
<1>1. Length(view1) \in Nat
    BY ViewIs
<1>2. Length(view2) \in Nat
    BY ViewIs
<1>3. /\ Text(view1) \o Text(view2) \in Seq(Chars)
      /\ Len(Text(view1) \o Text(view2)) <= Length(view1) + Length(view2)
      /\ Length(view1) + Length(view2) \in Nat
    BY SMTT(60), <1>1, <1>2, Joined
<1>4. CASE NewMut(out, Length(view1) + Length(view2), Text(view1) \o Text(view2))
    BY <1>3, <1>4, NewMutCall
<1>5. CASE Refuse
    <2>1. UNCHANGED <<heap, string>> /\ reply' = "false" /\ TextMap[out] = NULL
        BY <1>5, NoTextIs DEF Refuse, Answer
    <2>2. (CanGrow(out))'
        BY <2>1 DEF CanGrow, HeapInv, Owned, NoString, String
    <2>3. HeapInv' /\ TextMap' = TextMap /\ OnlyAt(out)
        BY <2>1, Refused
    <2> QED
        BY <2>1, <2>2, <2>3, PromisedMake
<1> QED
    BY <1>4, <1>5 DEF sb_concat_mut

LEMMA CopyCall ==
    ASSUME HeapInv, NEW out \in Slots, ~Holds(out), NEW view \in Views, sb_copy(out, view)
    PROVE  HeapInv' /\ Promised!Make(out, Text(view)) /\ OnlyAt(out) /\ reply' \in {"true", "false"}
<1>1. Text(view) \in Seq(Chars)
    BY ViewIs
<1>2. NewString(out, Text(view))
    BY DEF sb_copy
<1> QED
    BY <1>1, <1>2, NewStringCall

LEMMA ConcatCall ==
    ASSUME HeapInv, NEW out \in Slots, ~Holds(out), NEW view1 \in Views, NEW view2 \in Views,
           sb_concat(out, view1, view2)
    PROVE  /\ HeapInv' /\ Promised!Make(out, Text(view1) \o Text(view2))
           /\ OnlyAt(out) /\ reply' \in {"true", "false"}
<1>1. Text(view1) \o Text(view2) \in Seq(Chars)
    BY Joined
<1>2. CASE NewString(out, Text(view1) \o Text(view2))
    BY <1>1, <1>2, NewStringCall
<1>3. CASE Refuse
    <2>1. UNCHANGED <<heap, string>> /\ reply' = "false" /\ TextMap[out] = NULL
        BY <1>3, NoTextIs DEF Refuse, Answer
    <2>2. HeapInv' /\ TextMap' = TextMap /\ OnlyAt(out)
        BY <2>1, Refused
    <2> QED
        BY <2>1, <2>2, PromisedMake
<1> QED
    BY <1>2, <1>3 DEF sb_concat

LEMMA MakingMut ==
    ASSUME HeapInv, NEW out \in Slots, ~Holds(out),
           \/ \E n \in {0, 1} : sb_init(out, n)
           \/ \E view \in Views : sb_copy_mut(out, view)
           \/ \E view1, view2 \in Views : sb_concat_mut(out, view1, view2)
    PROVE  Kept /\ OnlyAt(out) /\ (CanGrow(out))' /\ reply' \in {"true", "false"}
BY InitCall, CopyMutCall, ConcatMutCall, MadeOfKnown DEF Kept

LEMMA MakingString ==
    ASSUME HeapInv, NEW out \in Slots, ~Holds(out),
           \/ \E view \in Views : sb_copy(out, view)
           \/ \E view1, view2 \in Views : sb_concat(out, view1, view2)
    PROVE  Kept /\ OnlyAt(out) /\ reply' \in {"true", "false"}
BY CopyCall, ConcatCall, MadeOfKnown DEF Kept

-----------------------------------------------------------------------------
(* The calls that change a string                                           *)

LEMMA RecordIs ==
    ASSUME HeapInv, NEW x \in Slots, Holds(x)
    PROVE  /\ string[x].length \in Nat /\ string[x].capacity \in Nat
           /\ string[x].capacity <= PTRDIFF_MAX /\ string[x].length <= PTRDIFF_MAX
           /\ ~Dangling(x) => /\ BlockSize(x) \in 0 .. PTRDIFF_MAX
                              /\ string[x].length <= BlockSize(x) /\ string[x].capacity <= BlockSize(x)
           /\ Dangling(x) => Emptied(x) /\ string[x].length = 0 /\ string[x].capacity = 0
<1>1. string[x].length \in Nat /\ string[x].capacity \in Nat
    BY DEF HeapInv, HeapType, StringRecord
<1>2. CASE Dangling(x)
    <2>1. Emptied(x)
        BY <1>2 DEF HeapInv, Owned
    <2> QED
        BY <2>1, <1>1, <1>2, Sizes DEF Emptied
<1>3. CASE ~Dangling(x)
    <2>1. heap[string[x].data] \in BlockRecord
        BY <1>3 DEF HeapInv, HeapType, Dangling
    <2>2. BlockSize(x) \in 0 .. PTRDIFF_MAX
        BY <2>1 DEF BlockRecord, BlockSize
    <2>3. string[x].length <= BlockSize(x) /\ string[x].capacity <= BlockSize(x)
        BY <1>3 DEF HeapInv, Claimed, BlockSize
    <2> QED
        BY <2>2, <2>3, <1>1, <1>3, Sizes
<1> QED
    BY <1>2, <1>3

(* Text is appended where there is room for it, and there always is.        *)
LEMMA AppendCall ==
    ASSUME HeapInv, NEW buf \in Slots, Holds(buf), ~Dangling(buf),
           NEW size \in 0 .. PTRDIFF_MAX, NEW t \in Seq(Chars), string[buf].length + Len(t) <= size,
           NEW capacity \in Nat, capacity <= size, string[buf].length + Len(t) <= capacity,
           Append_(buf, t, size, capacity)
    PROVE  /\ HeapInv' /\ Promised!AppendText(buf, t)
           /\ OnlyAt(buf) /\ (CanGrow(buf))' /\ reply' = "true"
<1>1. Write(buf, t, size, capacity) /\ reply' = "true"
    BY DEF Append_, Write, Answer
<1>2. HeapInv' /\ TextMap' = [TextMap EXCEPT ![buf] = TextMap[buf] \o t]
    BY <1>1, WriteEffect
<1>3. TextMap[buf] # NULL
    BY TextIs
<1>4. Promised!AppendText(buf, t)
    BY <1>1, <1>2, <1>3, PromisedAppend
<1>5. string'[buf] = String(string[buf].data, string[buf].length + Len(t), capacity) /\ OnlyAt(buf)
    BY <1>1, <1>2 DEF Write, OnlyAt, HeapInv, HeapType
<1>6. (CanGrow(buf))'
    BY <1>5 DEF CanGrow, String
<1> QED
    BY <1>1, <1>2, <1>4, <1>5, <1>6

LEMMA AppendChar ==
    ASSUME HeapInv, NEW buf \in Slots, Holds(buf), CanGrow(buf), NEW c \in Chars, sb_append_char(buf, c)
    PROVE  /\ HeapInv' /\ Promised!AppendText(buf, <<c>>)
           /\ OnlyAt(buf) /\ (CanGrow(buf))' /\ reply' \in {"true", "false", "undefined"}
           /\ reply' = "undefined" => Emptied(buf)
<1>1. /\ string[buf].length \in Nat /\ string[buf].capacity \in Nat
      /\ string[buf].capacity <= PTRDIFF_MAX
      /\ string[buf].length <= string[buf].capacity
      /\ ~Dangling(buf) => BlockSize(buf) \in 0 .. PTRDIFF_MAX /\ string[buf].capacity <= BlockSize(buf)
      /\ Dangling(buf) => Emptied(buf) /\ string[buf].capacity = 0
    BY RecordIs DEF CanGrow
<1>2. <<c>> \in Seq(Chars) /\ Len(<<c>>) = 1
    OBVIOUS
<1>3. TextMap[buf] # NULL /\ (Dangling(buf) => TextMap[buf] = <<>>)
    BY TextIs
<1>4. DoubledCapacity(buf) = string[buf].capacity * 2
    <2>1. string[buf].capacity * 2 \in Nat /\ string[buf].capacity * 2 <= SIZE_MAX
        BY <1>1, Sizes
    <2> QED
        BY <2>1, NoWrap DEF DoubledCapacity
<1>5. CASE ~MustGrow(buf) /\ Append_(buf, <<c>>, BlockSize(buf), string[buf].capacity)
    <2>1. string[buf].length + 1 < string[buf].capacity
        BY <1>5, <1>1 DEF MustGrow
    <2>2. ~Dangling(buf)
        BY <2>1, <1>1
    <2>3. string[buf].length + Len(<<c>>) <= string[buf].capacity /\ string[buf].length + Len(<<c>>) <= BlockSize(buf)
        BY <2>1, <2>2, <1>1, <1>2
    <2> QED
        BY <2>2, <2>3, <1>1, <1>2, <1>5, AppendCall
<1>6. CASE MustGrow(buf) /\ Dangling(buf) /\ Undefined
    <2>1. UNCHANGED <<heap, string>> /\ reply' = "undefined" /\ Emptied(buf)
        BY <1>1, <1>6 DEF Undefined, Answer
    <2>2. (CanGrow(buf))'
        BY <2>1 DEF CanGrow
    <2> QED
        BY <2>1, <2>2, <1>6, <1>3, Refused, PromisedAppend
<1>7. CASE /\ MustGrow(buf) /\ ~Dangling(buf) /\ CanResize(DoubledCapacity(buf))
           /\ Append_(buf, <<c>>, DoubledCapacity(buf), DoubledCapacity(buf))
    <2> DEFINE size == DoubledCapacity(buf)
    <2>1. size \in 1 .. PTRDIFF_MAX
        BY <1>7 DEF CanResize
    <2>2. size \in 0 .. PTRDIFF_MAX /\ size \in Nat /\ size <= size
        BY <2>1, Sizes
    <2>3. string[buf].length + Len(<<c>>) <= size
        BY <2>1, <1>1, <1>2, <1>4, Sizes
    <2>4. Append_(buf, <<c>>, size, size)
        BY <1>7
    <2> HIDE DEF size
    <2> QED
        BY <2>2, <2>3, <2>4, <1>2, <1>7, AppendCall
<1>8. CASE Refuse
    <2>1. UNCHANGED <<heap, string>> /\ reply' = "false"
        BY <1>8 DEF Refuse, Answer
    <2>2. (CanGrow(buf))'
        BY <2>1 DEF CanGrow
    <2> QED
        BY <2>1, <2>2, <1>3, Refused, PromisedAppend
<1>9. CASE /\ MustGrow(buf) /\ ~Dangling(buf) /\ DoubledCapacity(buf) = 0
           /\ heap' = Without(string[buf].data)
           /\ Answer("false")
           /\ UNCHANGED string
    <2>1. string[buf].length = 0 /\ string[buf].capacity = 0
        BY <1>1, <1>4, <1>9
    <2>2. HeapInv' /\ TextMap' = TextMap
        BY <2>1, <1>9, ReallocEffect DEF FreedByRealloc
    <2>3. reply' = "false" /\ string' = string
        BY <1>9 DEF Answer
    <2>4. (CanGrow(buf))' /\ OnlyAt(buf)
        BY <2>3 DEF CanGrow, OnlyAt, HeapInv, HeapType
    <2> QED
        BY <2>2, <2>3, <2>4, <1>3, PromisedAppend
<1> QED
    BY <1>5, <1>6, <1>7, <1>8, <1>9 DEF sb_append_char

LEMMA AppendString ==
    ASSUME HeapInv, NEW buf \in Slots, Holds(buf), CanGrow(buf), NEW view \in Views, sb_append_string(buf, view)
    PROVE  /\ HeapInv' /\ Promised!AppendText(buf, Text(view))
           /\ OnlyAt(buf) /\ (CanGrow(buf))' /\ reply' \in {"true", "false", "undefined"}
           /\ reply' = "undefined" =>
                 Emptied(buf) \/ (view = buf /\ string[buf].capacity < 2 * string[buf].length)
<1> DEFINE total == string[buf].length + Length(view)
           size == IncreasedCapacity(total)
<1>1. /\ string[buf].length \in Nat /\ string[buf].capacity \in Nat
      /\ string[buf].capacity <= PTRDIFF_MAX
      /\ ~Dangling(buf) => BlockSize(buf) \in 0 .. PTRDIFF_MAX /\ string[buf].capacity <= BlockSize(buf)
      /\ Dangling(buf) => Emptied(buf) /\ string[buf].capacity = 0
    BY RecordIs
<1>2. /\ Text(view) \in Seq(Chars)
      /\ Length(view) \in Nat /\ Length(view) = Len(Text(view))
      /\ view \in Slots => Length(view) = string[view].length /\ TextMap[view] = Text(view)
    BY ViewIs
<1>3. total \in Nat
    BY <1>1, <1>2
<1>4. ~TooLarge(total) => size >= total
    <2> HIDE DEF total
    <2> SUFFICES ASSUME ~TooLarge(total) PROVE IncreasedCapacity(total) >= total
        OBVIOUS
    <2>1. total <= (SIZE_MAX \div 3) * 2
        BY <1>3, Sizes DEF TooLarge
    <2> DEFINE third == SIZE_MAX \div 3
               half == total \div 2
    <2>2. third \in Nat /\ 3 * third <= SIZE_MAX
        BY Sizes
    <2>3. half \in Nat /\ 2 * half <= total
        BY <1>3
    <2>4. total + half \in Nat /\ total + half <= SIZE_MAX
        <3>1. total <= third * 2
            BY <2>1
        <3> HIDE DEF third, half
        <3> QED
            BY <3>1, <2>2, <2>3, <1>3, Sizes
    <2>5. size_t(total + half) = total + half
        BY <2>4, NoWrap
    <2>6. IncreasedCapacity(total) = total + half
        BY <2>5 DEF IncreasedCapacity
    <2> QED
        BY <2>6, <2>3, <1>3
<1>5. TextMap[buf] # NULL /\ TextMap[buf] \in Seq(Chars) /\ (Dangling(buf) => TextMap[buf] = <<>>)
    BY TextIs
<1>6. ASSUME UNCHANGED <<heap, string>>,
             reply' = "false" \/ (reply' = "undefined" /\ TextMap[buf] \in {<<>>, Text(view)})
      PROVE  HeapInv' /\ Promised!AppendText(buf, Text(view)) /\ OnlyAt(buf) /\ (CanGrow(buf))'
    <2>1. HeapInv' /\ TextMap' = TextMap /\ OnlyAt(buf) /\ (CanGrow(buf))'
        BY <1>6, Refused DEF CanGrow
    <2> QED
        BY <2>1, <1>6, <1>5, PromisedAppend
<1>7. CASE Refuse
    BY <1>6, <1>7 DEF Refuse, Answer
<1>8. CASE ~(string[buf].capacity < total) /\ Length(view) = 0 /\ Answer("true") /\ UNCHANGED <<heap, string>>
    <2>1. HeapInv' /\ TextMap' = TextMap /\ reply' = "true"
        BY <1>8, NoEffect DEF Answer
    <2>2. Text(view) = <<>>
        BY <1>2, <1>8, EmptySeq
    <2>3. TextMap[buf] \o Text(view) = TextMap[buf]
        BY <2>2, <1>5, ConcatEmptySeq
    <2>4. TextMap' = [TextMap EXCEPT ![buf] = TextMap[buf] \o Text(view)]
        BY <2>1, <2>3 DEF TextMap
    <2>5. Promised!AppendText(buf, Text(view))
        BY <2>1, <2>4, <1>5, PromisedAppend
    <2>6. OnlyAt(buf) /\ (CanGrow(buf))'
        BY <1>8 DEF OnlyAt, CanGrow, HeapInv, HeapType
    <2> QED
        BY <2>1, <2>5, <2>6
<1>9. CASE /\ ~(string[buf].capacity < total) /\ Length(view) # 0
           /\ Append_(buf, Text(view), BlockSize(buf), string[buf].capacity)
    <2>1. total <= string[buf].capacity /\ 0 < total
        <3>1. Length(view) \in Nat /\ Length(view) # 0 /\ ~(string[buf].capacity < total)
            BY <1>2, <1>9
        <3> QED
            BY <3>1, <1>1
    <2>2. ~Dangling(buf)
        BY <2>1, <1>1, <1>3
    <2>3. /\ string[buf].length + Len(Text(view)) <= string[buf].capacity
          /\ string[buf].length + Len(Text(view)) <= BlockSize(buf)
          /\ BlockSize(buf) \in 0 .. PTRDIFF_MAX /\ string[buf].capacity <= BlockSize(buf)
        BY <2>1, <2>2, <1>1, <1>2, <1>3, Sizes
    <2>4. Append_(buf, Text(view), BlockSize(buf), string[buf].capacity)
        BY <1>9
    <2> HIDE DEF total, size
    <2> QED
        BY <2>2, <2>3, <2>4, <1>1, <1>2, AppendCall
<1>10. CASE Dangling(buf) /\ Undefined
    BY <1>1, <1>6, <1>10, <1>5 DEF Undefined, Answer
<1>11. CASE /\ ~TooLarge(total) /\ ~Dangling(buf) /\ CanResize(size)
            /\ Append_(buf, Text(view), size, size)
    <2>1. size \in 1 .. PTRDIFF_MAX
        BY <1>11 DEF CanResize
    <2>2. size \in 0 .. PTRDIFF_MAX /\ size \in Nat /\ size <= size
        <3> HIDE DEF size
        <3> QED
            BY <2>1, Sizes
    <2>3. string[buf].length + Len(Text(view)) <= size
        <3> HIDE DEF size
        <3> QED
            BY <2>2, <1>1, <1>2, <1>3, <1>4, <1>11
    <2>4. Append_(buf, Text(view), size, size) /\ ~Dangling(buf)
        BY <1>11
    <2> HIDE DEF total, size
    <2> QED
        BY <2>2, <2>3, <2>4, <1>2, AppendCall
<1>12. CASE string[buf].capacity < total /\ Stale(buf, view) /\ Undefined
    <2>1. UNCHANGED <<heap, string>> /\ reply' = "undefined"
        BY <1>12 DEF Undefined, Answer
    <2>2. view = buf /\ total = 2 * string[buf].length
        BY <1>1, <1>2, <1>12 DEF Stale
    <2>3. TextMap[buf] = Text(view)
        BY <2>2, <1>2
    <2>4. HeapInv' /\ Promised!AppendText(buf, Text(view)) /\ OnlyAt(buf) /\ (CanGrow(buf))'
        BY <2>1, <2>3, <1>6
    <2> QED
        BY <2>1, <2>2, <2>4, <1>12
<1> QED
    BY <1>7, <1>8, <1>9, <1>10, <1>11, <1>12 DEF sb_append_string

LEMMA ResetCall ==
    ASSUME HeapInv, NEW buf \in Slots, Holds(buf), sb_reset(buf)
    PROVE  /\ HeapInv' /\ Promised!Reset(buf)
           /\ OnlyAt(buf) /\ (CanGrow(buf))' /\ reply' = "true"
<1>1. Empty(buf) /\ reply' = "true"
    BY DEF sb_reset, Empty, Answer
<1>2. HeapInv' /\ TextMap' = [TextMap EXCEPT ![buf] = <<>>] /\ TextMap[buf] # NULL
    BY <1>1, EmptyEffect, TextIs
<1>3. Promised!Reset(buf)
    BY <1>1, <1>2, PromisedReset
<1>4. OnlyAt(buf)
    BY <1>1, <1>2 DEF Empty, OnlyAt, HeapInv, HeapType
<1>5. (CanGrow(buf))'
    <2>1. string'[buf] = [string[buf] EXCEPT !.length = 0]
        BY <1>1 DEF Empty, HeapInv, HeapType
    <2>2. string[buf] \in StringRecord
        BY DEF HeapInv, HeapType
    <2> QED
        BY <2>1, <2>2 DEF CanGrow, StringRecord
<1> QED
    BY <1>1, <1>2, <1>3, <1>4, <1>5

LEMMA Appending ==
    ASSUME HeapInv, NEW buf \in Slots, Holds(buf), CanGrow(buf),
           \/ \E c \in Chars : sb_append_char(buf, c)
           \/ \E view \in Views : sb_append_string(buf, view)
           \/ sb_reset(buf)
    PROVE  Kept /\ OnlyAt(buf) /\ (CanGrow(buf))' /\ reply' \in {"true", "false", "undefined"}
<1>1. ASSUME NEW c \in Chars, sb_append_char(buf, c)
      PROVE  Kept /\ OnlyAt(buf) /\ (CanGrow(buf))' /\ reply' \in {"true", "false", "undefined"}
    BY <1>1, AppendChar, PromisedCalls DEF Kept
<1>2. ASSUME NEW view \in Views, sb_append_string(buf, view)
      PROVE  Kept /\ OnlyAt(buf) /\ (CanGrow(buf))' /\ reply' \in {"true", "false", "undefined"}
    <2>1. Text(view) \in Promised!Known
        BY ViewIs
    <2> QED
        BY <1>2, <2>1, AppendString, PromisedCalls DEF Kept
<1>3. CASE sb_reset(buf)
    BY <1>3, ResetCall, PromisedCalls DEF Kept
<1> QED
    BY <1>1, <1>2, <1>3

LEMMA FreeCall ==
    ASSUME HeapInv, NEW x \in Slots, sb_free(x)
    PROVE  /\ HeapInv' /\ Promised!Free(x) /\ Kept /\ OnlyAt(x) /\ reply' \in {"true", "undefined"}
           /\ string'[x] = string[x] \/ string'[x] = NoString
           /\ reply' = "undefined" => Emptied(x)
<1>1. CASE Dangling(x)
    <2>1. UNCHANGED <<heap, string>> /\ reply' = "undefined" /\ Emptied(x)
        BY <1>1 DEF sb_free, Undefined, Answer, HeapInv, Owned
    <2>2. TextMap[x] = <<>>
        BY <1>1, TextIs DEF Dangling
    <2>3. HeapInv' /\ TextMap' = TextMap /\ OnlyAt(x)
        BY <2>1, Refused
    <2>4. Promised!Free(x)
        BY <2>1, <2>2, <2>3, PromisedFree
    <2> QED
        BY <2>1, <2>3, <2>4, PromisedCalls DEF Kept
<1>2. CASE ~Dangling(x)
    <2>1. Free(x) /\ reply' = "true"
        BY <1>2 DEF sb_free, Free, Answer
    <2>2. HeapInv' /\ TextMap' = [TextMap EXCEPT ![x] = NULL]
        BY <1>2, <2>1, FreeEffect
    <2>3. Promised!Free(x)
        BY <2>1, <2>2, PromisedFree
    <2>4. OnlyAt(x) /\ string'[x] = NoString
        BY <2>1, <2>2 DEF Free, OnlyAt, HeapInv, HeapType
    <2> QED
        BY <2>1, <2>2, <2>3, <2>4, PromisedCalls DEF Kept
<1> QED
    BY <1>1, <1>2

(* A block handed over keeps its length, and has the capacity it is said to *)
(* have.                                                                    *)
LEMMA HandOverCall ==
    ASSUME HeapInv, NEW from \in Slots, NEW to \in Slots, from # to, ~Holds(to),
           NEW capacity \in Nat, capacity <= string[from].length \/ capacity <= string[from].capacity,
           string' = Transferred(from, to, capacity), UNCHANGED heap, reply' = "true"
    PROVE  /\ Promised!Move(from, to) /\ Kept
           /\ string' \in [Slots -> StringRecord]
           /\ \A y \in Slots \ {from, to} : string'[y] = string[y]
           /\ string'[from] = NoString
           /\ string'[to] = String(string[from].data, string[from].length, capacity)
<1>1. Transfer(from, to, capacity)
    BY DEF Transfer
<1>2. HeapInv' /\ TextMap' = [TextMap EXCEPT ![to] = TextMap[from], ![from] = NULL]
    BY <1>1, TransferEffect
<1>3. Promised!Move(from, to)
    BY <1>2, PromisedMove, NoTextIs
<1>4. string' = [string EXCEPT ![to] = String(string[from].data, string[from].length, capacity), ![from] = NoString]
    BY DEF Transferred
<1>5. /\ \A y \in Slots \ {from, to} : string'[y] = string[y]
      /\ string'[from] = NoString
      /\ string'[to] = String(string[from].data, string[from].length, capacity)
    <2> DEFINE moved == String(string[from].data, string[from].length, capacity)
    <2>1. string' = [string EXCEPT ![to] = moved, ![from] = NoString]
        BY <1>4
    <2> HIDE DEF moved
    <2>2. /\ \A y \in Slots \ {from, to} : string'[y] = string[y]
          /\ string'[from] = NoString
          /\ string'[to] = moved
        BY <2>1 DEF HeapInv, HeapType
    <2> QED
        BY <2>2 DEF moved
<1> QED
    BY <1>2, <1>3, <1>5, PromisedCalls DEF Kept, HeapInv, HeapType

-----------------------------------------------------------------------------
(* Every step keeps the invariant and is one of the promise.                *)

LEMMA Variables ==
    /\ Muts \subseteq Slots /\ Strs \subseteq Slots /\ Vals \subseteq Slots
    /\ Muts \cap Strs = {} /\ Muts \cap Vals = {} /\ Strs \cap Vals = {}
    /\ TypeNames \subseteq Views
    /\ \A x \in Slots : Holds(x) => x \in Views
BY SlotsAssumption, ValuesAssumption DEF Slots, Views

LEMMA HasRoom ==
    ASSUME IInv, NEW x \in Slots, Mutable(x)
    PROVE  CanGrow(x)
BY DEF IInv, MutableInv, CanGrow

LEMMA NoRoomNeeded ==
    ASSUME NEW x \in Slots, string'[x] = NoString
    PROVE  (CanGrow(x))' /\ (~Holds(x))'
BY DEF CanGrow, NoString, String, Holds

(* One variable changed.                                                    *)
LEMMA OneMutable ==
    ASSUME IInv, UNCHANGED type, NEW x \in Slots, OnlyAt(x), Mutable(x) => (CanGrow(x))'
    PROVE  MutableInv'
<1> SUFFICES ASSUME NEW y \in Slots, (Mutable(y))' PROVE (CanGrow(y))'
    BY DEF MutableInv, CanGrow
<1>1. Mutable(y)
    BY DEF Mutable
<1>2. CASE y = x
    BY <1>1, <1>2
<1>3. CASE y # x
    BY <1>1, <1>3, HasRoom DEF OnlyAt, CanGrow
<1> QED
    BY <1>2, <1>3

LEMMA InitInvariant == Init => IInv /\ Promised!Init /\ \A v \in Vals : ~Untyped(v)
<1> SUFFICES ASSUME Init PROVE IInv /\ Promised!Init /\ \A v \in Vals : ~Untyped(v)
    OBVIOUS
<1>1. /\ Live = {} /\ heap = [b \in {} |-> [size |-> 0, text |-> <<>>]]
      /\ string = [x \in Slots |-> NoString] /\ reply = "true"
      /\ type = [v \in Vals |-> "UNDEFINED"]
    BY DEF Init, StringInit, Live
<1>2. /\ NoString \in StringRecord
      /\ NoString.data = NULL /\ NoString.length = 0 /\ NoString.capacity = 0
    BY DEF NoString, String, StringRecord
<1>3. \A x \in Slots : string[x] = NoString /\ ~Holds(x) /\ ~Dangling(x)
    BY <1>1, <1>2 DEF Holds, Dangling
<1>4. HeapType
    BY <1>1, <1>2 DEF HeapType
<1>5. Owned /\ Claimed
    BY <1>1, <1>3 DEF Owned, Claimed
<1>6. TypeInv
    BY <1>1 DEF TypeInv, Types
<1>7. MutableInv
    BY <1>2, <1>3 DEF MutableInv
<1>8. Promised!Init
    <2>1. TextMap = [x \in Slots |-> NULL]
        BY <1>3 DEF TextMap
    <2> QED
        BY <2>1, <1>1 DEF Promised!Init, TextMap
<1> QED
    BY <1>3, <1>4, <1>5, <1>6, <1>7, <1>8, Variables DEF IInv, HeapInv, Untyped

NoneUntyped == \A v \in Vals : ~Untyped(v)

LEMMA NextOf ==
    ASSUME Running, Kept
    PROVE  Promised!Next
BY DEF Running, Kept, Promised!Next

LEMMA StringSteps ==
    ASSUME IInv, NoneUntyped, StringNext, UNCHANGED type
    PROVE  IInv' /\ Promised!Next /\ NoneUntyped'
<1> DEFINE answers == {"true", "false", "undefined"}
<1>1. HeapInv /\ Running /\ type \in [Vals -> Types]
    BY DEF StringNext, IInv, TypeInv
(* Where one variable other than a value has changed.                       *)
<1>2. ASSUME NEW x \in Muts \cup Strs, Kept, OnlyAt(x), reply' \in answers, x \in Muts => (CanGrow(x))'
      PROVE  IInv' /\ Promised!Next /\ NoneUntyped'
    <2>1. x \in Slots /\ x \notin Vals
        BY Variables
    <2>2. MutableInv'
        BY <1>2, <2>1, OneMutable DEF Mutable
    <2>3. \A v \in Vals : string'[v] = string[v]
        BY <1>2, <2>1, Variables DEF OnlyAt
    <2>4. NoneUntyped'
        BY <2>3 DEF NoneUntyped, Untyped, Holds
    <2> QED
        BY <1>1, <1>2, <2>2, <2>4, NextOf DEF IInv, Kept, TypeInv
<1>3. ASSUME NEW out \in Muts, ~Holds(out),
             \/ \E n \in {0, 1} : sb_init(out, n)
             \/ \E view \in Views : sb_copy_mut(out, view)
             \/ \E view1, view2 \in Views : sb_concat_mut(out, view1, view2)
      PROVE  IInv' /\ Promised!Next /\ NoneUntyped'
    <2>1. Kept /\ OnlyAt(out) /\ (CanGrow(out))' /\ reply' \in {"true", "false"}
        BY <1>1, <1>3, Variables, MakingMut
    <2> QED
        BY <2>1, <1>2
<1>4. ASSUME NEW out \in Muts, ~Holds(out), NEW from \in Strs, Holds(from), sb_to_mutable(from, out)
      PROVE  IInv' /\ Promised!Next /\ NoneUntyped'
    <2>1. from \in Slots /\ out \in Slots /\ from # out /\ from \notin Vals /\ out \notin Vals /\ from \notin Muts
        BY Variables
    <2>2. string[from].length \in Nat
        BY <1>1, <1>4, <2>1, RecordIs
    <2>3. /\ string' = Transferred(from, out, string[from].length) /\ UNCHANGED heap /\ reply' = "true"
        BY <1>4 DEF sb_to_mutable, HandOver, KnownCapacity, Answer
    <2>4. /\ Kept
          /\ \A y \in Slots \ {from, out} : string'[y] = string[y]
          /\ string'[from] = NoString
          /\ string'[out] = String(string[from].data, string[from].length, string[from].length)
        BY <1>1, <1>4, <2>1, <2>2, <2>3, HandOverCall
    <2>5. (CanGrow(out))'
        BY <2>2, <2>4 DEF CanGrow, String
    <2>6. MutableInv'
        <3> SUFFICES ASSUME NEW y \in Slots, (Mutable(y))' PROVE (CanGrow(y))'
            BY DEF MutableInv, CanGrow
        <3>1. Mutable(y) /\ y # from
            BY <2>1 DEF Mutable
        <3> QED
            BY <3>1, <2>4, <2>5, HasRoom DEF CanGrow
    <2>7. NoneUntyped'
        <3>1. \A v \in Vals : string'[v] = string[v]
            BY <2>1, <2>4, Variables
        <3> QED
            BY <3>1 DEF NoneUntyped, Untyped, Holds
    <2> QED
        BY <1>1, <2>3, <2>4, <2>6, <2>7, NextOf DEF IInv, Kept, TypeInv
<1>5. ASSUME NEW out \in Strs, ~Holds(out),
             \/ \E view \in Views : sb_copy(out, view)
             \/ \E view1, view2 \in Views : sb_concat(out, view1, view2)
      PROVE  IInv' /\ Promised!Next /\ NoneUntyped'
    <2>1. out \in Slots /\ out \notin Muts
        BY Variables
    <2>2. Kept /\ OnlyAt(out) /\ reply' \in {"true", "false"}
        BY <1>1, <1>5, <2>1, MakingString
    <2> QED
        BY <2>1, <2>2, <1>2
<1>6. ASSUME NEW buf \in Muts, Holds(buf),
             \/ \E c \in Chars : sb_append_char(buf, c)
             \/ \E view \in Views : sb_append_string(buf, view)
             \/ sb_reset(buf)
      PROVE  IInv' /\ Promised!Next /\ NoneUntyped'
    <2>1. buf \in Slots /\ CanGrow(buf)
        BY Variables, HasRoom DEF Mutable
    <2>2. Kept /\ OnlyAt(buf) /\ (CanGrow(buf))' /\ reply' \in answers
        BY <1>1, <1>6, <2>1, Appending
    <2> QED
        BY <2>2, <1>2
<1>7. ASSUME NEW x \in Muts \cup Strs, sb_free(x)
      PROVE  IInv' /\ Promised!Next /\ NoneUntyped'
    <2>1. x \in Slots
        BY Variables
    <2>2. /\ Kept /\ OnlyAt(x) /\ reply' \in {"true", "undefined"}
          /\ string'[x] = string[x] \/ string'[x] = NoString
        BY <1>1, <1>7, <2>1, FreeCall
    <2>3. x \in Muts => (CanGrow(x))'
        BY <2>1, <2>2, HasRoom, NoRoomNeeded DEF Mutable, CanGrow
    <2> QED
        BY <2>2, <2>3, <1>2
<1> QED
    BY <1>3, <1>4, <1>5, <1>6, <1>7 DEF StringNext

(* A value is made of what owns no string, and what becomes of its text.    *)
LEMMA PlainCall ==
    ASSUME IInv, NoneUntyped, Running, NEW v \in Vals, ~Holds(v), NEW t \in Types \ {"STRING_MUT"}, CreatePlain(v, t)
    PROVE  IInv' /\ Promised!Next /\ NoneUntyped'
<1>1. /\ type' = [type EXCEPT ![v] = t] /\ UNCHANGED <<heap, string>> /\ reply' = "true"
      /\ v \in Slots /\ type \in [Vals -> Types]
    BY Variables DEF CreatePlain, Typed, Answer, IInv, TypeInv
<1>2. HeapInv' /\ TextMap' = TextMap
    BY <1>1, NoEffect DEF IInv
<1>5. Promised!Next
    BY <1>1, <1>2, PromisedLeave, PromisedCalls DEF Promised!Next, Running
<1>6. TypeInv'
    BY <1>1 DEF TypeInv
<1>7. MutableInv'
    <2> SUFFICES ASSUME NEW y \in Slots, (Mutable(y))' PROVE CanGrow(y)
        BY <1>1 DEF MutableInv, CanGrow
    <2>1. Mutable(y)
        BY <1>1 DEF Mutable
    <2> QED
        BY <2>1, HasRoom
<1>8. NoneUntyped'
    BY <1>1 DEF NoneUntyped, Untyped, Holds
<1> QED
    BY <1>2, <1>5, <1>6, <1>7, <1>8 DEF IInv

(* A string goes from one variable to another, and the type of a value with *)
(* it.                                                                      *)
LEMMA StringMoves ==
    ASSUME IInv, NoneUntyped, Running,
           NEW from \in Slots, NEW to \in Slots, from # to, ~Holds(to),
           NEW capacity \in Nat, capacity <= string[from].length \/ capacity <= string[from].capacity,
           string' = Transferred(from, to, capacity), UNCHANGED heap, reply' = "true",
           type' \in [Vals -> Types],
           \A v \in Vals \ {from, to} : type'[v] = type[v],
           to \in Vals /\ Holds(from) => type'[to] \in StringTypes,
           (Mutable(to))' => string[from].length <= capacity
    PROVE  IInv' /\ Promised!Next /\ NoneUntyped'
<1>1. /\ Kept
      /\ string' \in [Slots -> StringRecord]
      /\ \A y \in Slots \ {from, to} : string'[y] = string[y]
      /\ string'[from] = NoString
      /\ string'[to] = String(string[from].data, string[from].length, capacity)
    BY HandOverCall DEF IInv
<1>2. MutableInv'
    <2> SUFFICES ASSUME NEW y \in Slots, (Mutable(y))' PROVE (CanGrow(y))'
        BY DEF MutableInv, CanGrow
    <2>1. CASE y = from
        BY <2>1, <1>1, NoRoomNeeded
    <2>2. CASE y = to
        BY <2>2, <1>1 DEF CanGrow, String
    <2>3. CASE y # from /\ y # to
        <3>1. Mutable(y)
            BY <2>3 DEF Mutable
        <3> QED
            BY <3>1, <2>3, <1>1, HasRoom DEF CanGrow
    <2> QED
        BY <2>1, <2>2, <2>3
<1>3. NoneUntyped'
    <2> SUFFICES ASSUME NEW v \in Vals, (Untyped(v))' PROVE FALSE
        BY DEF NoneUntyped
    <2>1. CASE v = from
        BY <2>1, <1>1, NoRoomNeeded DEF Untyped
    <2>2. CASE v = to
        BY <2>2, <1>1 DEF Untyped, Holds, String
    <2>3. CASE v # from /\ v # to
        BY <2>3, <1>1, Variables DEF NoneUntyped, Untyped, Holds
    <2> QED
        BY <2>1, <2>2, <2>3
<1> QED
    BY <1>1, <1>2, <1>3, NextOf DEF IInv, TypeInv, Kept

LEMMA MoveSteps ==
    ASSUME IInv, NoneUntyped, Running, NEW v \in Vals, ~Holds(v),
           \/ \E m \in Muts : Holds(m) /\ CreateMut(v, m)
           \/ \E s \in Strs : Holds(s) /\ CreateLit(v, s)
           \/ \E from \in Vals \ {v} : memory_value_move(from, v)
    PROVE  IInv' /\ Promised!Next /\ NoneUntyped'
<1>1. HeapInv /\ type \in [Vals -> Types] /\ v \in Slots /\ v \notin Muts /\ v \notin Strs
    BY Variables DEF IInv, TypeInv
<1>2. \A x \in Slots : string[x].length \in Nat /\ string[x].capacity \in Nat
    BY <1>1 DEF HeapInv, HeapType, StringRecord
<1>3. ASSUME NEW m \in Muts, Holds(m), CreateMut(v, m)
      PROVE  IInv' /\ Promised!Next /\ NoneUntyped'
    <2>1. m \in Slots /\ m # v /\ Mutable(m) /\ string[m].length <= string[m].capacity
        BY <1>1, Variables, HasRoom DEF Mutable, CanGrow
    <2>2. /\ string' = Transferred(m, v, string[m].capacity) /\ UNCHANGED heap /\ reply' = "true"
          /\ type' = [type EXCEPT ![v] = "STRING_MUT"]
        BY <1>3 DEF CreateMut, sb_move_string_mut, HandOver, Answer, Typed
    <2>3. /\ type' \in [Vals -> Types]
          /\ \A w \in Vals \ {m, v} : type'[w] = type[w]
          /\ type'[v] \in StringTypes
        BY <1>1, <2>2 DEF Types, StringTypes
    <2>4. string[m].capacity \in Nat /\ string[m].capacity <= string[m].capacity
        BY <1>2, <2>1
    <2> QED
        BY <1>1, <2>1, <2>2, <2>3, <2>4, StringMoves
<1>4. ASSUME NEW s \in Strs, Holds(s), CreateLit(v, s)
      PROVE  IInv' /\ Promised!Next /\ NoneUntyped'
    <2>1. s \in Slots /\ s # v /\ string[s].length \in Nat
        BY <1>1, <1>2, Variables
    <2>2. /\ string' = Transferred(s, v, 0) /\ UNCHANGED heap /\ reply' = "true"
          /\ type' = [type EXCEPT ![v] = "STRING_LIT"]
        BY <1>4 DEF CreateLit, sb_move_string, HandOver, Answer, Typed
    <2>3. /\ type' \in [Vals -> Types]
          /\ \A w \in Vals \ {s, v} : type'[w] = type[w]
          /\ type'[v] = "STRING_LIT" /\ type'[v] \in StringTypes
        BY <1>1, <2>2 DEF Types, StringTypes
    <2>4. ~(Mutable(v))'
        BY <1>1, <2>3 DEF Mutable
    <2>5. 0 \in Nat /\ 0 <= string[s].length
        BY <2>1
    <2> QED
        BY <1>1, <2>1, <2>2, <2>3, <2>4, <2>5, StringMoves
<1>5. ASSUME NEW from \in Vals \ {v}, memory_value_move(from, v)
      PROVE  IInv' /\ Promised!Next /\ NoneUntyped'
    <2>1. from \in Slots /\ from # v /\ from \notin Muts
        BY Variables
    <2>2. /\ string' = Transferred(from, v, string[from].capacity) /\ UNCHANGED heap /\ reply' = "true"
          /\ type' = [type EXCEPT ![v] = type[from], ![from] = "UNDEFINED"]
        BY <1>5 DEF memory_value_move, Answer
    <2>3. /\ type' \in [Vals -> Types]
          /\ \A w \in Vals \ {from, v} : type'[w] = type[w]
          /\ type'[v] = type[from]
        BY <1>1, <2>1, <2>2 DEF Types
    <2>4. Holds(from) => type'[v] \in StringTypes
        BY <2>3 DEF NoneUntyped, Untyped
    <2>5. (Mutable(v))' => string[from].length <= string[from].capacity
        <3> SUFFICES ASSUME (Mutable(v))' PROVE string[from].length <= string[from].capacity
            OBVIOUS
        <3>1. type[from] = "STRING_MUT"
            BY <1>1, <2>3 DEF Mutable
        <3> QED
            BY <3>1, <2>1, HasRoom DEF Mutable, CanGrow
    <2>6. string[from].capacity \in Nat /\ string[from].capacity <= string[from].capacity
        BY <1>2, <2>1
    <2> QED
        BY <1>1, <2>1, <2>2, <2>3, <2>4, <2>5, <2>6, StringMoves
<1> QED
    BY <1>3, <1>4, <1>5

LEMMA FreeValue ==
    ASSUME IInv, NoneUntyped, Running, NEW v \in Vals, memory_value_free(v)
    PROVE  IInv' /\ Promised!Next /\ NoneUntyped'
<1>1. HeapInv /\ v \in Slots /\ UNCHANGED type
    BY Variables DEF IInv, memory_value_free
<1>2. CASE type[v] \in StringTypes
    <2>1. sb_free(v)
        BY <1>2 DEF memory_value_free
    <2>2. /\ Kept /\ OnlyAt(v) /\ reply' \in {"true", "undefined"}
          /\ string'[v] = string[v] \/ string'[v] = NoString
        BY <1>1, <2>1, FreeCall
    <2>3. Mutable(v) => (CanGrow(v))'
        BY <1>1, <2>2, HasRoom, NoRoomNeeded DEF CanGrow
    <2>4. MutableInv'
        BY <1>1, <2>2, <2>3, OneMutable
    <2>5. NoneUntyped'
        <3> SUFFICES ASSUME NEW w \in Vals, (Untyped(w))' PROVE FALSE
            BY DEF NoneUntyped
        <3>1. w # v
            BY <1>1, <1>2 DEF Untyped
        <3> QED
            BY <3>1, <1>1, <2>2, Variables DEF OnlyAt, NoneUntyped, Untyped, Holds
    <2> QED
        BY <1>1, <2>2, <2>4, <2>5, NextOf DEF IInv, TypeInv, Kept
<1>3. CASE type[v] \notin StringTypes
    <2>1. UNCHANGED <<heap, string>> /\ reply' = "true" /\ ~Holds(v)
        BY <1>3 DEF memory_value_free, Answer, NoneUntyped, Untyped
    <2>2. HeapInv' /\ TextMap' = TextMap /\ TextMap[v] = NULL
        BY <1>1, <2>1, NoEffect, NoTextIs
    <2>3. TextMap' = [TextMap EXCEPT ![v] = NULL]
        BY <2>2 DEF TextMap
    <2>4. Promised!Next
        BY <1>1, <2>1, <2>3, PromisedFree, PromisedCalls DEF Promised!Next, Running
    <2>5. OnlyAt(v) /\ (Mutable(v) => (CanGrow(v))')
        BY <1>1, <2>1, HasRoom DEF OnlyAt, CanGrow, HeapInv, HeapType
    <2>6. MutableInv'
        BY <1>1, <2>5, OneMutable
    <2>7. NoneUntyped'
        BY <1>1, <2>1 DEF NoneUntyped, Untyped, Holds
    <2> QED
        BY <1>1, <2>1, <2>2, <2>4, <2>6, <2>7 DEF IInv, TypeInv
<1> QED
    BY <1>2, <1>3

LEMMA GetStep ==
    ASSUME IInv, NoneUntyped, Running, NEW v \in Vals, NEW out \in Muts, ~Holds(out),
           memory_value_get_str_mut(out, v)
    PROVE  IInv' /\ Promised!Next /\ NoneUntyped'
<1>1. HeapInv /\ v \in Slots /\ out \in Slots /\ v # out /\ out \notin Vals /\ type \in [Vals -> Types] /\ UNCHANGED type
    BY Variables DEF IInv, TypeInv, memory_value_get_str_mut
<1>2. CASE type[v] = "STRING_MUT" /\ Holds(v) /\ sb_move_string_mut(v, out)
    <2>1. string' = Transferred(v, out, string[v].capacity) /\ UNCHANGED heap /\ reply' = "true"
        BY <1>2 DEF sb_move_string_mut, HandOver, Answer
    <2>2. string[v].length <= string[v].capacity
        BY <1>1, <1>2, HasRoom DEF Mutable, CanGrow
    <2>3. string[v].capacity \in Nat /\ string[v].capacity <= string[v].capacity
        BY <1>1 DEF HeapInv, HeapType, StringRecord
    <2> QED
        BY <1>1, <2>1, <2>2, <2>3, StringMoves
<1>3. ASSUME NEW view \in Views, sb_copy_mut(out, view)
      PROVE  IInv' /\ Promised!Next /\ NoneUntyped'
    <2>1. Kept /\ OnlyAt(out) /\ (CanGrow(out))' /\ reply' \in {"true", "false"}
        BY <1>1, <1>3, MakingMut
    <2>2. MutableInv'
        BY <1>1, <2>1, OneMutable
    <2>3. NoneUntyped'
        BY <1>1, <2>1, Variables DEF OnlyAt, NoneUntyped, Untyped, Holds
    <2> QED
        BY <1>1, <2>1, <2>2, <2>3, NextOf DEF IInv, TypeInv, Kept
<1>4. \/ type[v] = "STRING_MUT" /\ Holds(v) /\ sb_move_string_mut(v, out)
      \/ \E view \in Views : sb_copy_mut(out, view)
    BY <1>1, Variables DEF memory_value_get_str_mut
<1> QED
    BY <1>2, <1>3, <1>4

LEMMA CopyStep ==
    ASSUME IInv, NoneUntyped, Running, NEW out \in Vals, NEW v \in Vals, out # v, Vacant(out),
           memory_value_copy(out, v)
    PROVE  IInv' /\ Promised!Next /\ (NoneUntyped' \/ type[v] \in StringTypes)
<1>1. HeapInv /\ out \in Slots /\ v \in Slots /\ out \notin Muts /\ ~Holds(out) /\ type[out] \notin StringTypes
      /\ type \in [Vals -> Types]
    BY Variables DEF IInv, TypeInv, Vacant
<1>2. CASE type[v] \in PlainTypes \cup {"UNDEFINED"} /\ CreatePlain(out, type[v])
    <2>1. type[v] \in Types \ {"STRING_MUT"}
        BY <1>2 DEF PlainTypes, Types
    <2> QED
        BY <1>1, <1>2, <2>1, PlainCall
<1>3. ASSUME Kept, OnlyAt(out), reply' \in {"true", "false"}, UNCHANGED type
      PROVE  IInv' /\ Promised!Next
    <2>1. ~Mutable(out)
        BY <1>1 DEF Mutable, StringTypes
    <2>2. MutableInv'
        BY <1>1, <1>3, <2>1, OneMutable
    <2> QED
        BY <1>1, <1>3, <2>2, NextOf DEF IInv, TypeInv, Kept
<1>4. CASE type[v] = "STRING_LIT" /\ Holds(v) /\ sb_copy(out, v) /\ UNCHANGED type
    <2>1. v \in Views
        BY <1>1, <1>4, Variables
    <2>2. Kept /\ OnlyAt(out) /\ reply' \in {"true", "false"}
        BY <1>1, <1>4, <2>1, MakingString
    <2> QED
        BY <2>2, <1>3, <1>4 DEF StringTypes
<1>5. CASE type[v] = "STRING_MUT" /\ Holds(v) /\ sb_copy_mut(out, v) /\ UNCHANGED type
    <2>1. v \in Views
        BY <1>1, <1>5, Variables
    <2>2. Kept /\ OnlyAt(out) /\ reply' \in {"true", "false"}
        BY <1>1, <1>5, <2>1, MakingMut
    <2> QED
        BY <2>2, <1>3, <1>5 DEF StringTypes
<1> QED
    BY <1>2, <1>4, <1>5 DEF memory_value_copy

(* The one call that leaves a string under a type that does not say so.     *)
LosingCopy == \E out, v \in Vals : type[v] \in StringTypes /\ memory_value_copy(out, v)

LEMMA StepInvariant ==
    ASSUME IInv, Next
    PROVE  IInv' /\ Promised!Next /\ (NoneUntyped' \/ LosingCopy)
<1>1. NoneUntyped
    BY DEF Next, NoneUntyped
<1>2. CASE StringNext /\ UNCHANGED type
    BY <1>1, <1>2, StringSteps
<1>3. CASE ValueNext
    <2>1. Running
        BY <1>3 DEF ValueNext
    <2>2. ASSUME NEW v \in Vals, ~Holds(v), NEW t \in PlainTypes, CreatePlain(v, t)
          PROVE  IInv' /\ Promised!Next /\ NoneUntyped'
        <3>1. t \in Types \ {"STRING_MUT"}
            BY DEF PlainTypes, Types
        <3> QED
            BY <1>1, <2>1, <2>2, <3>1, PlainCall
    <2>3. ASSUME NEW v \in Vals, ~Holds(v),
                 \/ \E m \in Muts : Holds(m) /\ CreateMut(v, m)
                 \/ \E s \in Strs : Holds(s) /\ CreateLit(v, s)
                 \/ \E from \in Vals \ {v} : memory_value_move(from, v)
          PROVE  IInv' /\ Promised!Next /\ NoneUntyped'
        BY <1>1, <2>1, <2>3, MoveSteps
    <2>4. ASSUME NEW out \in Vals, NEW v \in Vals, out # v, Vacant(out), memory_value_copy(out, v)
          PROVE  IInv' /\ Promised!Next /\ (NoneUntyped' \/ LosingCopy)
        BY <1>1, <2>1, <2>4, CopyStep DEF LosingCopy
    <2>5. ASSUME NEW v \in Vals, memory_value_free(v)
          PROVE  IInv' /\ Promised!Next /\ NoneUntyped'
        BY <1>1, <2>1, <2>5, FreeValue
    <2>6. ASSUME NEW v \in Vals, NEW out \in Muts, ~Holds(out), memory_value_get_str_mut(out, v)
          PROVE  IInv' /\ Promised!Next /\ NoneUntyped'
        BY <1>1, <2>1, <2>6, GetStep
    <2> QED
        BY <1>3, <2>2, <2>3, <2>4, <2>5, <2>6 DEF ValueNext
<1> QED
    BY <1>2, <1>3 DEF Next

LEMMA StutterInvariant ==
    ASSUME UNCHANGED vars
    PROVE  /\ IInv => IInv'
           /\ UNCHANGED <<TextMap, reply>>
<1>1. UNCHANGED <<heap, string, reply, type>>
    BY DEF vars
<1>2. IInv => IInv'
    BY <1>1 DEF IInv, HeapInv, HeapType, Owned, Claimed, TypeInv, MutableInv, Mutable, Holds, Dangling, Emptied, Live
<1>3. TextMap' = TextMap
    BY <1>1, TextMapIs
<1> QED
    BY <1>1, <1>2, <1>3

(* No call sequence loses track of a block or of its size.                  *)
THEOREM HeapIsSound == Spec => []IInv
<1>1. Init => IInv
    BY InitInvariant
<1>2. IInv /\ [Next]_vars => IInv'
    BY StepInvariant, StutterInvariant
<1> QED
    BY <1>1, <1>2, PTL DEF Spec

-----------------------------------------------------------------------------
(* Whatever is called in whatever order, and whichever allocation fails,    *)
(* every block belongs to one string, and a string that has lost its block  *)
(* to realloc has neither length nor capacity.                              *)
THEOREM BlocksHaveOneOwner == Spec => []BlocksOwnedOnce
<1>1. IInv => BlocksOwnedOnce
    <2> SUFFICES ASSUME Owned, HeapType PROVE BlocksOwnedOnce
        BY DEF IInv, HeapInv
    <2>1. ASSUME NEW b \in Live PROVE Cardinality(Owners(b)) = 1
        <3>1. PICK x \in Slots : string[x].data = b
            BY DEF Owned
        <3>2. b # NULL
            BY StringsAssumption DEF HeapType
        <3>3. Owners(b) = {x}
            BY <3>1, <3>2 DEF Owned, Owners, Holds
        <3> QED
            BY <3>3, FS_Singleton
    <2> QED
        BY <2>1 DEF BlocksOwnedOnce, Owned
<1> QED
    BY <1>1, HeapIsSound, PTL

(* Length and capacity stay inside the block, also after sb_to_mutable,     *)
(* after a failed realloc and where capacities approach the size of the     *)
(* address space.                                                           *)
THEOREM ClaimsAreAllocated == Spec => []ClaimsAllocated
<1>1. IInv => ClaimsAllocated
    BY DEF IInv, HeapInv, Claimed, ClaimsAllocated
<1> QED
    BY <1>1, HeapIsSound, PTL

(* sb_append_string of a string to itself, and what is done to a string     *)
(* whose block realloc has freed, are the only calls that touch memory      *)
(* which is not theirs.                                                     *)
THEOREM OnlyTwoWays == Spec => UndefinedTwoWays
<1> DEFINE Ways ==
        reply' = "undefined" =>
          /\ \A x \in Slots : sb_free(x) => Emptied(x)
          /\ \A buf \in Muts : Holds(buf) =>
                /\ \A c \in Chars : sb_append_char(buf, c) => Emptied(buf)
                /\ \A view \in Views : sb_append_string(buf, view) =>
                      \/ Emptied(buf)
                      \/ view = buf /\ string[buf].capacity < 2 * string[buf].length
<1>1. ASSUME IInv PROVE Ways
    <2> SUFFICES ASSUME reply' = "undefined" PROVE Ways
        OBVIOUS
    <2>1. \A x \in Slots : sb_free(x) => Emptied(x)
        BY <1>1, FreeCall DEF IInv
    <2>2. ASSUME NEW buf \in Muts, Holds(buf)
          PROVE  /\ \A c \in Chars : sb_append_char(buf, c) => Emptied(buf)
                 /\ \A view \in Views : sb_append_string(buf, view) =>
                       \/ Emptied(buf)
                       \/ view = buf /\ string[buf].capacity < 2 * string[buf].length
        <3>1. buf \in Slots /\ CanGrow(buf)
            BY <1>1, Variables, HasRoom DEF Mutable
        <3> QED
            BY <1>1, <2>2, <3>1, AppendChar, AppendString DEF IInv
    <2> QED
        BY <2>1, <2>2
<1>2. IInv /\ [Next]_vars => [Ways]_string_vars
    BY <1>1
<1> QED
    BY <1>2, HeapIsSound, PTL DEF Spec, UndefinedTwoWays

(* memory_value_copy is the only call that can leave a string in a value    *)
(* whose type says that it has none.                                        *)
THEOREM CopyLosesType == Spec => OnlyCopyLosesType
<1> DEFINE Losing ==
        (\E v \in Vals : Untyped(v))' => \E out, v \in Vals : type[v] \in StringTypes /\ memory_value_copy(out, v)
<1>1. ASSUME IInv, Next PROVE Losing
    <2>1. NoneUntyped' \/ LosingCopy
        BY <1>1, StepInvariant
    <2>2. NoneUntyped' => ~(\E v \in Vals : Untyped(v))'
        BY DEF NoneUntyped
    <2> QED
        BY <2>1, <2>2 DEF LosingCopy
<1>2. IInv /\ [Next]_vars => [Losing]_vars
    BY <1>1
<1> QED
    BY <1>2, HeapIsSound, PTL DEF Spec, OnlyCopyLosesType

-----------------------------------------------------------------------------
(* Each call takes the step that is promised of it.                         *)

LEMMA StringsKeepPromises ==
    ASSUME IInv
    PROVE  StringCallsKeepPromises
<1>1. HeapInv /\ Muts \subseteq Slots /\ Strs \subseteq Slots /\ Muts \cap Strs = {}
    BY Variables DEF IInv
<1>2. ASSUME NEW out \in Muts, ~Holds(out)
      PROVE  /\ \A n \in {0, 1} : sb_init(out, n) => Promised!Make(out, <<>>)
             /\ \A view \in Views : sb_copy_mut(out, view) => Promised!Make(out, Text(view))
             /\ \A view1, view2 \in Views :
                   sb_concat_mut(out, view1, view2) => Promised!Make(out, Text(view1) \o Text(view2))
    BY <1>1, <1>2, InitCall, CopyMutCall, ConcatMutCall
<1>3. ASSUME NEW out \in Muts, ~Holds(out), NEW from \in Strs, Holds(from), sb_to_mutable(from, out)
      PROVE  Promised!Move(from, out)
    <2>1. from \in Slots /\ out \in Slots /\ from # out
        BY <1>1
    <2>2. string[from].length \in Nat /\ string[from].length <= string[from].length
        BY <1>1, <1>3, <2>1, RecordIs
    <2>3. string' = Transferred(from, out, string[from].length) /\ UNCHANGED heap /\ reply' = "true"
        BY <1>3 DEF sb_to_mutable, HandOver, KnownCapacity, Answer
    <2> QED
        BY <1>1, <1>3, <2>1, <2>2, <2>3, HandOverCall
<1>4. ASSUME NEW out \in Strs, ~Holds(out)
      PROVE  /\ \A view \in Views : sb_copy(out, view) => Promised!Make(out, Text(view))
             /\ \A view1, view2 \in Views :
                   sb_concat(out, view1, view2) => Promised!Make(out, Text(view1) \o Text(view2))
    BY <1>1, <1>4, CopyCall, ConcatCall
<1>5. ASSUME NEW buf \in Muts, Holds(buf)
      PROVE  /\ \A c \in Chars : sb_append_char(buf, c) => Promised!AppendText(buf, <<c>>)
             /\ \A view \in Views : sb_append_string(buf, view) => Promised!AppendText(buf, Text(view))
             /\ sb_reset(buf) => Promised!Reset(buf)
    <2>1. buf \in Slots /\ CanGrow(buf)
        BY <1>1, HasRoom DEF Mutable
    <2> QED
        BY <1>1, <1>5, <2>1, AppendChar, AppendString, ResetCall
<1>6. ASSUME NEW x \in Muts \cup Strs, sb_free(x)
      PROVE  Promised!Free(x)
    BY <1>1, <1>6, FreeCall
<1> QED
    BY <1>2, <1>3, <1>4, <1>5, <1>6 DEF StringCallsKeepPromises

LEMMA ValueMoves ==
    ASSUME IInv, NEW v \in Vals, ~Holds(v)
    PROVE  /\ \A m \in Muts : Holds(m) /\ CreateMut(v, m) => Promised!Move(m, v)
           /\ \A s \in Strs : Holds(s) /\ CreateLit(v, s) => Promised!Move(s, v)
           /\ \A from \in Vals \ {v} : memory_value_move(from, v) => Promised!Move(from, v)
<1>1. HeapInv /\ v \in Slots /\ v \notin Muts /\ v \notin Strs
    BY Variables DEF IInv
<1>2. \A x \in Slots : string[x].length \in Nat /\ string[x].capacity \in Nat
    BY <1>1 DEF HeapInv, HeapType, StringRecord
<1>3. ASSUME NEW from \in Slots \ {v}, NEW capacity \in Nat,
             capacity <= string[from].length \/ capacity <= string[from].capacity,
             string' = Transferred(from, v, capacity), UNCHANGED heap, reply' = "true"
      PROVE  Promised!Move(from, v)
    BY <1>1, <1>3, HandOverCall
<1>4. ASSUME NEW m \in Muts, CreateMut(v, m)
      PROVE  Promised!Move(m, v)
    <2>1. m \in Slots \ {v}
        BY <1>1, Variables
    <2>2. string' = Transferred(m, v, string[m].capacity) /\ UNCHANGED heap /\ reply' = "true"
        BY <1>4 DEF CreateMut, sb_move_string_mut, HandOver, Answer
    <2>3. string[m].capacity \in Nat /\ string[m].capacity <= string[m].capacity
        BY <1>2, <2>1
    <2> QED
        BY <2>1, <2>2, <2>3, <1>3
<1>5. ASSUME NEW s \in Strs, CreateLit(v, s)
      PROVE  Promised!Move(s, v)
    <2>1. s \in Slots \ {v}
        BY <1>1, Variables
    <2>2. string' = Transferred(s, v, 0) /\ UNCHANGED heap /\ reply' = "true"
        BY <1>5 DEF CreateLit, sb_move_string, HandOver, Answer
    <2>3. 0 \in Nat /\ 0 <= string[s].length
        BY <1>2, <2>1
    <2> QED
        BY <2>1, <2>2, <2>3, <1>3
<1>6. ASSUME NEW from \in Vals \ {v}, memory_value_move(from, v)
      PROVE  Promised!Move(from, v)
    <2>1. from \in Slots \ {v}
        BY Variables
    <2>2. string' = Transferred(from, v, string[from].capacity) /\ UNCHANGED heap /\ reply' = "true"
        BY <1>6 DEF memory_value_move, Answer
    <2>3. string[from].capacity \in Nat /\ string[from].capacity <= string[from].capacity
        BY <1>2, <2>1
    <2> QED
        BY <2>1, <2>2, <2>3, <1>3
<1> QED
    BY <1>4, <1>5, <1>6

LEMMA ValueFreed ==
    ASSUME IInv, NoneUntyped, NEW v \in Vals, memory_value_free(v)
    PROVE  Promised!Free(v)
<1>1. HeapInv /\ v \in Slots
    BY Variables DEF IInv
<1>2. CASE type[v] \in StringTypes
    BY <1>1, <1>2, FreeCall DEF memory_value_free
<1>3. CASE type[v] \notin StringTypes
    <2>1. UNCHANGED <<heap, string>> /\ reply' = "true" /\ ~Holds(v)
        BY <1>3 DEF memory_value_free, Answer, NoneUntyped, Untyped
    <2>2. TextMap' = TextMap /\ TextMap[v] = NULL
        BY <1>1, <2>1, NoEffect, NoTextIs
    <2>3. TextMap' = [TextMap EXCEPT ![v] = NULL]
        BY <2>2 DEF TextMap
    <2> QED
        BY <1>1, <2>1, <2>3, PromisedFree
<1> QED
    BY <1>2, <1>3

LEMMA PlainLeaves ==
    ASSUME IInv, NEW v, NEW t, CreatePlain(v, t)
    PROVE  Promised!Leave
<1>1. UNCHANGED <<heap, string>> /\ reply' = "true" /\ HeapInv
    BY DEF CreatePlain, Answer, IInv
<1> QED
    BY <1>1, NoEffect, PromisedLeave

LEMMA ValuesKeepPromises ==
    ASSUME IInv, NoneUntyped
    PROVE  ValueCallsKeepPromises
<1>1. HeapInv /\ Vals \subseteq Slots /\ Muts \subseteq Slots /\ Muts \cap Vals = {}
    BY Variables DEF IInv
<1>2. ASSUME NEW out \in Vals, NEW v \in Vals, out # v, Vacant(out), memory_value_copy(out, v)
      PROVE  IF type[v] \in StringTypes THEN Promised!Make(out, Text(v)) ELSE Promised!Leave
    <2>1. ~Holds(out) /\ out \in Slots
        BY <1>1, <1>2 DEF Vacant
    <2>2. CASE type[v] \in PlainTypes \cup {"UNDEFINED"} /\ CreatePlain(out, type[v])
        BY <2>2, PlainLeaves DEF PlainTypes, StringTypes
    <2>3. CASE type[v] = "STRING_LIT" /\ Holds(v) /\ sb_copy(out, v)
        <3>1. v \in Views
            BY <2>3, Variables
        <3> QED
            BY <1>1, <2>1, <2>3, <3>1, CopyCall DEF StringTypes
    <2>4. CASE type[v] = "STRING_MUT" /\ Holds(v) /\ sb_copy_mut(out, v)
        <3>1. v \in Views
            BY <2>4, Variables
        <3> QED
            BY <1>1, <2>1, <2>4, <3>1, CopyMutCall DEF StringTypes
    <2> QED
        BY <1>2, <2>2, <2>3, <2>4 DEF memory_value_copy
<1>3. ASSUME NEW v \in Vals, NEW out \in Muts, ~Holds(out), memory_value_get_str_mut(out, v)
      PROVE  CASE type[v] = "STRING_MUT" -> Promised!Move(v, out)
               [] type[v] = "STRING_LIT" -> Promised!Make(out, Text(v))
               [] type[v] = "TYPE_STRING" -> \E name \in TypeNames : Promised!Make(out, name)
    <2>1. v \in Slots /\ out \in Slots /\ v # out
        BY <1>1
    <2>2. CASE type[v] = "STRING_MUT" /\ Holds(v) /\ sb_move_string_mut(v, out)
        <3>1. string' = Transferred(v, out, string[v].capacity) /\ UNCHANGED heap /\ reply' = "true"
            BY <2>2 DEF sb_move_string_mut, HandOver, Answer
        <3>2. string[v].capacity \in Nat /\ string[v].capacity <= string[v].capacity
            BY <1>1, <2>1 DEF HeapInv, HeapType, StringRecord
        <3>3. Promised!Move(v, out)
            BY <1>1, <1>3, <2>1, <3>1, <3>2, HandOverCall
        <3> QED
            BY <2>2, <3>3
    <2>3. CASE type[v] = "STRING_LIT" /\ Holds(v) /\ sb_copy_mut(out, v)
        <3>1. v \in Views
            BY <2>3, Variables
        <3>2. Promised!Make(out, Text(v))
            BY <1>1, <1>3, <2>1, <2>3, <3>1, CopyMutCall
        <3> QED
            BY <2>3, <3>2
    <2>4. CASE type[v] = "TYPE_STRING" /\ \E name \in TypeNames : sb_copy_mut(out, name)
        <3>1. PICK name \in TypeNames : sb_copy_mut(out, name)
            BY <2>4
        <3>2. name \in Views /\ Text(name) = name
            BY Variables, ValuesAssumption DEF Text
        <3>3. Promised!Make(out, name)
            BY <1>1, <1>3, <2>1, <3>1, <3>2, CopyMutCall
        <3> QED
            BY <2>4, <3>3
    <2> QED
        BY <1>3, <2>2, <2>3, <2>4 DEF memory_value_get_str_mut
<1>4. ASSUME NEW v \in Vals, ~Holds(v)
      PROVE  /\ \A t \in PlainTypes : CreatePlain(v, t) => Promised!Leave
             /\ \A m \in Muts : Holds(m) /\ CreateMut(v, m) => Promised!Move(m, v)
             /\ \A s \in Strs : Holds(s) /\ CreateLit(v, s) => Promised!Move(s, v)
             /\ \A from \in Vals \ {v} : memory_value_move(from, v) => Promised!Move(from, v)
    BY <1>4, ValueMoves, PlainLeaves
<1>5. \A v \in Vals : memory_value_free(v) => Promised!Free(v)
    BY ValueFreed
<1> QED
    BY ONLY ZenonT(60), <1>2, <1>3, <1>4, <1>5 DEF ValueCallsKeepPromises

(* The strings do what string_buffer.h says of them: every call has the     *)
(* effect on the texts that is promised of that call, or fails and changes  *)
(* none.                                                                    *)
THEOREM StringsImplementTexts == Spec => ImplementsTexts
<1> DEFINE AsPromised == IF reply' = "false" THEN Promised!Fails
                         ELSE StringCallsKeepPromises /\ ValueCallsKeepPromises
<1>1. Init => Promised!Init
    BY InitInvariant
<1>2. IInv /\ [Next]_vars => [Promised!Next]_(Promised!vars)
    <2>1. CASE Next
        BY <2>1, StepInvariant
    <2>2. CASE UNCHANGED vars
        BY <2>2, StutterInvariant DEF Promised!vars, TextMap
    <2> QED
        BY <2>1, <2>2
<1>3. ASSUME IInv, Next PROVE AsPromised
    <2>1. NoneUntyped /\ Promised!Call
        BY <1>3, StepInvariant DEF Next, NoneUntyped, Promised!Next
    <2>2. reply' = "false" => Promised!Fails
        BY <2>1, CallThatFails
    <2>3. StringCallsKeepPromises /\ ValueCallsKeepPromises
        BY <1>3, <2>1, StringsKeepPromises, ValuesKeepPromises
    <2> QED
        BY <2>2, <2>3
<1>4. IInv /\ [Next]_vars => [AsPromised]_vars
    BY <1>3
<1> QED
    BY <1>1, <1>2, <1>4, HeapIsSound, PTL DEF Spec, ImplementsTexts, Promised!Spec
=============================================================================
