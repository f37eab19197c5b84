-------------------------------- MODULE Keys --------------------------------
(***************************************************************************)
(* Two keys of a table: which bytes get_hash of hashes.h reads of one, and *)
(* when sb_cmp takes them for the same.  How the bytes are mixed is left   *)
(* out: RHTable takes any function of the key for the hash, and compares   *)
(* keys by =.  This module says up to which length a key may be taken so.  *)
(*                                                                         *)
(* A length is a size_t, and both functions put one into an int, which     *)
(* keeps its low bits.  Division truncates towards zero, and & 15 is the   *)
(* residue, also of a negative number.  A byte is known by its offset.     *)
(***************************************************************************)
EXTENDS Integers, Sequences, TLAPS

CONSTANT INT_MAX

int(n) == LET low == n % (2 * (INT_MAX + 1)) IN
          IF low <= INT_MAX THEN low ELSE low - 2 * (INT_MAX + 1)

nblocks(len) == IF len >= 0 THEN len \div 16 ELSE -((-len) \div 16)

(* getblock64 twice in each round of the loop                               *)
Block(i) == 16 * i .. 16 * i + 15
InBlocks(len) == {b \in Int : \E i \in 0 .. nblocks(len) - 1 : b \in Block(i)}

(* Case c reads tail[c - 1]; every case below the one entered is run, too.  *)
tail(len) == 16 * nblocks(len)
InTail(len) == {b \in Int : \E c \in 1 .. (len % 16) : b = tail(len) + c - 1}

MurmurHash3_x64_128(len) == InBlocks(len) \cup InTail(len)
get_hash(length) == MurmurHash3_x64_128(int(length))

(* __sb_cmp_impl, with memcmp for texts of one length                       *)
sb_cmp(t, u) == IF Len(t) # Len(u) THEN int(Len(t) - Len(u))
                ELSE IF t = u THEN 0 ELSE 1

-----------------------------------------------------------------------------
LEMMA BlocksCount ==
    ASSUME NEW len \in Nat
    PROVE  /\ nblocks(len) \in Nat
           /\ len % 16 \in 0 .. 15
           /\ len = 16 * nblocks(len) + (len % 16)
BY DEF nblocks

LEMMA ShortLength ==
    ASSUME INT_MAX \in Nat, NEW length \in 0 .. INT_MAX
    PROVE  int(length) = length
<1>1. length % (2 * (INT_MAX + 1)) = length
  OBVIOUS
<1> QED
  BY <1>1 DEF int

(* The hash of a key whose length is an int depends on all of its bytes and *)
(* reads nothing else: equal keys have equal hashes, whatever lies behind   *)
(* them (get_hash).                                                         *)
THEOREM ReadsTheKey ==
    ASSUME INT_MAX \in Nat, NEW length \in 0 .. INT_MAX
    PROVE  get_hash(length) = 0 .. length - 1
<1>1. get_hash(length) = InBlocks(length) \cup InTail(length)
  BY ShortLength DEF get_hash, MurmurHash3_x64_128
<1> DEFINE n == nblocks(length)
           r == length % 16
<1>2. n \in Nat /\ r \in 0 .. 15 /\ length = 16 * n + r
  <2>1. length \in Nat
    OBVIOUS
  <2> QED
    BY <2>1, BlocksCount
<1> HIDE DEF n, r
<1>3. InBlocks(length) = 0 .. 16 * n - 1
  <2>1. ASSUME NEW b \in InBlocks(length)
        PROVE  b \in 0 .. 16 * n - 1
    <3>1. PICK i \in 0 .. n - 1 : b \in 16 * i .. 16 * i + 15
      BY DEF InBlocks, Block, n
    <3> QED
      BY <3>1, <1>2
  <2>2. ASSUME NEW b \in 0 .. 16 * n - 1
        PROVE  b \in InBlocks(length)
    <3>1. b \div 16 \in 0 .. n - 1 /\ b \in 16 * (b \div 16) .. 16 * (b \div 16) + 15
      BY <1>2
    <3> QED
      BY <3>1 DEF InBlocks, Block, n
  <2> QED
    BY <2>1, <2>2
<1>4. InTail(length) = 16 * n .. 16 * n + r - 1
  <2>1. InTail(length) = {b \in Int : \E c \in 1 .. r : b = 16 * n + c - 1}
    BY DEF InTail, tail, n, r
  <2>2. ASSUME NEW b \in 16 * n .. 16 * n + r - 1
        PROVE  b - 16 * n + 1 \in 1 .. r /\ b = 16 * n + (b - 16 * n + 1) - 1
    BY <1>2
  <2> QED
    BY <2>1, <2>2, <1>2
<1> QED
  BY <1>1, <1>2, <1>3, <1>4

(* No byte goes into the hash twice: the blocks and the tail are disjoint.  *)
THEOREM ReadsEachByteOnce ==
    ASSUME NEW len \in Nat
    PROVE  /\ InBlocks(len) \cap InTail(len) = {}
           /\ \A i, j \in 0 .. nblocks(len) - 1 : i # j => Block(i) \cap Block(j) = {}
<1>1. nblocks(len) \in Nat
  BY BlocksCount
<1>2. \A b \in InBlocks(len) : b < 16 * nblocks(len)
  BY <1>1 DEF InBlocks, Block
<1>3. \A b \in InTail(len) : b \in Int /\ b >= 16 * nblocks(len)
  BY <1>1 DEF InTail, tail
<1>4. InBlocks(len) \cap InTail(len) = {}
  BY <1>1, <1>2, <1>3 DEF InBlocks
<1>5. ASSUME NEW i \in 0 .. nblocks(len) - 1, NEW j \in 0 .. nblocks(len) - 1, i # j
      PROVE  Block(i) \cap Block(j) = {}
  BY <1>1, <1>5 DEF Block
<1> QED
  BY <1>4, <1>5

(* A key whose length, taken for an int, is below -16 and no multiple of a  *)
(* block is hashed by bytes in front of it.                                 *)
THEOREM LongKeysReadElsewhere ==
    ASSUME INT_MAX \in Nat, NEW length \in Nat,
           int(length) < -16, int(length) % 16 # 0
    PROVE  \E b \in get_hash(length) : b < 0
<1> DEFINE len == int(length)
           first == 16 * nblocks(len)
<1>1. len \in Int /\ len < -16 /\ len % 16 # 0
  <2>1. length % (2 * (INT_MAX + 1)) \in Int
    OBVIOUS
  <2> QED
    BY <2>1 DEF int
<1> HIDE DEF len
<1>2. nblocks(len) \in Int /\ nblocks(len) < 0
  BY <1>1 DEF nblocks
<1>3. first \in Int /\ first < 0
  BY <1>2
<1>4. 1 \in 1 .. (len % 16)
  BY <1>1
<1>5. first \in InTail(len)
  BY <1>3, <1>4 DEF InTail, tail
<1> QED
  BY <1>3, <1>5 DEF get_hash, MurmurHash3_x64_128, len

(* Keys whose lengths are ints are taken for the same only if they are.     *)
THEOREM CmpTellsApart ==
    ASSUME INT_MAX \in Nat, NEW S, NEW t \in Seq(S), NEW u \in Seq(S),
           Len(t) <= INT_MAX, Len(u) <= INT_MAX
    PROVE  sb_cmp(t, u) = 0 <=> t = u
<1> DEFINE d == Len(t) - Len(u)
<1>1. d \in -INT_MAX .. INT_MAX
  BY DEF d
<1>2. ASSUME d # 0
      PROVE  int(d) # 0
  <2>1. d \in Int /\ d % (2 * (INT_MAX + 1)) = IF d > 0 THEN d ELSE d + 2 * (INT_MAX + 1)
    <3> HIDE DEF d
    <3> QED
      BY <1>1, <1>2
  <2> HIDE DEF d
  <2> QED
    BY <1>1, <1>2, <2>1 DEF int
<1>3. CASE Len(t) = Len(u)
  BY <1>3 DEF sb_cmp
<1>4. CASE Len(t) # Len(u)
  <2>1. int(d) # 0
    BY <1>2, <1>4
  <2> QED
    BY <1>4, <2>1 DEF sb_cmp
<1> QED
  BY <1>3, <1>4

(* Keys whose lengths differ by all the values of an int are taken for the  *)
(* same, whatever they say.                                                 *)
THEOREM LongKeysTakenForTheSame ==
    ASSUME INT_MAX \in Nat, NEW S, NEW t \in Seq(S), NEW u \in Seq(S),
           Len(t) = Len(u) + 2 * (INT_MAX + 1)
    PROVE  sb_cmp(t, u) = 0 /\ t # u
<1>1. Len(t) # Len(u) /\ Len(t) - Len(u) = 2 * (INT_MAX + 1)
  OBVIOUS
<1>2. int(2 * (INT_MAX + 1)) = 0
  BY DEF int
<1> QED
  BY <1>1, <1>2 DEF sb_cmp
=============================================================================
