------------------------- MODULE Interpreter_proofs -------------------------
(***************************************************************************)
(* Theorems about Interpreter, for all programs, names, capacities and     *)
(* bounds.  TypeInv says how long the stacks may be; FramesInv where each  *)
(* frame is and which have been freed; OwnersInv which variables and slots *)
(* hold the literal of an instruction; AboveInv what lies above the tops   *)
(* of the stacks.  The refinement of Frames reads the visible variables,   *)
(* values and position off the state, instruction by instruction.          *)
(***************************************************************************)
EXTENDS Interpreter, FiniteSetTheorems, TLAPS

-----------------------------------------------------------------------------
(* Types                                                                    *)

Statuses == ErrorCodes \cup {"running", "undefined", "aborted", "exit 99", "key lost"}

Literals == DOMAIN ir \cup {NoValue}
Tables   == UNION {[defined -> Literals] : defined \in SUBSET Names}
FrameRecords == [variables : Tables, capacity : Nat, frees : Nat]

StackRecord(s, elements) == DOMAIN s = {"data", "size", "capacity"} /\ StackOf(s, elements)

TypeInv ==
    /\ ir \in Programs /\ code_pos \in Nat /\ status \in Statuses
    /\ frames \in Seq(FrameRecords) /\ frames # <<>>
    /\ temp_frame \in DOMAIN frames \cup {NoFrame}
    /\ StackRecord(frame_stack, DOMAIN frames \cup {NoFrame})
    /\ StackRecord(value_stack, Literals)
    /\ StackRecord(call_stack, Nat)
    /\ string_frees \in [DOMAIN ir -> 0 .. 2]
    /\ released \in BOOLEAN

(* What is allocated is what the capacity says, as long as no push failed.  *)
StackAllocated(s) ==
    /\ s.size <= Len(s.data) /\ s.capacity > 0
    /\ running => s.capacity = Len(s.data)

StacksAllocated == StackAllocated(frame_stack) /\ StackAllocated(value_stack) /\ StackAllocated(call_stack)

-----------------------------------------------------------------------------
(* Stacks                                                                   *)

LEMMA FreshStack ==
    ASSUME NEW c \in Nat \ {0}, NEW E, NEW zero \in E
    PROVE  /\ StackRecord(stack_init(c, zero), E)
           /\ stack_init(c, zero).size = 0
           /\ stack_init(c, zero).capacity = c
           /\ Len(stack_init(c, zero).data) = c
           /\ \A i \in 1 .. c : stack_init(c, zero).data[i] = zero
<1> DEFINE d == Zeros(c, zero)
<1>1. d \in Seq(E) /\ Len(d) = c /\ \A i \in 1 .. c : d[i] = zero
  BY DEF Zeros
<1> HIDE DEF d
<1> QED
  BY <1>1 DEF stack_init, StackRecord, StackOf, d

(* A push that succeeds changes one slot, and adds zeroed slots at most.    *)
LEMMA PushedStack ==
    ASSUME NEW E, NEW s, StackRecord(s, E), NEW v \in E, NEW zero \in E,
           s.size <= Len(s.data), s.capacity > 0, s.capacity = Len(s.data)
    PROVE  /\ StackRecord(Pushed(s, v, zero), E)
           /\ Pushed(s, v, zero).size = s.size + 1
           /\ Pushed(s, v, zero).size <= Len(Pushed(s, v, zero).data)
           /\ Pushed(s, v, zero).capacity > 0
           /\ Pushed(s, v, zero).capacity = Len(Pushed(s, v, zero).data)
           /\ Len(s.data) <= Len(Pushed(s, v, zero).data)
           /\ \A i \in 1 .. Len(Pushed(s, v, zero).data) :
                Pushed(s, v, zero).data[i] =
                  IF i = s.size + 1 THEN v ELSE IF i <= Len(s.data) THEN s.data[i] ELSE zero
<1> DEFINE z == Zeros(s.capacity, zero)
           g == Grown(s, zero)
           p == Pushed(s, v, zero)
           d == [g.data EXCEPT ![s.size + 1] = v]
<1>1. z \in Seq(E) /\ Len(z) = s.capacity /\ \A i \in 1 .. s.capacity : z[i] = zero
  BY DEF Zeros, StackRecord, StackOf
<1>2. StackRecord(g, E) /\ g.size = s.size /\ g.capacity = Len(g.data)
      /\ s.size < Len(g.data) /\ Len(s.data) <= Len(g.data)
      /\ \A i \in 1 .. Len(g.data) : g.data[i] = IF i <= Len(s.data) THEN s.data[i] ELSE zero
  <2> HIDE DEF z
  <2>1. CASE Full(s)
    <3>1. DOMAIN g = {"data", "size", "capacity"} /\ g.data = s.data \o z
          /\ g.size = s.size /\ g.capacity = 2 * s.capacity
      BY <2>1 DEF Grown, StackRecord, z
    <3> HIDE DEF g
    <3>2. s.data \o z \in Seq(E) /\ Len(s.data \o z) = 2 * s.capacity
          /\ \A i \in 1 .. 2 * s.capacity : (s.data \o z)[i] = IF i <= Len(s.data) THEN s.data[i] ELSE zero
      BY <1>1 DEF StackRecord, StackOf
    <3> QED
      BY <3>1, <3>2, <2>1 DEF StackRecord, StackOf, Full
  <2>2. CASE ~Full(s)
    BY <2>2 DEF Grown, Full, StackRecord, StackOf
  <2> QED
    BY <2>1, <2>2
<1> HIDE DEF g
<1>3. DOMAIN p = {"data", "size", "capacity"} /\ p.data = d /\ p.size = s.size + 1 /\ p.capacity = g.capacity
  BY <1>2 DEF Pushed, StackRecord, g
<1>4. d \in Seq(E) /\ Len(d) = Len(g.data)
      /\ \A i \in 1 .. Len(g.data) : d[i] = IF i = s.size + 1 THEN v ELSE g.data[i]
  BY <1>2 DEF StackRecord, StackOf
<1> HIDE DEF d, p
<1>5. s.size + 1 <= Len(d) /\ Len(d) = g.capacity /\ Len(s.data) <= Len(d)
      /\ s.size + 1 \in Nat /\ g.capacity \in Nat /\ g.capacity > 0
  BY <1>2, <1>4 DEF StackRecord, StackOf
<1>6. \A i \in 1 .. Len(d) : d[i] = IF i = s.size + 1 THEN v ELSE IF i <= Len(s.data) THEN s.data[i] ELSE zero
  BY <1>2, <1>4
<1>7. StackRecord(p, E)
  BY <1>3, <1>4, <1>5 DEF StackRecord, StackOf
<1> QED
  BY <1>3, <1>5, <1>6, <1>7 DEF p

LEMMA PushFailedStack ==
    ASSUME NEW E, NEW s, StackRecord(s, E)
    PROVE  /\ StackRecord(PushFailed(s), E)
           /\ PushFailed(s).size = s.size
           /\ PushFailed(s).data = s.data
           /\ s.capacity > 0 => PushFailed(s).capacity > 0
BY DEF PushFailed, StackRecord, StackOf

LEMMA PoppedStack ==
    ASSUME NEW E, NEW s, StackRecord(s, E), ~Empty(s)
    PROVE  /\ StackRecord(Popped(s), E)
           /\ Popped(s).size = s.size - 1
           /\ Popped(s).data = s.data
           /\ Popped(s).capacity = s.capacity
BY DEF Popped, StackRecord, StackOf, Empty

LEMMA MovedOutStack ==
    ASSUME NEW s, StackRecord(s, Literals), ~Outside(s)
    PROVE  /\ StackRecord(MovedOut(s), Literals)
           /\ MovedOut(s).size = s.size
           /\ MovedOut(s).capacity = s.capacity
           /\ Len(MovedOut(s).data) = Len(s.data)
           /\ \A i \in 1 .. Len(s.data) :
                MovedOut(s).data[i] = IF i = TopSlot(s) THEN NoValue ELSE s.data[i]
<1> DEFINE d == [s.data EXCEPT ![TopSlot(s)] = NoValue]
<1>1. d \in Seq(Literals) /\ Len(d) = Len(s.data)
      /\ \A i \in 1 .. Len(s.data) : d[i] = IF i = TopSlot(s) THEN NoValue ELSE s.data[i]
  BY DEF StackRecord, StackOf, Literals, TopSlot, Outside
<1>2. DOMAIN MovedOut(s) = {"data", "size", "capacity"} /\ MovedOut(s).data = d
      /\ MovedOut(s).size = s.size /\ MovedOut(s).capacity = s.capacity
  BY DEF MovedOut, StackRecord
<1> HIDE DEF d
<1> QED
  BY <1>1, <1>2 DEF StackRecord, StackOf

(* More elements are allowed on a stack.                                    *)
LEMMA StackWidens ==
    ASSUME NEW E, NEW F, E \subseteq F, NEW s, StackRecord(s, E)
    PROVE  StackRecord(s, F)
<1>1. s.data \in Seq(F)
  BY DEF StackRecord, StackOf
<1> QED
  BY <1>1 DEF StackRecord, StackOf

-----------------------------------------------------------------------------
(* Frames                                                                   *)

(* What a frame's fields hold; a table's names are all of its domain.       *)
LEMMA FrameFields ==
    ASSUME NEW fs \in Seq(FrameRecords), NEW f \in DOMAIN fs
    PROVE  /\ fs[f] \in FrameRecords
           /\ DOMAIN fs[f].variables \subseteq Names
           /\ \A x \in DOMAIN fs[f].variables : fs[f].variables[x] \in Literals
           /\ fs[f].capacity \in Nat /\ fs[f].frees \in Nat
<1>1. fs[f] \in FrameRecords
  OBVIOUS
<1> QED
  BY <1>1 DEF FrameRecords, Tables

LEMMA TableWith ==
    ASSUME NEW t \in Tables, NEW x \in Names, NEW v \in Literals
    PROVE  [y \in DOMAIN t \cup {x} |-> IF y = x THEN v ELSE t[y]] \in Tables
<1>1. PICK D \in SUBSET Names : t \in [D -> Literals]
  BY DEF Tables
<1>2. [y \in DOMAIN t \cup {x} |-> IF y = x THEN v ELSE t[y]] \in [D \cup {x} -> Literals]
  BY <1>1
<1> QED
  BY <1>2 DEF Tables

LEMMA NewFrameType ==
    ASSUME FrameCapacity \in Nat
    PROVE  NewFrame \in FrameRecords
<1>1. [x \in {} |-> NoValue] \in [{} -> Literals]
  OBVIOUS
<1>2. [x \in {} |-> NoValue] \in Tables
  BY <1>1 DEF Tables
<1> QED
  BY <1>2 DEF NewFrame, FrameRecords

(* Assigning changes the variables of one frame.                            *)
LEMMA AssignEffect ==
    ASSUME NEW f \in DOMAIN frames, NEW x \in Names, NEW v \in Literals,
           frames \in Seq(FrameRecords)
    PROVE  /\ Assign(f, x, v) \in Seq(FrameRecords)
           /\ DOMAIN Assign(f, x, v) = DOMAIN frames
           /\ Len(Assign(f, x, v)) = Len(frames)
           /\ \A g \in DOMAIN frames :
                 /\ Assign(f, x, v)[g].frees = frames[g].frees
                 /\ Assign(f, x, v)[g].capacity = frames[g].capacity
                 /\ g # f => Assign(f, x, v)[g].variables = frames[g].variables
           /\ Assign(f, x, v)[f].variables =
                 [y \in Variables(f) \cup {x} |-> IF y = x THEN v ELSE frames[f].variables[y]]
<1> DEFINE t == [y \in Variables(f) \cup {x} |-> IF y = x THEN v ELSE frames[f].variables[y]]
           r == [frames[f] EXCEPT !.variables = t]
<1>1. t \in Tables
  <2>1. frames[f].variables \in Tables
    BY FrameFields DEF FrameRecords
  <2> QED
    BY <2>1, TableWith DEF Variables
<1>2. Assign(f, x, v) = [frames EXCEPT ![f] = r]
  BY DEF Assign, Variables
<1> HIDE DEF t
<1>3. r \in FrameRecords /\ r.variables = t /\ r.capacity = frames[f].capacity /\ r.frees = frames[f].frees
  <2>1. frames[f] \in FrameRecords
    BY FrameFields
  <2> QED
    BY <1>1, <2>1 DEF FrameRecords
<1> HIDE DEF r
<1>4. \A g \in DOMAIN frames : Assign(f, x, v)[g] = IF g = f THEN r ELSE frames[g]
  BY <1>2
<1>5. /\ Assign(f, x, v) \in Seq(FrameRecords)
      /\ DOMAIN Assign(f, x, v) = DOMAIN frames
      /\ Len(Assign(f, x, v)) = Len(frames)
  BY <1>2, <1>3
<1> QED
  BY <1>3, <1>4, <1>5 DEF t

(* Growing changes the capacity of one frame.                               *)
LEMMA GrowEffect ==
    ASSUME NEW fs \in Seq(FrameRecords), NEW f \in DOMAIN fs
    PROVE  /\ Grow(f, fs) \in Seq(FrameRecords)
           /\ DOMAIN Grow(f, fs) = DOMAIN fs
           /\ Len(Grow(f, fs)) = Len(fs)
           /\ \A g \in DOMAIN fs :
                 /\ Grow(f, fs)[g].frees = fs[g].frees
                 /\ Grow(f, fs)[g].variables = fs[g].variables
<1> DEFINE c == IF FrameFull(f) THEN 2 * fs[f].capacity ELSE fs[f].capacity
           r == [fs[f] EXCEPT !.capacity = c]
<1>1. c \in Nat
  BY FrameFields
<1>2. Grow(f, fs) = [fs EXCEPT ![f] = r]
  BY DEF Grow
<1> HIDE DEF c
<1>3. r \in FrameRecords /\ r.variables = fs[f].variables /\ r.frees = fs[f].frees
  BY <1>1, FrameFields DEF FrameRecords
<1> HIDE DEF r
<1> QED
  BY <1>2, <1>3

(* Freeing counts.                                                          *)
LEMMA FramesAfterEffect ==
    ASSUME NEW freed, frames \in Seq(FrameRecords)
    PROVE  /\ FramesAfter(freed) \in Seq(FrameRecords)
           /\ DOMAIN FramesAfter(freed) = DOMAIN frames
           /\ Len(FramesAfter(freed)) = Len(frames)
           /\ \A f \in DOMAIN frames :
                 /\ FramesAfter(freed)[f].variables = frames[f].variables
                 /\ FramesAfter(freed)[f].frees =
                      IF f \in freed THEN frames[f].frees + 1 ELSE frames[f].frees
<1> DEFINE r(f) == IF f \in freed THEN [frames[f] EXCEPT !.frees = @ + 1] ELSE frames[f]
<1>1. ASSUME NEW f \in DOMAIN frames
      PROVE  /\ r(f) \in FrameRecords
             /\ r(f).variables = frames[f].variables
             /\ r(f).frees = IF f \in freed THEN frames[f].frees + 1 ELSE frames[f].frees
  <2>1. frames[f] \in FrameRecords /\ frames[f].frees \in Nat
    BY FrameFields
  <2> QED
    BY SMTT(60), <2>1 DEF FrameRecords
<1>2. FramesAfter(freed) = [f \in DOMAIN frames |-> r(f)]
  BY DEF FramesAfter
<1> HIDE DEF r
<1>3. DOMAIN frames = 1 .. Len(frames) /\ Len(frames) \in Nat
  OBVIOUS
<1> QED
  BY <1>1, <1>2, <1>3

(* Numbers of frees are numbers.                                            *)
LEMMA FreesType ==
    ASSUME NEW freed, IsFiniteSet(freed), IsFiniteSet(Names), string_frees \in [DOMAIN ir -> 0 .. 2]
    PROVE  FreesAfter(freed) \in [DOMAIN ir -> 0 .. 2]
<1>1. ASSUME NEW l \in DOMAIN ir PROVE Cardinality(Holders(l, freed)) \in Nat
  <2>1. IsFiniteSet(freed \X Names)
    BY FS_Product
  <2>2. Holders(l, freed) \subseteq freed \X Names
    BY DEF Holders
  <2>3. IsFiniteSet(Holders(l, freed))
    BY <2>1, <2>2, FS_Subset
  <2> QED
    BY <2>3, FS_CardinalityType
<1>2. \A n \in Nat : AtMostTwo(n) \in 0 .. 2
  BY DEF AtMostTwo
<1>3. \A l \in DOMAIN ir : string_frees[l] + Cardinality(Holders(l, freed)) \in Nat
  BY <1>1
<1> QED
  BY <1>2, <1>3 DEF FreesAfter

-----------------------------------------------------------------------------
(* Steps keep the types, and the stacks inside their allocations            *)

LEMMA InitType == Init => TypeInv /\ StacksAllocated
<1> SUFFICES ASSUME Init PROVE TypeInv /\ StacksAllocated
  OBVIOUS
<1> USE InterpreterAssumption
<1>1. frames \in Seq(FrameRecords) /\ frames # <<>>
  BY NewFrameType DEF Init
<1>2. StackRecord(frame_stack, DOMAIN frames \cup {NoFrame}) /\ StackAllocated(frame_stack)
  BY FreshStack DEF Init, StackAllocated
<1>3. StackRecord(value_stack, Literals) /\ StackAllocated(value_stack)
  BY FreshStack DEF Init, StackAllocated, Literals
<1>4. StackRecord(call_stack, Nat) /\ StackAllocated(call_stack)
  BY FreshStack DEF Init, StackAllocated
<1>5. string_frees \in [DOMAIN ir -> 0 .. 2]
  BY DEF Init
<1> QED
  BY <1>1, <1>2, <1>3, <1>4, <1>5 DEF Init, TypeInv, StacksAllocated, Statuses

LEMMA SameProgram ==
    ir' = ir => Literals' = Literals /\ FrameRecords' = FrameRecords
BY DEF FrameRecords, Tables, Literals

(* The instruction that runs is one of the program's.                       *)
LEMMA Running ==
    ASSUME TypeInv, NEW op, Runs(op)
    PROVE  /\ code_pos + 1 \in DOMAIN ir /\ code_pos + 1 \in Literals /\ code_pos + 1 \in Nat
           /\ Len(ir) \in Nat /\ DOMAIN ir = 1 .. Len(ir) /\ code_pos + 1 <= Len(ir)
           /\ running /\ instruction.op = op
           /\ op \in {"DEFVAR", "MOVE"} => instruction.where \in Places /\ instruction.name \in Names
           /\ op \in {"CALL", "JUMP"} => instruction.destination \in code_pos + 1 .. Len(ir) - 1
<1>1. WellFormed(ir) /\ Accepted(ir)
  BY InterpreterAssumption DEF TypeInv
<1>2. code_pos + 1 \in DOMAIN ir /\ code_pos \in Nat /\ running
  BY <1>1 DEF TypeInv, Runs, WellFormed
<1> QED
  BY <1>1, <1>2 DEF WellFormed, Accepted, Runs, instruction, Literals

(* Going on and stopping have a position and a status of their types, and a *)
(* program that stopped does not run.                                       *)
LEMMA GotoType ==
    ASSUME TypeInv, running, NEW position \in Nat, Goto(position)
    PROVE  code_pos' \in Nat /\ status' \in Statuses /\ running' /\ code_pos' = position
BY DEF TypeInv, Goto, running

LEMMA StopType ==
    ASSUME TypeInv, NEW code \in Statuses \ {"running"}, Stop(code)
    PROVE  code_pos' \in Nat /\ status' \in Statuses /\ ~running' /\ status' = code /\ code_pos' = code_pos
BY DEF TypeInv, Stop, running

(* A stack that stays keeps its allocation, whatever the status becomes.    *)
LEMMA StackStays ==
    ASSUME NEW s, StackAllocated(s), running, NEW t, t = s
    PROVE  t.size <= Len(t.data) /\ t.capacity > 0 /\ t.capacity = Len(t.data)
BY DEF StackAllocated

(* What a step that leaves ir alone has to show of the rest.                *)
TypeRest ==
    /\ code_pos' \in Nat /\ status' \in Statuses
    /\ frames' \in Seq(FrameRecords) /\ Len(frames') >= Len(frames)
    /\ temp_frame' \in DOMAIN frames' \cup {NoFrame}
    /\ StackRecord(frame_stack', DOMAIN frames' \cup {NoFrame})
    /\ StackRecord(value_stack', Literals)
    /\ StackRecord(call_stack', Nat)
    /\ string_frees' \in [DOMAIN ir -> 0 .. 2]
    /\ released' \in BOOLEAN

LEMMA TypeFromRest == TypeInv /\ ir' = ir /\ TypeRest => TypeInv'
<1> SUFFICES ASSUME TypeInv, ir' = ir, TypeRest PROVE TypeInv'
  OBVIOUS
<1>1. frames' # <<>>
  BY DEF TypeInv, TypeRest
<1>2. (StackRecord(frame_stack, DOMAIN frames \cup {NoFrame}))'
  BY DEF TypeRest, StackRecord, StackOf
<1>3. (StackRecord(value_stack, Literals))' /\ (StackRecord(call_stack, Nat))'
  BY SameProgram DEF TypeRest, StackRecord, StackOf
<1>4. ir' \in Programs /\ code_pos' \in Nat /\ status' \in Statuses'
  BY DEF TypeInv, TypeRest, Statuses
<1>5. (frames \in Seq(FrameRecords))'
  BY SameProgram DEF TypeRest
<1>6. (temp_frame \in DOMAIN frames \cup {NoFrame})' /\ (string_frees \in [DOMAIN ir -> 0 .. 2])' /\ (released \in BOOLEAN)'
  BY DEF TypeRest
<1> QED
  BY <1>1, <1>2, <1>3, <1>4, <1>5, <1>6 DEF TypeInv

LEMMA FramesFinite ==
    ASSUME TypeInv
    PROVE  /\ IsFiniteSet(Discarded) /\ IsFiniteSet(ReachableFrames)
           /\ DOMAIN frames = 1 .. Len(frames) /\ Len(frames) \in Nat /\ 1 \in DOMAIN frames
           /\ global_frame \in DOMAIN frames
<1>1. DOMAIN frames = 1 .. Len(frames) /\ Len(frames) \in Nat /\ 1 \in DOMAIN frames
  BY DEF TypeInv
<1>2. IsFiniteSet(Frame(temp_frame))
  BY FS_EmptySet, FS_Singleton DEF Frame
<1>3. IsFiniteSet(Occupied(frame_stack))
  BY FS_Interval DEF TypeInv, StackRecord, StackOf, Occupied
<1>4. IsFiniteSet({frame_stack.data[i] : i \in Occupied(frame_stack)})
  <2> DEFINE D == DOMAIN frame_stack.data
             stored == [i \in Occupied(frame_stack) |-> frame_stack.data[i]]
             T == {frame_stack.data[i] : i \in Occupied(frame_stack)}
  <2>1. stored \in Surjection(Occupied(frame_stack), T)
    BY DEF Surjection
  <2> QED
    BY <1>3, <2>1, FS_Surjection
<1>5. IsFiniteSet({global_frame})
  BY FS_Singleton
<1> QED
  BY <1>1, <1>2, <1>4, <1>5, FS_Union DEF Discarded, ReachableFrames, global_frame

(* A push, a failed push and a pop, as steps of one of the three stacks.    *)
LEMMA PushKeepsAllocation ==
    ASSUME NEW E, NEW s, StackRecord(s, E), StackAllocated(s), running,
           NEW v \in E, NEW zero \in E, NEW t, t = Pushed(s, v, zero)
    PROVE  StackRecord(t, E) /\ t.size <= Len(t.data) /\ t.capacity > 0 /\ t.capacity = Len(t.data)
BY PushedStack DEF StackAllocated

LEMMA FailKeepsAllocation ==
    ASSUME NEW E, NEW s, StackRecord(s, E), StackAllocated(s), NEW t, t = PushFailed(s)
    PROVE  StackRecord(t, E) /\ t.size <= Len(t.data) /\ t.capacity > 0
BY PushFailedStack DEF StackAllocated

LEMMA PopKeepsAllocation ==
    ASSUME NEW E, NEW s, StackRecord(s, E), StackAllocated(s), running, ~Empty(s), NEW t, t = Popped(s)
    PROVE  StackRecord(t, E) /\ t.size <= Len(t.data) /\ t.capacity > 0 /\ t.capacity = Len(t.data)
BY PoppedStack DEF StackAllocated, StackRecord, StackOf, Empty

LEMMA CreateFrameType ==
    TypeInv /\ StacksAllocated /\ CreateFrame => TypeInv' /\ StacksAllocated'
<1> SUFFICES ASSUME TypeInv, StacksAllocated, CreateFrame PROVE TypeInv' /\ StacksAllocated'
  OBVIOUS
<1> USE InterpreterAssumption
<1>1. running /\ code_pos \in Nat
  BY DEF CreateFrame, Runs, TypeInv
<1>2. string_frees' \in [DOMAIN ir -> 0 .. 2]
  BY FramesFinite, FreesType DEF CreateFrame, TypeInv
<1>3. /\ FramesAfter(Discarded) \in Seq(FrameRecords)
      /\ Len(FramesAfter(Discarded)) = Len(frames)
  BY FramesAfterEffect DEF TypeInv
<1>4. ASSUME frames' = Append(FramesAfter(Discarded), NewFrame), temp_frame' = Len(frames) + 1, Continue
      PROVE  TypeRest
  <2>1. frames' \in Seq(FrameRecords) /\ Len(frames') = Len(frames) + 1 /\ temp_frame' \in DOMAIN frames'
    BY <1>3, <1>4, NewFrameType, FramesFinite
  <2>2. code_pos' \in Nat /\ status' \in Statuses
    BY <1>1, <1>4, GotoType DEF Continue
  <2>3. DOMAIN frames \subseteq DOMAIN frames' /\ Len(frames') >= Len(frames)
    BY <2>1, FramesFinite
  <2>4. StackRecord(frame_stack', DOMAIN frames' \cup {NoFrame})
    BY <2>3, StackWidens DEF TypeInv, CreateFrame
  <2> QED
    BY <2>1, <2>2, <2>3, <2>4, <1>2 DEF TypeRest, CreateFrame, TypeInv
<1>5. ASSUME frames' = FramesAfter(Discarded), temp_frame' = NoFrame, OutOfMemory
      PROVE  TypeRest
  <2>1. frames' \in Seq(FrameRecords) /\ Len(frames') = Len(frames) /\ DOMAIN frames' = DOMAIN frames
    BY <1>3, <1>5, FramesFinite
  <2>2. code_pos' \in Nat /\ status' \in Statuses
    BY <1>5, StopType DEF OutOfMemory, Statuses, ErrorCodes
  <2> QED
    BY <2>1, <2>2, <1>2, <1>5, FramesFinite DEF TypeRest, CreateFrame, TypeInv
<1>6. TypeRest /\ ir' = ir
  BY <1>4, <1>5 DEF CreateFrame
<1>7. StacksAllocated'
  BY <1>1 DEF StacksAllocated, StackAllocated, CreateFrame
<1> QED
  BY <1>6, <1>7, TypeFromRest

(* A step that leaves the frames and the stacks alone.                      *)
LEMMA QuietType ==
    ASSUME TypeInv, StacksAllocated, running, ir' = ir, code_pos' \in Nat, status' \in Statuses,
           UNCHANGED <<memory_vars, released>>
    PROVE  TypeInv' /\ StacksAllocated'
<1>1. TypeRest
  BY FramesFinite DEF TypeRest, TypeInv, memory_vars
<1>2. StacksAllocated'
  BY DEF StacksAllocated, StackAllocated, memory_vars
<1> QED
  BY <1>1, <1>2, TypeFromRest

LEMMA PushFrameType ==
    TypeInv /\ StacksAllocated /\ PushFrame => TypeInv' /\ StacksAllocated'
<1> SUFFICES ASSUME TypeInv, StacksAllocated, PushFrame PROVE TypeInv' /\ StacksAllocated'
  OBVIOUS
<1> USE InterpreterAssumption
<1>1. running /\ code_pos \in Nat /\ StackAllocated(frame_stack)
      /\ StackRecord(frame_stack, DOMAIN frames \cup {NoFrame})
      /\ NoFrame \in DOMAIN frames \cup {NoFrame} /\ temp_frame \in DOMAIN frames \cup {NoFrame}
  BY DEF PushFrame, Runs, TypeInv, StacksAllocated
<1>2. /\ code_pos' \in Nat /\ status' \in Statuses
      /\ temp_frame' \in DOMAIN frames \cup {NoFrame}
      /\ StackRecord(frame_stack', DOMAIN frames \cup {NoFrame})
      /\ StackAllocated(frame_stack)'
  <2>1. CASE Stop("NONEXISTING_MEMORY_FRAME") /\ UNCHANGED <<temp_frame, frame_stack>>
    BY <1>1, <2>1, StopType DEF Statuses, ErrorCodes, StackAllocated
  <2>2. CASE frame_stack' = Pushed(frame_stack, temp_frame, NoFrame) /\ temp_frame' = MovedFrame /\ Continue
    <3>1. /\ StackRecord(frame_stack', DOMAIN frames \cup {NoFrame})
          /\ frame_stack'.size <= Len(frame_stack'.data) /\ frame_stack'.capacity > 0
          /\ frame_stack'.capacity = Len(frame_stack'.data)
      <4> DEFINE E == DOMAIN frames \cup {NoFrame}
      <4>1. StackRecord(frame_stack, E) /\ temp_frame \in E /\ NoFrame \in E
        BY <1>1
      <4> HIDE DEF E
      <4>2. StackRecord(frame_stack', E)
            /\ frame_stack'.size <= Len(frame_stack'.data) /\ frame_stack'.capacity > 0
            /\ frame_stack'.capacity = Len(frame_stack'.data)
        BY <1>1, <2>2, <4>1, PushKeepsAllocation
      <4> QED
        BY <4>2 DEF E
    <3> QED
      BY <1>1, <2>2, <3>1, GotoType DEF Continue, MovedFrame, StackAllocated
  <2>3. CASE frame_stack' = PushFailed(frame_stack) /\ temp_frame' = MovedFrame /\ OutOfMemory
    <3>1. /\ StackRecord(frame_stack', DOMAIN frames \cup {NoFrame})
          /\ frame_stack'.size <= Len(frame_stack'.data) /\ frame_stack'.capacity > 0
      BY <1>1, <2>3, FailKeepsAllocation
    <3>2. code_pos' \in Nat /\ status' \in Statuses /\ ~running'
      BY <2>3, StopType DEF OutOfMemory, Statuses, ErrorCodes
    <3> QED
      BY <1>1, <2>3, <3>1, <3>2 DEF MovedFrame, StackAllocated
  <2> QED
    BY <2>1, <2>2, <2>3 DEF PushFrame
<1>3. TypeRest
  BY <1>2, FramesFinite DEF TypeRest, PushFrame, TypeInv
<1>4. StacksAllocated'
  BY <1>1, <1>2 DEF StacksAllocated, StackAllocated, PushFrame
<1> QED
  BY <1>3, <1>4, TypeFromRest DEF PushFrame

LEMMA PopFrameType ==
    TypeInv /\ StacksAllocated /\ PopFrame => TypeInv' /\ StacksAllocated'
<1> SUFFICES ASSUME TypeInv, StacksAllocated, PopFrame PROVE TypeInv' /\ StacksAllocated'
  OBVIOUS
<1> USE InterpreterAssumption
<1>1. running /\ code_pos \in Nat /\ StackAllocated(frame_stack)
      /\ StackRecord(frame_stack, DOMAIN frames \cup {NoFrame})
  BY DEF PopFrame, Runs, TypeInv, StacksAllocated
<1>2. CASE Empty(frame_stack)
  <2>1. code_pos' \in Nat /\ status' \in Statuses
    BY <1>2, StopType DEF PopFrame, Statuses, ErrorCodes
  <2> QED
    BY <1>1, <1>2, <2>1, QuietType DEF PopFrame, memory_vars
<1>3. CASE ~Empty(frame_stack)
  <2>1. code_pos' \in Nat /\ status' \in Statuses
    BY <1>3, StopType DEF PopFrame, UsesSlotAbove, Statuses, ErrorCodes
  <2>2. /\ StackRecord(frame_stack', DOMAIN frames \cup {NoFrame})
        /\ StackAllocated(frame_stack)'
    BY <1>1, <1>3, PopKeepsAllocation DEF PopFrame, StackAllocated
  <2>3. frames' \in Seq(FrameRecords) /\ DOMAIN frames' = DOMAIN frames /\ Len(frames') = Len(frames)
    BY <1>3, FramesAfterEffect DEF PopFrame, TypeInv
  <2>4. string_frees' \in [DOMAIN ir -> 0 .. 2]
    BY <1>3, FramesFinite, FreesType DEF PopFrame, TypeInv
  <2>5. TypeRest
    BY <2>1, <2>2, <2>3, <2>4, FramesFinite DEF TypeRest, PopFrame, TypeInv
  <2>6. StacksAllocated'
    BY <1>1, <2>2 DEF StacksAllocated, StackAllocated, PopFrame
  <2> QED
    BY <2>5, <2>6, TypeFromRest DEF PopFrame
<1> QED
  BY <1>2, <1>3

(* A frame that a variable's name stands for is there.                      *)
LEMMA FrameThere ==
    ASSUME TypeInv, NEW where \in Places, ~FrameMissing(where)
    PROVE  where # "LF" => FrameOf(where) \in DOMAIN frames
BY FramesFinite DEF TypeInv, FrameOf, FrameMissing, Places

LEMMA DefinedThere ==
    ASSUME TypeInv, NEW where \in Places, ~FrameMissing(where)
    PROVE  DefinedIn(where) \in DOMAIN frames
BY FramesFinite, FrameThere DEF DefinedIn

(* A step that changes the contents of frames only.                         *)
LEMMA FramesStepType ==
    ASSUME TypeInv, StacksAllocated, running, ir' = ir, code_pos' \in Nat, status' \in Statuses,
           frames' \in Seq(FrameRecords), Len(frames') = Len(frames),
           UNCHANGED <<temp_frame, frame_stack, value_stack, call_stack, string_frees, released>>
    PROVE  TypeInv' /\ StacksAllocated'
<1>1. DOMAIN frames' = DOMAIN frames
  BY FramesFinite
<1>2. TypeRest
  BY <1>1, FramesFinite DEF TypeRest, TypeInv
<1>3. StacksAllocated'
  BY DEF StacksAllocated, StackAllocated
<1> QED
  BY <1>2, <1>3, TypeFromRest

LEMMA DefVarType ==
    TypeInv /\ StacksAllocated /\ DefVar => TypeInv' /\ StacksAllocated'
<1> SUFFICES ASSUME TypeInv, StacksAllocated, DefVar PROVE TypeInv' /\ StacksAllocated'
  OBVIOUS
<1> USE InterpreterAssumption
<1> DEFINE where == instruction.where
           x == instruction.name
           f == DefinedIn(where)
<1>1. running /\ code_pos \in Nat /\ code_pos + 1 \in Nat /\ where \in Places /\ x \in Names
  BY Running DEF DefVar, TypeInv
<1>2. code_pos' \in Nat /\ status' \in Statuses
  BY <1>1, GotoType, StopType DEF DefVar, Continue, Statuses, ErrorCodes
<1>3. NoValue \in Literals
  BY DEF Literals
<1>4. frames' \in Seq(FrameRecords) /\ Len(frames') = Len(frames)
  <2>1. CASE FrameMissing(where)
    BY <2>1 DEF DefVar, TypeInv
  <2>2. CASE ~FrameMissing(where)
    <3>1. f \in DOMAIN frames
      BY <1>1, <2>2, DefinedThere
    <3>2. /\ Grow(f, frames) \in Seq(FrameRecords) /\ Len(Grow(f, frames)) = Len(frames)
      BY <3>1, GrowEffect DEF TypeInv
    <3>3. /\ Grow(f, Assign(f, x, NoValue)) \in Seq(FrameRecords)
          /\ Len(Grow(f, Assign(f, x, NoValue))) = Len(frames)
      <4>1. /\ Assign(f, x, NoValue) \in Seq(FrameRecords)
            /\ DOMAIN Assign(f, x, NoValue) = DOMAIN frames
            /\ Len(Assign(f, x, NoValue)) = Len(frames)
        BY <1>1, <1>3, <3>1, AssignEffect DEF TypeInv
      <4> HIDE DEF f, x
      <4> QED
        BY <3>1, <4>1, GrowEffect
    <3>4. frames' \in {frames, Grow(f, frames), Grow(f, Assign(f, x, NoValue))}
      BY <2>2 DEF DefVar
    <3> QED
      BY <3>2, <3>3, <3>4 DEF TypeInv
  <2> QED
    BY <2>1, <2>2
<1> QED
  BY <1>1, <1>2, <1>4, FramesStepType DEF DefVar

LEMMA FailedAccess ==
    ASSUME TypeInv, NEW where, NEW x, AccessFails(where, x)
    PROVE  /\ code_pos' \in Nat /\ status' \in Statuses /\ ~running' /\ code_pos' = code_pos
           /\ status' \in {"NONEXISTING_MEMORY_FRAME", "UNDEFINED_VARIABLE_ACCESS", "undefined", "aborted"}
BY StopType DEF AccessFails, UsesSlotAbove, Stop, Statuses, ErrorCodes, running, TypeInv

LEMMA MoveType ==
    TypeInv /\ StacksAllocated /\ Move => TypeInv' /\ StacksAllocated'
<1> SUFFICES ASSUME TypeInv, StacksAllocated, Move PROVE TypeInv' /\ StacksAllocated'
  OBVIOUS
<1> USE InterpreterAssumption
<1> DEFINE where == instruction.where
           x == instruction.name
<1>1. running /\ code_pos + 1 \in Nat /\ code_pos + 1 \in Literals /\ where \in Places /\ x \in Names
  BY Running DEF Move
<1>2. CASE AccessFails(where, x) /\ UNCHANGED frames
  BY <1>1, <1>2, FailedAccess, FramesStepType DEF Move, TypeInv
<1>3. CASE Found(where, x) /\ frames' = Assign(FrameOf(where), x, code_pos + 1) /\ Continue
  <2>1. FrameOf(where) \in DOMAIN frames
    BY <1>1, <1>3, FrameThere DEF Found
  <2>2. frames' \in Seq(FrameRecords) /\ Len(frames') = Len(frames)
    BY <1>1, <1>3, <2>1, AssignEffect DEF TypeInv
  <2>3. code_pos' \in Nat /\ status' \in Statuses
    BY <1>1, <1>3, GotoType DEF Continue
  <2> QED
    BY <1>1, <2>2, <2>3, FramesStepType DEF Move
<1> QED
  BY <1>2, <1>3 DEF Move

(* A step of the value stack or of the call stack.                          *)
LEMMA StackStepType ==
    ASSUME TypeInv, StacksAllocated, running, ir' = ir, code_pos' \in Nat, status' \in Statuses,
           StackRecord(value_stack', Literals), StackAllocated(value_stack)',
           StackRecord(call_stack', Nat), StackAllocated(call_stack)',
           UNCHANGED <<temp_frame, frame_stack, string_frees, released>>,
           frames' \in Seq(FrameRecords), Len(frames') = Len(frames)
    PROVE  TypeInv' /\ StacksAllocated'
<1>1. DOMAIN frames' = DOMAIN frames
  BY FramesFinite
<1>2. TypeRest
  BY <1>1, FramesFinite DEF TypeRest, TypeInv
<1>3. StacksAllocated'
  BY DEF StacksAllocated, StackAllocated
<1> QED
  BY <1>2, <1>3, TypeFromRest

LEMMA PushValueType ==
    TypeInv /\ StacksAllocated /\ PushValue => TypeInv' /\ StacksAllocated'
<1> SUFFICES ASSUME TypeInv, StacksAllocated, PushValue PROVE TypeInv' /\ StacksAllocated'
  OBVIOUS
<1>1. running /\ code_pos + 1 \in Nat /\ code_pos + 1 \in Literals /\ NoValue \in Literals
      /\ StackRecord(value_stack, Literals) /\ StackAllocated(value_stack)
  BY Running DEF PushValue, Literals, TypeInv, StacksAllocated
<1>2. /\ code_pos' \in Nat /\ status' \in Statuses
      /\ StackRecord(value_stack', Literals) /\ StackAllocated(value_stack)'
  <2>1. CASE value_stack' = Pushed(value_stack, code_pos + 1, NoValue) /\ Continue
    <3>1. /\ StackRecord(value_stack', Literals)
          /\ value_stack'.size <= Len(value_stack'.data) /\ value_stack'.capacity > 0
          /\ value_stack'.capacity = Len(value_stack'.data)
      BY <1>1, <2>1, PushKeepsAllocation
    <3> QED
      BY <1>1, <2>1, <3>1, GotoType DEF Continue, StackAllocated
  <2>2. CASE value_stack' = PushFailed(value_stack) /\ OutOfMemory
    <3>1. /\ StackRecord(value_stack', Literals)
          /\ value_stack'.size <= Len(value_stack'.data) /\ value_stack'.capacity > 0
      BY <1>1, <2>2, FailKeepsAllocation
    <3>2. code_pos' \in Nat /\ status' \in Statuses /\ ~running'
      BY <2>2, StopType DEF OutOfMemory, Statuses, ErrorCodes
    <3> QED
      BY <3>1, <3>2 DEF StackAllocated
  <2> QED
    BY <2>1, <2>2 DEF PushValue
<1>3. StackRecord(call_stack', Nat) /\ StackAllocated(call_stack)'
  BY <1>1 DEF TypeInv, StacksAllocated, StackAllocated, PushValue
<1>4. frames' \in Seq(FrameRecords) /\ Len(frames') = Len(frames)
  BY DEF TypeInv, PushValue
<1> QED
  BY <1>1, <1>2, <1>3, <1>4, StackStepType DEF PushValue

(* What a POPS does to the value stack keeps it in place.                   *)
LEMMA PopToEffect ==
    ASSUME TypeInv, StacksAllocated, running, NEW where \in Places, NEW x \in Names, PopTo(where, x)
    PROVE  /\ FrameOf(where) \in DOMAIN frames
           /\ value_stack.data[TopSlot(value_stack)] \in Literals
           /\ TopSlot(value_stack) \in DOMAIN value_stack.data
           /\ StackRecord(value_stack', Literals) /\ value_stack'.capacity = value_stack.capacity
           /\ value_stack'.size <= Len(value_stack'.data) /\ value_stack'.capacity > 0
           /\ value_stack'.capacity = Len(value_stack'.data)
           /\ Len(value_stack'.data) = Len(value_stack.data)
           /\ \A i \in 1 .. Len(value_stack.data) :
                value_stack'.data[i] = IF i = TopSlot(value_stack) THEN NoValue ELSE value_stack.data[i]
           /\ frames' \in Seq(FrameRecords) /\ Len(frames') = Len(frames)
<1> DEFINE m == MovedOut(value_stack)
<1>1. StackRecord(value_stack, Literals) /\ StackAllocated(value_stack) /\ ~Empty(value_stack) /\ ~Outside(value_stack)
  BY DEF TypeInv, StacksAllocated, PopTo
<1>2. TopSlot(value_stack) \in DOMAIN value_stack.data /\ value_stack.data[TopSlot(value_stack)] \in Literals
  BY <1>1 DEF TopSlot, Outside, StackRecord, StackOf
<1>3. /\ StackRecord(m, Literals) /\ m.size = value_stack.size /\ m.capacity = value_stack.capacity
      /\ Len(m.data) = Len(value_stack.data)
      /\ \A i \in 1 .. Len(value_stack.data) :
            m.data[i] = IF i = TopSlot(value_stack) THEN NoValue ELSE value_stack.data[i]
  BY <1>1, MovedOutStack
<1>4. value_stack' = Popped(m)
  BY DEF PopTo
<1> HIDE DEF m
<1>5. StackAllocated(m) /\ ~Empty(m)
  BY <1>1, <1>3 DEF StackAllocated, Empty
<1>6. /\ StackRecord(value_stack', Literals)
      /\ value_stack'.size <= Len(value_stack'.data) /\ value_stack'.capacity > 0
      /\ value_stack'.capacity = Len(value_stack'.data)
  BY <1>3, <1>4, <1>5, PopKeepsAllocation
<1>7. value_stack'.data = m.data /\ value_stack'.capacity = m.capacity
  BY <1>3, <1>4, <1>5, PoppedStack
<1>8. FrameOf(where) \in DOMAIN frames
  BY FrameThere DEF PopTo, Found
<1>9. frames' \in Seq(FrameRecords) /\ Len(frames') = Len(frames)
  BY ZenonT(60), <1>2, <1>8, AssignEffect DEF PopTo, TypeInv
<1> QED
  BY <1>2, <1>3, <1>6, <1>7, <1>8, <1>9

LEMMA PopValueType ==
    TypeInv /\ StacksAllocated /\ PopValue => TypeInv' /\ StacksAllocated'
<1> SUFFICES ASSUME TypeInv, StacksAllocated, PopValue PROVE TypeInv' /\ StacksAllocated'
  OBVIOUS
<1> USE DEF PopValue
<1>1. running /\ code_pos + 1 \in Nat /\ StackRecord(value_stack, Literals) /\ StackAllocated(value_stack)
  BY Running DEF TypeInv, StacksAllocated
<1>2. StackRecord(call_stack', Nat) /\ StackAllocated(call_stack)'
  BY <1>1 DEF TypeInv, StacksAllocated, StackAllocated
<1>3. ASSUME NEW where \in Places, NEW x \in Names, PopTo(where, x)
      PROVE  TypeInv' /\ StacksAllocated'
  <2>1. StackRecord(value_stack', Literals) /\ StackAllocated(value_stack)'
        /\ frames' \in Seq(FrameRecords) /\ Len(frames') = Len(frames)
    BY <1>1, <1>3, PopToEffect DEF StackAllocated
  <2>2. code_pos' \in Nat /\ status' \in Statuses
    BY <1>1, <1>3, GotoType DEF PopTo, Continue
  <2> QED
    BY <1>1, <1>2, <2>1, <2>2, StackStepType
<1>4. ASSUME code_pos' \in Nat, status' \in Statuses, UNCHANGED <<frames, value_stack>>
      PROVE  TypeInv' /\ StacksAllocated'
  BY <1>1, <1>4, QuietType DEF memory_vars
<1>5. ASSUME NEW code \in {"MISSING_STACK_VALUE", "undefined", "aborted"}, Stop(code)
      PROVE  code_pos' \in Nat /\ status' \in Statuses
  BY <1>5, StopType DEF Statuses, ErrorCodes
<1>6. ASSUME ~Empty(value_stack), Stop("undefined"), value_stack' = Popped(value_stack), UNCHANGED frames
      PROVE  TypeInv' /\ StacksAllocated'
  <2>1. StackRecord(value_stack', Literals) /\ StackAllocated(value_stack)'
    BY <1>1, <1>6, PopKeepsAllocation DEF StackAllocated
  <2>2. frames' \in Seq(FrameRecords) /\ Len(frames') = Len(frames)
    BY <1>6 DEF TypeInv
  <2> QED
    BY <1>1, <1>2, <1>5, <1>6, <2>1, <2>2, StackStepType
<1>7. PICK where \in Places, x \in Names :
          \/ PopTo(where, x)
          \/ AccessFails(where, x) /\ UNCHANGED <<frames, value_stack>>
          \/ Stop("MISSING_STACK_VALUE") /\ UNCHANGED <<frames, value_stack>>
          \/ ~Empty(value_stack) /\ Stop("undefined") /\ value_stack' = Popped(value_stack) /\ UNCHANGED frames
          \/ (Stop("undefined") \/ Stop("aborted")) /\ UNCHANGED <<frames, value_stack>>
  OBVIOUS
<1> QED
  BY <1>3, <1>4, <1>5, <1>6, <1>7, FailedAccess

LEMMA CallType ==
    TypeInv /\ StacksAllocated /\ Call => TypeInv' /\ StacksAllocated'
<1> SUFFICES ASSUME TypeInv, StacksAllocated, Call PROVE TypeInv' /\ StacksAllocated'
  OBVIOUS
<1>1. running /\ code_pos + 1 \in Nat /\ instruction.destination + 1 \in Nat /\ 0 \in Nat
      /\ StackRecord(call_stack, Nat) /\ StackAllocated(call_stack)
  <2>1. Runs("CALL")
    BY DEF Call
  <2>2. instruction.destination \in code_pos + 1 .. Len(ir) - 1 /\ code_pos + 1 \in Nat /\ Len(ir) \in Nat
    BY <2>1, Running
  <2> QED
    BY <2>1, <2>2 DEF Runs, TypeInv, StacksAllocated
<1>2. /\ code_pos' \in Nat /\ status' \in Statuses
      /\ StackRecord(call_stack', Nat) /\ StackAllocated(call_stack)'
  <2>1. CASE call_stack' = Pushed(call_stack, instruction.destination + 1, 0) /\ Continue
    <3>1. /\ StackRecord(call_stack', Nat)
          /\ call_stack'.size <= Len(call_stack'.data) /\ call_stack'.capacity > 0
          /\ call_stack'.capacity = Len(call_stack'.data)
      BY <1>1, <2>1, PushKeepsAllocation
    <3> QED
      BY <1>1, <2>1, <3>1, GotoType DEF Continue, StackAllocated
  <2>2. CASE call_stack' = PushFailed(call_stack) /\ OutOfMemory
    <3>1. /\ StackRecord(call_stack', Nat)
          /\ call_stack'.size <= Len(call_stack'.data) /\ call_stack'.capacity > 0
      BY <1>1, <2>2, FailKeepsAllocation
    <3>2. code_pos' \in Nat /\ status' \in Statuses /\ ~running'
      BY <2>2, StopType DEF OutOfMemory, Statuses, ErrorCodes
    <3> QED
      BY <3>1, <3>2 DEF StackAllocated
  <2> QED
    BY <2>1, <2>2 DEF Call
<1>3. StackRecord(value_stack', Literals) /\ StackAllocated(value_stack)'
  BY <1>1 DEF TypeInv, StacksAllocated, StackAllocated, Call
<1>4. frames' \in Seq(FrameRecords) /\ Len(frames') = Len(frames)
  BY DEF TypeInv, Call
<1> QED
  BY <1>1, <1>2, <1>3, <1>4, StackStepType DEF Call

LEMMA ReturnType ==
    TypeInv /\ StacksAllocated /\ Return => TypeInv' /\ StacksAllocated'
<1> SUFFICES ASSUME TypeInv, StacksAllocated, Return PROVE TypeInv' /\ StacksAllocated'
  OBVIOUS
<1>1. running /\ StackRecord(call_stack, Nat) /\ StackAllocated(call_stack)
  BY DEF Return, Runs, TypeInv, StacksAllocated
<1>2. /\ code_pos' \in Nat /\ status' \in Statuses
      /\ StackRecord(call_stack', Nat) /\ StackAllocated(call_stack)'
  <2>1. CASE Empty(call_stack)
    BY <1>1, <2>1, StopType DEF Return, Statuses, ErrorCodes, StackAllocated
  <2>2. CASE ~Empty(call_stack)
    <3>1. StackRecord(call_stack', Nat) /\ StackAllocated(call_stack)'
      BY <1>1, <2>2, PopKeepsAllocation DEF Return, StackAllocated
    <3>2. CASE Outside(call_stack)
      BY <2>2, <3>1, <3>2, StopType DEF Return, Statuses
    <3>3. CASE ~Outside(call_stack)
      <4>1. call_stack.data[TopSlot(call_stack)] \in Nat
        BY <1>1, <3>3 DEF TopSlot, Outside, StackRecord, StackOf
      <4> QED
        BY <1>1, <2>2, <3>1, <3>3, <4>1, GotoType DEF Return
    <3> QED
      BY <3>2, <3>3
  <2> QED
    BY <2>1, <2>2
<1>3. StackRecord(value_stack', Literals) /\ StackAllocated(value_stack)'
  BY <1>1 DEF TypeInv, StacksAllocated, StackAllocated, Return
<1>4. frames' \in Seq(FrameRecords) /\ Len(frames') = Len(frames)
  BY DEF TypeInv, Return
<1> QED
  BY <1>1, <1>2, <1>3, <1>4, StackStepType DEF Return

LEMMA QuietStepsType ==
    TypeInv /\ StacksAllocated /\ (Jump \/ Skip \/ RunOff) => TypeInv' /\ StacksAllocated'
<1> SUFFICES ASSUME TypeInv, StacksAllocated, Jump \/ Skip \/ RunOff PROVE TypeInv' /\ StacksAllocated'
  OBVIOUS
<1>1. CASE Jump
  <2>1. instruction.destination \in code_pos + 1 .. Len(ir) - 1 /\ code_pos + 1 \in Nat /\ Len(ir) \in Nat /\ running
    BY <1>1, Running DEF Jump
  <2>2. instruction.destination \in Nat
    BY <2>1
  <2> QED
    BY <1>1, <2>1, <2>2, GotoType, QuietType DEF Jump
<1>2. CASE Skip
  BY <1>2, Running, GotoType, QuietType DEF Skip, Continue
<1>3. CASE RunOff
  BY <1>3, StopType, QuietType DEF RunOff, Statuses
<1> QED
  BY <1>1, <1>2, <1>3

LEMMA ReleaseMemoryType ==
    TypeInv /\ StacksAllocated /\ ReleaseMemory => TypeInv' /\ StacksAllocated'
<1> SUFFICES ASSUME TypeInv, StacksAllocated, ReleaseMemory PROVE TypeInv' /\ StacksAllocated'
  OBVIOUS
<1> USE InterpreterAssumption
<1>1. frames' \in Seq(FrameRecords) /\ DOMAIN frames' = DOMAIN frames /\ Len(frames') = Len(frames)
  BY FramesAfterEffect DEF ReleaseMemory, TypeInv
<1>2. string_frees' \in [DOMAIN ir -> 0 .. 2]
  <2>1. FreesAfter(ReachableFrames) \in [DOMAIN ir -> 0 .. 2]
    BY FramesFinite, FreesType DEF TypeInv
  <2>2. ASSUME NEW l \in DOMAIN ir PROVE FreesByInstructions(l) \in Nat /\ FreesByValueStack(l) \in Nat
    <3>1. IsFiniteSet(Occupied(value_stack))
      BY FS_Interval DEF TypeInv, StackRecord, StackOf, Occupied
    <3>2. IsFiniteSet({i \in Occupied(value_stack) : value_stack.data[i] = l})
      BY <3>1, FS_Subset
    <3> QED
      BY <3>2, FS_CardinalityType DEF FreesByInstructions, FreesByValueStack
  <2>3. \A l \in DOMAIN ir : FreesAfter(ReachableFrames)[l] + FreesByInstructions(l) + FreesByValueStack(l) \in Nat
    BY <2>1, <2>2
  <2>4. \A n \in Nat : AtMostTwo(n) \in 0 .. 2
    BY DEF AtMostTwo
  <2> QED
    BY <2>3, <2>4 DEF ReleaseMemory
<1>3. TypeRest
  BY <1>1, <1>2, FramesFinite DEF TypeRest, ReleaseMemory, TypeInv
<1>4. StacksAllocated'
  BY DEF StacksAllocated, StackAllocated, ReleaseMemory, running
<1> QED
  BY <1>3, <1>4, TypeFromRest DEF ReleaseMemory

LEMMA StepType ==
    TypeInv /\ StacksAllocated /\ [Next]_vars => TypeInv' /\ StacksAllocated'
<1> SUFFICES ASSUME TypeInv, StacksAllocated, [Next]_vars PROVE TypeInv' /\ StacksAllocated'
  OBVIOUS
<1>1. CASE UNCHANGED vars
  BY <1>1, SameProgram DEF TypeInv, StacksAllocated, StackAllocated, vars, memory_vars, running,
                           StackRecord, StackOf, Literals, Statuses, ErrorCodes
<1> QED
  BY <1>1, CreateFrameType, PushFrameType, PopFrameType, DefVarType, MoveType, PushValueType, PopValueType,
     CallType, ReturnType, QuietStepsType, ReleaseMemoryType DEF Next, interpret_ir

LEMMA Types == Spec => [](TypeInv /\ StacksAllocated)
<1> QED
  BY InitType, StepType, PTL DEF Spec

(* The variables hold values of their types, whatever the program.          *)
THEOREM TypeCorrect == Spec => []TypeOK
<1>1. TypeInv => TypeOK
  BY FrameFields DEF TypeInv, TypeOK, StackRecord, Statuses, Literals, Variables
<1> QED
  BY <1>1, Types, PTL

(* A push writes inside the allocation of its stack, also after memory has  *)
(* run out on another: a failed push stops the program.                     *)
THEOREM PushesStayInside == Spec => []PushesInsideAllocation
<1>1. StacksAllocated => PushesInsideAllocation
  BY DEF StacksAllocated, StackAllocated, PushesInsideAllocation
<1> QED
  BY <1>1, Types, PTL

-----------------------------------------------------------------------------
(* Frames are in one place                                                  *)

(* No frame is in two places, and none above the top of the stack.          *)
PlacesDiffer ==
    /\ temp_frame # global_frame
    /\ \A i \in Occupied(frame_stack) :
          frame_stack.data[i] \in DOMAIN frames \ {global_frame, temp_frame}
    /\ \A i, j \in Occupied(frame_stack) : frame_stack.data[i] = frame_stack.data[j] => i = j
    /\ running => \A i \in DOMAIN frame_stack.data : i > frame_stack.size => frame_stack.data[i] = NoFrame

(* What is in a place has not been freed.  The rest has, but for the frame  *)
(* that a PUSHFRAME had in hand when memory ran out.                        *)
Freed(f) == frames[f].frees # 0
FreedOnce ==
    /\ \A f \in DOMAIN frames : frames[f].frees \in {0, 1}
    /\ \A f \in ReachableFrames : ~Freed(f)
    /\ \A f, g \in DOMAIN frames \ ReachableFrames : ~Freed(f) /\ ~Freed(g) => f = g
    /\ \A f \in DOMAIN frames \ ReachableFrames :
          ~Freed(f) => status = "INTERNAL_ERROR" /\ instruction.op = "PUSH_F"

ReleasedAtTheEnd == released => ~running

FramesPlaced ==
    status \in ErrorCodes \cup {"running"} /\ ~released => PlacesDiffer /\ FreedOnce

FramesInv == FramesPlaced /\ FramesReleasedOnce /\ ReleasedAtTheEnd

LEMMA InitFrames == Init => FramesInv
<1> SUFFICES ASSUME Init PROVE FramesInv
  OBVIOUS
<1> USE InterpreterAssumption
<1>1. TypeInv
  BY InitType
<1>2. Occupied(frame_stack) = {}
  BY DEF Init, stack_init, Occupied
<1>3. PlacesDiffer
  <2>1. \A i \in DOMAIN frame_stack.data : frame_stack.data[i] = NoFrame
    <3>1. NoFrame \in {NoFrame}
      OBVIOUS
    <3>2. Len(frame_stack.data) = StackCapacity /\ frame_stack.data \in Seq({NoFrame})
      BY <3>1, FreshStack DEF Init, StackRecord, StackOf
    <3> QED
      BY <3>2
  <2>2. temp_frame # global_frame
    BY DEF Init, global_frame
  <2> QED
    BY <1>2, <2>1, <2>2 DEF PlacesDiffer
<1>4. FreedOnce
  <2>1. DOMAIN frames = {global_frame} /\ frames[global_frame].frees = 0
    BY DEF Init, NewFrame, global_frame
  <2>2. ReachableFrames = {global_frame}
    BY <1>2 DEF ReachableFrames, Frame, Init
  <2> QED
    BY <2>1, <2>2 DEF FreedOnce, Freed
<1>5. ~released
  BY DEF Init
<1> QED
  BY <1>3, <1>4, <1>5 DEF FramesInv, FramesPlaced, FramesReleasedOnce, ReleasedAtTheEnd

(* While the program runs, its frames are in place.                         *)
LEMMA RunningPlaced ==
    ASSUME FramesInv, running
    PROVE  /\ ~released /\ PlacesDiffer /\ FreedOnce
           /\ \A f \in DOMAIN frames : ~Freed(f) <=> f \in ReachableFrames
<1>1. ~released /\ PlacesDiffer /\ FreedOnce
  BY DEF FramesInv, ReleasedAtTheEnd, FramesPlaced, running
<1> QED
  BY <1>1 DEF FreedOnce, running

(* A step of the interpreter has to show where the frames are.              *)
LEMMA FramesFromPlaces ==
    ASSUME FramesInv, running, released' = released,
           status' \in ErrorCodes \cup {"running"} => PlacesDiffer' /\ FreedOnce'
    PROVE  FramesInv'
BY RunningPlaced DEF FramesInv, FramesPlaced, FramesReleasedOnce, ReleasedAtTheEnd, ErrorCodes

(* What neither moves nor frees a frame leaves all of them in place.        *)
LEMMA FramesStay ==
    ASSUME TypeInv, FramesInv, running, released' = released,
           UNCHANGED <<temp_frame, frame_stack>>, DOMAIN frames' = DOMAIN frames,
           \A f \in DOMAIN frames : frames'[f].frees = frames[f].frees
    PROVE  FramesInv'
<1>1. PlacesDiffer'
  BY RunningPlaced DEF PlacesDiffer, Occupied, global_frame
<1>2. ReachableFrames' = ReachableFrames
  BY DEF ReachableFrames, Frame, Occupied, global_frame
<1>3. \A f \in DOMAIN frames : Freed(f)' <=> Freed(f)
  BY DEF Freed
<1>4. ReachableFrames \subseteq DOMAIN frames
  BY FramesFinite, RunningPlaced DEF ReachableFrames, Frame, PlacesDiffer, TypeInv
<1>5. FreedOnce'
  BY <1>2, <1>3, <1>4, RunningPlaced DEF FreedOnce
<1> QED
  BY <1>1, <1>5, FramesFromPlaces

LEMMA ReachableThere ==
    ASSUME TypeInv, PlacesDiffer
    PROVE  ReachableFrames \subseteq DOMAIN frames
BY FramesFinite DEF ReachableFrames, Frame, PlacesDiffer, TypeInv

LEMMA FreedFromCounts ==
    ASSUME ReachableFrames' \subseteq DOMAIN frames',
           \A f \in DOMAIN frames' : frames'[f].frees = IF f \in ReachableFrames' THEN 0 ELSE 1
    PROVE  FreedOnce'
<1>1. \A f \in DOMAIN frames' : frames'[f].frees \in {0, 1} /\ (Freed(f)' <=> f \notin ReachableFrames')
  BY DEF Freed
<1> QED
  BY <1>1 DEF FreedOnce

LEMMA CreateFrameFrames ==
    TypeInv /\ StacksAllocated /\ FramesInv /\ CreateFrame => FramesInv'
<1> SUFFICES ASSUME TypeInv, StacksAllocated, FramesInv, CreateFrame PROVE FramesInv'
  OBVIOUS
<1> USE InterpreterAssumption
<1> DEFINE n == Len(frames)
           after == FramesAfter(Discarded)
           locals == {frame_stack.data[i] : i \in Occupied(frame_stack)}
<1>1. running /\ PlacesDiffer /\ FreedOnce /\ (\A f \in DOMAIN frames : ~Freed(f) <=> f \in ReachableFrames)
  BY RunningPlaced DEF CreateFrame, Runs
<1>2. n \in Nat /\ DOMAIN frames = 1 .. n /\ global_frame \in 1 .. n /\ ReachableFrames \subseteq 1 .. n
  BY <1>1, FramesFinite, ReachableThere
<1>3. /\ DOMAIN after = 1 .. n /\ Len(after) = n /\ after \in Seq(FrameRecords)
      /\ \A f \in 1 .. n : after[f].frees = IF f \in Discarded THEN frames[f].frees + 1 ELSE frames[f].frees
  BY <1>2, FramesAfterEffect DEF TypeInv
<1>4. \A f \in 1 .. n : after[f].frees = IF f \in {global_frame} \cup locals THEN 0 ELSE 1
  <2>1. \A f \in 1 .. n : frames[f].frees = IF f \in ReachableFrames THEN 0 ELSE 1
    BY <1>1, <1>2 DEF FreedOnce, Freed
  <2>2. ReachableFrames = {global_frame} \cup Discarded \cup locals
    BY DEF ReachableFrames, Discarded
  <2>3. \A f \in Discarded : f \notin {global_frame} \cup locals
    BY <1>1 DEF Discarded, Frame, PlacesDiffer
  <2> QED
    BY <1>3, <2>1, <2>2, <2>3
<1>5. frame_stack' = frame_stack /\ Occupied(frame_stack)' = Occupied(frame_stack) /\ locals' = locals
  BY DEF CreateFrame, Occupied
<1>6. locals \subseteq 1 .. n
  BY <1>2 DEF ReachableFrames
<1>7. ASSUME frames' = Append(after, NewFrame), temp_frame' = n + 1, Continue
      PROVE  PlacesDiffer' /\ FreedOnce'
  <2>1. DOMAIN frames' = 1 .. n + 1 /\ Len(frames') = n + 1 /\ frames'[n + 1] = NewFrame
        /\ \A f \in 1 .. n : frames'[f] = after[f]
    BY <1>2, <1>3, <1>7
  <2>2. \A f \in 1 .. n + 1 : frames'[f].frees = IF f \in {global_frame, n + 1} \cup locals THEN 0 ELSE 1
    <3>1. NewFrame.frees = 0
      BY DEF NewFrame
    <3>2. n + 1 \notin {global_frame} \cup locals
      BY <1>2, <1>6
    <3>3. \A f \in 1 .. n : frames'[f].frees = IF f \in {global_frame} \cup locals THEN 0 ELSE 1
      BY <1>4, <2>1
    <3> QED
      BY <1>2, <2>1, <3>1, <3>2, <3>3
  <2>3. ReachableFrames' = {global_frame, n + 1} \cup locals
    BY <1>5, <1>7, <1>2 DEF ReachableFrames, Frame, global_frame
  <2>4. FreedOnce'
    <3>1. ReachableFrames' \subseteq DOMAIN frames'
      BY <1>2, <1>6, <2>1, <2>3
    <3>2. \A f \in DOMAIN frames' : frames'[f].frees = IF f \in ReachableFrames' THEN 0 ELSE 1
      BY <2>1, <2>2, <2>3
    <3> QED
      BY <3>1, <3>2, FreedFromCounts
  <2>5. PlacesDiffer'
    <3>1. temp_frame' # global_frame
      BY <1>2, <1>7
    <3>2. \A i \in Occupied(frame_stack) : frame_stack.data[i] \in DOMAIN frames' \ {global_frame, temp_frame'}
      BY <1>1, <1>2, <1>6, <1>7, <2>1 DEF PlacesDiffer
    <3> QED
      BY <1>1, <1>5, <3>1, <3>2 DEF PlacesDiffer, global_frame
  <2> QED
    BY <2>4, <2>5
<1>8. ASSUME frames' = after, temp_frame' = NoFrame, OutOfMemory
      PROVE  PlacesDiffer' /\ FreedOnce'
  <2>1. ReachableFrames' = {global_frame} \cup locals
    BY <1>5, <1>8 DEF ReachableFrames, Frame, global_frame
  <2>2. FreedOnce'
    BY <1>2, <1>3, <1>4, <1>6, <1>8, <2>1, FreedFromCounts
  <2>3. PlacesDiffer'
    BY <1>1, <1>2, <1>3, <1>5, <1>6, <1>8 DEF PlacesDiffer, global_frame
  <2> QED
    BY <2>2, <2>3
<1> QED
  BY <1>1, <1>7, <1>8, FramesFromPlaces DEF CreateFrame

LEMMA PushFrameFrames ==
    TypeInv /\ StacksAllocated /\ FramesInv /\ PushFrame => FramesInv'
<1> SUFFICES ASSUME TypeInv, StacksAllocated, FramesInv, PushFrame PROVE FramesInv'
  OBVIOUS
<1> USE InterpreterAssumption
<1> DEFINE n == Len(frames)
           s == frame_stack
           m == frame_stack.size
<1>1. running /\ PlacesDiffer /\ FreedOnce /\ (\A f \in DOMAIN frames : ~Freed(f) <=> f \in ReachableFrames)
  BY RunningPlaced DEF PushFrame, Runs
<1>2. n \in Nat /\ DOMAIN frames = 1 .. n /\ global_frame \in 1 .. n /\ ReachableFrames \subseteq 1 .. n
  BY <1>1, FramesFinite, ReachableThere
<1>3. frames' = frames /\ (\A f \in DOMAIN frames : Freed(f)' <=> Freed(f)) /\ released' = released /\ ir' = ir
  BY DEF PushFrame, Freed
<1>4. m \in Nat /\ m <= Len(s.data) /\ s.data \in Seq(DOMAIN frames \cup {NoFrame})
  BY DEF TypeInv, StackRecord, StackOf, StacksAllocated, StackAllocated
<1>5. CASE UNCHANGED <<temp_frame, frame_stack>>
  BY <1>1, <1>3, <1>5, FramesStay
<1>6. CASE frame_stack' = Pushed(s, temp_frame, NoFrame) /\ temp_frame' = MovedFrame /\ temp_frame # NoFrame /\ Continue
  <2>1. /\ frame_stack'.size = m + 1 /\ m + 1 <= Len(frame_stack'.data) /\ Len(s.data) <= Len(frame_stack'.data)
        /\ frame_stack'.data \in Seq(DOMAIN frames \cup {NoFrame})
        /\ \A i \in 1 .. Len(frame_stack'.data) : frame_stack'.data[i] =
              IF i = m + 1 THEN temp_frame ELSE IF i <= Len(s.data) THEN s.data[i] ELSE NoFrame
    <3> DEFINE E == DOMAIN frames \cup {NoFrame}
    <3>1. StackRecord(s, E) /\ temp_frame \in E /\ NoFrame \in E
          /\ s.size <= Len(s.data) /\ s.capacity > 0 /\ s.capacity = Len(s.data)
      BY <1>1 DEF TypeInv, StacksAllocated, StackAllocated
    <3> HIDE DEF E
    <3>2. /\ StackRecord(frame_stack', E)
          /\ frame_stack'.size = m + 1 /\ m + 1 <= Len(frame_stack'.data) /\ Len(s.data) <= Len(frame_stack'.data)
          /\ \A i \in 1 .. Len(frame_stack'.data) : frame_stack'.data[i] =
                IF i = m + 1 THEN temp_frame ELSE IF i <= Len(s.data) THEN s.data[i] ELSE NoFrame
      BY <1>6, <3>1, PushedStack
    <3> QED
      BY <3>2 DEF E, StackRecord, StackOf
  <2>2. Occupied(s) = 1 .. m /\ Occupied(frame_stack)' = 1 .. m + 1 /\ m + 1 \in 1 .. m + 1
    BY <1>4, <2>1 DEF Occupied
  <2>3. frame_stack'.data[m + 1] = temp_frame /\ \A i \in 1 .. m : frame_stack'.data[i] = s.data[i]
    BY <1>4, <2>1
  <2>4. 1 .. m + 1 = 1 .. m \cup {m + 1}
    BY <1>4
  <2>5. {frame_stack'.data[i] : i \in 1 .. m + 1} = {s.data[i] : i \in 1 .. m} \cup {temp_frame}
    BY <2>3, <2>4
  <2>6. ReachableFrames' = ReachableFrames
    BY <1>6, <2>2, <2>5 DEF ReachableFrames, Frame, MovedFrame, global_frame
  <2>7. FreedOnce'
    BY <1>1, <1>2, <1>3, <2>6, FreedFromCounts DEF FreedOnce, Freed
  <2>8. temp_frame' # global_frame'
    BY <1>2, <1>6 DEF MovedFrame, global_frame
  <2>9. \A i \in 1 .. m + 1 : frame_stack'.data[i] \in DOMAIN frames \ {global_frame, NoFrame}
    <3>1. \A i \in 1 .. m : s.data[i] \in DOMAIN frames \ {global_frame, NoFrame}
      BY <1>1, <1>2, <2>2 DEF PlacesDiffer
    <3>2. temp_frame \in DOMAIN frames \ {global_frame, NoFrame}
      BY <1>1, <1>6 DEF PlacesDiffer, TypeInv
    <3> QED
      BY <2>3, <2>4, <3>1, <3>2
  <2>10. \A i, j \in 1 .. m + 1 : frame_stack'.data[i] = frame_stack'.data[j] => i = j
    <3>1. \A i, j \in 1 .. m : s.data[i] = s.data[j] => i = j
      BY <1>1, <2>2 DEF PlacesDiffer
    <3>2. \A i \in 1 .. m : s.data[i] # temp_frame
      BY <1>1, <2>2 DEF PlacesDiffer
    <3> QED
      BY <2>3, <2>4, <3>1, <3>2
  <2>11. \A i \in DOMAIN frame_stack'.data : i > m + 1 => frame_stack'.data[i] = NoFrame
    <3>1. \A i \in DOMAIN s.data : i > m => s.data[i] = NoFrame
      BY <1>1 DEF PlacesDiffer
    <3>2. DOMAIN frame_stack'.data = 1 .. Len(frame_stack'.data) /\ DOMAIN s.data = 1 .. Len(s.data)
      BY <1>4, <2>1
    <3> QED
      BY <1>4, <2>1, <3>1, <3>2
  <2>12. PlacesDiffer'
    BY <1>3, <1>6, <2>1, <2>2, <2>8, <2>9, <2>10, <2>11 DEF PlacesDiffer, MovedFrame, global_frame
  <2> QED
    BY <1>1, <1>3, <2>7, <2>12, FramesFromPlaces
<1>7. CASE frame_stack' = PushFailed(s) /\ temp_frame' = MovedFrame /\ temp_frame # NoFrame /\ OutOfMemory
  <2>1. frame_stack'.size = m /\ frame_stack'.data = s.data
    BY <1>7, PushFailedStack DEF TypeInv
  <2>2. Occupied(frame_stack)' = Occupied(s)
    BY <2>1 DEF Occupied
  <2>3. status' = "INTERNAL_ERROR" /\ instruction' = instruction /\ instruction.op = "PUSH_F" /\ ~running'
    BY <1>3, <1>7 DEF OutOfMemory, Stop, instruction, PushFrame, Runs, running
  <2>4. ReachableFrames' = ReachableFrames \ {temp_frame}
    <3> DEFINE locals == {s.data[i] : i \in Occupied(s)}
    <3>1. ReachableFrames = {global_frame, temp_frame} \cup locals
      BY <1>7 DEF ReachableFrames, Frame
    <3>2. ReachableFrames' = {global_frame} \cup locals
      BY <1>7, <2>1, <2>2 DEF ReachableFrames, Frame, MovedFrame, global_frame
    <3>3. temp_frame \notin {global_frame} \cup locals
      BY <1>1 DEF PlacesDiffer
    <3> QED
      BY <3>1, <3>2, <3>3
  <2>5. FreedOnce'
    <3>1. \A f \in DOMAIN frames \ ReachableFrames' : ~Freed(f) => f = temp_frame
      BY <1>1, <2>4
    <3>2. \A f \in ReachableFrames' : ~Freed(f)'
      BY <1>1, <1>2, <1>3, <2>4
    <3>3. \A f \in DOMAIN frames' : frames'[f].frees \in {0, 1}
      BY <1>1, <1>3 DEF FreedOnce
    <3> QED
      BY <1>3, <2>3, <3>1, <3>2, <3>3 DEF FreedOnce
  <2>6. PlacesDiffer'
    BY <1>1, <1>2, <1>3, <1>7, <2>1, <2>2, <2>3 DEF PlacesDiffer, MovedFrame, global_frame
  <2> QED
    BY <1>1, <1>3, <2>5, <2>6, FramesFromPlaces
<1> QED
  BY <1>5, <1>6, <1>7 DEF PushFrame

LEMMA PopFrameFrames ==
    TypeInv /\ StacksAllocated /\ FramesInv /\ PopFrame => FramesInv'
<1> SUFFICES ASSUME TypeInv, StacksAllocated, FramesInv, PopFrame PROVE FramesInv'
  OBVIOUS
<1>1. running /\ released' = released
  BY DEF PopFrame, Runs
<1>2. CASE Empty(frame_stack)
  BY <1>1, <1>2, FramesStay DEF PopFrame
<1>3. CASE ~Empty(frame_stack)
  <2>1. status' \notin ErrorCodes \cup {"running"}
    BY <1>3 DEF PopFrame, UsesSlotAbove, Stop, ErrorCodes
  <2> QED
    BY <1>1, <2>1, FramesFromPlaces
<1> QED
  BY <1>2, <1>3

LEMMA DefVarFrames ==
    TypeInv /\ StacksAllocated /\ FramesInv /\ DefVar => FramesInv'
<1> SUFFICES ASSUME TypeInv, StacksAllocated, FramesInv, DefVar PROVE FramesInv'
  OBVIOUS
<1> DEFINE where == instruction.where
           x == instruction.name
           f == DefinedIn(where)
<1>1. running /\ where \in Places /\ x \in Names
  BY Running DEF DefVar
<1>2. NoValue \in Literals
  BY DEF Literals
<1>3. /\ DOMAIN frames' = DOMAIN frames
      /\ \A g \in DOMAIN frames : frames'[g].frees = frames[g].frees
  <2>1. CASE FrameMissing(where)
    BY <2>1 DEF DefVar
  <2>2. CASE ~FrameMissing(where)
    <3>1. f \in DOMAIN frames
      BY <1>1, <2>2, DefinedThere
    <3>2. frames' \in {frames, Grow(f, frames), Grow(f, Assign(f, x, NoValue))}
      BY <2>2 DEF DefVar
    <3>3. /\ Assign(f, x, NoValue) \in Seq(FrameRecords)
          /\ DOMAIN Assign(f, x, NoValue) = DOMAIN frames
          /\ \A g \in DOMAIN frames : Assign(f, x, NoValue)[g].frees = frames[g].frees
      BY ZenonT(60), <1>1, <1>2, <3>1, AssignEffect DEF TypeInv
    <3> HIDE DEF f, x
    <3> DEFINE assigned == Assign(f, x, NoValue)
    <3>4. /\ DOMAIN Grow(f, frames) = DOMAIN frames
          /\ \A g \in DOMAIN frames : Grow(f, frames)[g].frees = frames[g].frees
      BY <3>1, GrowEffect DEF TypeInv
    <3>5. /\ DOMAIN Grow(f, assigned) = DOMAIN frames
          /\ \A g \in DOMAIN frames : Grow(f, assigned)[g].frees = frames[g].frees
      <4> HIDE DEF assigned
      <4> QED
        BY <3>1, <3>3, GrowEffect DEF assigned
    <3> QED
      BY <3>2, <3>4, <3>5
  <2> QED
    BY <2>1, <2>2
<1> QED
  BY <1>1, <1>3, FramesStay DEF DefVar

LEMMA MoveFrames ==
    TypeInv /\ StacksAllocated /\ FramesInv /\ Move => FramesInv'
<1> SUFFICES ASSUME TypeInv, StacksAllocated, FramesInv, Move PROVE FramesInv'
  OBVIOUS
<1>1. running /\ code_pos + 1 \in Literals /\ instruction.where \in Places /\ instruction.name \in Names
  BY Running DEF Move
<1>2. CASE UNCHANGED frames
  BY <1>1, <1>2, FramesStay DEF Move
<1>3. CASE /\ Found(instruction.where, instruction.name)
           /\ frames' = Assign(FrameOf(instruction.where), instruction.name, code_pos + 1)
  <2>1. FrameOf(instruction.where) \in DOMAIN frames
    BY <1>1, <1>3, FrameThere DEF Found
  <2> QED
    BY ZenonT(60), <1>1, <1>3, <2>1, AssignEffect, FramesStay DEF Move, TypeInv
<1> QED
  BY <1>2, <1>3 DEF Move

LEMMA PopValueFrames ==
    TypeInv /\ StacksAllocated /\ FramesInv /\ PopValue => FramesInv'
<1> SUFFICES ASSUME TypeInv, StacksAllocated, FramesInv, PopValue PROVE FramesInv'
  OBVIOUS
<1>1. running /\ released' = released /\ UNCHANGED <<temp_frame, frame_stack>>
  BY DEF PopValue, Runs
<1>2. CASE UNCHANGED frames
  BY <1>1, <1>2, FramesStay
<1>3. CASE \E where \in Places, x \in Names : PopTo(where, x)
  <2>1. PICK where \in Places, x \in Names : PopTo(where, x)
    BY <1>3
  <2>2. FrameOf(where) \in DOMAIN frames /\ value_stack.data[TopSlot(value_stack)] \in Literals
    BY <1>1, <2>1, PopToEffect
  <2> QED
    <3> DEFINE v == value_stack.data[TopSlot(value_stack)]
    <3>1. frames' = Assign(FrameOf(where), x, v) /\ frames \in Seq(FrameRecords)
      BY <2>1 DEF PopTo, TypeInv
    <3>2. v \in Literals
      BY <2>2
    <3> HIDE DEF v
    <3>3. /\ DOMAIN frames' = DOMAIN frames
          /\ \A g \in DOMAIN frames : frames'[g].frees = frames[g].frees
      BY ZenonT(60), <2>2, <3>1, <3>2, AssignEffect
    <3> QED
      BY <1>1, <3>3, FramesStay
<1> QED
  BY <1>2, <1>3 DEF PopValue

LEMMA ReleaseMemoryFrames ==
    TypeInv /\ StacksAllocated /\ FramesInv /\ ReleaseMemory => FramesInv'
<1> SUFFICES ASSUME TypeInv, StacksAllocated, FramesInv, ReleaseMemory PROVE FramesInv'
  OBVIOUS
<1>1. released' /\ ~running /\ ~running' /\ PlacesDiffer /\ FreedOnce
      /\ status' = status /\ instruction' = instruction
  BY DEF ReleaseMemory, FramesInv, FramesPlaced, running, ErrorCodes, instruction
<1>2. ReachableFrames \subseteq DOMAIN frames
  BY <1>1, ReachableThere
<1>3. /\ DOMAIN frames' = DOMAIN frames
      /\ \A f \in DOMAIN frames : frames'[f].frees =
            IF f \in ReachableFrames THEN frames[f].frees + 1 ELSE frames[f].frees
  BY FramesAfterEffect DEF ReleaseMemory, TypeInv
<1>4. \A f \in DOMAIN frames : frames'[f].frees \in {0, 1} /\ (frames'[f].frees = 0 <=> f \notin ReachableFrames /\ ~Freed(f))
  <2>1. \A f \in DOMAIN frames : frames[f].frees \in {0, 1} /\ (f \in ReachableFrames => frames[f].frees = 0)
    BY <1>1 DEF FreedOnce, Freed
  <2> QED
    BY <1>3, <2>1 DEF Freed
<1> DEFINE lost == {f \in DOMAIN frames : f \notin ReachableFrames /\ ~Freed(f)}
<1>5. {f \in DOMAIN frames' : frames'[f].frees = 0} = lost
  BY <1>3, <1>4
<1>6. Cardinality(lost) <= IF status = "INTERNAL_ERROR" /\ instruction.op = "PUSH_F" THEN 1 ELSE 0
  <2>1. CASE lost = {}
    BY <2>1, FS_EmptySet
  <2>2. CASE lost # {}
    <3>1. PICK f \in lost : TRUE
      BY <2>2
    <3>2. lost = {f}
      BY <1>1, <3>1 DEF FreedOnce
    <3>3. status = "INTERNAL_ERROR" /\ instruction.op = "PUSH_F"
      BY <1>1, <3>1 DEF FreedOnce
    <3> QED
      BY <3>2, <3>3, FS_Singleton
  <2> QED
    BY <2>1, <2>2
<1>7. FramesReleasedOnce'
  <2>1. \A f \in DOMAIN frames' : frames'[f].frees <= 1
    BY <1>3, <1>4
  <2> QED
    BY <1>1, <1>5, <1>6, <2>1 DEF FramesReleasedOnce
<1> QED
  BY <1>1, <1>7 DEF FramesInv, FramesPlaced, ReleasedAtTheEnd

LEMMA StepFrames ==
    TypeInv /\ StacksAllocated /\ FramesInv /\ [Next]_vars => FramesInv'
<1> SUFFICES ASSUME TypeInv, StacksAllocated, FramesInv, [Next]_vars PROVE FramesInv'
  OBVIOUS
<1>1. CASE PushValue \/ Call \/ Return \/ Jump \/ Skip \/ RunOff
  <2>1. running /\ released' = released /\ UNCHANGED <<frames, temp_frame, frame_stack>>
    BY <1>1 DEF PushValue, Call, Return, Jump, Skip, RunOff, Runs, memory_vars
  <2> QED
    BY <2>1, FramesStay
<1>2. CASE UNCHANGED vars
  BY <1>2 DEF FramesInv, FramesPlaced, FramesReleasedOnce, ReleasedAtTheEnd, PlacesDiffer, FreedOnce, Freed,
              ReachableFrames, Frame, Occupied, running, instruction, global_frame, ErrorCodes, vars, memory_vars
<1> QED
  BY <1>1, <1>2, CreateFrameFrames, PushFrameFrames, PopFrameFrames, DefVarFrames, MoveFrames, PopValueFrames,
     ReleaseMemoryFrames DEF Next, interpret_ir

LEMMA FramesAlways == Spec => [](TypeInv /\ StacksAllocated /\ FramesInv)
<1>1. TypeInv /\ StacksAllocated /\ FramesInv /\ [Next]_vars => (TypeInv /\ StacksAllocated /\ FramesInv)'
  BY StepType, StepFrames
<1>2. Init => TypeInv /\ StacksAllocated /\ FramesInv
  BY InitType, InitFrames
<1> QED
  BY <1>1, <1>2, PTL DEF Spec

(* The places of a frame that is reached are one.                           *)
LEMMA OnePlace ==
    ASSUME TypeInv, StacksAllocated, PlacesDiffer, running, NEW f \in DOMAIN frames
    PROVE  Cardinality(PlacesOf(f)) = IF f \in ReachableFrames THEN 1 ELSE 0
<1> USE InterpreterAssumption
<1> DEFINE d == frame_stack.data
           globals == {<<"global", 0>> : g \in {global_frame} \cap {f}}
           temporaries == {<<"temporary", 0>> : g \in Frame(temp_frame) \cap {f}}
           places == {<<"local", i>> : i \in {j \in DOMAIN d : d[j] = f}}
<1>1. PlacesOf(f) = globals \cup temporaries \cup places
  BY DEF PlacesOf
<1>2. f # NoFrame /\ frame_stack.size \in Nat /\ DOMAIN d = 1 .. Len(d) /\ Len(d) \in Nat
  BY SMTT(60), FramesFinite DEF TypeInv, StackRecord, StackOf
<1>3. {j \in DOMAIN d : d[j] = f} \subseteq Occupied(frame_stack)
  <2>1. \A j \in DOMAIN d : d[j] = f => j <= frame_stack.size
    BY <1>2 DEF PlacesDiffer
  <2> QED
    BY <1>2, <2>1 DEF Occupied
<1>4. CASE f = global_frame
  <2>1. temporaries = {} /\ places = {} /\ globals = {<<"global", 0>>}
    BY <1>3, <1>4 DEF PlacesDiffer, Frame
  <2>2. f \in ReachableFrames
    BY <1>4 DEF ReachableFrames
  <2> QED
    BY ZenonT(60), <1>1, <2>1, <2>2, FS_Singleton
<1>5. CASE f = temp_frame
  <2>1. temporaries = {<<"temporary", 0>>} /\ places = {} /\ globals = {}
    BY <1>2, <1>3, <1>5 DEF PlacesDiffer, Frame
  <2>2. f \in ReachableFrames
    BY <1>2, <1>5 DEF ReachableFrames, Frame
  <2> QED
    BY ZenonT(60), <1>1, <2>1, <2>2, FS_Singleton
<1>6. CASE f # global_frame /\ f # temp_frame
  <2>1. temporaries = {} /\ globals = {}
    BY <1>6 DEF Frame
  <2>2. CASE \E i \in DOMAIN d : d[i] = f
    <3>1. PICK i \in DOMAIN d : d[i] = f
      BY <2>2
    <3>2. {j \in DOMAIN d : d[j] = f} = {i} /\ i \in Occupied(frame_stack)
      BY <1>3, <3>1 DEF PlacesDiffer
    <3>3. places = {<<"local", i>>}
      BY <3>2
    <3>4. f \in ReachableFrames
      BY <3>1, <3>2 DEF ReachableFrames
    <3> QED
      BY <1>1, <2>1, <3>3, <3>4, FS_Singleton
  <2>3. CASE ~\E i \in DOMAIN d : d[i] = f
    <3>1. places = {}
      BY <2>3
    <3>2. Occupied(frame_stack) \subseteq DOMAIN d
      BY <1>2 DEF StacksAllocated, StackAllocated, Occupied
    <3>3. f \notin ReachableFrames
      BY <1>2, <1>6, <2>3, <3>2 DEF ReachableFrames, Frame
    <3> QED
      BY <1>1, <2>1, <3>1, <3>3, FS_EmptySet
  <2> QED
    BY <2>2, <2>3
<1> QED
  BY <1>4, <1>5, <1>6

(* While the program runs a frame is in exactly one place, or freed: however*)
(* long the program, no frame is reached under two names or after it was    *)
(* freed, and none is lost.                                                 *)
THEOREM FramesHaveOnePlace == Spec => []FramesInOnePlace
<1>1. TypeInv /\ StacksAllocated /\ FramesInv => FramesInOnePlace
  <2> SUFFICES ASSUME TypeInv, StacksAllocated, FramesInv, running, NEW f \in DOMAIN frames
               PROVE  Cardinality(PlacesOf(f)) = IF frames[f].frees = 0 THEN 1 ELSE 0
    BY DEF FramesInOnePlace
  <2>1. PlacesDiffer /\ (frames[f].frees = 0 <=> f \in ReachableFrames)
    BY RunningPlaced DEF Freed
  <2> QED
    BY <2>1, OnePlace
<1> QED
  BY <1>1, FramesAlways, PTL

(* Whichever error ends the program, and wherever memory ran out, main frees*)
(* no frame twice and loses one at most, the one a PUSHFRAME had in hand.   *)
THEOREM FramesAreReleasedOnce == Spec => []FramesReleasedOnce
BY FramesAlways, PTL DEF FramesInv

-----------------------------------------------------------------------------
(* Strings have one owner                                                   *)

(* No variable and no slot holds a string of an instruction still to come;  *)
(* and of the others none is held twice.                                    *)
VariableHolds(f, x, l) == x \in Variables(f) /\ frames[f].variables[x] = l

Slots == DOMAIN value_stack.data
SlotHolds(i, l) == value_stack.data[i] = l

StringsAhead ==
    running => \A l \in DOMAIN ir : l > code_pos =>
        /\ \A f \in DOMAIN frames, x \in Names : ~VariableHolds(f, x, l)
        /\ \A i \in Slots : ~SlotHolds(i, l)

StringsOwned ==
    \A l \in DOMAIN ir :
        /\ \A f, g \in DOMAIN frames, x, y \in Names :
              VariableHolds(f, x, l) /\ VariableHolds(g, y, l) => f = g /\ x = y
        /\ \A i, j \in Slots : SlotHolds(i, l) /\ SlotHolds(j, l) => i = j
        /\ \A f \in DOMAIN frames, x \in Names, i \in Slots : VariableHolds(f, x, l) => ~SlotHolds(i, l)

OwnersInv == NeverReturns => StringsAhead /\ StringsOwned

LEMMA InitOwners == Init => OwnersInv
<1> SUFFICES ASSUME Init PROVE OwnersInv
  OBVIOUS
<1> USE InterpreterAssumption
<1>1. \A f \in DOMAIN frames, x \in Names : x \notin Variables(f)
  <2>1. \A f \in DOMAIN frames : frames[f] = NewFrame
    BY DEF Init
  <2>2. DOMAIN NewFrame.variables = {}
    BY DEF NewFrame
  <2> QED
    BY <2>1, <2>2 DEF Variables
<1>2. \A i \in Slots : \A l \in DOMAIN ir : value_stack.data[i] # l
  <2>1. value_stack.data \in Seq({NoValue})
    <3>1. NoValue \in {NoValue}
      OBVIOUS
    <3> QED
      BY <3>1, FreshStack DEF Init, StackRecord, StackOf
  <2>2. \A l \in DOMAIN ir : l # NoValue
    BY DEF WellFormed, Init
  <2> QED
    BY <2>1, <2>2 DEF Slots
<1> QED
  BY <1>1, <1>2 DEF OwnersInv, StringsAhead, StringsOwned, VariableHolds, SlotHolds

(* Values are lost, or stay where they are.                                 *)
LEMMA OwnersShrink ==
    ASSUME TypeInv, OwnersInv, ir' = ir,
           \A l \in DOMAIN ir, x \in Names : \A f \in DOMAIN frames' :
              VariableHolds(f, x, l)' => f \in DOMAIN frames /\ VariableHolds(f, x, l),
           \A l \in DOMAIN ir : \A i \in Slots' : SlotHolds(i, l)' => i \in Slots /\ SlotHolds(i, l),
           running' => running /\ code_pos' \in Nat /\ code_pos' >= code_pos
    PROVE  OwnersInv'
<1> SUFFICES ASSUME NeverReturns' PROVE StringsAhead' /\ StringsOwned'
  BY DEF OwnersInv
<1>1. NeverReturns /\ StringsAhead /\ StringsOwned
  BY DEF NeverReturns, OwnersInv
<1>2. \A l \in DOMAIN ir : l \in Nat
  BY InterpreterAssumption DEF TypeInv, WellFormed
<1>3. StringsOwned'
  BY <1>1 DEF StringsOwned
<1>4. ASSUME running', NEW l \in DOMAIN ir, l > code_pos'
      PROVE  /\ \A f \in DOMAIN frames', x \in Names : ~VariableHolds(f, x, l)'
             /\ \A i \in Slots' : ~SlotHolds(i, l)'
  <2>1. l > code_pos /\ running
    BY <1>2, <1>4 DEF TypeInv
  <2> QED
    BY <1>1, <1>4, <2>1 DEF StringsAhead
<1>5. StringsAhead'
  BY <1>4 DEF StringsAhead
<1> QED
  BY <1>3, <1>5

(* A variable gets a string that no variable has and no slot keeps.         *)
LEMMA VariableGains ==
    ASSUME TypeInv, OwnersInv, ir' = ir, DOMAIN frames' = DOMAIN frames,
           NEW target, NEW name, NEW string,
           \A l \in DOMAIN ir, f \in DOMAIN frames, x \in Names :
              VariableHolds(f, x, l)' =>
                 VariableHolds(f, x, l) \/ (f = target /\ x = name /\ l = string),
           \A f \in DOMAIN frames, x \in Names : ~VariableHolds(f, x, string),
           \A l \in DOMAIN ir : \A i \in Slots' :
              SlotHolds(i, l)' => i \in Slots /\ SlotHolds(i, l) /\ l # string,
           running' => running /\ code_pos' \in Nat /\ code_pos' >= code_pos /\ ~(string > code_pos')
    PROVE  OwnersInv'
<1> SUFFICES ASSUME NeverReturns' PROVE StringsAhead' /\ StringsOwned'
  BY DEF OwnersInv
<1>1. NeverReturns /\ StringsAhead /\ StringsOwned
  BY DEF NeverReturns, OwnersInv
<1>2. \A l \in DOMAIN ir : l \in Nat
  BY InterpreterAssumption DEF TypeInv, WellFormed
<1>3. StringsOwned'
  <2> SUFFICES ASSUME NEW l \in DOMAIN ir
               PROVE  /\ \A f, g \in DOMAIN frames, x, y \in Names :
                            VariableHolds(f, x, l)' /\ VariableHolds(g, y, l)' => f = g /\ x = y
                      /\ \A i, j \in Slots' : SlotHolds(i, l)' /\ SlotHolds(j, l)' => i = j
                      /\ \A f \in DOMAIN frames, x \in Names, i \in Slots' :
                            VariableHolds(f, x, l)' => ~SlotHolds(i, l)'
    BY DEF StringsOwned
  <2>1. CASE l = string
    BY <2>1
  <2>2. CASE l # string
    <3>1. \A f \in DOMAIN frames, x \in Names : VariableHolds(f, x, l)' => VariableHolds(f, x, l)
      BY <2>2
    <3> QED
      BY <1>1, <3>1 DEF StringsOwned
  <2> QED
    BY <2>1, <2>2
<1>4. ASSUME running', NEW l \in DOMAIN ir, l > code_pos'
      PROVE  /\ \A f \in DOMAIN frames', x \in Names : ~VariableHolds(f, x, l)'
             /\ \A i \in Slots' : ~SlotHolds(i, l)'
  <2>1. l > code_pos /\ running /\ l # string
    BY <1>2, <1>4 DEF TypeInv
  <2> QED
    BY <1>1, <1>4, <2>1 DEF StringsAhead
<1>5. StringsAhead'
  BY <1>4 DEF StringsAhead
<1> QED
  BY <1>3, <1>5

(* Frames whose variables are what they were hold what they held.           *)
LEMMA SameVariables ==
    ASSUME \A f \in DOMAIN frames : f \in DOMAIN frames' => frames'[f].variables = frames[f].variables,
           \A f \in DOMAIN frames' \ DOMAIN frames : DOMAIN frames'[f].variables = {}
    PROVE  \A l, x : \A f \in DOMAIN frames' :
              VariableHolds(f, x, l)' => f \in DOMAIN frames /\ VariableHolds(f, x, l)
BY DEF VariableHolds, Variables

LEMMA SameSlots ==
    ASSUME value_stack'.data = value_stack.data
    PROVE  \A l : \A i \in Slots' : SlotHolds(i, l)' => i \in Slots /\ SlotHolds(i, l)
BY DEF Slots, SlotHolds

(* Steps that assign nothing.                                               *)
LEMMA FramesKeepOwners ==
    TypeInv /\ StacksAllocated /\ OwnersInv /\ (CreateFrame \/ PushFrame \/ PopFrame) => OwnersInv'
<1> SUFFICES ASSUME TypeInv, StacksAllocated, OwnersInv, CreateFrame \/ PushFrame \/ PopFrame PROVE OwnersInv'
  OBVIOUS
<1>1. running /\ code_pos \in Nat /\ ir' = ir /\ value_stack' = value_stack /\ code_pos' \in Nat /\ code_pos' >= code_pos
  BY DEF CreateFrame, PushFrame, PopFrame, Runs, TypeInv, Continue, Goto, Stop, OutOfMemory, UsesSlotAbove
<1>2. /\ \A f \in DOMAIN frames : f \in DOMAIN frames' => frames'[f].variables = frames[f].variables
      /\ \A f \in DOMAIN frames' \ DOMAIN frames : DOMAIN frames'[f].variables = {}
  <2>1. /\ FramesAfter(Discarded) \in Seq(FrameRecords)
        /\ DOMAIN FramesAfter(Discarded) = DOMAIN frames
        /\ \A f \in DOMAIN frames : FramesAfter(Discarded)[f].variables = frames[f].variables
    BY FramesAfterEffect DEF TypeInv
  <2>2. CASE frames' = frames
    BY <2>2
  <2>3. CASE frames' = FramesAfter(Discarded)
    BY <2>1, <2>3
  <2>4. CASE frames' = Append(FramesAfter(Discarded), NewFrame)
    <3>1. DOMAIN NewFrame.variables = {}
      BY DEF NewFrame
    <3>2. \A f \in DOMAIN frames' : IF f \in DOMAIN frames THEN frames'[f] = FramesAfter(Discarded)[f] ELSE frames'[f] = NewFrame
      BY <2>1, <2>4
    <3> QED
      BY <2>1, <3>1, <3>2
  <2> QED
    BY <2>2, <2>3, <2>4 DEF CreateFrame, PushFrame, PopFrame
<1>3. \A l, x : \A f \in DOMAIN frames' : VariableHolds(f, x, l)' => f \in DOMAIN frames /\ VariableHolds(f, x, l)
  BY <1>2, SameVariables
<1>4. \A l : \A i \in Slots' : SlotHolds(i, l)' => i \in Slots /\ SlotHolds(i, l)
  BY <1>1, SameSlots
<1> QED
  BY <1>1, <1>3, <1>4, OwnersShrink

LEMMA QuietKeepsOwners ==
    TypeInv /\ OwnersInv /\ (Call \/ Return \/ Jump \/ Skip \/ RunOff) => OwnersInv'
<1> SUFFICES ASSUME TypeInv, OwnersInv, Call \/ Return \/ Jump \/ Skip \/ RunOff PROVE OwnersInv'
  OBVIOUS
<1>1. running /\ code_pos \in Nat /\ ir' = ir /\ value_stack' = value_stack /\ frames' = frames
  BY DEF Call, Return, Jump, Skip, RunOff, Runs, TypeInv, memory_vars
<1>2. CASE Return
  <2>1. code_pos + 1 \in DOMAIN ir /\ ir[code_pos + 1].op = "RETURN"
    BY <1>2, Running DEF Return, instruction
  <2>2. ~NeverReturns'
    BY <1>1, <2>1 DEF NeverReturns
  <2> QED
    BY <2>2 DEF OwnersInv
<1>3. CASE Call \/ Jump \/ Skip \/ RunOff
  <2>1. code_pos' \in Nat /\ code_pos' >= code_pos
    <3>1. CASE Jump
      <4>1. instruction.destination \in code_pos + 1 .. Len(ir) - 1 /\ Len(ir) \in Nat
        BY <3>1, Running DEF Jump
      <4> QED
        BY <1>1, <3>1, <4>1 DEF Jump, Goto
    <3>2. CASE Call \/ Skip \/ RunOff
      BY <1>1, <3>2 DEF Call, Skip, RunOff, Continue, Goto, OutOfMemory, Stop
    <3> QED
      BY <1>3, <3>1, <3>2
  <2>2. \A l, x : \A f \in DOMAIN frames' : VariableHolds(f, x, l)' => f \in DOMAIN frames /\ VariableHolds(f, x, l)
    BY <1>1, SameVariables
  <2>3. \A l : \A i \in Slots' : SlotHolds(i, l)' => i \in Slots /\ SlotHolds(i, l)
    BY <1>1, SameSlots
  <2> QED
    BY <1>1, <2>1, <2>2, <2>3, OwnersShrink
<1> QED
  BY <1>2, <1>3

LEMMA DefVarKeepsOwners ==
    TypeInv /\ StacksAllocated /\ OwnersInv /\ DefVar => OwnersInv'
<1> SUFFICES ASSUME TypeInv, StacksAllocated, OwnersInv, DefVar PROVE OwnersInv'
  OBVIOUS
<1> USE InterpreterAssumption
<1> DEFINE where == instruction.where
           x == instruction.name
           f == DefinedIn(where)
<1>1. running /\ code_pos \in Nat /\ ir' = ir /\ value_stack' = value_stack /\ code_pos' \in Nat /\ code_pos' >= code_pos
  <2>1. running /\ code_pos \in Nat /\ ir' = ir /\ value_stack' = value_stack
    BY DEF DefVar, Runs, TypeInv
  <2>2. code_pos' = code_pos + 1 \/ code_pos' = code_pos
    BY DEF DefVar, Continue, Goto, Stop
  <2> QED
    BY <2>1, <2>2
<1>2. where \in Places /\ x \in Names /\ NoValue \in Literals /\ NoValue \notin DOMAIN ir
  <2>1. where \in Places /\ x \in Names
    BY Running DEF DefVar
  <2>2. \A l \in DOMAIN ir : l \in Nat
    BY DEF TypeInv, WellFormed
  <2> QED
    BY <2>1, <2>2 DEF Literals
<1>3. \A l \in DOMAIN ir, y \in Names : \A g \in DOMAIN frames' :
          VariableHolds(g, y, l)' => g \in DOMAIN frames /\ VariableHolds(g, y, l)
  <2>1. CASE frames' = frames
    BY <2>1, SameVariables
  <2>2. CASE ~FrameMissing(where) /\ frames' = Grow(f, frames)
    <3>1. f \in DOMAIN frames
      BY <1>2, <2>2, DefinedThere
    <3> HIDE DEF f
    <3>2. DOMAIN frames' = DOMAIN frames /\ \A g \in DOMAIN frames : frames'[g].variables = frames[g].variables
      BY <2>2, <3>1, GrowEffect DEF TypeInv
    <3> QED
      BY <3>2, SameVariables
  <2>3. CASE ~FrameMissing(where) /\ frames' = Grow(f, Assign(f, x, NoValue))
    <3> DEFINE assigned == Assign(f, x, NoValue)
    <3>1. f \in DOMAIN frames
      BY <1>2, <2>3, DefinedThere
    <3>2. frames' = Grow(f, assigned)
      BY <2>3
    <3> HIDE DEF f, x
    <3>3. /\ assigned \in Seq(FrameRecords) /\ DOMAIN assigned = DOMAIN frames
          /\ \A g \in DOMAIN frames : g # f => assigned[g].variables = frames[g].variables
          /\ assigned[f].variables = [y \in Variables(f) \cup {x} |-> IF y = x THEN NoValue ELSE frames[f].variables[y]]
      <4>1. frames \in Seq(FrameRecords) /\ f \in DOMAIN frames /\ x \in Names /\ NoValue \in Literals
        BY <1>2, <3>1 DEF TypeInv
      <4> QED
        BY ONLY ZenonT(60), <4>1, AssignEffect DEF assigned
    <3> HIDE DEF assigned
    <3>4. DOMAIN frames' = DOMAIN frames /\ \A g \in DOMAIN frames : frames'[g].variables = assigned[g].variables
      BY <3>1, <3>2, <3>3, GrowEffect
    <3> QED
      BY <1>2, <3>1, <3>3, <3>4 DEF VariableHolds, Variables
  <2> QED
    BY <2>1, <2>2, <2>3 DEF DefVar
<1>4. \A l : \A i \in Slots' : SlotHolds(i, l)' => i \in Slots /\ SlotHolds(i, l)
  BY <1>1, SameSlots
<1> QED
  BY <1>1, <1>3, <1>4, OwnersShrink

(* After an assignment a variable holds the value, and the others what they *)
(* held.                                                                    *)
LEMMA AssignHolds ==
    ASSUME TypeInv, NEW target \in DOMAIN frames, NEW name \in Names, NEW v \in Literals,
           frames' = Assign(target, name, v)
    PROVE  /\ DOMAIN frames' = DOMAIN frames
           /\ \A l \in DOMAIN ir, f \in DOMAIN frames, x \in Names :
                 VariableHolds(f, x, l)' =>
                    VariableHolds(f, x, l) \/ (f = target /\ x = name /\ l = v)
<1>1. /\ DOMAIN frames' = DOMAIN frames
      /\ \A g \in DOMAIN frames : g # target => frames'[g].variables = frames[g].variables
      /\ frames'[target].variables = [y \in Variables(target) \cup {name} |-> IF y = name THEN v ELSE frames[target].variables[y]]
  BY ZenonT(60), AssignEffect DEF TypeInv
<1> QED
  BY <1>1 DEF VariableHolds, Variables

LEMMA MoveKeepsOwners ==
    TypeInv /\ StacksAllocated /\ OwnersInv /\ Move => OwnersInv'
<1> SUFFICES ASSUME TypeInv, StacksAllocated, OwnersInv, Move, NeverReturns PROVE OwnersInv'
  BY DEF OwnersInv, NeverReturns, Move
<1> DEFINE where == instruction.where
           name == instruction.name
           v == code_pos + 1
<1>1. running /\ code_pos \in Nat /\ ir' = ir /\ value_stack' = value_stack /\ where \in Places /\ name \in Names
      /\ v \in DOMAIN ir /\ v \in Literals
  BY Running DEF Move, TypeInv
<1>2. CASE AccessFails(where, name) /\ UNCHANGED frames
  <2>1. code_pos' = code_pos /\ code_pos' \in Nat
    BY <1>1, <1>2, FailedAccess
  <2>2. \A l, x : \A f \in DOMAIN frames' : VariableHolds(f, x, l)' => f \in DOMAIN frames /\ VariableHolds(f, x, l)
    BY <1>2, SameVariables
  <2>3. \A l : \A i \in Slots' : SlotHolds(i, l)' => i \in Slots /\ SlotHolds(i, l)
    BY <1>1, SameSlots
  <2> QED
    BY <1>1, <2>1, <2>2, <2>3, OwnersShrink
<1>3. CASE Found(where, name) /\ frames' = Assign(FrameOf(where), name, v) /\ Continue
  <2> DEFINE target == FrameOf(where)
  <2>1. target \in DOMAIN frames
    BY <1>1, <1>3, FrameThere DEF Found
  <2>2. /\ DOMAIN frames' = DOMAIN frames
        /\ \A l \in DOMAIN ir, f \in DOMAIN frames, x \in Names :
              VariableHolds(f, x, l)' => VariableHolds(f, x, l) \/ (f = target /\ x = name /\ l = v)
    BY <1>1, <1>3, <2>1, AssignHolds
  <2>3. v > code_pos /\ code_pos' \in Nat /\ code_pos' >= code_pos /\ ~(v > code_pos')
    BY <1>1, <1>3 DEF Continue, Goto
  <2>4. /\ \A f \in DOMAIN frames, x \in Names : ~VariableHolds(f, x, v)
        /\ \A i \in Slots : ~SlotHolds(i, v)
    BY <1>1, <2>3 DEF OwnersInv, StringsAhead
  <2>5. \A l \in DOMAIN ir : \A i \in Slots' : SlotHolds(i, l)' => i \in Slots /\ SlotHolds(i, l) /\ l # v
    BY <1>1, <2>4, SameSlots
  <2> HIDE DEF target, name, v
  <2> QED
    BY <1>1, <2>2, <2>3, <2>4, <2>5, VariableGains
<1> QED
  BY <1>2, <1>3 DEF Move

LEMMA PopValueKeepsOwners ==
    TypeInv /\ StacksAllocated /\ OwnersInv /\ PopValue => OwnersInv'
<1> SUFFICES ASSUME TypeInv, StacksAllocated, OwnersInv, PopValue, NeverReturns PROVE OwnersInv'
  BY DEF OwnersInv, NeverReturns, PopValue
<1>1. running /\ code_pos \in Nat /\ ir' = ir /\ code_pos' \in Nat /\ code_pos' >= code_pos
  <2>1. running /\ code_pos \in Nat /\ ir' = ir
    BY DEF PopValue, Runs, TypeInv
  <2>2. code_pos' = code_pos + 1 \/ code_pos' = code_pos
    BY FailedAccess DEF PopValue, PopTo, Continue, Goto, Stop
  <2> QED
    BY <2>1, <2>2
<1>2. CASE frames' = frames /\ value_stack'.data = value_stack.data
  <2>1. \A l, x : \A f \in DOMAIN frames' : VariableHolds(f, x, l)' => f \in DOMAIN frames /\ VariableHolds(f, x, l)
    BY <1>2, SameVariables
  <2>2. \A l : \A i \in Slots' : SlotHolds(i, l)' => i \in Slots /\ SlotHolds(i, l)
    BY <1>2, SameSlots
  <2> QED
    BY <1>1, <2>1, <2>2, OwnersShrink
<1>3. ASSUME NEW where \in Places, NEW name \in Names, PopTo(where, name) PROVE OwnersInv'
  <2> DEFINE target == FrameOf(where)
             top == TopSlot(value_stack)
             v == value_stack.data[top]
  <2>1. /\ target \in DOMAIN frames /\ v \in Literals /\ top \in Slots
        /\ Len(value_stack'.data) = Len(value_stack.data)
        /\ \A i \in 1 .. Len(value_stack.data) : value_stack'.data[i] = IF i = top THEN NoValue ELSE value_stack.data[i]
    BY <1>1, <1>3, PopToEffect DEF Slots
  <2>2. Slots = 1 .. Len(value_stack.data) /\ Slots' = Slots
    <3>1. (StackRecord(value_stack, Literals))'
      BY <1>1, <1>3, PopToEffect, SameProgram DEF StackRecord, StackOf
    <3> QED
      BY <2>1, <3>1 DEF Slots, TypeInv, StackRecord, StackOf
  <2>3. NoValue \notin DOMAIN ir
    BY InterpreterAssumption DEF TypeInv, WellFormed
  <2>4. \A l \in DOMAIN ir : \A i \in Slots' : SlotHolds(i, l)' => i \in Slots /\ SlotHolds(i, l) /\ i # top
    BY <2>1, <2>2, <2>3 DEF SlotHolds
  <2>5. /\ DOMAIN frames' = DOMAIN frames
        /\ \A l \in DOMAIN ir, f \in DOMAIN frames, x \in Names :
              VariableHolds(f, x, l)' => VariableHolds(f, x, l) \/ (f = target /\ x = name /\ l = v)
    BY <1>3, <2>1, AssignHolds DEF PopTo
  <2>6. SlotHolds(top, v)
    BY DEF SlotHolds
  <2> HIDE DEF target, top, v
  <2>7. CASE v \notin DOMAIN ir
    BY <1>1, <2>4, <2>5, <2>7, OwnersShrink
  <2>8. CASE v \in DOMAIN ir
    <3>1. StringsOwned /\ StringsAhead
      BY DEF OwnersInv
    <3>2. \A f \in DOMAIN frames, x \in Names : ~VariableHolds(f, x, v)
      BY <2>1, <2>6, <2>8, <3>1 DEF StringsOwned
    <3>3. \A l \in DOMAIN ir : \A i \in Slots' : SlotHolds(i, l)' => i \in Slots /\ SlotHolds(i, l) /\ l # v
      BY <2>1, <2>4, <2>6, <2>8, <3>1 DEF StringsOwned
    <3>4. ~(v > code_pos)
      BY <1>1, <2>1, <2>6, <2>8, <3>1 DEF StringsAhead
    <3>5. v \in Nat
      BY <2>8, InterpreterAssumption DEF TypeInv, WellFormed
    <3>6. ~(v > code_pos')
      BY <1>1, <3>4, <3>5
    <3> QED
      BY <1>1, <2>5, <3>2, <3>3, <3>6, VariableGains
  <2> QED
    BY <2>7, <2>8
<1>4. \A where, x : AccessFails(where, x) => TRUE
  OBVIOUS
<1>5. value_stack' = Popped(value_stack) => value_stack'.data = value_stack.data
  BY DEF Popped, TypeInv, StackRecord
<1> QED
  BY <1>2, <1>3, <1>5 DEF PopValue

(* A new string goes to a slot that no string is in.                        *)
LEMMA PushValueKeepsOwners ==
    TypeInv /\ StacksAllocated /\ OwnersInv /\ PushValue => OwnersInv'
<1> SUFFICES ASSUME TypeInv, StacksAllocated, OwnersInv, PushValue, NeverReturns PROVE OwnersInv'
  BY DEF OwnersInv, NeverReturns, PushValue
<1> DEFINE v == code_pos + 1
           s == value_stack
<1>1. running /\ code_pos \in Nat /\ ir' = ir /\ frames' = frames /\ v \in DOMAIN ir /\ v \in Literals /\ v > code_pos
  BY Running DEF PushValue, TypeInv
<1>2. \A l, x : \A f \in DOMAIN frames' : VariableHolds(f, x, l)' => f \in DOMAIN frames /\ VariableHolds(f, x, l)
  BY <1>1, SameVariables
<1>3. CASE value_stack' = PushFailed(s) /\ OutOfMemory
  <2>1. value_stack'.data = s.data
    BY <1>3, PushFailedStack DEF TypeInv
  <2>2. \A l : \A i \in Slots' : SlotHolds(i, l)' => i \in Slots /\ SlotHolds(i, l)
    BY <2>1, SameSlots
  <2>3. code_pos' = code_pos
    BY <1>3 DEF OutOfMemory, Stop
  <2> QED
    BY <1>1, <1>2, <2>2, <2>3, OwnersShrink
<1>4. CASE value_stack' = Pushed(s, v, NoValue) /\ Continue
  <2> DEFINE top == s.size + 1
  <2>1. StringsAhead /\ StringsOwned
    BY DEF OwnersInv
  <2>2. NoValue \notin DOMAIN ir /\ \A l \in DOMAIN ir : l \in Nat
    BY InterpreterAssumption DEF TypeInv, WellFormed
  <2>3. /\ StackRecord(s, Literals) /\ NoValue \in Literals
        /\ s.size <= Len(s.data) /\ s.capacity > 0 /\ s.capacity = Len(s.data)
    BY <1>1 DEF TypeInv, StacksAllocated, StackAllocated, Literals
  <2>4. /\ StackRecord(value_stack', Literals)
        /\ \A i \in 1 .. Len(value_stack'.data) :
              value_stack'.data[i] = IF i = top THEN v ELSE IF i <= Len(s.data) THEN s.data[i] ELSE NoValue
    BY <1>1, <1>4, <2>3, PushedStack
  <2>5. Slots = 1 .. Len(s.data) /\ Slots' = 1 .. Len(value_stack'.data) /\ Len(s.data) \in Nat
    BY <2>3, <2>4 DEF Slots, StackRecord, StackOf
  <2> HIDE DEF v, top
  <2>6. \A l \in DOMAIN ir : \A i \in Slots' :
            SlotHolds(i, l)' => (i = top /\ l = v) \/ (i \in Slots /\ SlotHolds(i, l))
    BY <2>2, <2>4, <2>5 DEF SlotHolds
  <2>7. /\ \A f \in DOMAIN frames, x \in Names : ~VariableHolds(f, x, v)
        /\ \A i \in Slots : ~SlotHolds(i, v)
    BY <1>1, <2>1 DEF StringsAhead
  <2>8. code_pos' = v /\ v \in Nat /\ running'
    BY <1>1, <1>4 DEF Continue, Goto, v, running
  <2>9. StringsAhead'
    <3>1. ASSUME NEW l \in DOMAIN ir, l > code_pos' PROVE l > code_pos /\ l # v
      BY <1>1, <2>2, <2>8, <3>1
    <3>2. \A l \in DOMAIN ir : l > code_pos' =>
             /\ \A f \in DOMAIN frames', x \in Names : ~VariableHolds(f, x, l)'
             /\ \A i \in Slots' : ~SlotHolds(i, l)'
      BY <1>1, <1>2, <2>1, <2>6, <3>1 DEF StringsAhead
    <3> QED
      BY <1>1, <3>2 DEF StringsAhead
  <2>10. StringsOwned'
    <3> SUFFICES ASSUME NEW l \in DOMAIN ir
                 PROVE  /\ \A f, g \in DOMAIN frames', x, y \in Names :
                              VariableHolds(f, x, l)' /\ VariableHolds(g, y, l)' => f = g /\ x = y
                        /\ \A i, j \in Slots' : SlotHolds(i, l)' /\ SlotHolds(j, l)' => i = j
                        /\ \A f \in DOMAIN frames', x \in Names, i \in Slots' :
                              VariableHolds(f, x, l)' => ~SlotHolds(i, l)'
      BY <1>1 DEF StringsOwned
    <3>1. CASE l = v
      BY <1>1, <1>2, <2>6, <2>7, <3>1
    <3>2. CASE l # v
      <4>1. \A i \in Slots' : SlotHolds(i, l)' => i \in Slots /\ SlotHolds(i, l)
        BY <2>6, <3>2
      <4> QED
        BY <1>1, <1>2, <2>1, <4>1 DEF StringsOwned
    <3> QED
      BY <3>1, <3>2
  <2> QED
    BY <2>9, <2>10 DEF OwnersInv
<1> QED
  BY <1>3, <1>4 DEF PushValue

LEMMA StepOwners ==
    TypeInv /\ StacksAllocated /\ OwnersInv /\ [Next]_vars => OwnersInv'
<1> SUFFICES ASSUME TypeInv, StacksAllocated, OwnersInv, [Next]_vars PROVE OwnersInv'
  OBVIOUS
<1>1. CASE ReleaseMemory
  <2>1. /\ FramesAfter(ReachableFrames) \in Seq(FrameRecords)
        /\ DOMAIN FramesAfter(ReachableFrames) = DOMAIN frames
        /\ \A f \in DOMAIN frames : FramesAfter(ReachableFrames)[f].variables = frames[f].variables
    BY FramesAfterEffect DEF TypeInv
  <2>2. \A l, x : \A f \in DOMAIN frames' : VariableHolds(f, x, l)' => f \in DOMAIN frames /\ VariableHolds(f, x, l)
    BY <1>1, <2>1, SameVariables DEF ReleaseMemory
  <2>3. \A l : \A i \in Slots' : SlotHolds(i, l)' => i \in Slots /\ SlotHolds(i, l)
    BY <1>1, SameSlots DEF ReleaseMemory
  <2>4. ir' = ir /\ ~running'
    BY <1>1 DEF ReleaseMemory, running, ErrorCodes
  <2> QED
    BY <2>2, <2>3, <2>4, OwnersShrink
<1>2. CASE UNCHANGED vars
  BY <1>2 DEF OwnersInv, NeverReturns, StringsAhead, StringsOwned, VariableHolds, Variables, Slots, SlotHolds,
              running, vars, memory_vars
<1> QED
  BY <1>1, <1>2, FramesKeepOwners, QuietKeepsOwners, DefVarKeepsOwners, MoveKeepsOwners, PopValueKeepsOwners,
     PushValueKeepsOwners DEF Next, interpret_ir

(* In a program without RETURN a string has at most one owner among the     *)
(* variables and the slots of the value stack, occupied or not.             *)
THEOREM StringsAreOwnedOnce == Spec => []StringsHaveOneOwner
<1>1. TypeInv /\ StacksAllocated /\ OwnersInv /\ [Next]_vars => (TypeInv /\ StacksAllocated /\ OwnersInv)'
  BY StepType, StepOwners
<1>2. Init => TypeInv /\ StacksAllocated /\ OwnersInv
  BY InitType, InitOwners
<1>3. TypeInv /\ OwnersInv => StringsHaveOneOwner
  <2> SUFFICES ASSUME TypeInv, StringsOwned, NEW l \in DOMAIN ir
               PROVE  Cardinality(VariablesHolding(l)) + Cardinality(SlotsHolding(l)) <= 1
    BY DEF OwnersInv, StringsHaveOneOwner
  <2>1. \A p \in VariablesHolding(l) :
            p = <<p[1], p[2]>> /\ p[1] \in DOMAIN frames /\ p[2] \in Names /\ VariableHolds(p[1], p[2], l)
    BY DEF VariablesHolding, Holders, VariableHolds
  <2>2. \A i \in SlotsHolding(l) : i \in Slots /\ SlotHolds(i, l)
    BY DEF SlotsHolding, Slots, SlotHolds
  <2>3. \A p, q \in VariablesHolding(l) : p = q
    BY <2>1 DEF StringsOwned
  <2>4. \A i, j \in SlotsHolding(l) : i = j
    BY <2>2 DEF StringsOwned
  <2>5. VariablesHolding(l) = {} \/ SlotsHolding(l) = {}
    BY <2>1, <2>2 DEF StringsOwned
  <2>6. ASSUME NEW S, \A p, q \in S : p = q
        PROVE  Cardinality(S) = 0 \/ (Cardinality(S) = 1 /\ S # {})
    <3>1. CASE S = {}
      BY <3>1, FS_EmptySet
    <3>2. ASSUME NEW p \in S PROVE Cardinality(S) = 1 /\ S # {}
      <4>1. S = {p}
        BY <2>6, <3>2
      <4> QED
        BY <4>1, FS_Singleton
    <3> QED
      BY <3>1, <3>2
  <2>7. Cardinality(VariablesHolding(l)) = 0 \/ (Cardinality(VariablesHolding(l)) = 1 /\ VariablesHolding(l) # {})
    BY <2>3, <2>6
  <2>8. Cardinality(SlotsHolding(l)) = 0 \/ (Cardinality(SlotsHolding(l)) = 1 /\ SlotsHolding(l) # {})
    BY <2>4, <2>6
  <2> QED
    BY <2>5, <2>7, <2>8
<1> QED
  BY <1>1, <1>2, <1>3, PTL DEF Spec

-----------------------------------------------------------------------------
(* Above the tops of the stacks                                             *)

(* A RETURN finds a position that some CALL has remembered, or zero, and a  *)
(* POPS the value popped last: all slots higher up are zero.                *)
StalePositions ==
    \A i \in DOMAIN call_stack.data : call_stack.data[i] \in Visible!ReturnPoints
StaleValues ==
    \A i \in DOMAIN value_stack.data : i > value_stack.size + 1 => value_stack.data[i] = NoValue

AboveInv == StalePositions /\ StaleValues

LEMMA InitAbove == Init => AboveInv
<1> SUFFICES ASSUME Init PROVE AboveInv
  OBVIOUS
<1> USE InterpreterAssumption
<1>1. StackCapacity \in Nat
  OBVIOUS
<1>2. \A zero : /\ DOMAIN stack_init(StackCapacity, zero).data = 1 .. StackCapacity
                /\ \A i \in 1 .. StackCapacity : stack_init(StackCapacity, zero).data[i] = zero
  BY <1>1 DEF stack_init, Zeros
<1>3. StalePositions
  BY <1>2 DEF Init, StalePositions, Visible!ReturnPoints
<1>4. StaleValues
  BY <1>2 DEF Init, StaleValues
<1> QED
  BY <1>3, <1>4 DEF AboveInv

LEMMA PushValueAbove ==
    TypeInv /\ StacksAllocated /\ AboveInv /\ PushValue => StaleValues'
<1> SUFFICES ASSUME TypeInv, StacksAllocated, AboveInv, PushValue PROVE StaleValues'
  OBVIOUS
<1> DEFINE s == value_stack
<1>1. running /\ code_pos + 1 \in Literals /\ NoValue \in Literals
  BY Running DEF PushValue, Literals
<1>2. StackRecord(s, Literals) /\ s.size <= Len(s.data) /\ s.capacity > 0 /\ s.capacity = Len(s.data)
      /\ DOMAIN s.data = 1 .. Len(s.data) /\ s.size \in Nat
  BY <1>1 DEF TypeInv, StacksAllocated, StackAllocated, StackRecord, StackOf
<1>3. CASE value_stack' = Pushed(s, code_pos + 1, NoValue)
  <2>1. /\ value_stack'.size = s.size + 1 /\ StackRecord(value_stack', Literals)
        /\ \A i \in 1 .. Len(value_stack'.data) : value_stack'.data[i] =
              IF i = s.size + 1 THEN code_pos + 1 ELSE IF i <= Len(s.data) THEN s.data[i] ELSE NoValue
    BY <1>1, <1>2, <1>3, PushedStack
  <2>2. DOMAIN value_stack'.data = 1 .. Len(value_stack'.data)
    BY <2>1 DEF StackRecord, StackOf
  <2>3. ASSUME NEW i \in 1 .. Len(value_stack'.data), i > s.size + 2 PROVE value_stack'.data[i] = NoValue
    BY <1>2, <2>1, <2>3 DEF AboveInv, StaleValues
  <2> QED
    BY <1>2, <2>1, <2>2, <2>3 DEF StaleValues
<1>4. CASE value_stack' = PushFailed(s)
  BY <1>2, <1>4, PushFailedStack DEF AboveInv, StaleValues
<1> QED
  BY <1>3, <1>4 DEF PushValue

LEMMA PopValueAbove ==
    TypeInv /\ StacksAllocated /\ AboveInv /\ PopValue => StaleValues'
<1> SUFFICES ASSUME TypeInv, StacksAllocated, AboveInv, PopValue PROVE StaleValues'
  OBVIOUS
<1> DEFINE s == value_stack
<1>1. running
  BY DEF PopValue, Runs
<1>2. StackRecord(s, Literals) /\ DOMAIN s.data = 1 .. Len(s.data) /\ s.size \in Nat /\ Len(s.data) \in Nat
  BY DEF TypeInv, StackRecord, StackOf
<1>3. CASE UNCHANGED value_stack
  BY <1>3 DEF AboveInv, StaleValues
<1>4. CASE value_stack' = Popped(s) /\ ~Empty(s) /\ Outside(s)
  <2>1. value_stack'.size = s.size - 1 /\ value_stack'.data = s.data
    BY <1>2, <1>4, PoppedStack
  <2>2. s.size >= Len(s.data)
    BY <1>2, <1>4 DEF Outside, TopSlot
  <2> QED
    BY <1>2, <2>1, <2>2 DEF StaleValues
<1>5. ASSUME NEW where \in Places, NEW x \in Names, PopTo(where, x) PROVE StaleValues'
  <2>1. /\ Len(value_stack'.data) = Len(s.data) /\ StackRecord(value_stack', Literals)
        /\ \A i \in 1 .. Len(s.data) : value_stack'.data[i] = IF i = TopSlot(s) THEN NoValue ELSE s.data[i]
    BY <1>1, <1>5, PopToEffect
  <2>2. value_stack'.size = s.size - 1
    <3>1. StackRecord(MovedOut(s), Literals) /\ MovedOut(s).size = s.size /\ ~Empty(MovedOut(s))
      BY <1>2, <1>5, MovedOutStack DEF PopTo, Empty
    <3> QED
      BY <1>5, <3>1, PoppedStack DEF PopTo
  <2>3. DOMAIN value_stack'.data = 1 .. Len(s.data)
    BY <2>1 DEF StackRecord, StackOf
  <2>4. ASSUME NEW i \in 1 .. Len(s.data), i > s.size PROVE value_stack'.data[i] = NoValue
    BY <1>2, <2>1, <2>4 DEF AboveInv, StaleValues, TopSlot
  <2> QED
    BY <1>2, <2>2, <2>3, <2>4 DEF StaleValues
<1> QED
  BY <1>3, <1>4, <1>5 DEF PopValue

LEMMA PushedSlots ==
    ASSUME NEW E, NEW s, StackRecord(s, E), s.size <= Len(s.data), s.capacity > 0, s.capacity = Len(s.data),
           NEW v \in E, NEW zero \in E, NEW t, t = Pushed(s, v, zero)
    PROVE  /\ StackRecord(t, E)
           /\ \A i \in 1 .. Len(t.data) : t.data[i] =
                 IF i = s.size + 1 THEN v ELSE IF i <= Len(s.data) THEN s.data[i] ELSE zero
BY PushedStack

LEMMA CallAbove ==
    TypeInv /\ StacksAllocated /\ AboveInv /\ Call => StalePositions'
<1> SUFFICES ASSUME TypeInv, StacksAllocated, AboveInv, Call PROVE StalePositions'
  OBVIOUS
<1> DEFINE s == call_stack
           target == instruction.destination + 1
<1>1. running /\ code_pos + 1 \in DOMAIN ir /\ ir[code_pos + 1].op = "CALL" /\ ir' = ir
      /\ target \in Nat /\ 0 \in Nat
  BY Running DEF Call, instruction, Runs, TypeInv
<1>2. target \in Visible!ReturnPoints /\ 0 \in Visible!ReturnPoints /\ Visible!ReturnPoints' = Visible!ReturnPoints
  BY <1>1 DEF Visible!ReturnPoints, instruction
<1>3. StackRecord(s, Nat) /\ s.size <= Len(s.data) /\ s.capacity > 0 /\ s.capacity = Len(s.data)
      /\ DOMAIN s.data = 1 .. Len(s.data)
  BY <1>1 DEF TypeInv, StacksAllocated, StackAllocated, StackRecord, StackOf
<1> HIDE DEF target
<1>4. CASE call_stack' = Pushed(s, target, 0)
  <2> DEFINE zero == 0
             E == Nat
  <2>1. /\ zero \in E /\ target \in E /\ StackRecord(s, E)
        /\ zero \in Visible!ReturnPoints /\ call_stack' = Pushed(s, target, zero)
    BY <1>1, <1>2, <1>3, <1>4
  <2> HIDE DEF zero, E
  <2>2. /\ StackRecord(call_stack', E)
        /\ \A i \in 1 .. Len(call_stack'.data) : call_stack'.data[i] =
              IF i = s.size + 1 THEN target ELSE IF i <= Len(s.data) THEN s.data[i] ELSE zero
    BY <1>1, <1>3, <2>1, PushedSlots
  <2>3. DOMAIN call_stack'.data = 1 .. Len(call_stack'.data)
    BY <2>2 DEF StackRecord, StackOf
  <2> QED
    BY <1>2, <1>3, <2>1, <2>2, <2>3 DEF AboveInv, StalePositions
<1>5. CASE call_stack' = PushFailed(s)
  BY <1>2, <1>3, <1>5, PushFailedStack DEF AboveInv, StalePositions
<1> QED
  BY <1>4, <1>5 DEF Call, target

LEMMA StepAbove ==
    TypeInv /\ StacksAllocated /\ AboveInv /\ [Next]_vars => AboveInv'
<1> SUFFICES ASSUME TypeInv, StacksAllocated, AboveInv, [Next]_vars PROVE AboveInv'
  OBVIOUS
<1>1. ir' = ir
  BY DEF Next, interpret_ir, CreateFrame, PushFrame, PopFrame, DefVar, Move, PushValue, PopValue,
         Call, Return, Jump, Skip, RunOff, ReleaseMemory, vars
<1>2. value_stack' = value_stack => StaleValues'
  BY DEF AboveInv, StaleValues
<1>3. call_stack'.data = call_stack.data => StalePositions'
  BY <1>1 DEF AboveInv, StalePositions, Visible!ReturnPoints
<1>4. value_stack' = value_stack \/ PushValue \/ PopValue
  BY DEF Next, interpret_ir, CreateFrame, PushFrame, PopFrame, DefVar, Move, Call, Return, Jump, Skip, RunOff,
         ReleaseMemory, vars, memory_vars
<1>5. call_stack' = call_stack \/ Call \/ Return
  BY DEF Next, interpret_ir, CreateFrame, PushFrame, PopFrame, DefVar, Move, PushValue, PopValue, Jump, Skip, RunOff,
         ReleaseMemory, vars, memory_vars
<1>6. Return => call_stack'.data = call_stack.data
  BY PoppedStack DEF Return, TypeInv
<1> QED
  BY <1>2, <1>3, <1>4, <1>5, <1>6, PushValueAbove, PopValueAbove, CallAbove DEF AboveInv

-----------------------------------------------------------------------------
(* Refinement: what the instructions do to names and values                 *)

Locals == [n \in Occupied(frame_stack) |-> VariablesOf(frame_stack.data[n])]
Values == [n \in Occupied(value_stack) |-> value_stack.data[n]]

(* Each way of going on and of stopping is one of Frames.                   *)
LEMMA VisibleSteps ==
    ASSUME running
    PROVE  /\ Outcome = "running"
           /\ \A p : Goto(p) => Visible!Goto(p)
           /\ Continue => Visible!Continue
           /\ \A code \in ErrorCodes \cup {"exit 99"} : Stop(code) => Visible!Stop(code)
           /\ \A code \in {"undefined", "aborted", "key lost"} : Stop(code) => Visible!Stop("lost")
           /\ \A op : Runs(op) => Visible!Runs(op)
<1>1. Outcome = "running"
  BY DEF Outcome, running
<1>2. ASSUME NEW p, Goto(p) PROVE Visible!Goto(p)
  BY <1>2 DEF Goto, Visible!Goto, Outcome
<1>3. Continue => Visible!Continue
  BY <1>2 DEF Continue, Visible!Continue
<1>4. ASSUME NEW code \in ErrorCodes \cup {"exit 99"}, Stop(code) PROVE Visible!Stop(code)
  BY <1>4 DEF Stop, Visible!Stop, Outcome, ErrorCodes
<1>5. ASSUME NEW code \in {"undefined", "aborted", "key lost"}, Stop(code) PROVE Visible!Stop("lost")
  BY <1>5 DEF Stop, Visible!Stop, Outcome
<1>6. ASSUME NEW op, Runs(op) PROVE Visible!Runs(op)
  BY <1>6 DEF Runs, instruction, Visible!Runs, Visible!instruction
<1> QED
  BY <1>1, <1>2, <1>3, <1>4, <1>5, <1>6

(* No frame's table is taken for a missing frame.                           *)
LEMMA TablesAreFrames ==
    ASSUME TypeInv
    PROVE  /\ NoFrame \notin Tables
           /\ \A f \in DOMAIN frames :
                 f # NoFrame /\ VariablesOf(f) = frames[f].variables /\ VariablesOf(f) \in Tables
           /\ VariablesOf(NoFrame) = NoFrame
<1> USE InterpreterAssumption
<1>1. Literals \subseteq Nat \cup {NoValue}
  BY DEF Literals, TypeInv, WellFormed
<1>2. \A D \in SUBSET Names : [D -> Literals] \subseteq [D -> Nat \cup {NoValue}]
  BY <1>1
<1>3. NoFrame \notin Tables
  BY <1>2 DEF Tables
<1>4. ASSUME NEW f \in DOMAIN frames PROVE f # NoFrame /\ frames[f].variables \in Tables
  <2>1. f \in Nat
    BY FramesFinite
  <2>2. frames[f] \in FrameRecords
    BY FrameFields DEF TypeInv
  <2> QED
    BY <2>1, <2>2 DEF FrameRecords
<1> QED
  BY <1>3, <1>4 DEF VariablesOf

(* What is left of a sequence without its last element.                     *)
LEMMA StartOf ==
    ASSUME NEW E, NEW s \in Seq(E), NEW n \in Nat, Len(s) = n + 1
    PROVE  Visible!Start(s) = [i \in 1 .. n |-> s[i]]
BY DEF Visible!Start

(* What stays as it was.                                                    *)
SameLocals == VariablesOf(global_frame)' = VariablesOf(global_frame) /\ Locals' = Locals
SameVisible == SameLocals /\ VariablesOf(temp_frame)' = VariablesOf(temp_frame)

LEMMA SameNames ==
    SameVisible => UNCHANGED Visible!names
BY DEF SameVisible, SameLocals, Visible!names, Locals

LEMMA SameValues ==
    value_stack' = value_stack => Values' = Values /\ ValueAbove(value_stack)' = ValueAbove(value_stack)
BY DEF Values, ValueAbove, Occupied, Outside, TopSlot

(* The same frames in the same places, with the same variables.             *)
LEMMA SameFrames ==
    ASSUME TypeInv, PlacesDiffer,
           UNCHANGED <<temp_frame, frame_stack>>, DOMAIN frames \subseteq DOMAIN frames',
           \A f \in DOMAIN frames : frames'[f].variables = frames[f].variables
    PROVE  SameVisible
<1>1. global_frame \in DOMAIN frames /\ (temp_frame # NoFrame => temp_frame \in DOMAIN frames)
  BY FramesFinite DEF TypeInv
<1>2. \A n \in Occupied(frame_stack) : frame_stack.data[n] \in DOMAIN frames
  BY DEF PlacesDiffer
<1>3. \A f \in DOMAIN frames : (IF f = NoFrame THEN NoFrame ELSE frames'[f].variables) = VariablesOf(f)
  BY DEF VariablesOf
<1>4. Locals' = Locals
  BY <1>2, <1>3 DEF Locals, Occupied, VariablesOf
<1>5. VariablesOf(global_frame)' = VariablesOf(global_frame)
  BY <1>1, <1>3 DEF VariablesOf, global_frame
<1>6. VariablesOf(temp_frame)' = VariablesOf(temp_frame)
  BY <1>1, <1>3 DEF VariablesOf
<1> QED
  BY <1>4, <1>5, <1>6 DEF SameVisible, SameLocals

(* A step that changes one frame, global or temporary, changes no other.    *)
LEMMA OneFrameChanges ==
    ASSUME TypeInv, PlacesDiffer, UNCHANGED <<temp_frame, frame_stack>>, DOMAIN frames' = DOMAIN frames,
           NEW f \in {global_frame, temp_frame}, f \in DOMAIN frames,
           \A g \in DOMAIN frames : g # f => frames'[g].variables = frames[g].variables
    PROVE  /\ Locals' = Locals
           /\ f = global_frame => /\ VariablesOf(temp_frame)' = VariablesOf(temp_frame)
                                  /\ VariablesOf(global_frame)' = frames'[f].variables
           /\ f = temp_frame => /\ VariablesOf(global_frame)' = VariablesOf(global_frame)
                                /\ VariablesOf(temp_frame)' = frames'[f].variables
<1>1. global_frame \in DOMAIN frames /\ (temp_frame # NoFrame => temp_frame \in DOMAIN frames)
      /\ temp_frame # global_frame /\ NoFrame \notin DOMAIN frames
  BY FramesFinite, TablesAreFrames DEF TypeInv, PlacesDiffer
<1>2. \A n \in Occupied(frame_stack) : frame_stack.data[n] \in DOMAIN frames /\ frame_stack.data[n] # f
  BY DEF PlacesDiffer
<1>3. Locals' = Locals
  BY <1>2 DEF Locals, Occupied, VariablesOf
<1>4. f = global_frame => /\ VariablesOf(temp_frame)' = VariablesOf(temp_frame)
                          /\ VariablesOf(global_frame)' = frames'[f].variables
  BY <1>1 DEF VariablesOf, global_frame
<1>5. f = temp_frame => /\ VariablesOf(global_frame)' = VariablesOf(global_frame)
                        /\ VariablesOf(temp_frame)' = frames'[f].variables
  BY <1>1 DEF VariablesOf, global_frame
<1> QED
  BY <1>3, <1>4, <1>5

LEMMA InitVisible == Init => Visible!Init
<1> SUFFICES ASSUME Init PROVE Visible!Init
  OBVIOUS
<1> USE InterpreterAssumption
<1>1. TypeInv
  BY InitType
<1>2. VariablesOf(global_frame) = [x \in {} |-> NoValue]
  <2>1. frames[global_frame] = NewFrame /\ global_frame \in DOMAIN frames
    BY DEF Init, global_frame
  <2> QED
    BY <1>1, <2>1, TablesAreFrames DEF NewFrame
<1>3. Locals = <<>>
  <2>1. Occupied(frame_stack) = {}
    BY DEF Init, stack_init, Occupied
  <2> QED
    BY <2>1 DEF Locals
<1>4. VariablesOf(temp_frame) = NoFrame
  BY <1>1, TablesAreFrames DEF Init
<1>5. Outcome = "running"
  BY VisibleSteps DEF Init, running
<1>6. Values = <<>> /\ call_stack.size = 0
  <2>1. Occupied(value_stack) = {} /\ call_stack.size = 0
    BY DEF Init, stack_init, Occupied
  <2> QED
    BY <2>1 DEF Values
<1>7. ValueAbove(value_stack) = NoValue
  <2>1. value_stack.data = Zeros(StackCapacity, NoValue) /\ value_stack.size = 0
    BY DEF Init, stack_init
  <2>2. Len(value_stack.data) = StackCapacity /\ \A i \in 1 .. StackCapacity : value_stack.data[i] = NoValue
    BY <2>1 DEF Zeros
  <2> QED
    BY <2>1, <2>2 DEF ValueAbove, Outside, TopSlot
<1>8. code_pos = 0
  BY DEF Init
<1> QED
  BY <1>2, <1>3, <1>4, <1>5, <1>6, <1>7, <1>8 DEF Visible!Init, Locals, Values

-----------------------------------------------------------------------------
(* Names                                                                    *)

LEMMA MissingVisible ==
    ASSUME TypeInv, NEW where
    PROVE  Visible!Missing(where) <=> FrameMissing(where)
<1>1. VariablesOf(temp_frame) = NoFrame <=> temp_frame = NoFrame
  BY TablesAreFrames DEF TypeInv
<1>2. Locals = <<>> <=> Empty(frame_stack)
  <2>1. frame_stack.size \in Nat
    BY DEF TypeInv, StackRecord, StackOf
  <2>2. DOMAIN Locals = 1 .. frame_stack.size
    BY DEF Locals, Occupied
  <2>3. Empty(frame_stack) => Locals = <<>>
    BY <2>1 DEF Locals, Occupied, Empty
  <2>4. Locals = <<>> => 1 .. frame_stack.size = {}
    BY <2>2
  <2> QED
    BY <2>1, <2>3, <2>4 DEF Empty
<1> QED
  BY <1>1, <1>2 DEF Visible!Missing, FrameMissing, Locals

LEMMA TableVisible ==
    ASSUME TypeInv, NEW where \in Places, ~FrameMissing(where)
    PROVE  /\ DefinedIn(where) \in DOMAIN frames
           /\ DefinedIn(where) = IF where = "TF" THEN temp_frame ELSE global_frame
           /\ Visible!Table(where) = frames[DefinedIn(where)].variables
           /\ DOMAIN Visible!Table(where) = Variables(DefinedIn(where))
<1>1. DefinedIn(where) \in DOMAIN frames
  BY DefinedThere
<1>2. DefinedIn(where) = IF where = "TF" THEN temp_frame ELSE global_frame
  BY DEF DefinedIn, FrameOf, Places
<1>3. Visible!Table(where) = VariablesOf(DefinedIn(where))
  BY <1>2 DEF Visible!Table
<1>4. VariablesOf(DefinedIn(where)) = frames[DefinedIn(where)].variables
  BY <1>1, TablesAreFrames
<1> QED
  BY <1>1, <1>2, <1>3, <1>4 DEF Variables

LEMMA UsableVisible ==
    ASSUME TypeInv, NEW where \in Places, NEW x
    PROVE  Visible!Usable(where, x) <=> Found(where, x)
<1>1. where # "LF" => FrameOf(where) = DefinedIn(where)
  BY DEF DefinedIn
<1> QED
  BY <1>1, MissingVisible, TableVisible DEF Visible!Usable, Found

LEMMA UnusableVisible ==
    ASSUME TypeInv, running, NEW where \in Places, NEW x, AccessFails(where, x)
    PROVE  Visible!Unusable(where, x)
<1>1. Visible!Missing(where) <=> FrameMissing(where)
  BY MissingVisible
<1>2. Visible!Usable(where, x) <=> Found(where, x)
  BY UsableVisible
<1>3. FrameMissing(where) /\ Stop("NONEXISTING_MEMORY_FRAME") => Visible!Unusable(where, x)
  BY <1>1, VisibleSteps DEF Visible!Unusable, ErrorCodes
<1>4. where = "LF" /\ ~FrameMissing(where) /\ UsesSlotAbove(frame_stack) => Visible!Unusable(where, x)
  BY <1>1, VisibleSteps DEF Visible!Unusable, UsesSlotAbove
<1>5. where # "LF" /\ ~FrameMissing(where) /\ ~Found(where, x) /\ Stop("UNDEFINED_VARIABLE_ACCESS")
        => Visible!Unusable(where, x)
  BY <1>1, <1>2, VisibleSteps DEF Visible!Unusable, ErrorCodes
<1> QED
  BY <1>3, <1>4, <1>5 DEF AccessFails

(* One name stands for a value from now on, in one frame.                   *)
LEMMA StandsForVisible ==
    ASSUME TypeInv, PlacesDiffer, UNCHANGED <<temp_frame, frame_stack>>, DOMAIN frames' = DOMAIN frames,
           NEW where \in Places, NEW x, NEW v, NEW f, f = DefinedIn(where), ~FrameMissing(where),
           \A g \in DOMAIN frames : g # f => frames'[g].variables = frames[g].variables,
           frames'[f].variables = [y \in Variables(f) \cup {x} |-> IF y = x THEN v ELSE frames[f].variables[y]]
    PROVE  Visible!StandsFor(where, x, v)
<1>1. /\ f \in DOMAIN frames /\ f = IF where = "TF" THEN temp_frame ELSE global_frame
      /\ Visible!Table(where) = frames[f].variables /\ DOMAIN Visible!Table(where) = Variables(f)
  BY TableVisible
<1> DEFINE table == [y \in DOMAIN Visible!Table(where) \cup {x} |-> IF y = x THEN v ELSE Visible!Table(where)[y]]
<1>2. frames'[f].variables = table
  BY <1>1
<1> HIDE DEF table
<1>3. /\ Locals' = Locals
      /\ f = global_frame => /\ VariablesOf(temp_frame)' = VariablesOf(temp_frame)
                             /\ VariablesOf(global_frame)' = frames'[f].variables
      /\ f = temp_frame => /\ VariablesOf(global_frame)' = VariablesOf(global_frame)
                           /\ VariablesOf(temp_frame)' = frames'[f].variables
  BY <1>1, OneFrameChanges
<1>4. /\ VariablesOf(global_frame)' = IF where = "TF" THEN VariablesOf(global_frame) ELSE table
      /\ VariablesOf(temp_frame)' = IF where = "TF" THEN table ELSE VariablesOf(temp_frame)
  BY <1>1, <1>2, <1>3
<1> QED
  BY <1>3, <1>4 DEF Visible!StandsFor, Locals, table

LEMMA AssignVisible ==
    ASSUME TypeInv, PlacesDiffer, UNCHANGED <<temp_frame, frame_stack>>,
           NEW where \in Places, NEW x \in Names, Found(where, x), NEW v \in Literals,
           frames' = Assign(FrameOf(where), x, v)
    PROVE  Visible!StandsFor(where, x, v)
<1> DEFINE f == FrameOf(where)
<1>1. f \in DOMAIN frames /\ f = DefinedIn(where) /\ ~FrameMissing(where)
  BY FrameThere DEF Found, DefinedIn
<1>2. frames' = Assign(f, x, v) /\ frames \in Seq(FrameRecords)
  BY DEF TypeInv
<1> HIDE DEF f
<1>3. /\ frames' \in Seq(FrameRecords) /\ DOMAIN frames' = DOMAIN frames
      /\ \A g \in DOMAIN frames : g # f => frames'[g].variables = frames[g].variables
      /\ frames'[f].variables = [y \in Variables(f) \cup {x} |-> IF y = x THEN v ELSE frames[f].variables[y]]
  <2>1. f \in DOMAIN frames /\ x \in Names /\ v \in Literals
    BY <1>1
  <2> QED
    BY ONLY ZenonT(60), <1>2, <2>1, AssignEffect
<1>4. TypeInv /\ PlacesDiffer /\ UNCHANGED <<temp_frame, frame_stack>> /\ where \in Places
  OBVIOUS
<1> QED
  BY <1>1, <1>3, <1>4, StandsForVisible

LEMMA DefVarVisible ==
    TypeInv /\ FramesInv /\ DefVar => Visible!Next
<1> SUFFICES ASSUME TypeInv, FramesInv, DefVar PROVE Visible!Next
  OBVIOUS
<1> DEFINE where == instruction.where
           x == instruction.name
           f == DefinedIn(where)
<1>1. running /\ Runs("DEFVAR") /\ PlacesDiffer /\ where \in Places /\ x \in Names /\ NoValue \in Literals
      /\ UNCHANGED <<temp_frame, frame_stack, value_stack, call_stack, ir>> /\ frames \in Seq(FrameRecords)
  BY Running, RunningPlaced DEF DefVar, Literals, TypeInv
<1>2. Visible!Missing(where) <=> FrameMissing(where)
  BY MissingVisible
<1>3. ~FrameMissing(where) => f \in DOMAIN frames /\ DOMAIN Visible!Table(where) = Variables(f)
  BY <1>1, TableVisible
<1>4. Values' = Values /\ ValueAbove(value_stack)' = ValueAbove(value_stack) /\ call_stack'.size = call_stack.size
  BY <1>1, SameValues
<1>5. frames' = frames => UNCHANGED Visible!names
  BY <1>1, SameFrames, SameNames
<1>6. ASSUME ~FrameMissing(where), frames' = Grow(f, frames) PROVE UNCHANGED Visible!names
  <2>1. f \in DOMAIN frames
    BY <1>3, <1>6
  <2> HIDE DEF f
  <2>2. DOMAIN frames' = DOMAIN frames /\ \A g \in DOMAIN frames : frames'[g].variables = frames[g].variables
    BY <1>1, <1>6, <2>1, GrowEffect
  <2> QED
    BY <1>1, <2>2, SameFrames, SameNames
<1>7. ASSUME ~FrameMissing(where), x \notin Variables(f), frames' = Grow(f, Assign(f, x, NoValue))
      PROVE  Visible!StandsFor(where, x, NoValue)
  <2> DEFINE assigned == Assign(f, x, NoValue)
  <2>1. f \in DOMAIN frames /\ f = DefinedIn(where)
    BY <1>3, <1>7
  <2>2. frames' = Grow(f, assigned)
    BY <1>7
  <2> HIDE DEF f, x
  <2>3. /\ assigned \in Seq(FrameRecords) /\ DOMAIN assigned = DOMAIN frames
        /\ \A g \in DOMAIN frames : g # f => assigned[g].variables = frames[g].variables
        /\ assigned[f].variables = [y \in Variables(f) \cup {x} |-> IF y = x THEN NoValue ELSE frames[f].variables[y]]
    <3>1. frames \in Seq(FrameRecords) /\ f \in DOMAIN frames /\ x \in Names /\ NoValue \in Literals
      BY <1>1, <2>1
    <3> QED
      BY ONLY ZenonT(60), <3>1, AssignEffect DEF assigned
  <2> HIDE DEF assigned
  <2>4. DOMAIN frames' = DOMAIN frames /\ \A g \in DOMAIN frames : frames'[g].variables = assigned[g].variables
    BY <2>1, <2>2, <2>3, GrowEffect
  <2>5. /\ \A g \in DOMAIN frames : g # f => frames'[g].variables = frames[g].variables
        /\ frames'[f].variables = [y \in Variables(f) \cup {x} |-> IF y = x THEN NoValue ELSE frames[f].variables[y]]
    BY <2>1, <2>3, <2>4
  <2> QED
    BY <1>1, <1>7, <2>1, <2>4, <2>5, StandsForVisible
<1> HIDE DEF where, x, f
<1>8. Visible!DefVar(where, x)
  <2>1. FrameMissing(where) /\ Stop("NONEXISTING_MEMORY_FRAME") /\ UNCHANGED frames => Visible!DefVar(where, x)
    BY <1>1, <1>2, <1>4, <1>5, VisibleSteps DEF Visible!DefVar, ErrorCodes, Values
  <2>2. ~FrameMissing(where) /\ Stop("exit 99") /\ UNCHANGED frames => Visible!DefVar(where, x)
    BY <1>1, <1>2, <1>4, <1>5, VisibleSteps DEF Visible!DefVar, Values
  <2>3. ~FrameMissing(where) /\ x \in Variables(f) /\ Stop("SEMANTIC_ERROR") /\ frames' = Grow(f, frames)
          => Visible!DefVar(where, x)
    BY <1>1, <1>2, <1>3, <1>4, <1>6, VisibleSteps DEF Visible!DefVar, ErrorCodes, Values
  <2>4. ~FrameMissing(where) /\ x \notin Variables(f) /\ frames' = Grow(f, Assign(f, x, NoValue)) /\ Continue
          => Visible!DefVar(where, x)
    BY <1>1, <1>2, <1>3, <1>4, <1>7, VisibleSteps DEF Visible!DefVar, Values
  <2>5. ~FrameMissing(where) /\ x \notin Variables(f) /\ frames' = Grow(f, frames) /\ Stop("key lost")
          => Visible!DefVar(where, x)
    BY <1>1, <1>2, <1>3, <1>4, <1>6, VisibleSteps DEF Visible!DefVar, Values
  <2> QED
    BY <2>1, <2>2, <2>3, <2>4, <2>5 DEF DefVar, where, x, f
<1> QED
  BY <1>1, <1>8, VisibleSteps DEF Visible!Next, Visible!instruction, instruction, where, x

LEMMA MoveVisible ==
    TypeInv /\ FramesInv /\ Move => Visible!Next
<1> SUFFICES ASSUME TypeInv, FramesInv, Move PROVE Visible!Next
  OBVIOUS
<1> DEFINE where == instruction.where
           x == instruction.name
<1>1. running /\ Runs("MOVE") /\ PlacesDiffer /\ where \in Places /\ x \in Names /\ code_pos + 1 \in Literals
      /\ UNCHANGED <<temp_frame, frame_stack, value_stack, call_stack, ir>>
  BY Running, RunningPlaced DEF Move
<1>2. Values' = Values /\ ValueAbove(value_stack)' = ValueAbove(value_stack) /\ call_stack'.size = call_stack.size
  BY <1>1, SameValues
<1>3. CASE AccessFails(where, x) /\ UNCHANGED frames
  <2>1. UNCHANGED Visible!names
    BY <1>1, <1>3, SameFrames, SameNames
  <2>2. Visible!Unusable(where, x)
    BY <1>1, <1>3, UnusableVisible
  <2>3. Visible!Move(where, x)
    BY <1>2, <2>1, <2>2 DEF Visible!Move, Values
  <2> QED
    BY <1>1, <2>3, VisibleSteps DEF Visible!Next, Visible!instruction, instruction
<1>4. CASE Found(where, x) /\ frames' = Assign(FrameOf(where), x, code_pos + 1) /\ Continue
  <2>1. Visible!StandsFor(where, x, code_pos + 1)
    BY <1>1, <1>4, AssignVisible
  <2>2. Visible!Usable(where, x) /\ Visible!Continue
    BY <1>1, <1>4, UsableVisible, VisibleSteps
  <2>3. Visible!Move(where, x)
    BY <1>2, <2>1, <2>2 DEF Visible!Move, Values
  <2> QED
    BY <1>1, <2>3, VisibleSteps DEF Visible!Next, Visible!instruction, instruction
<1> QED
  BY <1>3, <1>4 DEF Move

-----------------------------------------------------------------------------
(* Frames                                                                   *)

LEMMA CreateFrameVisible ==
    TypeInv /\ FramesInv /\ CreateFrame => Visible!Next
<1> SUFFICES ASSUME TypeInv, FramesInv, CreateFrame PROVE Visible!Next
  OBVIOUS
<1>1. running /\ Runs("CREATE_F") /\ PlacesDiffer
      /\ UNCHANGED <<frame_stack, value_stack, call_stack, ir>>
  BY RunningPlaced DEF CreateFrame, Runs
<1> DEFINE n == Len(frames)
           after == FramesAfter(Discarded)
<1>2. /\ after \in Seq(FrameRecords) /\ Len(after) = n /\ DOMAIN after = DOMAIN frames
      /\ \A f \in DOMAIN frames : after[f].variables = frames[f].variables
      /\ n \in Nat /\ DOMAIN frames = 1 .. n /\ global_frame \in DOMAIN frames /\ NoFrame \notin Nat
  BY FramesAfterEffect, FramesFinite, InterpreterAssumption DEF TypeInv
<1> HIDE DEF after
<1>3. DOMAIN frames \subseteq DOMAIN frames' /\ \A f \in DOMAIN frames : frames'[f].variables = frames[f].variables
  <2>1. CASE frames' = after
    BY <1>2, <2>1
  <2>2. CASE frames' = Append(after, NewFrame)
    BY <1>2, <2>2
  <2> QED
    BY <2>1, <2>2 DEF CreateFrame, after
<1>4. SameLocals
  <2>1. \A m \in Occupied(frame_stack) : frame_stack.data[m] \in DOMAIN frames
    BY <1>1 DEF PlacesDiffer
  <2>2. \A f \in DOMAIN frames : (IF f = NoFrame THEN NoFrame ELSE frames'[f].variables) = VariablesOf(f)
    BY <1>3 DEF VariablesOf
  <2>3. Locals' = Locals
    BY <1>1, <2>1, <2>2 DEF Locals, Occupied, VariablesOf
  <2>4. VariablesOf(global_frame)' = VariablesOf(global_frame)
    BY <1>2, <2>2 DEF VariablesOf, global_frame
  <2> QED
    BY <2>3, <2>4 DEF SameLocals
<1>5. Values' = Values /\ ValueAbove(value_stack)' = ValueAbove(value_stack) /\ call_stack'.size = call_stack.size
  BY <1>1, SameValues
<1>6. ASSUME frames' = Append(after, NewFrame), temp_frame' = n + 1, Continue
      PROVE  Visible!CreateFrame
  <2>1. frames'[n + 1] = NewFrame /\ temp_frame' # NoFrame
    BY SMTT(60), <1>2, <1>6
  <2>2. VariablesOf(temp_frame)' = [x \in {} |-> NoValue]
    <3>1. NewFrame.variables = [x \in {} |-> NoValue]
      BY DEF NewFrame
    <3>2. VariablesOf(temp_frame)' = frames'[temp_frame'].variables
      BY <2>1 DEF VariablesOf
    <3> QED
      BY <1>6, <2>1, <3>1, <3>2
  <2>3. Visible!Continue
    BY <1>1, <1>6, VisibleSteps
  <2> QED
    BY <1>4, <1>5, <2>2, <2>3 DEF Visible!CreateFrame, SameLocals, Locals, Values
<1>7. ASSUME frames' = after, temp_frame' = NoFrame, OutOfMemory
      PROVE  Visible!CreateFrame
  <2>1. VariablesOf(temp_frame)' = NoFrame
    BY <1>7 DEF VariablesOf
  <2>2. Visible!Stop("INTERNAL_ERROR")
    BY <1>1, <1>7, VisibleSteps DEF OutOfMemory, ErrorCodes
  <2> QED
    BY <1>4, <1>5, <2>1, <2>2 DEF Visible!CreateFrame, SameLocals, Locals, Values
<1>8. Visible!CreateFrame
  BY <1>6, <1>7 DEF CreateFrame, after
<1> QED
  BY <1>1, <1>8, VisibleSteps DEF Visible!Next

LEMMA PushFrameVisible ==
    TypeInv /\ StacksAllocated /\ FramesInv /\ PushFrame => Visible!Next
<1> SUFFICES ASSUME TypeInv, StacksAllocated, FramesInv, PushFrame PROVE Visible!Next
  OBVIOUS
<1> DEFINE s == frame_stack
           m == frame_stack.size
<1>1. running /\ Runs("PUSH_F") /\ PlacesDiffer /\ UNCHANGED <<frames, value_stack, call_stack, ir>>
  BY RunningPlaced DEF PushFrame, Runs
<1>2. m \in Nat /\ m <= Len(s.data) /\ s.data \in Seq(DOMAIN frames \cup {NoFrame})
  BY DEF TypeInv, StackRecord, StackOf, StacksAllocated, StackAllocated
<1>3. VariablesOf(global_frame)' = VariablesOf(global_frame)
  BY <1>1 DEF VariablesOf, global_frame
<1>4. Values' = Values /\ ValueAbove(value_stack)' = ValueAbove(value_stack) /\ call_stack'.size = call_stack.size
  BY <1>1, SameValues
<1>5. VariablesOf(temp_frame) = NoFrame <=> temp_frame = NoFrame
  BY TablesAreFrames DEF TypeInv
<1>6. ASSUME temp_frame = NoFrame, Stop("NONEXISTING_MEMORY_FRAME"), UNCHANGED <<temp_frame, frame_stack>>
      PROVE  Visible!PushFrame
  <2>1. SameVisible
    BY <1>1, <1>6, SameFrames
  <2>2. Visible!Stop("NONEXISTING_MEMORY_FRAME")
    BY <1>1, <1>6, VisibleSteps DEF ErrorCodes
  <2> QED
    BY <1>4, <1>5, <1>6, <2>1, <2>2 DEF Visible!PushFrame, SameVisible, SameLocals, Locals, Values
<1>7. ASSUME frame_stack' = Pushed(s, temp_frame, NoFrame), temp_frame' = MovedFrame, temp_frame # NoFrame, Continue
      PROVE  Visible!PushFrame
  <2> DEFINE E == DOMAIN frames \cup {NoFrame}
  <2>1. StackRecord(s, E) /\ temp_frame \in E /\ NoFrame \in E
        /\ s.size <= Len(s.data) /\ s.capacity > 0 /\ s.capacity = Len(s.data)
    BY <1>1 DEF TypeInv, StacksAllocated, StackAllocated
  <2> HIDE DEF E
  <2>2. /\ frame_stack'.size = m + 1 /\ m + 1 <= Len(frame_stack'.data)
        /\ Len(s.data) <= Len(frame_stack'.data) /\ StackRecord(frame_stack', E)
        /\ \A i \in 1 .. Len(frame_stack'.data) : frame_stack'.data[i] =
              IF i = m + 1 THEN temp_frame ELSE IF i <= Len(s.data) THEN s.data[i] ELSE NoFrame
    BY <1>7, <2>1, PushedStack
  <2>3. Len(frame_stack'.data) \in Nat
    BY <2>2 DEF StackRecord, StackOf
  <2>4. frame_stack'.data[m + 1] = temp_frame /\ \A i \in 1 .. m : frame_stack'.data[i] = s.data[i]
    BY <1>2, <2>2, <2>3
  <2>5. Locals \in Seq(Tables) /\ Len(Locals) = m /\ \A i \in 1 .. m : Locals[i] = VariablesOf(s.data[i])
    <3>1. Occupied(s) = 1 .. m
      BY DEF Occupied
    <3>2. \A i \in 1 .. m : VariablesOf(s.data[i]) \in Tables
      BY <1>1, <3>1, TablesAreFrames DEF PlacesDiffer
    <3> QED
      BY <1>2, <3>1, <3>2 DEF Locals
  <2>6. Locals' = [i \in 1 .. m + 1 |-> VariablesOf(frame_stack'.data[i])]
    BY <1>1, <2>2 DEF Locals, Occupied, VariablesOf
  <2>7. VariablesOf(temp_frame) \in Tables /\ VariablesOf(temp_frame) # NoFrame
    BY <1>7, TablesAreFrames DEF TypeInv
  <2>8. Locals' = Append(Locals, VariablesOf(temp_frame))
    <3> DEFINE A == Append(Locals, VariablesOf(temp_frame))
    <3>1. A \in Seq(Tables) /\ Len(A) = m + 1 /\ A[m + 1] = VariablesOf(temp_frame)
          /\ \A i \in 1 .. m : A[i] = Locals[i]
      BY <1>2, <2>5, <2>7
    <3>2. A = [i \in 1 .. m + 1 |-> A[i]]
      <4> HIDE DEF A
      <4> QED
        BY <1>2, <3>1
    <3> HIDE DEF A
    <3>3. \A i \in 1 .. m + 1 : A[i] = VariablesOf(frame_stack'.data[i])
      BY <1>2, <2>4, <2>5, <3>1
    <3> QED
      BY <2>6, <3>2, <3>3 DEF A
  <2>9. VariablesOf(temp_frame)' = NoFrame
    BY <1>7 DEF VariablesOf, MovedFrame
  <2>10. Visible!Continue
    BY <1>1, <1>7, VisibleSteps
  <2> QED
    BY <1>3, <1>4, <2>7, <2>8, <2>9, <2>10 DEF Visible!PushFrame, Locals, Values
<1>8. ASSUME temp_frame # NoFrame, frame_stack' = PushFailed(s), temp_frame' = MovedFrame, OutOfMemory
      PROVE  Visible!PushFrame
  <2>1. frame_stack'.size = m /\ frame_stack'.data = s.data
    BY <1>8, PushFailedStack DEF TypeInv
  <2>2. Locals' = Locals
    BY <1>1, <2>1 DEF Locals, Occupied, VariablesOf
  <2>3. VariablesOf(temp_frame)' = NoFrame
    BY <1>8 DEF VariablesOf, MovedFrame
  <2>4. Visible!Stop("INTERNAL_ERROR")
    BY <1>1, <1>8, VisibleSteps DEF OutOfMemory, ErrorCodes
  <2> QED
    BY <1>3, <1>4, <1>5, <1>8, <2>2, <2>3, <2>4 DEF Visible!PushFrame, Locals, Values
<1>9. Visible!PushFrame
  BY <1>6, <1>7, <1>8 DEF PushFrame
<1> QED
  BY <1>1, <1>9, VisibleSteps DEF Visible!Next

LEMMA PopFrameVisible ==
    TypeInv /\ FramesInv /\ PopFrame => Visible!Next
<1> SUFFICES ASSUME TypeInv, FramesInv, PopFrame PROVE Visible!Next
  OBVIOUS
<1> DEFINE s == frame_stack
<1>1. running /\ Runs("POP_F") /\ PlacesDiffer /\ UNCHANGED <<temp_frame, value_stack, call_stack, ir>>
  BY RunningPlaced DEF PopFrame, Runs
<1>2. Values' = Values /\ ValueAbove(value_stack)' = ValueAbove(value_stack) /\ call_stack'.size = call_stack.size
  BY <1>1, SameValues
<1>3. s.size \in Nat /\ Occupied(s) = 1 .. s.size /\ StackRecord(s, DOMAIN frames \cup {NoFrame})
  BY DEF TypeInv, StackRecord, StackOf, Occupied
<1>4. Locals \in Seq(Tables) /\ Len(Locals) = s.size /\ \A i \in 1 .. s.size : Locals[i] = VariablesOf(s.data[i])
  <2>1. \A i \in 1 .. s.size : VariablesOf(s.data[i]) \in Tables
    BY <1>1, <1>3, TablesAreFrames DEF PlacesDiffer
  <2> QED
    BY <1>3, <2>1 DEF Locals
<1>5. ASSUME Empty(s), Stop("NONEXISTING_MEMORY_FRAME"), UNCHANGED <<frames, frame_stack>>
      PROVE  Visible!PopFrame
  <2>1. SameVisible
    BY <1>1, <1>5, SameFrames
  <2>2. Locals = <<>>
    BY <1>4, <1>5 DEF Empty
  <2>3. Visible!Stop("NONEXISTING_MEMORY_FRAME")
    BY <1>1, <1>5, VisibleSteps DEF ErrorCodes
  <2> QED
    BY <1>2, <2>1, <2>2, <2>3 DEF Visible!PopFrame, SameVisible, SameLocals, Locals, Values
<1>6. ASSUME ~Empty(s), frames' = FramesAfter(Discarded), frame_stack' = Popped(s), UsesSlotAbove(s)
      PROVE  Visible!PopFrame
  <2>1. DOMAIN frames' = DOMAIN frames /\ \A f \in DOMAIN frames : frames'[f].variables = frames[f].variables
    BY <1>6, FramesAfterEffect DEF TypeInv
  <2>2. s.size - 1 \in Nat /\ frame_stack'.size = s.size - 1 /\ frame_stack'.data = s.data
    BY <1>3, <1>6, PoppedStack DEF Empty
  <2>3. /\ VariablesOf(global_frame)' = VariablesOf(global_frame)
        /\ VariablesOf(temp_frame)' = VariablesOf(temp_frame)
        /\ \A i \in 1 .. s.size : VariablesOf(s.data[i]) = IF s.data[i] = NoFrame THEN NoFrame ELSE frames'[s.data[i]].variables
    <3>1. global_frame \in DOMAIN frames /\ (temp_frame # NoFrame => temp_frame \in DOMAIN frames)
          /\ \A i \in 1 .. s.size : s.data[i] \in DOMAIN frames
      BY <1>1, <1>3, FramesFinite DEF TypeInv, PlacesDiffer
    <3> QED
      BY <1>1, <2>1, <3>1 DEF VariablesOf, global_frame
  <2>4. Locals' = [i \in 1 .. s.size - 1 |-> Locals[i]]
    <3>1. Locals' = [i \in 1 .. s.size - 1 |-> IF s.data[i] = NoFrame THEN NoFrame ELSE frames'[s.data[i]].variables]
      BY <2>2 DEF Locals, Occupied, VariablesOf
    <3> QED
      BY <1>3, <1>4, <2>2, <2>3, <3>1
  <2>5. Locals' = Visible!Start(Locals)
    BY <1>4, <2>2, <2>4, StartOf
  <2>6. Locals # <<>>
    BY <1>4, <1>6 DEF Empty
  <2>7. Visible!Stop("lost")
    BY <1>1, <1>6, VisibleSteps DEF UsesSlotAbove
  <2> QED
    BY <1>2, <2>3, <2>5, <2>6, <2>7 DEF Visible!PopFrame, Locals, Values
<1>7. Visible!PopFrame
  BY <1>5, <1>6 DEF PopFrame
<1> QED
  BY <1>1, <1>7, VisibleSteps DEF Visible!Next

-----------------------------------------------------------------------------
(* Values                                                                   *)

LEMMA ValuesFinite ==
    ASSUME TypeInv
    PROVE  /\ StackRecord(value_stack, Literals) /\ value_stack.size \in Nat
           /\ DOMAIN value_stack.data = 1 .. Len(value_stack.data) /\ Len(value_stack.data) \in Nat
           /\ DOMAIN Values = 1 .. value_stack.size
           /\ value_stack.size <= Len(value_stack.data) =>
                 /\ Values \in Seq(Literals) /\ Len(Values) = value_stack.size
                 /\ \A i \in 1 .. value_stack.size : Values[i] = value_stack.data[i]
<1>1. /\ StackRecord(value_stack, Literals) /\ value_stack.size \in Nat /\ value_stack.data \in Seq(Literals)
      /\ DOMAIN value_stack.data = 1 .. Len(value_stack.data) /\ Len(value_stack.data) \in Nat
  BY DEF TypeInv, StackRecord, StackOf
<1>2. Values = [i \in 1 .. value_stack.size |-> value_stack.data[i]]
  BY DEF Values, Occupied
<1>3. value_stack.size <= Len(value_stack.data) => \A i \in 1 .. value_stack.size : value_stack.data[i] \in Literals
  BY <1>1
<1> QED
  BY <1>1, <1>2, <1>3

LEMMA PushValueVisible ==
    TypeInv /\ StacksAllocated /\ FramesInv /\ AboveInv /\ PushValue => Visible!Next
<1> SUFFICES ASSUME TypeInv, StacksAllocated, FramesInv, AboveInv, PushValue PROVE Visible!Next
  OBVIOUS
<1> DEFINE s == value_stack
           m == value_stack.size
           v == code_pos + 1
<1>1. running /\ Runs("PUSHS") /\ PlacesDiffer /\ v \in Literals /\ NoValue \in Literals
      /\ UNCHANGED <<frames, temp_frame, frame_stack, call_stack, ir>>
  BY Running, RunningPlaced DEF PushValue, Literals
<1>2. UNCHANGED Visible!names /\ call_stack'.size = call_stack.size
  BY <1>1, SameFrames, SameNames
<1>3. /\ StackRecord(s, Literals) /\ m \in Nat /\ m <= Len(s.data) /\ s.capacity > 0 /\ s.capacity = Len(s.data)
      /\ Len(s.data) \in Nat /\ Values \in Seq(Literals) /\ Len(Values) = m
      /\ DOMAIN s.data = 1 .. Len(s.data) /\ \A i \in 1 .. m : Values[i] = s.data[i]
  BY <1>1, ValuesFinite DEF StacksAllocated, StackAllocated
<1>4. ASSUME value_stack' = Pushed(s, v, NoValue), Continue PROVE Visible!PushValue
  <2> HIDE DEF v
  <2>1. /\ value_stack'.size = m + 1 /\ m + 1 <= Len(value_stack'.data) /\ StackRecord(value_stack', Literals)
        /\ Len(s.data) <= Len(value_stack'.data)
        /\ \A i \in 1 .. Len(value_stack'.data) : value_stack'.data[i] =
              IF i = m + 1 THEN v ELSE IF i <= Len(s.data) THEN s.data[i] ELSE NoValue
    BY <1>1, <1>3, <1>4, PushedStack
  <2>2. Len(value_stack'.data) \in Nat
    BY <2>1 DEF StackRecord, StackOf
  <2>3. value_stack'.data[m + 1] = v /\ \A i \in 1 .. m : value_stack'.data[i] = s.data[i]
    BY <1>3, <2>1, <2>2
  <2>4. m + 2 <= Len(value_stack'.data) => value_stack'.data[m + 2] = NoValue
    <3>1. ASSUME m + 2 <= Len(s.data) PROVE s.data[m + 2] = NoValue
      <4>1. m + 2 \in DOMAIN s.data /\ m + 2 > m + 1
        BY <1>3, <3>1
      <4> QED
        BY <4>1 DEF AboveInv, StaleValues
    <3>2. SUFFICES ASSUME m + 2 <= Len(value_stack'.data) PROVE value_stack'.data[m + 2] = NoValue
      OBVIOUS
    <3>3. m + 2 \in 1 .. Len(value_stack'.data) /\ m + 2 # m + 1
      BY <1>3, <2>2, <3>2
    <3> QED
      BY <2>1, <3>1, <3>3
  <2>5. ValueAbove(value_stack)' = NoValue
    BY <1>3, <2>1, <2>2, <2>4 DEF ValueAbove, Outside, TopSlot
  <2>6. Values' = [i \in 1 .. m + 1 |-> value_stack'.data[i]]
    BY <2>1 DEF Values, Occupied
  <2>7. Values' = Append(Values, v)
    <3> DEFINE A == Append(Values, v)
    <3>1. A \in Seq(Literals) /\ Len(A) = m + 1 /\ A[m + 1] = v /\ \A i \in 1 .. m : A[i] = Values[i]
      BY <1>1, <1>3
    <3>2. A = [i \in 1 .. m + 1 |-> A[i]]
      <4> HIDE DEF A
      <4> QED
        BY <1>3, <3>1
    <3> HIDE DEF A
    <3>3. ASSUME NEW i \in 1 .. m + 1 PROVE A[i] = value_stack'.data[i]
      <4>1. i \in 1 .. m \/ i = m + 1
        BY <1>3
      <4> QED
        BY <1>3, <2>3, <3>1, <4>1
    <3> QED
      BY <2>6, <3>2, <3>3 DEF A
  <2>8. Visible!Continue
    BY <1>1, <1>4, VisibleSteps
  <2> QED
    BY <1>2, <2>5, <2>7, <2>8 DEF Visible!PushValue, Values, v
<1>5. ASSUME value_stack' = PushFailed(s), OutOfMemory PROVE Visible!PushValue
  <2>1. value_stack'.size = m /\ value_stack'.data = s.data
    BY <1>3, <1>5, PushFailedStack
  <2>2. Values' = Values /\ ValueAbove(value_stack)' = ValueAbove(value_stack)
    BY <2>1 DEF Values, ValueAbove, Occupied, Outside, TopSlot
  <2>3. Visible!Stop("INTERNAL_ERROR")
    BY <1>1, <1>5, VisibleSteps DEF OutOfMemory, ErrorCodes
  <2> QED
    BY <1>2, <2>2, <2>3 DEF Visible!PushValue, Values
<1>6. Visible!PushValue
  BY <1>4, <1>5 DEF PushValue
<1> QED
  BY <1>1, <1>6, VisibleSteps DEF Visible!Next

(* The top value becomes the one above the top.                             *)
LEMMA TakeVisible ==
    ASSUME TypeInv, StacksAllocated, ~Empty(value_stack), value_stack'.size = value_stack.size - 1,
           \A i \in 1 .. value_stack.size : value_stack'.data[i] = value_stack.data[i],
           Len(value_stack'.data) = Len(value_stack.data)
    PROVE  Visible!TakeValue
<1> DEFINE s == value_stack
           m == value_stack.size
<1>1. /\ m \in Nat /\ m <= Len(s.data) /\ Len(s.data) \in Nat /\ Values \in Seq(Literals) /\ Len(Values) = m
      /\ \A i \in 1 .. m : Values[i] = s.data[i]
  BY ValuesFinite DEF StacksAllocated, StackAllocated
<1>2. m - 1 \in Nat /\ m \in 1 .. m
  BY <1>1 DEF Empty
<1>3. Values' = [i \in 1 .. m - 1 |-> Values[i]]
  <2>1. Values' = [i \in 1 .. m - 1 |-> value_stack'.data[i]]
    BY DEF Values, Occupied
  <2>2. \A i \in 1 .. m - 1 : i \in 1 .. m
    BY <1>2
  <2> QED
    BY <1>1, <2>1, <2>2
<1>4. Values' = Visible!Start(Values)
  BY <1>1, <1>2, <1>3, StartOf
<1>5. ValueAbove(value_stack)' = Values[m]
  BY <1>1, <1>2 DEF ValueAbove, Outside, TopSlot
<1>6. Values # <<>>
  BY <1>1, <1>2
<1> QED
  BY <1>1, <1>4, <1>5, <1>6 DEF Visible!TakeValue, Values

LEMMA PopValueVisible ==
    TypeInv /\ StacksAllocated /\ FramesInv /\ PopValue => Visible!Next
<1> SUFFICES ASSUME TypeInv, StacksAllocated, FramesInv, PopValue PROVE Visible!Next
  OBVIOUS
<1> DEFINE s == value_stack
<1>1. running /\ Runs("POPS") /\ PlacesDiffer /\ UNCHANGED <<temp_frame, frame_stack, call_stack, ir>>
  BY RunningPlaced DEF PopValue, Runs
<1>2. UNCHANGED frames => UNCHANGED Visible!names
  BY <1>1, SameFrames, SameNames
<1>3. UNCHANGED value_stack => Values' = Values /\ ValueAbove(value_stack)' = ValueAbove(value_stack)
  BY SameValues
<1>4. call_stack'.size = call_stack.size
  BY <1>1
<1>5. ASSUME NEW where \in Places, NEW x \in Names, PopTo(where, x) PROVE Visible!PopValue(where, x)
  <2> DEFINE v == value_stack.data[TopSlot(value_stack)]
  <2>1. /\ Found(where, x) /\ frames' = Assign(FrameOf(where), x, v) /\ ~Empty(s) /\ ~Outside(s)
        /\ value_stack' = Popped(MovedOut(s)) /\ Continue
    BY <1>5 DEF PopTo
  <2>2. /\ v \in Literals /\ Len(value_stack'.data) = Len(s.data)
        /\ \A i \in 1 .. Len(s.data) : value_stack'.data[i] = IF i = TopSlot(s) THEN NoValue ELSE s.data[i]
    BY <1>1, <1>5, PopToEffect
  <2>3. v = ValueAbove(value_stack)
    BY <2>1 DEF ValueAbove
  <2> HIDE DEF v
  <2>4. Visible!StandsFor(where, x, v)
    BY <1>1, <2>1, <2>2, AssignVisible
  <2>5. s.size \in Nat /\ s.size <= Len(s.data) /\ Len(s.data) \in Nat /\ StackRecord(s, Literals)
    BY ValuesFinite DEF StacksAllocated, StackAllocated
  <2>6. value_stack'.size = s.size - 1
    <3>1. StackRecord(MovedOut(s), Literals) /\ MovedOut(s).size = s.size /\ ~Empty(MovedOut(s))
      BY <2>1, <2>5, MovedOutStack DEF Empty
    <3> QED
      BY <2>1, <3>1, PoppedStack
  <2>7. \A i \in 1 .. s.size : value_stack'.data[i] = s.data[i]
    BY <2>2, <2>5 DEF TopSlot
  <2>8. Visible!TakeValue
    BY <2>1, <2>2, <2>6, <2>7, TakeVisible
  <2>9. Visible!Usable(where, x) /\ Visible!Continue
    BY <1>1, <2>1, UsableVisible, VisibleSteps
  <2> QED
    BY <1>4, <2>3, <2>4, <2>8, <2>9 DEF Visible!PopValue
<1>6. ASSUME NEW where \in Places, NEW x \in Names, AccessFails(where, x), UNCHANGED <<frames, value_stack>>
      PROVE  Visible!PopValue(where, x)
  <2>1. Visible!Unusable(where, x)
    BY <1>1, <1>6, UnusableVisible
  <2> QED
    BY <1>2, <1>3, <1>4, <1>6, <2>1 DEF Visible!PopValue, Values
<1>7. ASSUME NEW where \in Places, NEW x \in Names, Found(where, x), Empty(s), Stop("MISSING_STACK_VALUE"),
             UNCHANGED <<frames, value_stack>>
      PROVE  Visible!PopValue(where, x)
  <2>1. Visible!Usable(where, x) /\ Visible!Stop("MISSING_STACK_VALUE")
    BY <1>1, <1>7, UsableVisible, VisibleSteps DEF ErrorCodes
  <2>2. Values = <<>>
    <3>1. 1 .. 0 = {}
      OBVIOUS
    <3> QED
      BY <1>7, <3>1 DEF Values, Occupied, Empty
  <2> QED
    BY <1>2, <1>3, <1>4, <1>7, <2>1, <2>2 DEF Visible!PopValue, Values
<1>8. ASSUME NEW where \in Places, NEW x \in Names, ~Empty(s), Stop("undefined"),
             value_stack' = Popped(s), UNCHANGED frames
      PROVE  Visible!PopValue(where, x)
  <2>1. StackRecord(s, Literals)
    BY ValuesFinite
  <2>2. value_stack'.size = s.size - 1 /\ value_stack'.data = s.data
    BY <1>8, <2>1, PoppedStack
  <2>3. Visible!TakeValue
    BY <1>8, <2>2, TakeVisible
  <2>4. Visible!Stop("lost")
    BY <1>1, <1>8, VisibleSteps
  <2> QED
    BY <1>2, <1>4, <1>8, <2>3, <2>4 DEF Visible!PopValue
<1>9. ASSUME NEW where \in Places, NEW x \in Names, Stop("undefined") \/ Stop("aborted"), UNCHANGED <<frames, value_stack>>
      PROVE  Visible!PopValue(where, x)
  <2>1. Visible!Stop("lost")
    BY <1>1, <1>9, VisibleSteps
  <2> QED
    BY <1>2, <1>3, <1>4, <1>9, <2>1 DEF Visible!PopValue, Values
<1>10. \E where \in Places, x \in Names : Visible!PopValue(where, x)
  <2>1. PICK where \in Places, x \in Names :
           \/ PopTo(where, x)
           \/ AccessFails(where, x) /\ UNCHANGED <<frames, value_stack>>
           \/ Found(where, x) /\ Empty(s) /\ Stop("MISSING_STACK_VALUE") /\ UNCHANGED <<frames, value_stack>>
           \/ ~Empty(s) /\ Stop("undefined") /\ value_stack' = Popped(s) /\ UNCHANGED frames
           \/ (Stop("undefined") \/ Stop("aborted")) /\ UNCHANGED <<frames, value_stack>>
    BY DEF PopValue
  <2>2. Visible!PopValue(where, x)
    BY <1>5, <1>6, <1>7, <1>8, <1>9, <2>1
  <2> QED
    BY <2>2
<1> QED
  BY <1>1, <1>10, VisibleSteps DEF Visible!Next, Places

-----------------------------------------------------------------------------
(* Positions                                                                *)

LEMMA CallVisible ==
    TypeInv /\ StacksAllocated /\ FramesInv /\ Call => Visible!Next
<1> SUFFICES ASSUME TypeInv, StacksAllocated, FramesInv, Call PROVE Visible!Next
  OBVIOUS
<1> DEFINE s == call_stack
           target == instruction.destination + 1
<1>1. running /\ Runs("CALL") /\ PlacesDiffer /\ target \in Nat
      /\ UNCHANGED <<frames, temp_frame, frame_stack, value_stack, ir>>
  BY Running, RunningPlaced DEF Call, TypeInv
<1>2. UNCHANGED Visible!names /\ Values' = Values /\ ValueAbove(value_stack)' = ValueAbove(value_stack)
  BY <1>1, SameFrames, SameNames, SameValues
<1>3. StackRecord(s, Nat) /\ s.size <= Len(s.data) /\ s.capacity > 0 /\ s.capacity = Len(s.data)
  BY <1>1 DEF TypeInv, StacksAllocated, StackAllocated
<1> HIDE DEF target
<1>4. ASSUME call_stack' = Pushed(s, target, 0), Continue PROVE Visible!Call
  <2>1. call_stack'.size = s.size + 1
    BY <1>3, <1>4 DEF Pushed, Grown, StackRecord
  <2>2. Visible!Continue
    BY <1>1, <1>4, VisibleSteps
  <2> QED
    BY <1>2, <2>1, <2>2 DEF Visible!Call, Values
<1>5. ASSUME call_stack' = PushFailed(s), OutOfMemory PROVE Visible!Call
  <2>1. call_stack'.size = s.size
    BY <1>3, <1>5, PushFailedStack
  <2>2. Visible!Stop("INTERNAL_ERROR")
    BY <1>1, <1>5, VisibleSteps DEF OutOfMemory, ErrorCodes
  <2> QED
    BY <1>2, <2>1, <2>2 DEF Visible!Call, Values
<1>6. Visible!Call
  BY <1>4, <1>5 DEF Call, target
<1> QED
  BY <1>1, <1>6, VisibleSteps DEF Visible!Next

LEMMA ReturnVisible ==
    TypeInv /\ StacksAllocated /\ FramesInv /\ AboveInv /\ Return => Visible!Next
<1> SUFFICES ASSUME TypeInv, StacksAllocated, FramesInv, AboveInv, Return PROVE Visible!Next
  OBVIOUS
<1> DEFINE s == call_stack
<1>1. running /\ Runs("RETURN") /\ PlacesDiffer
      /\ UNCHANGED <<frames, temp_frame, frame_stack, value_stack, ir>>
  BY RunningPlaced DEF Return, Runs
<1>2. UNCHANGED Visible!names /\ Values' = Values /\ ValueAbove(value_stack)' = ValueAbove(value_stack)
  BY <1>1, SameFrames, SameNames, SameValues
<1>3. StackRecord(s, Nat) /\ s.size \in Nat /\ DOMAIN s.data = 1 .. Len(s.data) /\ Len(s.data) \in Nat
  BY DEF TypeInv, StackRecord, StackOf
<1>4. ASSUME Empty(s), Stop("INTERNAL_ERROR"), UNCHANGED call_stack PROVE Visible!Return
  <2>1. s.size = 0 /\ call_stack'.size = s.size
    BY <1>4 DEF Empty
  <2>2. Visible!Stop("INTERNAL_ERROR")
    BY <1>1, <1>4, VisibleSteps DEF ErrorCodes
  <2> QED
    BY <1>2, <2>1, <2>2 DEF Visible!Return, Values
<1>5. ASSUME ~Empty(s), call_stack' = Popped(s),
             (~Outside(s) /\ Goto(s.data[TopSlot(s)])) \/ Stop("undefined")
      PROVE  Visible!Return
  <2>1. s.size # 0 /\ call_stack'.size = s.size - 1
    BY <1>3, <1>5, PoppedStack DEF Empty
  <2>2. Visible!Stop("lost") \/ \E p \in Visible!ReturnPoints : Visible!Goto(p)
    <3>1. ~Outside(s) => s.data[TopSlot(s)] \in Visible!ReturnPoints
      BY <1>3 DEF Outside, TopSlot, AboveInv, StalePositions
    <3>2. CASE Stop("undefined")
      BY <1>1, <3>2, VisibleSteps
    <3>3. CASE ~Outside(s) /\ Goto(s.data[TopSlot(s)])
      <4>1. Visible!Goto(s.data[TopSlot(s)])
        BY <1>1, <3>3, VisibleSteps
      <4> QED
        BY <3>1, <3>3, <4>1
    <3> QED
      BY <1>5, <3>2, <3>3
  <2> QED
    BY <1>2, <2>1, <2>2 DEF Visible!Return, Values
<1>6. Visible!Return
  BY <1>4, <1>5 DEF Return
<1> QED
  BY <1>1, <1>6, VisibleSteps DEF Visible!Next

LEMMA QuietVisible ==
    TypeInv /\ FramesInv /\ (Jump \/ Skip \/ RunOff) => Visible!Next
<1> SUFFICES ASSUME TypeInv, FramesInv, Jump \/ Skip \/ RunOff PROVE Visible!Next
  OBVIOUS
<1>1. running /\ PlacesDiffer /\ UNCHANGED <<frames, temp_frame, frame_stack, value_stack, call_stack, ir>>
  BY RunningPlaced DEF Jump, Skip, RunOff, Runs, memory_vars
<1>2. UNCHANGED Visible!names /\ Values' = Values /\ ValueAbove(value_stack)' = ValueAbove(value_stack)
      /\ call_stack'.size = call_stack.size
  BY <1>1, SameFrames, SameNames, SameValues
<1>3. Jump => Visible!Runs("JUMP") /\ Visible!Jump
  BY <1>1, <1>2, VisibleSteps DEF Jump, Visible!Jump, Visible!instruction, instruction, Values
<1>4. Skip => Visible!Runs("LABEL") /\ Visible!Skip
  BY <1>1, <1>2, VisibleSteps DEF Skip, Visible!Skip, Values
<1>5. RunOff => Visible!RunOff
  BY <1>1, <1>2, VisibleSteps DEF RunOff, Visible!RunOff, Values
<1> QED
  BY <1>1, <1>3, <1>4, <1>5, VisibleSteps DEF Visible!Next

LEMMA StepVisible ==
    TypeInv /\ StacksAllocated /\ FramesInv /\ AboveInv /\ [Next]_vars => [Visible!Next]_(Visible!vars)
<1> SUFFICES ASSUME TypeInv, StacksAllocated, FramesInv, AboveInv, [Next]_vars
             PROVE  [Visible!Next]_(Visible!vars)
  OBVIOUS
<1>1. ASSUME SameVisible, UNCHANGED <<ir, code_pos, status, value_stack, call_stack>>
      PROVE  UNCHANGED Visible!vars
  <2>1. UNCHANGED Visible!names /\ Values' = Values /\ ValueAbove(value_stack)' = ValueAbove(value_stack)
    BY <1>1, SameNames, SameValues
  <2>2. Outcome' = Outcome /\ call_stack'.size = call_stack.size
    BY <1>1 DEF Outcome
  <2> QED
    BY <1>1, <2>1, <2>2 DEF Visible!vars, Values
<1>2. CASE ReleaseMemory
  <2>1. PlacesDiffer /\ UNCHANGED <<temp_frame, frame_stack, ir, code_pos, status, value_stack, call_stack>>
    BY <1>2 DEF ReleaseMemory, FramesInv, FramesPlaced
  <2>2. DOMAIN frames' = DOMAIN frames /\ \A f \in DOMAIN frames : frames'[f].variables = frames[f].variables
    BY <1>2, FramesAfterEffect DEF ReleaseMemory, TypeInv
  <2>3. SameVisible
    BY <2>1, <2>2, SameFrames
  <2> QED
    BY <1>1, <2>1, <2>3
<1>3. CASE UNCHANGED vars
  <2>1. SameVisible
    BY <1>3 DEF SameVisible, SameLocals, Locals, Occupied, VariablesOf, vars, memory_vars, global_frame
  <2> QED
    BY <1>1, <1>3, <2>1 DEF vars, memory_vars
<1> QED
  BY <1>2, <1>3, CreateFrameVisible, PushFrameVisible, PopFrameVisible, DefVarVisible, MoveVisible,
     PushValueVisible, PopValueVisible, CallVisible, ReturnVisible, QuietVisible DEF Next, interpret_ir

(* For every program, and whatever allocation fails, each instruction does  *)
(* to the names, the values and the position what Frames says it does.      *)
THEOREM InterpreterImplementsFrames == Spec => ImplementsFrames
<1>1. TypeInv /\ StacksAllocated /\ FramesInv /\ AboveInv /\ [Next]_vars => [Visible!Next]_(Visible!vars)
  BY StepVisible
<1>2. Spec => []AboveInv
  BY InitAbove, StepAbove, Types, PTL DEF Spec
<1> QED
  BY <1>1, <1>2, InitVisible, FramesAlways, PTL DEF Spec, ImplementsFrames, Visible!Spec
=============================================================================
