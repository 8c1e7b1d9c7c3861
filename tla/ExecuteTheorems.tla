-------------------------- MODULE ExecuteTheorems ---------------------------
(***************************************************************************)
(* Executing an instruction never leaves the types, for every core size    *)
(* and every memory.                                                       *)
(***************************************************************************)
EXTENDS Execute, OffsetTheorems

-----------------------------------------------------------------------------
(* Instructions and operands.                                              *)

LEMMA FieldTypes ==
  ASSUME NEW i \in Instruction, NEW side
  PROVE  /\ Field(i, side) \in FieldOf(Addr)
         /\ Value(i, side) \in Addr
  BY DEF Instruction, InstructionOf, FieldOf, Field, Value

LEMMA SetValueType ==
  ASSUME NEW i \in Instruction, NEW side, NEW v \in Addr
  PROVE  SetValue(i, side, v) \in Instruction
  BY DEF Instruction, InstructionOf, FieldOf, SetValue

LEMMA NormalizeType ==
  ASSUME NEW i \in InstructionOf(Int)
  PROVE  Normalize(i) \in Instruction
  BY NewInCore DEF Instruction, InstructionOf, FieldOf, Normalize

\* A pointer resolves to a cell of the core.
LEMMA PointerInCore ==
  ASSUME NEW mem \in Memory, NEW pc \in Addr, NEW side
  PROVE  ResolvePointer(mem, pc, side) \in Addr
<1> DEFINE f == Field(mem[pc], side)
           hop == f.value + Value(mem[AddInt(pc, f.value)], Through(f.address_mode))
<1>1. f \in FieldOf(Addr)
  BY FieldTypes DEF Memory
<1>2. f.value \in Addr /\ f.value \in Int
  BY <1>1, CoreSizeAssumption, MaxIntAssumption DEF FieldOf, Addr
<1>3. mem[AddInt(pc, f.value)] \in Instruction
  BY <1>2, ArithmeticInCore DEF Memory
<1>4. Value(mem[AddInt(pc, f.value)], Through(f.address_mode)) \in Addr
  BY <1>3, FieldTypes
<1>5. hop \in Int /\ hop - 1 \in Int
  BY <1>2, <1>4, CoreSizeAssumption, MaxIntAssumption DEF Addr
<1>6. /\ 0 \in Int /\ Wrap(hop) \in Int /\ Wrap(hop - 1) \in Int
  BY <1>5, WrapIsInt
<1>7. PointerOffset(mem, pc, f) \in Int
  BY <1>2, <1>6 DEF PointerOffset
<1> QED BY <1>7, ArithmeticInCore DEF ResolvePointer

\* Applying a pointer, before or after, leaves a memory.
LEMMA ApplyPointerType ==
  ASSUME NEW mem \in Memory, NEW pc \in Addr, NEW side, NEW time
  PROVE  ApplyPointer(mem, pc, side, time) \in Memory
<1> DEFINE f   == Field(mem[pc], side)
           via == Through(f.address_mode)
           at  == AddInt(pc, f.value)
<1>1. f \in FieldOf(Addr)
  BY FieldTypes DEF Memory
<1>2. at \in Addr
  <2>1. f.value \in Int
    BY <1>1, CoreSizeAssumption, MaxIntAssumption DEF FieldOf, Addr
  <2> QED BY <2>1, ArithmeticInCore
<1>3. mem[at] \in Instruction
  BY <1>2 DEF Memory
<1>4. Value(mem[at], via) \in Addr
  BY <1>3, FieldTypes
<1>5. Stepped(Value(mem[at], via), f.address_mode, time) \in Addr
  BY <1>4, ArithmeticInCore DEF Stepped
<1>6. SetValue(mem[at], via, Stepped(Value(mem[at], via), f.address_mode, time))
        \in Instruction
  BY <1>3, <1>5, SetValueType
<1> QED BY <1>2, <1>6 DEF ApplyPointer, Memory

LEMMA EvaluateType ==
  ASSUME NEW mem \in Memory, NEW pc \in Addr, NEW side
  PROVE  Evaluate(mem, pc, side) \in [ptr : Addr, value : Instruction, mem : Memory]
<1> DEFINE pre == ApplyPointer(mem, pc, side, "Pre")
           ptr == ResolvePointer(mem, pc, side)
<1>1. ptr \in Addr
  BY PointerInCore
<1>2. pre \in Memory
  BY ApplyPointerType
<1>3. ApplyPointer(pre, pc, side, "Post") \in Memory
  BY <1>2, ApplyPointerType
<1>4. pre[ptr] \in Instruction
  BY <1>1, <1>2 DEF Memory
<1> QED BY <1>1, <1>3, <1>4 DEF Evaluate

Registers ==
  [a_ptr : Addr, a_value : Instruction, b_ptr : Addr, b_value : Instruction,
   mem : Memory]

LEMMA ExecutorType ==
  ASSUME NEW mem \in Memory, NEW pc \in Addr
  PROVE  Executor(mem, pc) \in Registers
<1> DEFINE a == Evaluate(mem, pc, "a")
           b == Evaluate(a.mem, pc, "b")
<1>1. a \in [ptr : Addr, value : Instruction, mem : Memory]
  BY EvaluateType
<1>2. b \in [ptr : Addr, value : Instruction, mem : Memory]
  BY <1>1, EvaluateType
<1> HIDE DEF a, b
<1>3. [a_ptr |-> a.ptr, a_value |-> a.value, b_ptr |-> b.ptr,
       b_value |-> b.value, mem |-> b.mem] \in Registers
  BY <1>1, <1>2 DEF Registers
<1> QED BY <1>3 DEF Executor, a, b

LEMMA StoredValueType ==
  ASSUME NEW ex \in Registers, NEW opcode, NEW modifier, NEW side
  PROVE  StoredValue(ex, opcode, modifier, side) \in Addr
<1> DEFINE a == Value(ex.a_value, Source(modifier, side))
           b == Value(ex.b_value, side)
<1>1. a \in Addr /\ b \in Addr
  BY FieldTypes DEF Registers
<1>2. a \in Int /\ b \in Int /\ b >= 0
  BY <1>1, CoreSizeAssumption, MaxIntAssumption DEF Addr
<1>3. ASSUME Stores(opcode, b)
      PROVE  FieldResult(opcode, a, b) \in Addr
  <2> HIDE DEF a, b
  <2>1. /\ Add(a, b) \in Addr /\ Mul(a, b) \in Addr /\ Sub(b, a) \in Addr
        /\ SubInt(b, 1) \in Addr
        /\ b > 0 => Div(a, b) \in Addr /\ Rem(a, b) \in Addr
    <3>1. 1 \in Int
      OBVIOUS
    <3> QED BY <1>1, <1>2, <3>1, ArithmeticInCore
  <2>2. opcode \in {"Div", "Mod"} => b > 0
    BY <1>2, <1>3 DEF Stores, Divides
  <2> QED BY <1>1, <2>1, <2>2 DEF FieldResult
<1>4. Value(ex.mem[ex.b_ptr], side) \in Addr
  BY FieldTypes DEF Registers, Memory
<1> QED BY <1>3, <1>4 DEF StoredValue

LEMMA TargetType ==
  ASSUME NEW ex \in Registers, NEW opcode, NEW modifier
  PROVE  Target(ex, opcode, modifier) \in Instruction
<1> DEFINE va == StoredValue(ex, opcode, modifier, "a")
           vb == StoredValue(ex, opcode, modifier, "b")
           new == SetValue(SetValue(ex.mem[ex.b_ptr], "a", va), "b", vb)
<1>1. ex.mem[ex.b_ptr] \in Instruction /\ ex.a_value \in Instruction
  BY DEF Registers, Memory
<1>2. va \in Addr /\ vb \in Addr
  BY StoredValueType
<1>3. new \in Instruction
  BY <1>1, <1>2, SetValueType
<1> HIDE DEF new
<1>4. [new EXCEPT !.opcode = ex.a_value.opcode, !.modifier = ex.a_value.modifier]
        \in Instruction
  BY <1>1, <1>3 DEF Instruction, InstructionOf
<1> QED BY <1>3, <1>4 DEF Target, new

\* What executing an instruction returns, whatever the memory holds.
Outcome ==
  [mem : Memory, error : Errors \cup {"None", "Unimplemented"},
   offset : Addr, split : BOOLEAN]

\* No instruction leaves the core: its memory keeps normalised instructions, and
\* the offset it sends its task by is in the core (opcode.rs, modifier.rs and
\* address.rs together).
THEOREM ExecuteInCore ==
  ASSUME NEW mem \in Memory, NEW pc \in Addr
  PROVE  Execute(mem, pc) \in Outcome
<1> DEFINE ex == Executor(mem, pc)
           opcode == mem[pc].opcode
           modifier == mem[pc].modifier
<1>1. ex \in Registers
  BY ExecutorType
<1> HIDE DEF ex, opcode, modifier
<1>2. [ex.mem EXCEPT ![ex.b_ptr] = Target(ex, opcode, modifier)] \in Memory
  <2>1. Target(ex, opcode, modifier) \in Instruction
    BY <1>1, TargetType
  <2> QED BY <1>1, <2>1 DEF Registers, Memory
<1>3. Fault(ex, opcode, modifier) \in Errors \cup {"None", "Unimplemented"}
  BY DEF Fault, Errors
<1>4. Sub(ex.a_ptr, pc) \in Addr /\ New(2) \in Addr /\ New(1) \in Addr
  <2>1. pc \in Int /\ 1 \in Int /\ 2 \in Int
    BY CoreSizeAssumption, MaxIntAssumption DEF Addr
  <2> QED BY <1>1, <2>1, ArithmeticInCore, NewInCore DEF Registers
<1>5. (opcode = "Spl") \in BOOLEAN
  OBVIOUS
<1>6. [mem |-> [ex.mem EXCEPT ![ex.b_ptr] = Target(ex, opcode, modifier)],
       error |-> Fault(ex, opcode, modifier),
       offset |-> IF Jumps(ex, opcode, modifier) THEN Sub(ex.a_ptr, pc)
                  ELSE IF Skips(ex, opcode, modifier) THEN New(2) ELSE New(1),
       split |-> opcode = "Spl"] \in Outcome
  BY <1>2, <1>3, <1>4, <1>5 DEF Outcome
<1> QED BY <1>6 DEF Execute, ex, opcode, modifier
=============================================================================
