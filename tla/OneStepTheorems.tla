--------------------------- MODULE OneStepTheorems ---------------------------
(***************************************************************************)
(* The properties of single instructions, for every core size and every    *)
(* memory: what one execution leaves, and how two executions compare.      *)
(***************************************************************************)
EXTENDS OneStep, ExecuteTheorems

-----------------------------------------------------------------------------
(* The one step.                                                           *)

Executed ==
  /\ memory \in Memory
  /\ ran => outcome = Execute(memory, 0)

LEMMA ExecutedInvariance == Spec => []Executed
<1> DEFINE v == <<memory, ran, outcome>>
<1>1. Init => Executed
  BY MemoriesAssumption DEF Init, Executed
<1>2. Executed /\ [Step]_v => Executed'
  BY DEF Executed, Step
<1> QED BY <1>1, <1>2, PTL DEF Spec

LEMMA Origin0 == 0 \in Addr
  BY CoreSizeAssumption, MaxIntAssumption DEF Addr

\* Whatever is executed returns normalised instructions, an error or none, and an
\* offset inside the core ("This will always be less than the core size",
\* offset.rs:27).
THEOREM OutcomeCorrect == Spec => []OutcomeOK
<1>1. Executed => OutcomeOK
  BY Origin0, ExecuteInCore DEF Executed, OutcomeOK, Outcome
<1> QED BY <1>1, ExecutedInvariance, PTL

-----------------------------------------------------------------------------
(* What is left at the target.                                             *)

LEMMA ValueSet ==
  ASSUME NEW i \in Instruction, NEW side \in Side, NEW v, NEW other \in Side
  PROVE  Value(SetValue(i, side, v), other)
           = IF other = side THEN v ELSE Value(i, other)
  BY DEF Instruction, InstructionOf, FieldOf, Side, Value, Field, SetValue

\* The target holds the stored values, under MOV.I too.
LEMMA TargetValues ==
  ASSUME NEW ex \in Registers, NEW opcode, NEW modifier, NEW side \in Side
  PROVE  Value(Target(ex, opcode, modifier), side)
           = StoredValue(ex, opcode, modifier, side)
<1> DEFINE va  == StoredValue(ex, opcode, modifier, "a")
           vb  == StoredValue(ex, opcode, modifier, "b")
           old == ex.mem[ex.b_ptr]
           new == SetValue(SetValue(old, "a", va), "b", vb)
<1>1. old \in Instruction /\ va \in Addr /\ vb \in Addr
  BY StoredValueType DEF Registers, Memory
<1>2. SetValue(old, "a", va) \in Instruction
  BY <1>1, SetValueType
<1>3. new \in Instruction
  BY <1>1, <1>2, SetValueType
<1>4. Value(new, side) = StoredValue(ex, opcode, modifier, side)
  <2>1. "a" \in Side /\ "b" \in Side
    BY DEF Side
  <2>2. Value(new, "b") = vb /\ Value(new, "a") = Value(SetValue(old, "a", va), "a")
    BY <1>2, <2>1, ValueSet
  <2>3. Value(SetValue(old, "a", va), "a") = va
    BY <1>1, <2>1, ValueSet
  <2> HIDE DEF new, va, vb
  <2>4. CASE side = "a"
    BY <2>2, <2>3, <2>4 DEF va
  <2>5. CASE side = "b"
    BY <2>2, <2>5 DEF vb
  <2> QED BY <2>4, <2>5 DEF Side
<1> HIDE DEF new
<1>5. Value([new EXCEPT !.opcode = ex.a_value.opcode,
                        !.modifier = ex.a_value.modifier], side) = Value(new, side)
  BY <1>3 DEF Instruction, InstructionOf, Value, Field
<1> QED BY <1>4, <1>5 DEF Target, new

\* After an execution the B pointer shows the target, the rest of the core is what the
\* evaluation of the operands has left.
LEMMA ExecuteMemory ==
  ASSUME NEW mem \in Memory, NEW pc \in Addr
  PROVE  LET ex == Executor(mem, pc)
         IN  /\ ex \in Registers
             /\ Execute(mem, pc).mem =
                  [ex.mem EXCEPT ![ex.b_ptr] = Target(ex, mem[pc].opcode, mem[pc].modifier)]
             /\ Execute(mem, pc).mem[ex.b_ptr]
                  = Target(ex, mem[pc].opcode, mem[pc].modifier)
             /\ Execute(mem, pc).error = Fault(ex, mem[pc].opcode, mem[pc].modifier)
<1> DEFINE ex == Executor(mem, pc)
<1>1. ex \in Registers
  BY ExecutorType
<1>2. /\ Execute(mem, pc).mem =
           [ex.mem EXCEPT ![ex.b_ptr] = Target(ex, mem[pc].opcode, mem[pc].modifier)]
      /\ Execute(mem, pc).error = Fault(ex, mem[pc].opcode, mem[pc].modifier)
  BY DEF Execute
<1> HIDE DEF ex
<1> QED BY <1>1, <1>2 DEF Registers, Memory, ex

LEMMA SelectedSides == \A modifier : Selected(modifier) \subseteq Side
  BY DEF Selected, Side

\* DJN jumps exactly when one of the fields that it counts down is left non-zero in the
\* core, whatever its operands have done to that field before (opcode.rs, Djn).
THEOREM CountdownCorrect == Spec => []CountdownAgrees
<1>1. Executed => CountdownAgrees
  <2> SUFFICES ASSUME Executed, Opcode0 = "Djn", ran
               PROVE  CountdownAgrees
    BY DEF CountdownAgrees
  <2> DEFINE ex == Executor(memory, 0)
  <2>1. /\ ex \in Registers
        /\ outcome.mem[ex.b_ptr] = Target(ex, "Djn", Modifier0)
    BY Origin0, ExecuteMemory DEF Executed, Opcode0, Modifier0
  <2> HIDE DEF ex
  <2>2. ASSUME NEW s \in Selected(Modifier0)
        PROVE  Value(outcome.mem[ex.b_ptr], s) = SubInt(Value(ex.b_value, s), 1)
    <3>1. s \in Side
      BY SelectedSides
    <3>2. Value(outcome.mem[ex.b_ptr], s) = StoredValue(ex, "Djn", Modifier0, s)
      BY <2>1, <3>1, TargetValues
    <3> QED BY <3>2 DEF StoredValue, Stores, FieldResult
  <2>3. Jumps(ex, "Djn", Modifier0) <=>
          \E s \in Selected(Modifier0) : SubInt(Value(ex.b_value, s), 1) # 0
    BY DEF Jumps
  <2> QED BY <2>2, <2>3 DEF CountdownAgrees, ex
<1> QED BY <1>1, ExecutedInvariance, PTL

-----------------------------------------------------------------------------
(* The same memory with another opcode.                                    *)

Recoded(mem, opcode) == [mem EXCEPT ![0].opcode = opcode]

\* No operand reads an opcode.
LEMMA RecodedCells ==
  ASSUME NEW mem \in Memory, NEW opcode \in Opcode
  PROVE  /\ Recoded(mem, opcode) \in Memory
         /\ Recoded(mem, opcode)[0].opcode = opcode
         /\ Recoded(mem, opcode)[0].modifier = mem[0].modifier
         /\ \A a \in Addr : \A side :
              /\ Field(Recoded(mem, opcode)[a], side) = Field(mem[a], side)
              /\ Value(Recoded(mem, opcode)[a], side) = Value(mem[a], side)
<1> DEFINE rec == Recoded(mem, opcode)
<1>1. mem[0] \in Instruction
  BY Origin0 DEF Memory
<1>2. /\ rec \in [Addr -> Instruction] /\ mem \in [Addr -> Instruction]
      /\ rec[0] = [mem[0] EXCEPT !.opcode = opcode]
      /\ \A a \in Addr : a # 0 => rec[a] = mem[a]
  <2>1. [mem[0] EXCEPT !.opcode = opcode] \in Instruction
    BY <1>1 DEF Instruction, InstructionOf
  <2> QED BY <2>1, Origin0 DEF Recoded, Memory
<1>3. /\ rec[0].opcode = opcode /\ rec[0].modifier = mem[0].modifier
      /\ rec[0].a_field = mem[0].a_field /\ rec[0].b_field = mem[0].b_field
  <2> HIDE DEF rec
  <2> QED BY <1>1, <1>2 DEF Instruction, InstructionOf
<1>4. ASSUME NEW a \in Addr, NEW side
      PROVE  /\ Field(rec[a], side) = Field(mem[a], side)
             /\ Value(rec[a], side) = Value(mem[a], side)
  <2> HIDE DEF rec
  <2>1. Field(rec[a], side) = Field(mem[a], side)
    BY <1>2, <1>3 DEF Field
  <2> QED BY <2>1 DEF Value
<1> HIDE DEF rec
<1> QED BY <1>2, <1>3, <1>4 DEF rec, Memory

LEMMA RecodedSet ==
  ASSUME NEW mem \in Memory, NEW opcode \in Opcode, NEW a \in Addr, NEW side, NEW v
  PROVE  [Recoded(mem, opcode) EXCEPT ![a] = SetValue(@, side, v)]
           = Recoded([mem EXCEPT ![a] = SetValue(@, side, v)], opcode)
<1>1. CASE a # 0
  BY <1>1, Origin0 DEF Recoded, Memory
<1>2. CASE a = 0
  <2>1. SetValue([mem[0] EXCEPT !.opcode = opcode], side, v)
          = [SetValue(mem[0], side, v) EXCEPT !.opcode = opcode]
    BY Origin0 DEF SetValue, Memory, Instruction, InstructionOf, FieldOf
  <2>2. [Recoded(mem, opcode) EXCEPT ![0] = SetValue(@, side, v)]
          = [mem EXCEPT ![0] = SetValue([mem[0] EXCEPT !.opcode = opcode], side, v)]
    BY Origin0 DEF Recoded, Memory
  <2>3. Recoded([mem EXCEPT ![0] = SetValue(@, side, v)], opcode)
          = [mem EXCEPT ![0] = [SetValue(mem[0], side, v) EXCEPT !.opcode = opcode]]
    BY Origin0 DEF Recoded, Memory
  <2> QED BY <1>2, <2>1, <2>2, <2>3
<1> QED BY <1>1, <1>2

LEMMA FieldValueInt ==
  ASSUME NEW mem \in Memory, NEW pc \in Addr, NEW side
  PROVE  /\ Field(mem[pc], side) \in FieldOf(Addr)
         /\ Field(mem[pc], side).value \in Addr
         /\ Field(mem[pc], side).value \in Int
         /\ AddInt(pc, Field(mem[pc], side).value) \in Addr
<1>1. Field(mem[pc], side) \in FieldOf(Addr)
  BY FieldTypes DEF Memory
<1>2. Field(mem[pc], side).value \in Addr /\ Field(mem[pc], side).value \in Int
  BY <1>1, CoreSizeAssumption, MaxIntAssumption DEF FieldOf, Addr
<1> QED BY <1>1, <1>2, ArithmeticInCore

LEMMA RecodedPointer ==
  ASSUME NEW mem \in Memory, NEW opcode \in Opcode, NEW pc \in Addr, NEW side
  PROVE  /\ ResolvePointer(Recoded(mem, opcode), pc, side) = ResolvePointer(mem, pc, side)
         /\ \A time : ApplyPointer(Recoded(mem, opcode), pc, side, time)
                        = Recoded(ApplyPointer(mem, pc, side, time), opcode)
<1> DEFINE rec == Recoded(mem, opcode)
           f   == Field(mem[pc], side)
           via == Through(f.address_mode)
           at  == AddInt(pc, f.value)
<1>1. Field(rec[pc], side) = f
  BY RecodedCells
<1>2. at \in Addr
  BY FieldValueInt
<1>3. Value(rec[at], via) = Value(mem[at], via)
  BY <1>2, RecodedCells
<1>4. PointerOffset(rec, pc, f) = PointerOffset(mem, pc, f)
  BY <1>3 DEF PointerOffset
<1>5. ASSUME NEW time
      PROVE  ApplyPointer(rec, pc, side, time) = Recoded(ApplyPointer(mem, pc, side, time), opcode)
  <2> DEFINE v == Stepped(Value(mem[at], via), f.address_mode, time)
  <2>1. ApplyPointer(rec, pc, side, time) = [rec EXCEPT ![at] = SetValue(@, via, v)]
    BY <1>1, <1>3 DEF ApplyPointer
  <2>2. ApplyPointer(mem, pc, side, time) = [mem EXCEPT ![at] = SetValue(@, via, v)]
    BY DEF ApplyPointer
  <2> HIDE DEF v, via, at
  <2>3. [Recoded(mem, opcode) EXCEPT ![at] = SetValue(@, via, v)]
          = Recoded([mem EXCEPT ![at] = SetValue(@, via, v)], opcode)
    BY <1>2, RecodedSet
  <2> QED BY <2>1, <2>2, <2>3
<1> QED BY <1>1, <1>4, <1>5 DEF ResolvePointer

LEMMA RecodedEvaluate ==
  ASSUME NEW mem \in Memory, NEW opcode \in Opcode, NEW pc \in Addr, NEW side
  PROVE  LET e == Evaluate(mem, pc, side)
             r == Evaluate(Recoded(mem, opcode), pc, side)
         IN  /\ r.ptr = e.ptr
             /\ \A s : Value(r.value, s) = Value(e.value, s)
             /\ r.mem = Recoded(e.mem, opcode)
<1> DEFINE pre == ApplyPointer(mem, pc, side, "Pre")
           ptr == ResolvePointer(mem, pc, side)
<1>1. pre \in Memory /\ ptr \in Addr
  BY ApplyPointerType, PointerInCore
<1>2. /\ ResolvePointer(Recoded(mem, opcode), pc, side) = ptr
      /\ ApplyPointer(Recoded(mem, opcode), pc, side, "Pre") = Recoded(pre, opcode)
  BY RecodedPointer
<1>3. ApplyPointer(Recoded(pre, opcode), pc, side, "Post")
        = Recoded(ApplyPointer(pre, pc, side, "Post"), opcode)
  BY <1>1, RecodedPointer
<1>4. \A s : Value(Recoded(pre, opcode)[ptr], s) = Value(pre[ptr], s)
  <2> HIDE DEF pre, ptr
  <2> QED BY <1>1, RecodedCells
<1> HIDE DEF pre, ptr
<1> QED BY <1>2, <1>3, <1>4 DEF Evaluate, pre, ptr

LEMMA RecodedExecutor ==
  ASSUME NEW mem \in Memory, NEW opcode \in Opcode, NEW pc \in Addr
  PROVE  LET e == Executor(mem, pc)
             r == Executor(Recoded(mem, opcode), pc)
         IN  /\ r.a_ptr = e.a_ptr /\ r.b_ptr = e.b_ptr
             /\ \A s : /\ Value(r.a_value, s) = Value(e.a_value, s)
                       /\ Value(r.b_value, s) = Value(e.b_value, s)
             /\ r.mem = Recoded(e.mem, opcode)
<1> DEFINE a  == Evaluate(mem, pc, "a")
           b  == Evaluate(a.mem, pc, "b")
           ra == Evaluate(Recoded(mem, opcode), pc, "a")
           rb == Evaluate(ra.mem, pc, "b")
<1>1. a \in [ptr : Addr, value : Instruction, mem : Memory]
  BY EvaluateType
<1>2. /\ ra.ptr = a.ptr /\ ra.mem = Recoded(a.mem, opcode)
      /\ \A s : Value(ra.value, s) = Value(a.value, s)
  BY RecodedEvaluate
<1>3. a.mem \in Memory
  BY <1>1
<1> HIDE DEF a, ra
<1>4. /\ rb.ptr = b.ptr /\ rb.mem = Recoded(b.mem, opcode)
      /\ \A s : Value(rb.value, s) = Value(b.value, s)
  <2> DEFINE m == a.mem
  <2>1. m \in Memory /\ ra.mem = Recoded(m, opcode)
    BY <1>2, <1>3
  <2> HIDE DEF m
  <2>2. /\ Evaluate(Recoded(m, opcode), pc, "b").ptr = Evaluate(m, pc, "b").ptr
        /\ Evaluate(Recoded(m, opcode), pc, "b").mem
             = Recoded(Evaluate(m, pc, "b").mem, opcode)
        /\ \A s : Value(Evaluate(Recoded(m, opcode), pc, "b").value, s)
                   = Value(Evaluate(m, pc, "b").value, s)
    BY <2>1, RecodedEvaluate
  <2> QED BY <2>1, <2>2 DEF m
<1> HIDE DEF b, rb
<1> QED BY <1>2, <1>4 DEF Executor, a, b, ra, rb

\* Quotient and remainder of two offsets are offsets themselves: New changes neither.
LEMMA DivisionExact ==
  ASSUME NEW a \in Addr, NEW b \in Addr, b # 0
  PROVE  Div(a, b) * b + Rem(a, b) = a
<1>1. a \in Nat /\ b \in Nat \ {0} /\ a < CoreSize /\ CoreSize \in Nat
  BY CoreSizeAssumption, MaxIntAssumption DEF Addr
<1> DEFINE q == a \div b
           r == a % b
<1>2. a = q * b + r /\ q \in Nat /\ r \in Nat /\ r < b
  BY <1>1
<1>3. q <= a /\ r <= a
  <2>1. \A n \in Nat, d \in Nat \ {0} : n \div d <= n /\ n % d <= n
    OBVIOUS
  <2> QED BY <1>1, <2>1
<1> HIDE DEF q, r
<1>4. q \in Addr /\ r \in Addr
  BY <1>1, <1>2, <1>3 DEF Addr
<1>5. New(q) = q /\ New(r) = r
  BY <1>4, NewExact
<1>6. Div(a, b) = q /\ Rem(a, b) = r
  BY <1>5 DEF Div, Rem, q, r
<1> QED BY <1>2, <1>6

\* DIV and MOD of the same operands fail together, and together give the dividend back
\* in every field that they store (opcode.rs:50-73).
THEOREM DivisionCorrect == Spec => []DivisionAgrees
<1>1. Executed => DivisionAgrees
  <2> SUFFICES ASSUME Executed, Opcode0 = "Div", ran
               PROVE  DivisionAgrees
    BY DEF DivisionAgrees
  <2> DEFINE ex  == Executor(memory, 0)
             rec == Recoded(memory, "Mod")
             rex == Executor(rec, 0)
             mod == Instead("Mod")
  <2>1. memory \in Memory /\ "Mod" \in Opcode
    BY DEF Executed, Opcode, Arithmetic
  <2>2. /\ rec \in Memory /\ rec[0].opcode = "Mod" /\ rec[0].modifier = Modifier0
        /\ mod = Execute(rec, 0)
    BY <2>1, RecodedCells DEF Modifier0, Instead, Recoded
  <2>3. /\ ex \in Registers
        /\ outcome.mem[ex.b_ptr] = Target(ex, "Div", Modifier0)
        /\ outcome.error = Fault(ex, "Div", Modifier0)
    BY <2>1, Origin0, ExecuteMemory DEF Executed, Opcode0, Modifier0
  <2>4. /\ rex \in Registers
        /\ mod.mem[rex.b_ptr] = Target(rex, "Mod", Modifier0)
        /\ mod.error = Fault(rex, "Mod", Modifier0)
    <3> HIDE DEF rec, mod
    <3> QED BY <2>2, Origin0, ExecuteMemory
  <2>5. /\ rex.b_ptr = ex.b_ptr
        /\ \A s : /\ Value(rex.a_value, s) = Value(ex.a_value, s)
                  /\ Value(rex.b_value, s) = Value(ex.b_value, s)
    BY <2>1, Origin0, RecodedExecutor
  <2> HIDE DEF ex, rec, rex, mod
  <2>6. outcome.error = mod.error
    BY <2>3, <2>4, <2>5 DEF Fault, Divides
  <2>7. ASSUME NEW s \in Selected(Modifier0)
        PROVE  LET a == Value(ex.a_value, Source(Modifier0, s))
                   b == Value(ex.b_value, s)
               IN  IF b = 0 THEN outcome.error = "DivideByZero"
                   ELSE Value(outcome.mem[ex.b_ptr], s) * b
                          + Value(mod.mem[ex.b_ptr], s) = a
    <3> DEFINE a == Value(ex.a_value, Source(Modifier0, s))
               b == Value(ex.b_value, s)
    <3>1. s \in Side
      BY SelectedSides
    <3>2. a \in Addr /\ b \in Addr
      BY <2>3, FieldTypes DEF Registers
    <3>3. CASE b = 0
      <4>1. Fault(ex, "Div", Modifier0) = "DivideByZero"
        BY <3>3 DEF Fault, Divides, PSpace
      <4> QED BY <2>3, <3>3, <4>1
    <3>4. CASE b # 0
      <4>1. Value(outcome.mem[ex.b_ptr], s) = StoredValue(ex, "Div", Modifier0, s)
        BY <2>3, <3>1, TargetValues
      <4>2. Value(mod.mem[ex.b_ptr], s) = StoredValue(rex, "Mod", Modifier0, s)
        BY <2>4, <2>5, <3>1, TargetValues
      <4>3. StoredValue(ex, "Div", Modifier0, s) = Div(a, b)
        BY <3>4 DEF StoredValue, Stores, Divides, FieldResult
      <4>4. StoredValue(rex, "Mod", Modifier0, s) = Rem(a, b)
        BY <2>5, <3>4 DEF StoredValue, Stores, Divides, FieldResult
      <4>5. Div(a, b) * b + Rem(a, b) = a
        BY <3>2, <3>4, DivisionExact
      <4> QED BY <3>4, <4>1, <4>2, <4>3, <4>4, <4>5
    <3> QED BY <3>3, <3>4
  <2> QED BY <2>6, <2>7 DEF DivisionAgrees, ex, mod
<1> QED BY <1>1, ExecutedInvariance, PTL

-----------------------------------------------------------------------------
(* The same core seen from another origin.  The offsets must leave room    *)
(* for their sum: where it overflows, an i32 wraps around at a place that  *)
(* has nothing to do with the core.                                        *)

SumsFit == 2 * CoreSize <= MaxInt

\* Where a cell is found after the rotation.
Moved(a, by) == AddInt(a, by)

LEMMA SumsExact ==
  ASSUME SumsFit, NEW a \in Addr, NEW b \in Int
  PROVE  /\ AddInt(a, b) = New(a + b)
         /\ SubInt(a, b) = New(a - b)
         /\ b \in Addr => Sub(a, b) = New(a - b)
<1>1. /\ a \in Int /\ 0 <= a /\ a < CoreSize /\ CoreSize \in Nat /\ MaxInt \in Nat
  BY CoreSizeAssumption, MaxIntAssumption DEF Addr
<1>2. \A n \in Addr : /\ n \in Int
                      /\ Wrap(a + n) = a + n /\ Wrap(a - n) = a - n
  <2> TAKE n \in Addr
  <2>1. n \in Int /\ 0 <= n /\ n < CoreSize
    BY <1>1 DEF Addr
  <2>2. /\ a + n \in Int /\ -(MaxInt + 1) <= a + n /\ a + n <= MaxInt
        /\ a - n \in Int /\ -(MaxInt + 1) <= a - n /\ a - n <= MaxInt
    BY <1>1, <2>1 DEF SumsFit
  <2> QED BY <2>1, <2>2, WrapExact
<1>3. New(b) \in Addr
  BY NewInCore
<1>4. AddInt(a, b) = New(a + New(b)) /\ SubInt(a, b) = New(a - New(b))
  BY <1>2, <1>3 DEF AddInt, SubInt, Add, Sub
<1>5. b \in Addr => Sub(a, b) = New(a - b)
  BY <1>2 DEF Sub
<1> QED BY <1>1, <1>4, <1>5, NewCongruent

LEMMA MovedInCore == \A a \in Addr, by \in Addr : Moved(a, by) \in Addr
  BY ArithmeticInCore, CoreSizeAssumption, MaxIntAssumption DEF Moved, Addr

\* A rotation keeps the distances.
LEMMA MovedDistances ==
  ASSUME SumsFit, NEW a \in Addr, NEW b \in Addr, NEW by \in Addr, NEW v \in Int
  PROVE  /\ SubInt(Moved(a, by), by) = a
         /\ Moved(SubInt(a, by), by) = a
         /\ AddInt(Moved(a, by), v) = Moved(AddInt(a, v), by)
         /\ Sub(Moved(a, by), Moved(b, by)) = Sub(a, b)
<1>1. a \in Int /\ b \in Int /\ by \in Int
  BY CoreSizeAssumption, MaxIntAssumption DEF Addr
<1>2. /\ Moved(a, by) = New(a + by) /\ Moved(a, by) \in Addr
      /\ Moved(b, by) = New(b + by) /\ Moved(b, by) \in Addr
  BY <1>1, SumsExact, MovedInCore DEF Moved
<1>3. SubInt(Moved(a, by), by) = a
  <2>1. SubInt(Moved(a, by), by) = New(New(a + by) - by)
    BY <1>1, <1>2, SumsExact
  <2>2. New(New(a + by) - by) = New((a + by) - by)
    <3>1. a + by \in Int
      BY <1>1
    <3> QED BY <1>1, <3>1, NewCongruent
  <2>3. (a + by) - by = a
    BY <1>1
  <2> QED BY <2>1, <2>2, <2>3, NewExact
<1>4. Moved(SubInt(a, by), by) = a
  <2>1. SubInt(a, by) = New(a - by) /\ SubInt(a, by) \in Addr
    BY <1>1, SumsExact, ArithmeticInCore
  <2>2. Moved(SubInt(a, by), by) = New(New(a - by) + by)
    BY <1>1, <2>1, SumsExact DEF Moved
  <2>3. New(New(a - by) + by) = New((a - by) + by)
    <3>1. a - by \in Int
      BY <1>1
    <3> QED BY <1>1, <3>1, NewCongruent
  <2>4. (a - by) + by = a
    BY <1>1
  <2> QED BY <2>2, <2>3, <2>4, NewExact
<1>5. AddInt(Moved(a, by), v) = Moved(AddInt(a, v), by)
  <2>1. AddInt(Moved(a, by), v) = New(New(a + by) + v)
    BY <1>2, SumsExact
  <2>2. AddInt(a, v) = New(a + v) /\ AddInt(a, v) \in Addr
    BY SumsExact, ArithmeticInCore
  <2>3. Moved(AddInt(a, v), by) = New(New(a + v) + by)
    BY <1>1, <2>2, SumsExact DEF Moved
  <2>4. a + by \in Int /\ a + v \in Int /\ (a + by) + v = (a + v) + by
    BY <1>1
  <2> QED BY <1>1, <2>1, <2>3, <2>4, NewCongruent
<1>6. Sub(Moved(a, by), Moved(b, by)) = Sub(a, b)
  <2>1. Sub(Moved(a, by), Moved(b, by)) = New(New(a + by) - New(b + by))
    BY <1>2, NewInCore, SumsExact, CoreSizeAssumption, MaxIntAssumption DEF Addr
  <2>2. /\ a + by \in Int /\ b + by \in Int /\ New(b + by) \in Int
        /\ (a + by) - (b + by) = a - b
    BY <1>1, <1>2, CoreSizeAssumption, MaxIntAssumption DEF Addr
  <2>3. New(New(a + by) - New(b + by)) = New(a - b)
    BY <2>2, NewCongruent
  <2> QED BY <1>1, <2>1, <2>3, SumsExact
<1> QED BY <1>3, <1>4, <1>5, <1>6

LEMMA RotatedType ==
  ASSUME NEW mem \in Memory, NEW by \in Addr
  PROVE  Rotated(mem, by) \in Memory
<1>1. \A a \in Addr : SubInt(a, by) \in Addr
  BY ArithmeticInCore, CoreSizeAssumption, MaxIntAssumption DEF Addr
<1> QED BY <1>1 DEF Rotated, Memory

LEMMA RotatedCells ==
  ASSUME SumsFit, NEW mem \in Memory, NEW by \in Addr, NEW a \in Addr
  PROVE  Rotated(mem, by)[Moved(a, by)] = mem[a]
<1>1. Moved(a, by) \in Addr /\ SubInt(Moved(a, by), by) = a
  BY MovedInCore, MovedDistances, Origin0, CoreSizeAssumption, MaxIntAssumption DEF Addr
<1> QED BY <1>1 DEF Rotated

LEMMA RotatedChange ==
  ASSUME SumsFit, NEW mem \in Memory, NEW by \in Addr, NEW a \in Addr, NEW i
  PROVE  [Rotated(mem, by) EXCEPT ![Moved(a, by)] = i]
           = Rotated([mem EXCEPT ![a] = i], by)
<1>0. 0 \in Int /\ by \in Int
  BY CoreSizeAssumption, MaxIntAssumption DEF Addr
<1>1. \A d \in Addr : /\ SubInt(d, by) \in Addr
                      /\ SubInt(d, by) = a <=> d = Moved(a, by)
  BY <1>0, ArithmeticInCore, MovedDistances
<1>2. Moved(a, by) \in Addr
  BY MovedInCore
<1>3. ASSUME NEW d \in Addr
      PROVE  [Rotated(mem, by) EXCEPT ![Moved(a, by)] = i][d]
               = Rotated([mem EXCEPT ![a] = i], by)[d]
  <2>1. CASE d = Moved(a, by)
    BY <1>1, <1>2, <2>1 DEF Rotated, Memory
  <2>2. CASE d # Moved(a, by)
    BY <1>1, <1>2, <2>2 DEF Rotated, Memory
  <2> QED BY <2>1, <2>2
<1> QED BY <1>3 DEF Rotated

LEMMA RotatedPointer ==
  ASSUME SumsFit, NEW mem \in Memory, NEW by \in Addr, NEW pc \in Addr, NEW side
  PROVE  /\ ResolvePointer(Rotated(mem, by), Moved(pc, by), side)
              = Moved(ResolvePointer(mem, pc, side), by)
         /\ \A time : ApplyPointer(Rotated(mem, by), Moved(pc, by), side, time)
                        = Rotated(ApplyPointer(mem, pc, side, time), by)
<1> DEFINE rot == Rotated(mem, by)
           rpc == Moved(pc, by)
           f   == Field(mem[pc], side)
           via == Through(f.address_mode)
           at  == AddInt(pc, f.value)
<1>1. Field(rot[rpc], side) = f
  BY RotatedCells
<1>2. f.value \in Int /\ f.value \in Addr /\ at \in Addr
  BY FieldValueInt
<1>3. AddInt(rpc, f.value) = Moved(at, by)
  BY <1>2, MovedDistances
<1>4. rot[AddInt(rpc, f.value)] = mem[at]
  BY <1>2, <1>3, RotatedCells
<1>5. PointerOffset(rot, rpc, f) = PointerOffset(mem, pc, f)
  <2> HIDE DEF rot, rpc, f
  <2> QED BY <1>4 DEF PointerOffset
<1>6. PointerOffset(mem, pc, f) \in Int
  <2> DEFINE hop == f.value + Value(mem[at], via)
  <2>1. hop \in Int /\ hop - 1 \in Int
    <3>1. Value(mem[at], via) \in Addr
      BY <1>2, FieldTypes DEF Memory
    <3>2. Value(mem[at], via) \in Int
      BY <3>1, CoreSizeAssumption, MaxIntAssumption DEF Addr
    <3> QED BY <1>2, <3>2
  <2>2. 0 \in Int /\ Wrap(hop) \in Int /\ Wrap(hop - 1) \in Int
    BY <2>1, WrapIsInt
  <2> HIDE DEF f
  <2> QED BY <1>2, <2>2 DEF PointerOffset
<1>7. ResolvePointer(rot, rpc, side) = Moved(ResolvePointer(mem, pc, side), by)
  <2> HIDE DEF rot, rpc, f
  <2>1. ResolvePointer(rot, rpc, side) = AddInt(rpc, PointerOffset(mem, pc, f))
    BY <1>1, <1>5 DEF ResolvePointer
  <2>2. ResolvePointer(mem, pc, side) = AddInt(pc, PointerOffset(mem, pc, f))
    BY DEF ResolvePointer, f
  <2> QED BY <1>6, <2>1, <2>2, MovedDistances DEF rpc
<1>8. ASSUME NEW time
      PROVE  ApplyPointer(rot, rpc, side, time) = Rotated(ApplyPointer(mem, pc, side, time), by)
  <2> DEFINE i == SetValue(mem[at], via, Stepped(Value(mem[at], via), f.address_mode, time))
  <2>1. ApplyPointer(rot, rpc, side, time) = [rot EXCEPT ![Moved(at, by)] = i]
    <3> HIDE DEF f, rot, rpc
    <3> QED BY <1>1, <1>3, <1>4, RotatedType DEF ApplyPointer, rot, Memory
  <2>2. ApplyPointer(mem, pc, side, time) = [mem EXCEPT ![at] = i]
    BY <1>2 DEF ApplyPointer, Memory
  <2> HIDE DEF i, at
  <2>3. [Rotated(mem, by) EXCEPT ![Moved(at, by)] = i]
          = Rotated([mem EXCEPT ![at] = i], by)
    BY <1>2, RotatedChange
  <2> QED BY <2>1, <2>2, <2>3
<1> QED BY <1>7, <1>8

LEMMA RotatedEvaluate ==
  ASSUME SumsFit, NEW mem \in Memory, NEW by \in Addr, NEW pc \in Addr, NEW side
  PROVE  LET e == Evaluate(mem, pc, side)
             r == Evaluate(Rotated(mem, by), Moved(pc, by), side)
         IN  /\ r.ptr = Moved(e.ptr, by)
             /\ r.value = e.value
             /\ r.mem = Rotated(e.mem, by)
<1> DEFINE pre == ApplyPointer(mem, pc, side, "Pre")
           ptr == ResolvePointer(mem, pc, side)
<1>1. pre \in Memory /\ ptr \in Addr
  BY ApplyPointerType, PointerInCore
<1>2. /\ ResolvePointer(Rotated(mem, by), Moved(pc, by), side) = Moved(ptr, by)
      /\ ApplyPointer(Rotated(mem, by), Moved(pc, by), side, "Pre") = Rotated(pre, by)
  BY RotatedPointer
<1>3. ApplyPointer(Rotated(pre, by), Moved(pc, by), side, "Post")
        = Rotated(ApplyPointer(pre, pc, side, "Post"), by)
  BY <1>1, RotatedPointer
<1>4. Rotated(pre, by)[Moved(ptr, by)] = pre[ptr]
  <2> HIDE DEF pre, ptr
  <2> QED BY <1>1, RotatedCells
<1> HIDE DEF pre, ptr
<1> QED BY <1>2, <1>3, <1>4 DEF Evaluate, pre, ptr

LEMMA RotatedExecutor ==
  ASSUME SumsFit, NEW mem \in Memory, NEW by \in Addr, NEW pc \in Addr
  PROVE  LET e == Executor(mem, pc)
             r == Executor(Rotated(mem, by), Moved(pc, by))
         IN  /\ r.a_ptr = Moved(e.a_ptr, by) /\ r.a_value = e.a_value
             /\ r.b_ptr = Moved(e.b_ptr, by) /\ r.b_value = e.b_value
             /\ r.mem = Rotated(e.mem, by)
<1> DEFINE a  == Evaluate(mem, pc, "a")
           m  == a.mem
           b  == Evaluate(m, pc, "b")
           ra == Evaluate(Rotated(mem, by), Moved(pc, by), "a")
           rb == Evaluate(ra.mem, Moved(pc, by), "b")
<1>1. a \in [ptr : Addr, value : Instruction, mem : Memory]
  BY EvaluateType
<1>2. /\ ra.ptr = Moved(a.ptr, by) /\ ra.value = a.value
      /\ ra.mem = Rotated(m, by)
  BY RotatedEvaluate
<1>3. m \in Memory
  BY <1>1
<1> HIDE DEF a, m, ra
<1>4. /\ rb.ptr = Moved(b.ptr, by) /\ rb.value = b.value
      /\ rb.mem = Rotated(b.mem, by)
  <2>1. LET r == Evaluate(Rotated(m, by), Moved(pc, by), "b")
        IN  /\ r.ptr = Moved(b.ptr, by) /\ r.value = b.value
            /\ r.mem = Rotated(b.mem, by)
    BY <1>3, RotatedEvaluate
  <2> QED BY <1>2, <2>1
<1> HIDE DEF b, rb
<1> QED BY <1>2, <1>4 DEF Executor, a, b, ra, rb, m

\* Executing in the rotated core gives the rotated memory, and the same error, offset
\* and split.
LEMMA RotatedExecute ==
  ASSUME SumsFit, NEW mem \in Memory, NEW by \in Addr, NEW pc \in Addr
  PROVE  Execute(Rotated(mem, by), Moved(pc, by))
           = [Execute(mem, pc) EXCEPT !.mem = Rotated(@, by)]
<1> DEFINE ex       == Executor(mem, pc)
           rex      == Executor(Rotated(mem, by), Moved(pc, by))
           opcode   == mem[pc].opcode
           modifier == mem[pc].modifier
<1>1. ex \in Registers
  BY ExecutorType
<1>2. Rotated(mem, by)[Moved(pc, by)] = mem[pc]
  BY RotatedCells
<1>3. /\ rex.a_ptr = Moved(ex.a_ptr, by) /\ rex.a_value = ex.a_value
      /\ rex.b_ptr = Moved(ex.b_ptr, by) /\ rex.b_value = ex.b_value
      /\ rex.mem = Rotated(ex.mem, by)
  BY RotatedExecutor
<1> HIDE DEF ex, rex, opcode, modifier
<1>t. ex.mem \in Memory /\ ex.a_ptr \in Addr /\ ex.b_ptr \in Addr
  BY <1>1 DEF Registers
<1>4. rex.mem[rex.b_ptr] = ex.mem[ex.b_ptr]
  BY <1>3, <1>t, RotatedCells
<1>5. \A side : StoredValue(rex, opcode, modifier, side) = StoredValue(ex, opcode, modifier, side)
  BY <1>3, <1>4 DEF StoredValue
<1>6. Target(rex, opcode, modifier) = Target(ex, opcode, modifier)
  <2>1. /\ StoredValue(rex, opcode, modifier, "a") = StoredValue(ex, opcode, modifier, "a")
        /\ StoredValue(rex, opcode, modifier, "b") = StoredValue(ex, opcode, modifier, "b")
    BY <1>5
  <2> QED BY <1>3, <1>4, <2>1, Zenon DEF Target
<1>7. Differs(rex, modifier) = Differs(ex, modifier)
  BY <1>3, <1>4 DEF Differs
<1>8. /\ Jumps(rex, opcode, modifier) = Jumps(ex, opcode, modifier)
      /\ Skips(rex, opcode, modifier) = Skips(ex, opcode, modifier)
      /\ Fault(rex, opcode, modifier) = Fault(ex, opcode, modifier)
  BY <1>3, <1>7 DEF Jumps, Skips, Fault
<1>9. [rex.mem EXCEPT ![rex.b_ptr] = Target(ex, opcode, modifier)]
        = Rotated([ex.mem EXCEPT ![ex.b_ptr] = Target(ex, opcode, modifier)], by)
  <2> DEFINE i == Target(ex, opcode, modifier)
             m == ex.mem
             c == ex.b_ptr
  <2>1. m \in Memory /\ c \in Addr
    BY <1>t
  <2> HIDE DEF i, m, c
  <2>2. [Rotated(m, by) EXCEPT ![Moved(c, by)] = i] = Rotated([m EXCEPT ![c] = i], by)
    <3>1. \A j : \A mm \in Memory, aa \in Addr :
             [Rotated(mm, by) EXCEPT ![Moved(aa, by)] = j] = Rotated([mm EXCEPT ![aa] = j], by)
      BY RotatedChange
    <3> QED BY <2>1, <3>1
  <2> QED BY <1>3, <2>2 DEF i, m, c
<1>10. Sub(rex.a_ptr, Moved(pc, by)) = Sub(ex.a_ptr, pc)
  <2>1. 0 \in Int
    OBVIOUS
  <2> QED BY <1>3, <1>t, <2>1, MovedDistances
<1>11. Execute(mem, pc) =
         [mem    |-> [ex.mem EXCEPT ![ex.b_ptr] = Target(ex, opcode, modifier)],
          error  |-> Fault(ex, opcode, modifier),
          offset |-> IF Jumps(ex, opcode, modifier) THEN Sub(ex.a_ptr, pc)
                     ELSE IF Skips(ex, opcode, modifier) THEN New(2) ELSE New(1),
          split  |-> opcode = "Spl"]
  BY DEF Execute, ex, opcode, modifier
<1>12. Execute(Rotated(mem, by), Moved(pc, by)) =
         [mem    |-> [rex.mem EXCEPT ![rex.b_ptr] = Target(rex, opcode, modifier)],
          error  |-> Fault(rex, opcode, modifier),
          offset |-> IF Jumps(rex, opcode, modifier) THEN Sub(rex.a_ptr, Moved(pc, by))
                     ELSE IF Skips(rex, opcode, modifier) THEN New(2) ELSE New(1),
          split  |-> opcode = "Spl"]
  BY <1>2 DEF Execute, rex, opcode, modifier
<1> QED BY <1>6, <1>8, <1>9, <1>10, <1>11, <1>12

\* No instruction can tell where in the core it is: executed in the core rotated by any
\* distance, it does the same to the rotated memory.
THEOREM PositionIndependence ==
  ASSUME SumsFit
  PROVE  Spec => []PositionIndependent
<1>1. Executed => PositionIndependent
  <2> SUFFICES ASSUME Executed, ran, NEW by \in Addr
               PROVE  Execute(Rotated(memory, by), by)
                        = [outcome EXCEPT !.mem = Rotated(@, by)]
    BY DEF PositionIndependent
  <2>1. Moved(0, by) = by
    <3>1. 0 \in Int /\ by \in Int /\ 0 + by = by
      BY CoreSizeAssumption, MaxIntAssumption DEF Addr
    <3> QED BY <3>1, Origin0, SumsExact, NewExact DEF Moved
  <2>2. Execute(Rotated(memory, by), Moved(0, by))
          = [Execute(memory, 0) EXCEPT !.mem = Rotated(@, by)]
    BY Origin0, RotatedExecute DEF Executed
  <2> QED BY <2>1, <2>2 DEF Executed
<1> QED BY <1>1, ExecutedInvariance, PTL

-----------------------------------------------------------------------------
(* What the operands change.                                               *)

LEMMA AddrFinite == IsFiniteSet(Addr)
  BY FS_Interval, CoreSizeAssumption, MaxIntAssumption DEF Addr

\* Counting a field up or down by one never wraps, in a core of any size.
LEMMA CountsExact ==
  ASSUME NEW v \in Addr
  PROVE  /\ AddInt(v, 1) = New(v + 1)
         /\ SubInt(v, 1) = New(v - 1)
<1>1. /\ v \in Int /\ 0 <= v /\ v < CoreSize
      /\ CoreSize \in Nat \ {0} /\ MaxInt \in Nat /\ CoreSize <= MaxInt
  BY CoreSizeAssumption, MaxIntAssumption DEF Addr
<1>2. New(1) \in Int /\ 0 <= New(1) /\ New(1) <= 1
  <2>1. \A n \in Nat \ {0} : 1 % n \in Int /\ 0 <= 1 % n /\ 1 % n <= 1
    OBVIOUS
  <2> QED BY <1>1, <2>1 DEF New
<1>3. /\ v + New(1) \in Int /\ -(MaxInt + 1) <= v + New(1) /\ v + New(1) <= MaxInt
      /\ v - New(1) \in Int /\ -(MaxInt + 1) <= v - New(1) /\ v - New(1) <= MaxInt
  <2> DEFINE n == New(1)
  <2>1. n \in Int /\ 0 <= n /\ n <= 1
    BY <1>2
  <2> HIDE DEF n
  <2>2. /\ v + n \in Int /\ -(MaxInt + 1) <= v + n /\ v + n <= MaxInt
        /\ v - n \in Int /\ -(MaxInt + 1) <= v - n /\ v - n <= MaxInt
    BY <1>1, <2>1
  <2> QED BY <2>2 DEF n
<1>4. Wrap(v + New(1)) = v + New(1) /\ Wrap(v - New(1)) = v - New(1)
  BY <1>3, WrapExact
<1>5. New(v + New(1)) = New(v + 1) /\ New(v - New(1)) = New(v - 1)
  <2>1. \A b \in Int : New(v + New(b)) = New(v + b) /\ New(v - New(b)) = New(v - b)
    BY <1>1, NewCongruent
  <2>2. 1 \in Int
    OBVIOUS
  <2> QED BY <2>1, <2>2
<1> QED BY <1>4, <1>5 DEF AddInt, SubInt, Add, Sub

\* What one moment of one operand changes, in the fields of one side.
ChangeAt(mode, side, time) ==
  IF Through(mode) # side THEN 0
  ELSE IF time = "Pre" /\ mode \in PreDec THEN -1
  ELSE IF time = "Post" /\ mode \in PostInc THEN 1 ELSE 0

LEMMA SteppedChange ==
  ASSUME NEW v \in Addr, NEW mode, NEW time
  PROVE  /\ Stepped(v, mode, time) \in Addr
         /\ New(Stepped(v, mode, time) - v) = New(ChangeAt(mode, Through(mode), time))
<1>1. v \in Int /\ 1 \in Int
  BY CoreSizeAssumption, MaxIntAssumption DEF Addr
<1>2. AddInt(v, 1) \in Addr /\ SubInt(v, 1) \in Addr
  BY <1>1, ArithmeticInCore
<1>3. New(AddInt(v, 1) - v) = New(1) /\ New(SubInt(v, 1) - v) = New(-1)
  <2>1. /\ v + 1 \in Int /\ v - 1 \in Int
        /\ (v + 1) - v = 1 /\ (v - 1) - v = -1
    BY <1>1
  <2> QED BY <1>1, <2>1, CountsExact, NewCongruent
<1>4. v - v = 0
  BY <1>1
<1>5. CASE time = "Pre" /\ mode \in PreDec
  <2>1. Stepped(v, mode, time) = SubInt(v, 1) /\ ChangeAt(mode, Through(mode), time) = -1
    BY <1>5 DEF Stepped, ChangeAt
  <2> QED BY <1>2, <1>3, <2>1
<1>6. CASE time = "Post" /\ mode \in PostInc
  <2>1. Stepped(v, mode, time) = AddInt(v, 1) /\ ChangeAt(mode, Through(mode), time) = 1
    BY <1>6 DEF Stepped, ChangeAt
  <2> QED BY <1>2, <1>3, <2>1
<1>7. CASE ~ (time = "Pre" /\ mode \in PreDec) /\ ~ (time = "Post" /\ mode \in PostInc)
  <2>1. Stepped(v, mode, time) = v /\ ChangeAt(mode, Through(mode), time) = 0
    BY <1>7 DEF Stepped, ChangeAt
  <2> QED BY <1>4, <2>1
<1> QED BY <1>5, <1>6, <1>7

LEMMA SetValueMode ==
  ASSUME NEW i \in Instruction, NEW side \in Side, NEW v, NEW other \in Side
  PROVE  Field(SetValue(i, side, v), other).address_mode = Field(i, other).address_mode
  BY DEF Instruction, InstructionOf, FieldOf, Side, Field, SetValue

LEMMA TotalInt ==
  ASSUME NEW mem \in Memory, NEW side
  PROVE  /\ [a \in Addr |-> Value(mem[a], side)] \in [Addr -> Int]
         /\ Total(mem, side) \in Int
<1> DEFINE f == [a \in Addr |-> Value(mem[a], side)]
<1>1. f \in [Addr -> Int]
  <2>1. \A a \in Addr : Value(mem[a], side) \in Addr
    BY FieldTypes DEF Memory
  <2> QED BY <2>1, CoreSizeAssumption, MaxIntAssumption DEF Addr
<1> HIDE DEF f
<1>2. SumFunction(f) \in Int
  BY <1>1, Origin0, AddrFinite, SumChanges
<1> QED BY <1>1, <1>2 DEF Total, f

\* No moment of an operand changes an address mode.
LEMMA ApplyPointerModes ==
  ASSUME NEW mem \in Memory, NEW pc \in Addr, NEW operand \in Side, NEW time,
         NEW other \in Side
  PROVE  Field(ApplyPointer(mem, pc, operand, time)[pc], other).address_mode
           = Field(mem[pc], other).address_mode
<1> DEFINE f   == Field(mem[pc], operand)
           via == Through(f.address_mode)
           at  == AddInt(pc, f.value)
           v   == Stepped(Value(mem[at], via), f.address_mode, time)
<1>1. at \in Addr /\ mem[at] \in Instruction /\ mem \in [Addr -> Instruction]
  BY FieldValueInt DEF Memory
<1>2. via \in Side
  BY DEF Through, Side
<1>3. ApplyPointer(mem, pc, operand, time) = [mem EXCEPT ![at] = SetValue(mem[at], via, v)]
  BY <1>1 DEF ApplyPointer
<1> HIDE DEF at, v, via
<1>4. CASE pc = at
  BY <1>1, <1>2, <1>3, <1>4, SetValueMode
<1>5. CASE pc # at
  BY <1>1, <1>3, <1>5
<1> QED BY <1>4, <1>5

\* A moment of an operand changes one field by at most one.
LEMMA ApplyPointerChange ==
  ASSUME NEW mem \in Memory, NEW pc \in Addr, NEW operand \in Side, NEW time,
         NEW side \in Side
  PROVE  LET new  == ApplyPointer(mem, pc, operand, time)
             mode == Field(mem[pc], operand).address_mode
         IN  New(Total(new, side) - Total(mem, side)) = New(ChangeAt(mode, side, time))
<1> DEFINE new  == ApplyPointer(mem, pc, operand, time)
           f    == Field(mem[pc], operand)
           mode == f.address_mode
           via  == Through(mode)
           at   == AddInt(pc, f.value)
           v    == Stepped(Value(mem[at], via), mode, time)
           old  == [a \in Addr |-> Value(mem[a], side)]
           then == [a \in Addr |-> Value(new[a], side)]
<1>1. at \in Addr /\ mem[at] \in Instruction /\ mem \in [Addr -> Instruction]
  BY FieldValueInt DEF Memory
<1>2. via \in Side
  BY DEF Through, Side
<1>3. /\ new \in [Addr -> Instruction]
      /\ new[at] = SetValue(mem[at], via, v)
      /\ \A a \in Addr : a # at => new[a] = mem[a]
  <2>1. new \in [Addr -> Instruction]
    BY ApplyPointerType DEF Memory
  <2>2. new = [mem EXCEPT ![at] = SetValue(mem[at], via, v)]
    BY <1>1 DEF ApplyPointer
  <2> HIDE DEF new, at, v, via
  <2> QED BY <1>1, <2>1, <2>2
<1>4. Value(mem[at], via) \in Addr /\ Value(mem[at], side) \in Addr
  BY <1>1, FieldTypes
<1>5. /\ v \in Addr
      /\ New(v - Value(mem[at], via)) = New(ChangeAt(mode, via, time))
  <2> HIDE DEF at, mode
  <2> QED BY <1>4, SteppedChange
<1> HIDE DEF new, at, v, via, f
<1>6. Value(new[at], side) = IF side = via THEN v ELSE Value(mem[at], side)
  BY <1>1, <1>2, <1>3, ValueSet
<1>7. /\ then = [old EXCEPT ![at] = Value(new[at], side)]
      /\ old[at] = Value(mem[at], side)
  BY <1>1, <1>3
<1>8. old \in [Addr -> Int] /\ Value(new[at], side) \in Int
  <2>1. Value(new[at], side) \in Addr
    BY <1>4, <1>5, <1>6
  <2> QED BY <2>1, TotalInt, CoreSizeAssumption, MaxIntAssumption DEF Addr
<1> HIDE DEF old, then
<1>9. /\ SumFunction(old) \in Int
      /\ SumFunction(then) = SumFunction(old) + (Value(new[at], side) - Value(mem[at], side))
  BY <1>1, <1>7, <1>8, AddrFinite, SumChanges
<1>10. SumFunction(then) - SumFunction(old) = Value(new[at], side) - Value(mem[at], side)
  <2>1. Value(mem[at], side) \in Int
    BY <1>4, CoreSizeAssumption, MaxIntAssumption DEF Addr
  <2> QED BY <1>8, <1>9, <2>1
<1>11. New(Value(new[at], side) - Value(mem[at], side)) = New(ChangeAt(mode, side, time))
  <2>1. CASE side = via
    BY <1>5, <1>6, <2>1
  <2>2. CASE side # via
    <3>1. Value(new[at], side) - Value(mem[at], side) = 0
      BY <1>4, <1>6, <2>2, CoreSizeAssumption, MaxIntAssumption DEF Addr
    <3>2. ChangeAt(mode, side, time) = 0
      BY <2>2 DEF ChangeAt, via
    <3> QED BY <3>1, <3>2
  <2> QED BY <2>1, <2>2
<1>12. New(Total(new, side) - Total(mem, side)) = New(ChangeAt(mode, side, time))
  BY <1>10, <1>11 DEF Total, old, then
<1> QED BY <1>12 DEF new, f

\* An operand changes the fields of one side by what its mode says, before and after
\* its register is read together.
LEMMA EvaluateChange ==
  ASSUME NEW mem \in Memory, NEW pc \in Addr, NEW operand \in Side, NEW side \in Side
  PROVE  LET e    == Evaluate(mem, pc, operand)
             mode == Field(mem[pc], operand).address_mode
         IN  /\ e.mem \in Memory
             /\ New(Total(e.mem, side) - Total(mem, side)) = New(Change(mode, side))
             /\ \A other \in Side : Field(e.mem[pc], other).address_mode
                                      = Field(mem[pc], other).address_mode
<1> DEFINE pre  == ApplyPointer(mem, pc, operand, "Pre")
           post == ApplyPointer(pre, pc, operand, "Post")
           mode == Field(mem[pc], operand).address_mode
<1>1. pre \in Memory
  BY ApplyPointerType
<1>2. /\ New(Total(pre, side) - Total(mem, side)) = New(ChangeAt(mode, side, "Pre"))
      /\ \A other \in Side : Field(pre[pc], other).address_mode
                               = Field(mem[pc], other).address_mode
  BY ApplyPointerChange, ApplyPointerModes
<1> HIDE DEF pre
<1>3. /\ post \in Memory
      /\ New(Total(post, side) - Total(pre, side))
           = New(ChangeAt(Field(pre[pc], operand).address_mode, side, "Post"))
      /\ \A other \in Side : Field(post[pc], other).address_mode
                               = Field(pre[pc], other).address_mode
  BY <1>1, ApplyPointerType, ApplyPointerChange, ApplyPointerModes
<1>4. Field(pre[pc], operand).address_mode = mode
  BY <1>2
<1> HIDE DEF post, mode
<1>5. /\ Total(mem, side) \in Int /\ Total(pre, side) \in Int /\ Total(post, side) \in Int
      /\ ChangeAt(mode, side, "Pre") \in Int /\ ChangeAt(mode, side, "Post") \in Int
  BY <1>1, <1>3, TotalInt DEF ChangeAt
<1>6. New((Total(pre, side) - Total(mem, side)) + (Total(post, side) - Total(pre, side)))
        = New(ChangeAt(mode, side, "Pre") + ChangeAt(mode, side, "Post"))
  <2>1. /\ Total(pre, side) - Total(mem, side) \in Int
        /\ Total(post, side) - Total(pre, side) \in Int
    BY <1>5
  <2>2. New(Total(post, side) - Total(pre, side)) = New(ChangeAt(mode, side, "Post"))
    BY <1>3, <1>4
  <2> QED BY <1>2, <1>5, <2>1, <2>2, NewSums DEF mode
<1>7. (Total(pre, side) - Total(mem, side)) + (Total(post, side) - Total(pre, side))
        = Total(post, side) - Total(mem, side)
  BY <1>5
<1>8. ChangeAt(mode, side, "Pre") + ChangeAt(mode, side, "Post") = Change(mode, side)
  BY DEF ChangeAt, Change, PreDec, PostInc
<1>9. New(Total(post, side) - Total(mem, side)) = New(Change(mode, side))
  BY <1>6, <1>7, <1>8
<1>10. Evaluate(mem, pc, operand).mem = post
  BY DEF Evaluate, pre, post
<1> QED BY <1>2, <1>3, <1>9, <1>10 DEF mode

\* Both operands change what they should, also where the one changes the instruction of
\* the other: a pointer is never applied to an address mode.
LEMMA ExecutorChange ==
  ASSUME NEW mem \in Memory, NEW pc \in Addr, NEW side \in Side
  PROVE  New(Total(Executor(mem, pc).mem, side) - Total(mem, side))
           = New(Change(mem[pc].a_field.address_mode, side)
                   + Change(mem[pc].b_field.address_mode, side))
<1> DEFINE a  == Evaluate(mem, pc, "a")
           b  == Evaluate(a.mem, pc, "b")
           ma == mem[pc].a_field.address_mode
           mb == mem[pc].b_field.address_mode
<1>0. "a" \in Side /\ "b" \in Side
  BY DEF Side
<1>1. Field(mem[pc], "a").address_mode = ma /\ Field(mem[pc], "b").address_mode = mb
  BY DEF Field
<1> HIDE DEF ma, mb
<1>2. /\ a.mem \in Memory
      /\ New(Total(a.mem, side) - Total(mem, side)) = New(Change(ma, side))
      /\ Field(a.mem[pc], "b").address_mode = mb
  BY <1>0, <1>1, EvaluateChange
<1> HIDE DEF a
<1>3. /\ b.mem \in Memory
      /\ New(Total(b.mem, side) - Total(a.mem, side)) = New(Change(mb, side))
  BY <1>0, <1>2, EvaluateChange
<1>4. Executor(mem, pc).mem = b.mem
  BY DEF Executor, a, b
<1> HIDE DEF b
<1>5. /\ Total(mem, side) \in Int /\ Total(a.mem, side) \in Int /\ Total(b.mem, side) \in Int
      /\ Change(ma, side) \in Int /\ Change(mb, side) \in Int
  BY <1>2, <1>3, TotalInt DEF Change
<1>6. /\ Total(a.mem, side) - Total(mem, side) \in Int
      /\ Total(b.mem, side) - Total(a.mem, side) \in Int
      /\ (Total(a.mem, side) - Total(mem, side)) + (Total(b.mem, side) - Total(a.mem, side))
           = Total(b.mem, side) - Total(mem, side)
  BY <1>5
<1>7. New((Total(a.mem, side) - Total(mem, side)) + (Total(b.mem, side) - Total(a.mem, side)))
        = New(Change(ma, side) + Change(mb, side))
  BY <1>2, <1>3, <1>5, <1>6, NewSums
<1> QED BY <1>4, <1>6, <1>7 DEF ma, mb

\* Each operand is evaluated once (modifier.rs:19-46): where nothing is stored, the
\* fields of the core changed, summed up, by the decrements and increments that the two
\* address modes ask for, in a core of any size and whatever points to whatever.
THEOREM EvaluatedOnceCorrect == Spec => []OperandsEvaluatedOnce
<1>1. Executed => OperandsEvaluatedOnce
  <2> SUFFICES ASSUME Executed, ran, \A b \in Addr : ~ Stores(Opcode0, b),
                      NEW side \in Side
               PROVE  New(Total(outcome.mem, side) - Total(memory, side))
                        = New(Change(memory[0].a_field.address_mode, side)
                                + Change(memory[0].b_field.address_mode, side))
    BY DEF OperandsEvaluatedOnce
  <2> DEFINE ex == Executor(memory, 0)
             c  == ex.b_ptr
             i  == Target(ex, Opcode0, Modifier0)
  <2>1. /\ ex \in Registers
        /\ outcome.mem = [ex.mem EXCEPT ![c] = i]
    BY Origin0, ExecuteMemory DEF Executed, Opcode0, Modifier0
  <2>2. New(Total(ex.mem, side) - Total(memory, side))
          = New(Change(memory[0].a_field.address_mode, side)
                  + Change(memory[0].b_field.address_mode, side))
    BY Origin0, ExecutorChange DEF Executed
  <2> HIDE DEF ex
  <2>3. Value(i, side) = Value(ex.mem[c], side)
    <3>1. Value(i, side) = StoredValue(ex, Opcode0, Modifier0, side)
      BY <2>1, TargetValues
    <3>2. Value(ex.b_value, side) \in Addr
      BY <2>1, FieldTypes DEF Registers
    <3> QED BY <3>1, <3>2 DEF StoredValue
  <2> HIDE DEF i
  <2>4. [a \in Addr |-> Value(outcome.mem[a], side)] = [a \in Addr |-> Value(ex.mem[a], side)]
    BY <2>1, <2>3 DEF Registers, Memory
  <2> QED BY <2>2, <2>4 DEF Total
<1> QED BY <1>1, ExecutedInvariance, PTL
=============================================================================
