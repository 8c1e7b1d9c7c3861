------------------------------ MODULE Execute -------------------------------
(***************************************************************************)
(* core/address.rs, core/modifier.rs and core/opcode.rs: the effect of one *)
(* instruction on the core, as a function of the memory and the program    *)
(* counter.  The operands are evaluated one after the other, A first, each *)
(* in three moments (pre-decrement, copy to the register, post-increment), *)
(* and each moment reads the memory that the moments before it left.       *)
(***************************************************************************)
EXTENDS Redcode

-----------------------------------------------------------------------------
(* address.rs: pointers.                                                   *)

\* The field of the pointed-to instruction that an indirect mode goes through.
Through(mode) ==
  IF mode \in {"IndirectA", "PreDecIndirectA", "PostIncIndirectA"}
    THEN "a" ELSE "b"

\* The i32 that resolve_pointer adds to the program counter.
PointerOffset(mem, pc, field) ==
  LET mode == field.address_mode
      hop  == field.value + Value(mem[AddInt(pc, field.value)], Through(mode))
  IN  CASE mode = "Immediate" -> 0
        [] mode = "Direct"    -> field.value
        [] mode \in PreDec    -> Wrap(hop - 1)
        [] OTHER              -> Wrap(hop)

\* Mutant: the program counter is not added.
AbsolutePointer(mem, pc, side) ==
  New(PointerOffset(mem, pc, Field(mem[pc], side)))

ResolvePointer(mem, pc, side) ==
  AddInt(pc, PointerOffset(mem, pc, Field(mem[pc], side)))

\* Mutant: the increment is applied on both calls.
SteppedTwice(value, mode, time) ==
  CASE time = "Pre" /\ mode \in PreDec -> SubInt(value, 1)
    [] mode \in PostInc               -> AddInt(value, 1)
    [] OTHER -> value

\* What applying a pointer makes of the value that the mode goes through.
Stepped(value, mode, time) ==
  CASE time = "Pre"  /\ mode \in PreDec  -> SubInt(value, 1)
    [] time = "Post" /\ mode \in PostInc -> AddInt(value, 1)
    [] OTHER -> value

ApplyPointer(mem, pc, side, time) ==
  LET field == Field(mem[pc], side)
      via   == Through(field.address_mode)
  IN  [mem EXCEPT ![AddInt(pc, field.value)] =
         SetValue(@, via, Stepped(Value(@, via), field.address_mode, time))]

-----------------------------------------------------------------------------
(* modifier.rs: the registers.                                             *)

\* One operand: its pointer, the copy of what it points to, and the memory.
Evaluate(mem, pc, side) ==
  LET ptr == ResolvePointer(mem, pc, side)
      pre == ApplyPointer(mem, pc, side, "Pre")
  IN  [ptr |-> ptr, value |-> pre[ptr],
       mem |-> ApplyPointer(pre, pc, side, "Post")]

\* Mutant: the operand A is read from the memory when both are evaluated.
ExecutorInMemory(mem, pc) ==
  LET a == Evaluate(mem, pc, "a")
      b == Evaluate(a.mem, pc, "b")
  IN  [a_ptr |-> a.ptr, a_value |-> b.mem[a.ptr],
       b_ptr |-> b.ptr, b_value |-> b.value, mem |-> b.mem]

Executor(mem, pc) ==
  LET a == Evaluate(mem, pc, "a")
      b == Evaluate(a.mem, pc, "b")
  IN  [a_ptr |-> a.ptr, a_value |-> a.value,
       b_ptr |-> b.ptr, b_value |-> b.value, mem |-> b.mem]

\* The B fields an instruction operates on, and the A field each is met with.
Selected(modifier) ==
  CASE modifier \in {"A", "BA"} -> {"a"}
    [] modifier \in {"B", "AB"} -> {"b"}
    [] OTHER -> Side

Source(modifier, side) ==
  IF modifier \in {"AB", "BA", "X"} THEN Other(side) ELSE side

-----------------------------------------------------------------------------
(* opcode.rs: what an opcode does with one pair of values.                 *)

Divides(opcode) == opcode \in {"Div", "Mod"}

\* The opcodes whose field operation returns a value to store: the division
\* returns none for a zero divisor, and the other field is stored all the same.
Stores(opcode, b) ==
  \/ opcode \in {"Mov", "Add", "Mul", "Sub", "Djn"}
  \/ Divides(opcode) /\ b # 0

FieldResult(opcode, a, b) ==
  CASE opcode = "Mov" -> a
    [] opcode = "Add" -> Add(a, b)
    [] opcode = "Mul" -> Mul(a, b)
    [] opcode = "Sub" -> Sub(b, a)
    [] opcode = "Div" -> Div(a, b)
    [] opcode = "Mod" -> Rem(a, b)
    [] OTHER          -> SubInt(b, 1)        \* Djn

\* The value of a field of the B target afterwards.  A and B are read from the
\* registers; a field that is not stored keeps what the memory holds.
StoredValue(ex, opcode, modifier, side) ==
  LET a == Value(ex.a_value, Source(modifier, side))
      b == Value(ex.b_value, side)
  IN  IF side \in Selected(modifier) /\ Stores(opcode, b)
        THEN FieldResult(opcode, a, b)
        ELSE Value(ex.mem[ex.b_ptr], side)

\* run_on_instructions: MOV.I also takes the opcode and the modifier of A, and
\* leaves the address modes of the target as they are.
Target(ex, opcode, modifier) ==
  LET old == ex.mem[ex.b_ptr]
      new == SetValue(SetValue(old, "a", StoredValue(ex, opcode, modifier, "a")),
                      "b", StoredValue(ex, opcode, modifier, "b"))
  IN  IF opcode = "Mov" /\ modifier = "I"
        THEN [new EXCEPT !.opcode = ex.a_value.opcode,
                         !.modifier = ex.a_value.modifier]
        ELSE new

-----------------------------------------------------------------------------
(* opcode.rs: control flow.                                                *)

\* CMP, SEQ and SNE: some selected pair differs or, under .I, the A register
\* differs from what the memory holds at the B pointer.
Differs(ex, modifier) ==
  \/ \E s \in Selected(modifier) :
        Value(ex.a_value, Source(modifier, s)) # Value(ex.b_value, s)
  \/ modifier = "I" /\ ex.a_value # ex.mem[ex.b_ptr]

Skips(ex, opcode, modifier) ==
  CASE opcode \in {"Cmp", "Seq"} -> ~ Differs(ex, modifier)
    [] opcode = "Sne" -> Differs(ex, modifier)
    [] opcode = "Slt" ->
         \A s \in Selected(modifier) :
            Value(ex.a_value, Source(modifier, s)) < Value(ex.b_value, s)
    [] OTHER -> FALSE

\* Mutant: DJN tests the value that the memory holds, not the register.
JumpsOnMemory(ex, opcode, modifier) ==
  CASE opcode \in {"Jmp", "Spl"} -> TRUE
    [] opcode = "Djn" ->
         \E s \in Selected(modifier) : Value(ex.mem[ex.b_ptr], s) # 1
    [] opcode = "Jmn" ->
         \E s \in Selected(modifier) : Value(ex.b_value, s) # 0
    [] opcode = "Jmz" ->
         \E s \in Selected(modifier) : Value(ex.b_value, s) = 0
    [] OTHER -> FALSE

Jumps(ex, opcode, modifier) ==
  CASE opcode \in {"Jmp", "Spl"} -> TRUE
    [] opcode = "Djn" ->
         \E s \in Selected(modifier) : SubInt(Value(ex.b_value, s), 1) # 0
    [] opcode = "Jmn" ->
         \E s \in Selected(modifier) : Value(ex.b_value, s) # 0
    [] opcode = "Jmz" ->
         \E s \in Selected(modifier) : Value(ex.b_value, s) = 0
    [] OTHER -> FALSE

\* Mutant: a division fails only when every selected divisor is zero.
FaultOfAll(ex, opcode, modifier) ==
  CASE opcode = "Dat" -> "ExecuteDat"
    [] Divides(opcode) /\ \A s \in Selected(modifier) : Value(ex.b_value, s) = 0
         -> "DivideByZero"
    [] opcode \in PSpace -> "Unimplemented"
    [] OTHER -> "None"

\* The error of execute.  Unimplemented is the panic of LDP and STP.
Fault(ex, opcode, modifier) ==
  CASE opcode = "Dat" -> "ExecuteDat"
    [] Divides(opcode) /\ \E s \in Selected(modifier) : Value(ex.b_value, s) = 0
         -> "DivideByZero"
    [] opcode \in PSpace -> "Unimplemented"
    [] OTHER -> "None"

Errors == {"ExecuteDat", "DivideByZero"}

\* The whole of execute, with the default offset of one that step gives to an
\* instruction that does not change the program counter.
Execute(mem, pc) ==
  LET ex       == Executor(mem, pc)
      opcode   == mem[pc].opcode
      modifier == mem[pc].modifier
  IN  [mem    |-> [ex.mem EXCEPT ![ex.b_ptr] = Target(ex, opcode, modifier)],
       error  |-> Fault(ex, opcode, modifier),
       offset |-> IF Jumps(ex, opcode, modifier) THEN Sub(ex.a_ptr, pc)
                  ELSE IF Skips(ex, opcode, modifier) THEN New(2)
                  ELSE New(1),
       split  |-> opcode = "Spl"]
=============================================================================
