------------------------------ MODULE OneStep -------------------------------
(***************************************************************************)
(* One instruction executed in a memory: opcode::execute on its own, for   *)
(* the properties of single instructions.  Most of them relate two         *)
(* executions: of two opcodes in the same memory, or of one in two places. *)
(***************************************************************************)
EXTENDS Execute, Functions

CONSTANT Memories    \* the memories to execute in

ASSUME MemoriesAssumption == Memories \subseteq Memory

VARIABLES
  memory,     \* before the instruction at 0 is executed
  ran,        \* whether it has been executed
  outcome     \* what execute returned

Init == memory \in Memories /\ ran = FALSE /\ outcome = [mem |-> memory]

Step == ~ ran /\ ran' = TRUE /\ outcome' = Execute(memory, 0) /\ UNCHANGED memory

Spec == Init /\ [][Step]_<<memory, ran, outcome>>

-----------------------------------------------------------------------------
Opcode0   == memory[0].opcode
Modifier0 == memory[0].modifier

\* The outcome had the instruction another opcode.
Instead(opcode) == Execute([memory EXCEPT ![0].opcode = opcode], 0)

\* The same core seen from another origin: what was at a is at a + by.
Rotated(mem, by) == [a \in Addr |-> mem[SubInt(a, by)]]

\* An outcome is a memory of normalised instructions, an error or none, and an
\* offset inside the core, whatever is executed (Offset's promise: "This will
\* always be less than the core size", offset.rs:27).
OutcomeOK ==
  ran => outcome \in [mem : Memory,
               error : Errors \cup {"None", "Unimplemented"},
               offset : Addr,
               split : BOOLEAN]

\* All addressing is relative (address.rs computes every pointer from the
\* program counter): executing in the rotated core gives the rotated outcome,
\* also where operands and targets lie across the end of the core.
PositionIndependent ==
  ran => \A by \in Addr \ {0} :
    Execute(Rotated(memory, by), by)
      = [outcome EXCEPT !.mem = Rotated(@, by)]

\* Each operand is evaluated once (modifier.rs:19-46): an instruction that stores
\* nothing leaves the A values of the core, summed up, changed by its increments
\* and decrements through A fields, and its B values by those through B fields,
\* even when one operand changes the other or the instruction itself.
Total(mem, side) == SumFunction([a \in Addr |-> Value(mem[a], side)])
Change(mode, side) ==
  IF Through(mode) # side THEN 0
  ELSE IF mode \in PreDec THEN -1 ELSE IF mode \in PostInc THEN 1 ELSE 0

OperandsEvaluatedOnce ==
  ran /\ (\A b \in Addr : ~ Stores(Opcode0, b)) =>
    \A side \in Side :
      New(Total(outcome.mem, side) - Total(memory, side))
        = New(Change(memory[0].a_field.address_mode, side)
                + Change(memory[0].b_field.address_mode, side))

\* DJN stores what it tests: it jumps exactly when one of the fields it counts
\* down is left non-zero in the core, even when evaluating its own operands
\* has changed the counter in between.
CountdownAgrees ==
  Opcode0 = "Djn" /\ ran =>
    LET ex == Executor(memory, 0)
    IN  Jumps(ex, "Djn", Modifier0) <=>
          \E s \in Selected(Modifier0) : Value(outcome.mem[ex.b_ptr], s) # 0

\* DIV and MOD belong together: they fail for the same operands, a failing one
\* still stores the field whose divisor is not zero (opcode.rs:50-73), and the
\* stored quotient and remainder give the dividend back.
DivisionAgrees ==
  Opcode0 = "Div" /\ ran =>
    LET ex == Executor(memory, 0)
        mod == Instead("Mod")
    IN  /\ outcome.error = mod.error
        /\ \A s \in Selected(Modifier0) :
             LET a == Value(ex.a_value, Source(Modifier0, s))
                 b == Value(ex.b_value, s)
             IN  IF b = 0 THEN outcome.error = "DivideByZero"
                 ELSE Value(outcome.mem[ex.b_ptr], s) * b
                        + Value(mod.mem[ex.b_ptr], s) = a

\* modifier.rs:62-64: the instruction operation returns "the new value to set in
\* the `b` instruction".  For MOV.I it returns the A instruction, so afterwards
\* the B instruction is the A instruction.  (The code leaves the address modes.)
MovCopiesInstruction ==
  Opcode0 = "Mov" /\ Modifier0 = "I" /\ ran =>
    LET ex == Executor(memory, 0) IN outcome.mem[ex.b_ptr] = ex.a_value
=============================================================================
