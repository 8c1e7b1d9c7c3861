------------------------------- MODULE MCCore -------------------------------
(***************************************************************************)
(* Battles for TLC: every pair of a pool of warriors, some lone warriors   *)
(* and trios, and load_warriors under many configurations.                 *)
(***************************************************************************)
EXTENDS Core

F(mode, value) == [address_mode |-> mode, value |-> value]
I(op, modifier, a, b) ==
  [opcode |-> op, modifier |-> modifier, a_field |-> a, b_field |-> b]
D(value) == F("Direct", value)
W(program, origin) == [instructions |-> program, origin |-> origin]

Dat == I("Dat", "F", F("Immediate", 0), F("Immediate", 0))

\* One warrior for each way a task ends, goes on, jumps, skips or multiplies.
Imp      == W(<<I("Mov", "I", D(0), D(1))>>, 0)
Nothing  == W(<< >>, 0)
Suicide  == W(<<Dat>>, 0)
Sitter   == W(<<I("Jmp", "B", D(0), D(0))>>, 0)
Fork     == W(<<I("Spl", "B", D(0), D(0))>>, 0)
Spreader == W(<<I("Spl", "B", D(0), D(0)), I("Mov", "I", D(-1), D(3))>>, 0)
Shortens == W(<<I("Spl", "B", D(1), D(0)), I("Djn", "B", D(0), F("Immediate", 2))>>, 0)
Doomed   == W(<<I("Spl", "B", D(2), D(0)), I("Jmp", "B", D(0), D(0))>>, 0)
Bomber   == W(<<I("Mov", "I", D(-1), F("PreDecIndirectB", 0)),
                I("Jmp", "B", D(-1), D(0))>>, 0)
Stone    == W(<<I("Mov", "I", D(2), F("PostIncIndirectB", 1)),
                I("Jmp", "B", D(-1), D(3))>>, 0)
Divider  == W(<<I("Div", "F", D(1), D(-1)), Dat>>, 0)
Modulo   == W(<<I("Mod", "AB", F("Immediate", 5), D(1)),
                I("Jmz", "F", D(-1), D(-3))>>, 0)
Scanner  == W(<<I("Sne", "I", D(5), D(4)), I("Jmp", "B", D(-1), D(0))>>, 0)
Skipper  == W(<<I("Seq", "I", D(0), D(3)), I("Slt", "X", D(1), D(-1))>>, 1)
Adder    == W(<<I("Add", "BA", F("PostIncIndirectA", 1), F("IndirectA", 1)),
                I("Jmn", "A", D(-1), D(1))>>, 0)
Wanderer == W(<<Dat, I("Jmp", "B", F("IndirectB", -1), D(0))>>, 7)
Pspace   == W(<<I("Nop", "B", D(0), D(0)), I("Ldp", "A", D(0), D(0))>>, 0)
Three    == W(<<Dat, Dat, Dat>>, 1)

Pool == {Imp, Nothing, Suicide, Sitter, Fork, Spreader, Shortens, Doomed, Bomber,
         Stone, Divider, Modulo, Scanner, Skipper, Adder, Wanderer, Pspace}
Trio == {Imp, Suicide, Doomed, Bomber, Fork}

\* Nothing reads max_processes: one value is enough.
Setup(cycles, length, distance) ==
  [max_cycles |-> cycles, max_processes |-> 2,
   max_warrior_length |-> length, min_distance |-> distance]

Fights ==
  [config : {Setup(11, 2, 1)}, warriors : { <<v>> : v \in Pool }
                     \cup { <<v, w>> : v \in Pool, w \in Pool }
                     \cup { <<u, v, w>> : u \in Trio, v \in Trio, w \in Trio }]

\* Line-ups of every length to five, no cycle to run: only the loading counts.
Loads ==
  [config : { Setup(0, length, distance) : length \in {1, 2, 3, 20},
                                           distance \in 0 .. 4 },
   warriors : { << >>, <<Three>>, <<W([i \in 1 .. 13 |-> Dat], 0)>> }
              \cup { <<v, w>> : v \in {Imp, Three}, w \in {Wanderer, Three} }
              \cup { <<u, v, w>> : u \in {Imp, Three}, v \in {Stone}, w \in {Three, Nothing} }
              \cup { <<Stone, Stone, u, Imp>> : u \in {Three, Imp} }
              \cup { <<Imp, Imp, Imp, Imp, u>> : u \in {Imp, Stone} }]

MCBattles == Fights \cup Loads
=============================================================================
