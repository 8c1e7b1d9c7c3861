# A verification development of corewars

TLA+ models of the simulator in `src/src`: the instruction semantics, the process queue,
a battle in a core, the `run` command that plays rounds of battles, and the parser, from the
lines of a file to the warrior that a core loads, and its display. TLC checks them on small cores
and short programs. TLAPS proves most safety properties of them for every value of the constants:
of single instructions for every memory, of battles and rounds for every core size, configuration
and line-up, of the parser for every text. Paths below are relative to the repository (`src/` in
`PROJECT.json`).

## The system

| component | state | operations | hard parts |
|---|---|---|---|
| Offsets, `load_file/offset.rs` | a value in 0..core_size-1 | `new`, + - * / % with an offset or an i32 | negative raw values, i32 overflow before the remainder |
| Instructions, `load_file/{types,mod,program,metadata}.rs` | opcode, modifier, two fields; metadata | `set_value`, default modifiers, Display | set_value leaves the address mode; defaults depend on the order of the cases; a display should parse |
| Execution, `core/{opcode,modifier,address}.rs` | none of its own; reads and writes the core's memory | `execute` | order of operand evaluation, self-modification, registers against live memory, partial division |
| Queue, `core/process.rs` | FIFO of tasks of all warriors, a count and a thread counter per warrior | `pop`, `push`, `thread_count` | counts drifting from the queue, thread ids after splits |
| Core, `core/mod.rs` | memory, queue, steps taken, number of warriors | `new`, `load_warriors`, `run` (`step`) | random placement, panics and refusals half-way, who has lost, when a battle is over |
| Command, `bin/corewar.rs` | scores per warrior | `main` | rounds sharing nothing, every round counted once |
| Grammar, `parser/grammar` | none | `tokenize`, `parse_line`, `parse_expression` | an ordered choice that takes a prefix of the line and says nothing of the rest |
| Comment phase, `parser/phase/comment.rs` | lines kept, metadata, origin | `extract_from_string` | which of several ORG, END and directives counts |
| Expansion phase, `parser/phase/expansion.rs` | lines, the collector's tables and stack | `expand`: a pass that expands, a pass that substitutes | expansion that never ends, labels and loops, offsets taken too early |
| Evaluation phase, `parser/phase/evaluation/` | instructions so far | `evaluate`, `evaluate_expression` | order of operators, i32 edges, panics where errors are promised |
| Driver, `parser/{mod,result,error}.rs` | the phase | `parse` | errors of one phase after the effects of another |

`main` parses the warriors, then for each round makes a `Core`, calls `load_warriors`, calls
`run` and adds up the verdicts. `run` calls `step` in a loop; `step` pops a task, has
`execute` change the memory, and pushes the task back, twice if it split. Everything is on
one thread; the choices are the configuration, the warriors and the random gaps of
`load_warriors`. There is no message, crash recovery or shared state between threads, so the
hazards are of order, of bookkeeping kept in several places, of numeric edges and of failing
half-way. `PROJECT.json` lists them at their lines.

What makes each part right:

* offsets stay in the core and, where nothing overflows, are integers modulo its size;
* an instruction works relative to its own place, evaluates each operand once, stores what it
  tests, and always leaves normalised instructions behind;
* queue, counts and thread ids agree with each other;
* warriors are loaded without touching each other, with the gap between them;
* the verdicts agree with who still has tasks: a battle ends with one winner or a tie at the
  last cycle, a loss is final, and every battle ends;
* every round is counted once for every warrior, and depends on no earlier round;
* the text of a program becomes the instructions that its structure stands for: loops unrolled,
  each label the distance from its use to its instruction, each expression its value, what was
  left out its default, or the error of what is missing; a warrior's display reads back; and
  the parser returns.

## The modules

* `Int32`, `Offset`, `Redcode`: the data. `Wrap` is the two's complement of the release build;
  `MaxInt` stands for i32::MAX. An offset is its value (all offsets of a core share its size).
* `Execute`: `execute` as one function from memory and program counter to memory, error,
  offset and whether the task splits. Its steps follow the code: `ResolvePointer`,
  `ApplyPointer` before and after (`Evaluate`), the registers (`Executor`), `StoredValue` and
  `Target` for `run_on_instructions`, `Fault`, `Jumps` and `Skips` for the opcodes. The code
  runs closures over pairs of fields; here `Selected` and `Source` say which pairs, `Stores`
  and `FieldResult` what an opcode makes of one.
* `ProcessQueue`: the queue as a record with `Pop` and `Push`. A key that a map does not have
  yet is a 0.
* `Core`: a state machine of one battle. `phase` is the place of the caller (`load_warriors`,
  the loop of `run`, after it). Loading: `LoadNobody` (division by zero), `LoadRefused`,
  `LoadBegins`, then per warrior `LoadWarrior`, `LoadRejects` (too long) or `LoadPanics`
  (empty range, or past the end of the core). Running: one action per way an iteration of the
  loop ends: `TaskDies`, `TaskGoesOn`, `TaskPanics`, `Halt`, `OutOfCycles`; each contains all
  of `step` and the test for a survivor that follows it. `Conclude` fills in the verdicts.
* `Battle`: what a battle promises, with no memory and no counters: a row of turns; the front
  turn is played and earns its owner nothing, one turn or two at the end of the row; the
  verdict is read off the row. `Core` implements it (`PlaysBattle`): `turns` is the sequence
  of owners in the queue, `verdict` the results once `run` has returned.
* `OneStep`: one `execute` on its own, for properties of instructions.
* `Corewar`: `main`, which composes battles of `Core`, in a fresh core each, with the scores.
* `Lines`: a line of Redcode as a sequence of words (labels, numbers, mnemonics, modifiers,
  operators and modes, commas, parentheses), and `Tokenize`, the grammar: an ordered `Choice`
  that takes a prefix of the line. Each `...End` operator is the length of what one rule takes.
* `Expression`: the value of an expression in words. The code walks the tree of nested rules, each
  a list combined from the left; `Evaluate` finds the same tree from the outside, by splitting the
  words at the last operator of the outermost kind. A span is what one call evaluates: a level of
  the grammar and the words from one to another; `SpanValue` is its value from those of the spans
  inside it, and `Evaluate` the recursive function over all of them. Arithmetic wraps; division
  panics by zero.
* `Expansion`: `expand` as a state machine over the text. The variables are those of
  `collect_and_expand`: `lines`, `i` (from 1), `offset` and the `collector` (a name without an
  entry in a table is `Unknown` there; `current_equ` without values is `None`). There is one
  action per way a round of its loop ends: `ForExpands`, `ForOpens`, `ForPanics`, `RofRepeats`,
  `RofPanics`, `EquDefined`, `EquContinues`, `EquExpands`, `LabelExpands`, `LabelStripped`,
  `LabelAlone`, `InstructionExpands`, `InstructionCounted`, and `Spin`, the round that changes
  nothing. `Substitute` is what follows the loop: `finish` and the second pass.
* `Assemble`: a line of words to an instruction (`ParseInstruction`), or an error, or a panic, with
  the default modifiers and missing fields; and an instruction back to words.
* `Parser`: `parse`. The comment phase has one action per way a line is read (`SkipsBlank`,
  `TakesOrg`, `TakesEnd`, `KeepsLine`); `Expands` is a step of `Expansion`, on the same variables;
  the evaluation phase has one per way a line (`DropsLine`, `ParsesLine`, `RefusesLine`,
  `LinePanics`) and the origin (`ParsesOrigin`, `RefusesOrigin`, `OriginPanics`) ends. `Rereads`
  gives the display of the warrior to the parser once more. `parsed` collects what comes out:
  a `Warrior` of `Redcode`, which is what `Core` loads (`ParserTypeOK`).
* `Meaning`: what the same program stands for, as a definition over its structure instead of its
  text: expressions are trees, instructions are put out one after the other and labels looked up
  when all are known. It also writes programs as text, with the fewest parentheses that precedence
  allows. It is a reference, written to be compared with; it models no code. It is recursive, so
  only TLC uses it.
* The proofs: `OffsetTheorems` (arithmetic, sums, induction), `ExecuteTheorems` and
  `OneStepTheorems` (one instruction), `CoreTheorems` (the queue; who is left and who has
  won), `BattleTheorems` (where warriors are placed; the refinement), `CorewarTheorems` (rounds and
  scores), `ParserTheorems` (expressions, the expansion and the parser), `RoundTripTheorems`
  (a display is parsed to what it displays).
* `MCCore`, `MCOneStep`, `MCValidate`, `MCCorewar`, `MCExpansion`, `MCParser`: the instances for TLC.
  `MCParser` also has the standard's table of default modifiers, to compare with.

Operators whose comment begins with "Mutant" are wrong versions of the definition after them:
each property has one that it must catch (`mutants` in `PROJECT.json`), so that none of them
holds whatever the code does.

## The runs

| run | instance | shows |
|---|---|---|
| `core` | core of 12, 11 cycles; all pairs and singles of 17 warriors, trios of 5; line-ups of 0 to 5 with all gaps 0..4 and lengths 1, 2, 3, 20 | types; counts, thread ids, results and queue agree; a survivor always has a task; ties only at the last cycle; loads intact and apart; a loss is final; the battle of `Battle` is played; it ends |
| `one_step` | core of 5, every opcode, modifier and pair of modes, operands that reach the instruction itself, its neighbours and across the end | outcomes in the core; relative addressing; operands evaluated once; DJN tests what it stores; DIV and MOD agree |
| `validate` | the test data's validation program in a core of 100, 150 cycles | it ends in its `last` loop: no check of it failed |
| `tournament` | three rounds of eleven line-ups, and of line-ups that cannot be loaded | scores add up; ties and wins exclude each other; a refused line-up never costs counted rounds; rounds are independent; the program ends |
| `expansion` | all programs of one to three of 17 items, two behind EQUs, where labels are unique and names defined; 18 malformed texts | the text that comes out is what `Meaning` says; the offset is the place in the text after every round; lines gone over have tokens, which the second pass indexes; addresses do not move when lines are processed again; it ends, but for lines without a token and EQUs that use themselves |
| `parser` | 904 files: small programs with every placement of ORG, END and metadata; every opcode with default and given modifiers; every mode, modifier and missing field; expressions of every pair of operators and signs; 15 files with something wrong | the warrior, or the error, is what `Meaning` and the standard's defaults say; what comes out is a warrior a core takes; a warrior's display parses to the same warrior; parsing ends |
| `mov`, `processes`, `too_long`, `around`, `nested`, `spins` | instances as above | the six findings below, each a violated statement of the code's own documentation |

Bounds. In `core` a core of 12 is the smallest that holds three warriors of two cells with a
random choice left, and programs reach across its end; 11 cycles let a warrior split three
times, lose all but one of the tasks, and both a win and a tie happen for most pairs. The pool
has a warrior for each way a task ends, moves, jumps, skips and multiplies. In a core of 5 the
cell of the instruction, its operands and their targets coincide in all ways. `validate` needs
100 cells for its 90 instructions; its values above half of a core of 8000 are the negative
numbers they came from. `MaxInt` is above every product in these cores, so nothing wraps in
the runs. `max_processes` has one value since nothing reads it.

`MaxInt` is 1048575 in the parser's runs: above every predefined constant, and reached only by
the files that are about the edge of i32. The items of `expansion` are labelled and unlabelled instructions, labels alone, EQUs of a number and of two instructions,
and loops: with a count from a literal, a label difference or an EQU, with and without an index,
with labels and EQUs inside, empty, nested; their counts and fields have operators around
labels, EQUs and indexes. Three of them put every kind before, after and
between the others, so labels are used before and after they are known and across unrolled
loops. No line of a source begins with ORG, since the comment phase takes those out:
`OffsetCountsLines` relies on it. `MaxU32` is 1023, far above the offsets reached, so only a
wrong rewinding wraps.

The files of `parser` need programs of one and two items only, since `expansion` has the longer ones; their
origins are a label, a label and a quotient, and a label less three, which is negative when it is
at the front. Two directives, of which one is written again and one late, and an unknown one tell
apart which of them counts. `CoreSize` is in its configuration because `Redcode` needs one; nothing
in the parser reads it. Files with something wrong have no meaning: the runs show that they end as
their types allow, and that panics happen to no file with a meaning.

Fairness. The program runs on one thread and waits for nothing, so its next step happens:
weak fairness of the whole step. It is written as `[]<>(phase \in Final)` or infinitely many
steps, because a step is possible in every other phase: the runs check for deadlock, and the
self-loop `Rest` exists in final phases only. Termination does not come from fairness alone:
the mutant that forgets to count a step runs for ever. `one_step` turns the deadlock check
off because it stops after its step.

`Expansion` and `Parser` have weak fairness of their steps for the same reason, and write it out
likewise (`spins`, on two short texts, uses `WF_vars(Step)` itself: its ENABLED is too slow for
TLC on longer lines). A step that changes nothing cannot be what fairness asks for: `Spins` says
where that is so (a line without a token, or an expansion that puts the text that was there), and `AlwaysReturns`
fails there. `Terminates` and `ParserReturns` except exactly these and EQUs in a circle; the
circles of the runs put a name for a name, so that the text, which nothing bounds in the code, stays
as long as it is.

## What is proved

Assumptions, each checked by TLC in every run that has the constant:

| assumption | says | because |
|---|---|---|
| `MaxIntAssumption`, `CoreSizeAssumption` | an i32 of some width; a core of 1 to i32::MAX cells | the size is an i32; smaller cores are not modelled |
| `BattlesAssumption` | configurations of natural numbers, `max_cycles` an i32; programs of instructions with any integer fields; an origin from 0 to i32::MAX | the types of `CoreConfig` and `Program`; the parser refuses negative origins |
| `MemoriesAssumption`, `RoundsAssumption` | any memories, any number of rounds | |
| `SourcesAssumption`, `FilesAssumption` | a file is lines, a line is words | |
| `NamesAssumption`, `MnemonicsAssumption` | predefined constants and mnemonics are among the names | a label is any name, and takes part in the same substitutions |
| `DirectivesAssumption` | finitely many metadata directives, none of them another remark | the directives are seven literals (`metadata.rs:49`) |
| `MaxU32Assumption` | a u32 of some width | |

Nothing is assumed of the number of warriors, their length or what they do, nor of the length of a
text or of its loops. Wrapping of overflowed i32 values is covered, but where a hypothesis says so.

* `OffsetTheorems`: every operation returns an offset, exactly that of modular arithmetic when
  products fit (`ArithmeticExact`). The library's induction theorems take an operator, so that
  induction is done on sets here (`SmallestExists`, `NatSetInduction`): this is how sums
  over finite sets and recursive functions are reached.
* `ExecuteTheorems`: pointers, registers and targets are typed one after the other, up to
  `ExecuteInCore`: executing any instruction in any memory leaves a memory, and offsets in the core.
* `OneStepTheorems`: five properties of instructions, for every memory, from the invariant
  that the outcome is that of the memory. `CountdownCorrect` and `DivisionCorrect` compare two
  executions step by step. `PositionIndependence` needs that pointers commute with a rotation of
  the core, which they do where twice the size fits an i32 (`SumsFit`): a sum that
  wraps does so at a place that has nothing to do with the core. `EvaluatedOnceCorrect` adds up
  all values of a side before and after, which change by what the modes of the operands say and no more.
* `CoreTheorems` begins with the queue after `Pop` and `Push` entry by entry: types; thread ids stay
  distinct when the pushed id is new or free (`FreeThread`: the id of the popped task is); the
  number of tasks of a warrior after a pop (by a bijection that shifts positions) and a push.
  Then `TypeCorrect`, `CountsCorrect` and `ThreadsCorrect` by induction on the types
  with the two queue invariants, using `RequeuedQueue` for the step that may push twice.
  The results need more. `LossIffFallen` and the theorems after it rest on
  `IInv == TypeOK /\ QueueAccounting /\ ThreadsUnique /\ Bookkeeping /\ Contested`:
  `Bookkeeping` adds what holds before `run` (no results, exactly the loaded warriors have
  tasks), without which the first step of `run` could find a warrior without tasks and
  without a loss; `Contested` adds why the loop still runs (two survivors at least) and how
  it stopped (a survivor left; several only when the cycles are over), without which an empty
  queue or an early tie could not be excluded. Then `LossesCorrect`, `SomeoneAlwaysLeft`,
  `LossesFinal` (an action property) and `TiesCorrect` follow.
* `BattleTheorems`: while warriors are loaded, each starts in its own share of the core, the rest is
  as it was created, and each warrior's task is at its origin (`Loading`,
  from which `Placement` follows).
  `LineUpIntact` and `DistanceKept` read the start of a warrior off its task, which is possible where
  start and origin add up to an i32 (`OriginsFit`, a hypothesis of these two): otherwise
  the warrior is placed as any other, but its task is elsewhere. `BattlePlayed` is the refinement:
  `Core` implements the safety part of `Battle`. Initial states map to initial states, a popped
  task is a turn taken, `Conclude` a decision; the other steps stutter.
* `CorewarTheorems`: `ScoresAddUp`, `RoundsShared`, `LoadFailsFirst` and `RoundsIndependent`, by
  induction over rounds on top of the invariants of the battle, which holds anew in each round: a
  finished battle has judged everybody (`Judged`), and whether a line-up loads and how
  a lone warrior fares does not depend on the gaps that are drawn.
* `ParserTheorems`: `EvaluateCorrect`: every line of words, whether an expression or not, has a value
  that is an i32, or panics. The recursion is well-founded by a measure on spans
  (their length, then their level), and exists by induction on it. For the expansion, the invariant
  `ExpansionIInv(W)` says for any set W of words closed under what an expansion writes (`Closed`)
  that the text, the tables and the stack hold words of W only; that the loops
  on the stack begin one after the other before the current line (`StackBelow`), without which a
  wound back line could be anywhere; and that the lines gone over have tokens (`TokensBefore`).
  `ExpansionTypes` and `PassedLinesHaveTokensCorrect` take all words for W, `OffsetCountsLinesCorrect`
  all but ORG: a line of ORG has its own count, and the comment phase takes these lines out
  (`OrgTakenOut`). Its other hypothesis, `[](offset <= MaxU32)`, is that the count of instructions
  in a text stays a u32: nothing in the code bounds it, and winding back is modulo 2^32.
  `ParserTypes` is what a core relies on: every phase hands on what the
  next one takes, and what comes out is a warrior, by `ParserIInv` over all three phases and both
  readings; `LinesHaveTokens` is the property of the expansion again, with the text
  that the comment phase left.

* `RoundTripTheorems`: `DisplayReadsBackCorrect`. What is displayed of a warrior
  (`program.rs:22`) is parsed to the same metadata, instructions and first task, whatever file the
  warrior came from. It takes two parses to go wrong, and the second has a text that the first one
  made, so the invariant says what is known in between: `BackIInv` adds to the property that there are two
  results at most, the second one final, and that from `Rereads` until then the parser is on its
  way back (`Back`): in the comment phase it has noted the directives of the lines behind it and
  no others, and the origin once it is behind its line (`ReadsBack`); afterwards what is parsed
  and what is still text make up the warrior (`AssemblesBack`, `LinesBack`). Without the
  first it could have lost a directive or counted the ORG line as an instruction. The
  expansion is the phase that could undo it: it leaves a display as it is because no word of one is a
  label, an EQU or a loop (`DisplayedStep`), so that each round only counts, and the second pass
  finds nothing to substitute (`NothingSubstituted`).
  The evaluation reads each line back by `InstructionTextParsed`: a number is
  read as itself (`DigitsValue`, with its sign in front), and opcode, modifier and modes
  are all written, so no default is taken. Instructions hold i32 values (`ParserTypes`
  says so), and i32::MIN is the one that is displayed as no i32: the property leaves it out.

Only model-checked: `ExpandsToMeaning` and `ParsesToMeaning`, since `Meaning` is recursive; liveness,
which is out of the prover's reach with ENABLED and fairness; `SelfTies`, which is about one program;
and `AddressesKept`, which the code does not keep for every text. An address is noted once more
when a label is declared twice, when a loop that has two labels in front of one line is
unrolled, when the text of an EQU begins with a label, and when the name of an EQU or of
an index is also a label. The run has none of these, and a theorem would need to exclude
them of every text that the expansion passes through, not only of the file.

## Findings

* `mov`: MOV.I copies opcode, modifier and values, not the address modes (`core/modifier.rs:116`).
* `processes`: `max_processes` bounds nothing (`core/process.rs:20`).
* `too_long`: a program that does not fit the core panics where an error is documented
  (`core/mod.rs:180`, `:217`).
* `around`: no distance is kept from the last warrior around to the first (`core/mod.rs:193`).
* `nested`: a label used in an indexed loop that is inside another loop has the right offset in the
  first turn of the outer loop only (`parser/phase/expansion.rs:157`).
* `spins`: a line without a token, such as a number alone, is expanded for ever
  (`parser/phase/expansion.rs:54`).

Also met while modelling, and not stated as properties: CMP, SEQ and SNE under `.I` compare the A
register with the live B cell (`core/modifier.rs:115`); JMZ under `.F` jumps when any field is zero;
one queue for all warriors gives a warrior that splits more turns (module `Battle` says so); the
comment of `push` derives thread ids from the active threads, the code from a counter
(`core/process.rs:65`); `steps_taken` is an i32 counted to `max_cycles`; the log of memories grows
by a memory per step when it is enabled.

In the parser, of the expansion: a label on its own line before ROF is resolved after the offset was
wound back, so to the start of the loop (`expansion.rs:120`); a labelled ROF is an instruction
(`expansion.rs:219`); the count of a nested FOR panics on a constant or a label (`expansion.rs:96`),
that of any FOR on a negative number and on a sign in front (`expansion.rs:440`); EQUs that use
themselves or each other are expanded for ever (`expansion.rs:207`).

Of the origin: an expression that begins with a parenthesis loses it (`comment.rs:82`); labels behind
a number in front, and EQUs, stay and panic (`expansion.rs:303`); ORG and END behind a label panic
(`evaluation/mod.rs:117`); END without an operand is a label for the grammar, so what follows it is
part of the program (`comment.rs:102`), and the code for it is never reached.

Of evaluation: a label that is nowhere defined ends in a panic, although `Error::LabelNotFound` exists
(`parser/error.rs:17`); LDP and STP without a modifier panic (`load_file/types.rs:86`); a line that is
no instruction is dropped with a message although labels counted it (`evaluation/mod.rs:23`), so
`Error::InvalidSyntax` comes from expressions only; signs are applied from the outside in, `-!0` is 1
(`expression.rs:142`); i32::MIN is displayed as a number that does not parse (`load_file/types.rs:146`).

## Not modelled

Files, options, printing and logging; Display and parsing of names; calling `load_warriors` or `run`
twice on one core, which no caller does; cores of negative or zero size and other negative
configuration values. Of the parser: the characters of words, so that keywords which match the
beginning of a longer word (`format`, `redcode.pest:46`) and words glued to others by an expansion
without a space (`D` next to a digit) do not happen; spaces, except where they decide the count of a
FOR; the colon after a label; an ORG with a modifier; comments that are neither a directive nor
after one; texts of errors, and warnings, which the code never makes. `Program::get` and `set`,
`Field::direct_label` and labels in values are used by tests only.

## Plan

1. Done: all modules above, their runs, and the proofs listed.
2. Open: a condition on files, kept by `ExpandLines` and `Unrolled`, under which every label is
   resolved once, and `AddressesKept` from it.
3. Open: `ExpandsToMeaning` for programs without loops and EQUs, where `Meaning` could be written
   without recursion.
