-------------------------------- MODULE Core --------------------------------
(***************************************************************************)
(* core/mod.rs: one battle in one core.  A core is created (Init), the     *)
(* warriors are loaded one after the other (load_warriors), and run steps  *)
(* the task at the front of the queue until a verdict.  Everything happens *)
(* on one thread; the choices are those of the environment (the battle:    *)
(* which configuration and which warriors) and of the random number        *)
(* generator (where a warrior is placed).                                  *)
(***************************************************************************)
EXTENDS Execute, ProcessQueue

CONSTANT Battles    \* the configurations and line-ups that are played

\* CoreConfig, without core_size (the constant CoreSize, which sizes the core
\* too), p_space (nothing reads it) and log (it only keeps copies).
Config == [max_cycles : Nat, max_processes : Nat,
           max_warrior_length : Nat, min_distance : Nat]

ASSUME BattlesAssumption ==
  \A b \in Battles : /\ b \in [config : Config, warriors : Seq(Warrior)]
                     /\ b.config.max_cycles <= MaxInt

VARIABLES
  battle,          \* the configuration and the warriors, fixed for the battle
  phase,           \* where the caller of the core is (see Phases)
  instructions,    \* the memory
  process_queue,
  loaded,          \* how many warriors load_warriors has placed
  steps_taken,
  results          \* what run knows of each warrior

vars == <<battle, phase, instructions, process_queue, loaded, steps_taken, results>>

Phases ==
  {"new",        \* created, nothing loaded
   "loading",    \* in the loop of load_warriors
   "running",    \* in the loop of run
   "stopped",    \* out of that loop, the verdicts still to give
   "finished",   \* run has returned
   "rejected",   \* load_warriors has returned an Err
   "panicked"}   \* the thread has unwound: nothing of the core is read again

config       == battle.config
warriors     == battle.warriors
num_warriors == Len(warriors)
WarriorID    == 0 .. num_warriors - 1
Program(id)  == warriors[id + 1].instructions
Origin(id)   == warriors[id + 1].origin

Verdicts == {"Undecided", "Loss", "Win", "Tie"}

\* Core::new.
Init ==
  /\ battle \in Battles
  /\ phase = "new"
  /\ instructions = [a \in Addr |-> DefaultInstruction]
  /\ process_queue = EmptyQueue(WarriorID)
  /\ loaded = 0
  /\ steps_taken = 0
  /\ results = [w \in WarriorID |-> "Undecided"]

-----------------------------------------------------------------------------
(* load_warriors.                                                          *)

Become(p) ==
  /\ phase' = p
  /\ UNCHANGED <<battle, instructions, process_queue, loaded, steps_taken, results>>

spacing == CoreSize \div num_warriors

\* Mutant: the gap counts from the share of the warrior.
GapsFromZero == 0 .. spacing - config.max_warrior_length - 1

\* Mutant: no room is kept for the warrior itself.
GapsToTheEnd == config.min_distance .. spacing - 1

\* gen_range's argument; it panics when this is empty.
Gaps == config.min_distance .. spacing - config.max_warrior_length - 1

\* The division by the number of warriors.
LoadNobody == phase = "new" /\ num_warriors = 0 /\ Become("panicked")

LoadRefused ==
  /\ phase = "new" /\ num_warriors > 0
  /\ spacing < config.min_distance          \* MinDistanceTooLarge
  /\ Become("rejected")

LoadBegins ==
  /\ phase = "new" /\ num_warriors > 0
  /\ spacing >= config.min_distance
  /\ Become("loading")

\* Mutant: the warriors are spread from the start of the core without the gap.
UnspacedPlaces(id) == IF id = 0 THEN {0} ELSE { New(id + gap) : gap \in Gaps }

\* Where the warrior may start: the first one at 0, the others after a random
\* gap in their share of the core.
Places(id) == IF id = 0 THEN {0} ELSE { New(id * spacing + gap) : gap \in Gaps }

TooLong(id) == Len(Program(id)) > config.max_warrior_length

\* The empty range is met before the length of the warrior is looked at, and
\* the write past the end of the core after.
LoadPanics ==
  /\ phase = "loading" /\ loaded < num_warriors
  /\ \/ Places(loaded) = {}
     \/ \E base \in Places(loaded) :
           ~ TooLong(loaded) /\ base + Len(Program(loaded)) > CoreSize
  /\ Become("panicked")

LoadRejects ==
  /\ phase = "loading" /\ loaded < num_warriors
  /\ Places(loaded) # {} /\ TooLong(loaded)     \* WarriorTooLong
  /\ Become("rejected")

\* The memory with a program written, each instruction normalised, from base.
Written(mem, base, program) ==
  [a \in Addr |-> IF a - base \in 0 .. Len(program) - 1
                    THEN Normalize(program[a - base + 1]) ELSE mem[a]]

\* load_warrior.
LoadWarrior ==
  /\ phase = "loading" /\ loaded < num_warriors
  /\ ~ TooLong(loaded)
  /\ \E base \in Places(loaded) :
        /\ base + Len(Program(loaded)) <= CoreSize
        /\ instructions' = Written(instructions, base, Program(loaded))
        /\ process_queue' = Push(process_queue, loaded,
                                 New(Wrap(base + Origin(loaded))), NoThread)
  /\ loaded' = loaded + 1
  /\ UNCHANGED <<battle, phase, steps_taken, results>>

\* load_warriors returns Ok and the caller calls run.
Run == phase = "loading" /\ loaded = num_warriors /\ Become("running")

-----------------------------------------------------------------------------
(* run and step.                                                           *)

Task     == Head(process_queue.queue)
Executed == Execute(instructions, Task.offset)

Survivors(r) == { w \in WarriorID : r[w] # "Loss" }

\* Mutant: a battle ends when two are left.
DecidedEarly(r) == num_warriors > 1 /\ Cardinality(Survivors(r)) <= 2

\* Mutant: a battle is only over when nobody is left.
DecidedLate(r) == num_warriors > 1 /\ Cardinality(Survivors(r)) < 1

\* The test at the end of each round of run's loop.
Decided(r) == num_warriors > 1 /\ Cardinality(Survivors(r)) <= 1

\* Mutant: every task that dies is a loss of its warrior.
LossOfTask(id, thread_count) == [results EXCEPT ![id] = "Loss"]

\* A task of the warrior has died and left it so many: the last one is a loss.
LossOfLast(id, thread_count) ==
  IF thread_count < 1 THEN [results EXCEPT ![id] = "Loss"] ELSE results

\* run's loop goes on, and step finds a task at the front of the queue.
Stepping ==
  /\ phase = "running"
  /\ steps_taken < config.max_cycles
  /\ process_queue.queue # << >>

TaskDies ==
  /\ Stepping
  /\ Executed.error \in Errors
  /\ instructions' = Executed.mem
  /\ process_queue' = Pop(process_queue)
  /\ results' = LossOfLast(Task.id, Pop(process_queue).processes[Task.id])
  /\ phase' = IF Decided(results') THEN "stopped" ELSE phase
  /\ steps_taken' = steps_taken + 1
  /\ UNCHANGED <<battle, loaded>>

\* Mutant: the two tasks of a split share the thread of their parent.
RequeuedShared(pq, task, executed) ==
  LET popped == Pop(pq)
      kept   == IF executed.split
                  THEN Push(popped, task.id, AddInt(task.offset, 1), task.thread)
                  ELSE popped
  IN  Push(kept, task.id, Add(task.offset, executed.offset), task.thread)

\* The queue after a step that did not fail.  A split enqueues PC+1 with the
\* thread of the task before the target of the split with a new thread.
Requeued(pq, task, executed) ==
  LET popped == Pop(pq)
      kept   == IF executed.split
                  THEN Push(popped, task.id, AddInt(task.offset, 1), task.thread)
                  ELSE popped
  IN  Push(kept, task.id, Add(task.offset, executed.offset),
           IF executed.split THEN NoThread ELSE task.thread)

\* Mutant: a step is not counted.
TaskGoesOnUncounted ==
  /\ Stepping
  /\ Executed.error = "None"
  /\ instructions' = Executed.mem
  /\ process_queue' = Requeued(process_queue, Task, Executed)
  /\ phase' = IF Decided(results) THEN "stopped" ELSE phase
  /\ UNCHANGED <<battle, loaded, results, steps_taken>>

TaskGoesOn ==
  /\ Stepping
  /\ Executed.error = "None"
  /\ instructions' = Executed.mem
  /\ process_queue' = Requeued(process_queue, Task, Executed)
  /\ phase' = IF Decided(results) THEN "stopped" ELSE phase
  /\ steps_taken' = steps_taken + 1
  /\ UNCHANGED <<battle, loaded, results>>

\* unimplemented!() in the middle of a step.
TaskPanics == Stepping /\ Executed.error = "Unimplemented" /\ Become("panicked")

\* step returns Halt: there is no task left.
Halt ==
  /\ phase = "running"
  /\ steps_taken < config.max_cycles
  /\ process_queue.queue = << >>
  /\ Become("stopped")

OutOfCycles ==
  /\ phase = "running"
  /\ steps_taken >= config.max_cycles
  /\ Become("stopped")

\* Mutant: the verdict of the survivors is given to everyone.
VerdictsForAll(r) ==
  [w \in WarriorID |-> IF Cardinality(Survivors(r)) > 1 THEN "Tie" ELSE "Win"]

\* Those without a result have won or, when they are several, tied.
VerdictsOf(r) ==
  [w \in WarriorID |->
     IF r[w] # "Undecided" THEN r[w]
     ELSE IF Cardinality(Survivors(r)) > 1 THEN "Tie" ELSE "Win"]

Conclude ==
  /\ phase = "stopped"
  /\ phase' = "finished"
  /\ results' = VerdictsOf(results)
  /\ UNCHANGED <<battle, instructions, process_queue, loaded, steps_taken>>

-----------------------------------------------------------------------------
Load ==
  \/ LoadNobody \/ LoadRefused \/ LoadBegins
  \/ LoadPanics \/ LoadRejects \/ LoadWarrior

Cycle == TaskDies \/ TaskGoesOn \/ TaskPanics \/ Halt \/ OutOfCycles

Step == Load \/ Run \/ Cycle \/ Conclude

\* The core is not used any more.
Final == {"finished", "rejected", "panicked"}
Rest  == phase \in Final /\ UNCHANGED vars

Next == Step \/ Rest

\* One thread runs the battle and waits for nothing: it takes its next step.
\* This is WF_vars(Step), where ENABLED <<Step>>_vars is phase \notin Final (no
\* other state is without a step: TLC's check for deadlocks).
Fairness == []<>(phase \in Final) \/ []<><<Step>>_vars

Spec == Init /\ [][Next]_vars /\ Fairness

-----------------------------------------------------------------------------
(* Properties.                                                             *)

\* Every cell, queue entry, counter and verdict stays in its type; in
\* particular every offset and every field value stays inside the core.
TypeOK ==
  /\ battle \in Battles
  /\ phase \in Phases
  /\ instructions \in Memory
  /\ process_queue \in ProcessQueue(WarriorID, Addr)
  /\ loaded \in 0 .. num_warriors
  /\ steps_taken \in 0 .. config.max_cycles
  /\ results \in [WarriorID -> Verdicts]

\* The count that decides whether a warrior is alive (process.rs) is the number
\* of its tasks in the queue, so pop's saturating subtraction never saturates.
QueueAccounting == Accounted(process_queue, WarriorID)

\* The thread ids of the queued tasks of a warrior are distinct (process.rs:31),
\* through splits, deaths of tasks, and a split that reuses its parent's thread.
ThreadsUnique == ThreadsDistinct(process_queue)

\* While a battle runs, run has recorded a loss for exactly the warriors that
\* have no task left: the bookkeeping of results follows that of the queue.
LossIffFallen ==
  phase \in {"running", "stopped"} =>
    \A w \in WarriorID :
       results[w] = (IF TasksOf(process_queue, w) = {} THEN "Loss" ELSE "Undecided")

\* step can find an empty queue (its Halt) only when a single warrior plays:
\* with several, the loop ends while the last survivor still has tasks.
SomeoneLeft ==
  phase \in {"running", "stopped"} /\ process_queue.queue = << >>
    => num_warriors = 1

\* A tie is given only when the cycles ran out with two warriors or more alive,
\* and a battle of several that is not tied has exactly one winner.
TieOnlyByTimeout ==
  phase = "finished" =>
    LET tied == { w \in WarriorID : results[w] = "Tie" }
    IN  /\ Cardinality(tied) # 1
        /\ tied # {} => steps_taken = config.max_cycles
        /\ tied = {} /\ num_warriors > 1 =>
             Cardinality({ w \in WarriorID : results[w] = "Win" }) = 1

\* A loss is final: the warrior is given no verdict and no task afterwards.
NoResurrection ==
  [][\A w \in WarriorID :
        results[w] = "Loss" => /\ results'[w] = "Loss"
                               /\ process_queue'.processes[w] = 0]_vars

\* Where a loaded warrior starts, from its task: the first ones of the queue
\* are those of the warriors in order until the battle runs.
Base(id) == New(process_queue.queue[id + 1].offset - Origin(id))
End(id)  == Base(id) + Len(Program(id))

\* load_warriors never writes one warrior over another: when it has placed some,
\* each is whole in the core and the rest of the core is as it was created.
LineUpIntact ==
  phase = "loading" =>
    /\ \A id \in 0 .. loaded - 1 : \A i \in 1 .. Len(Program(id)) :
          instructions[New(Base(id) + i - 1)] = Normalize(Program(id)[i])
    /\ \A a \in Addr :
          (\A id \in 0 .. loaded - 1 : a \notin Base(id) .. End(id) - 1)
            => instructions[a] = DefaultInstruction

\* Between the end of a warrior and the start of the one placed after it lie
\* at least min_distance cells, whatever the random gaps.
DistanceKept ==
  phase = "loading" =>
    \A id \in 1 .. loaded - 1 : Base(id) - End(id - 1) >= config.min_distance

\* "Returns an error if the Warrior was too long to fit in the core" (mod.rs:180):
\* no line-up panics for a program longer than the core.
TooLongIsRefused ==
  (\E id \in WarriorID : Len(Program(id)) > CoreSize) => phase # "panicked"

\* "The minimum separation distance" (bin/corewar.rs:57) in a core that wraps around:
\* it separates the last warrior from the first one too.
SeparatedAround ==
  phase = "loading" /\ loaded = num_warriors /\ num_warriors > 1 =>
    CoreSize - End(num_warriors - 1) >= config.min_distance

\* "The maximum number of processes" (bin/corewar.rs:49) bounds the tasks of each
\* warrior.
WithinMaxProcesses ==
  \A w \in WarriorID : process_queue.processes[w] <= config.max_processes

\* A run of the program ends: every battle is decided, refused or panics.
Terminates == <>(phase \in Final)
-----------------------------------------------------------------------------
(* Refinement: the battle that this core plays, as the module Battle promises it.      *)

Stage ==
  CASE phase \in {"new", "loading"}       -> "entering"
    [] phase \in {"running", "stopped"}   -> "fighting"
    [] phase = "finished"                 -> "over"
    [] phase \in {"rejected", "panicked"} -> "off"

\* The owners of the tasks, in the order of the queue.
TurnsOf(pq) == [i \in DOMAIN pq.queue |-> pq.queue[i].id]

\* The verdicts count when run has returned them.
Given == IF phase = "finished" THEN results ELSE [w \in WarriorID |-> "Undecided"]

Promise == INSTANCE Battle WITH
  fighters <- WarriorID, stage <- Stage,
  turns <- TurnsOf(process_queue), verdict <- Given

\* The core plays the battle of module Battle: turns are taken in the order in
\* which they were earned and only their owner earns more, and the verdicts
\* kept up to date by run are those read off the queue at the end.
PlaysBattle == Promise!Spec

=============================================================================
