--------------------------- MODULE BattleTheorems ---------------------------
(***************************************************************************)
(* From line-up to verdict, for every core size, configuration, line-up    *)
(* and whatever gaps are drawn.  load_warriors (core/mod.rs:180-246) puts  *)
(* each warrior whole into its own share of the core, min_distance behind  *)
(* the one before it, and writes nothing else.  And the core plays the     *)
(* battle that module Battle promises: every step of the core is a step of *)
(* the battle or leaves the battle as it is.                               *)
(***************************************************************************)
EXTENDS CoreTheorems

-----------------------------------------------------------------------------
(* The shares of the core.                                                 *)

LEMMA QuotientBelow ==
  \A n \in Nat, d \in Nat \ {0} : n \div d \in Nat /\ d * (n \div d) <= n
  OBVIOUS

\* A place is the start of the core for the first warrior; for another it leaves
\* min_distance in front of it and max_warrior_length in its share of the core.
LEMMA PlaceInShare ==
  ASSUME TypeOK, NEW id \in WarriorID, NEW base \in Places(id)
  PROVE  /\ base \in Addr
         /\ id = 0 => base = 0
         /\ id > 0 =>
              /\ id * spacing + config.min_distance <= base
              /\ base + config.max_warrior_length < (id + 1) * spacing
         /\ id > 0 => config.max_warrior_length + config.min_distance < spacing
         /\ (id + 1) * spacing <= CoreSize
         /\ spacing \in Nat
<1>c. CoreSize \in Nat \ {0}
  BY CoreSizeAssumption, MaxIntAssumption
<1>n. num_warriors \in Nat \ {0} /\ id \in Nat /\ id + 1 <= num_warriors
  BY BattleTypes DEF WarriorID
<1>t. config.min_distance \in Nat /\ config.max_warrior_length \in Nat
  BY BattleTypes DEF Config
<1>1. spacing \in Nat /\ num_warriors * spacing <= CoreSize
  BY <1>c, <1>n, QuotientBelow DEF spacing
<1>2. (id + 1) * spacing <= num_warriors * spacing
  <2>1. \A m \in Nat, n \in Nat, s \in Nat : m <= n => m * s <= n * s
    OBVIOUS
  <2>2. (id + 1) \in Nat /\ num_warriors \in Nat
    BY <1>n
  <2> QED BY <1>n, <1>1, <2>1, <2>2
<1>3. (id + 1) * spacing <= CoreSize
  <2>1. num_warriors * spacing \in Nat /\ (id + 1) * spacing \in Nat
    BY <1>n, <1>1
  <2> QED BY <1>1, <1>2, <1>c, <2>1
<1>4. CASE id = 0
  <2>1. base = 0
    BY <1>4 DEF Places
  <2> QED BY <1>1, <1>3, <1>4, <1>c, <2>1 DEF Addr
<1>5. CASE id > 0
  <2>1. PICK gap \in Gaps : base = New(id * spacing + gap)
    BY <1>n, <1>5 DEF Places
  <2>2. /\ gap \in Int /\ config.min_distance <= gap
        /\ gap <= spacing - config.max_warrior_length - 1
    BY <1>t, <1>1 DEF Gaps
  <2>3. id * spacing \in Nat /\ (id + 1) * spacing = id * spacing + spacing
    BY <1>n, <1>1
  <2>4. id * spacing + gap \in Addr
    BY <1>c, <1>t, <1>1, <1>3, <2>2, <2>3 DEF Addr
  <2>5. base = id * spacing + gap
    BY <2>1, <2>4, NewExact
  <2> QED BY <1>t, <1>1, <1>3, <1>5, <2>2, <2>3, <2>4, <2>5
<1> QED BY <1>n, <1>4, <1>5

\* A warrior that is short enough ends min_distance before any later one.
LEMMA PlacesApart ==
  ASSUME TypeOK, NEW id \in WarriorID, NEW next \in WarriorID, id < next,
         NEW base \in Places(id), NEW above \in Places(next), ~ TooLong(id)
  PROVE  base + Len(Program(id)) + config.min_distance <= above
<1>n. id \in Nat /\ next \in Nat /\ id + 1 <= next
  BY BattleTypes
<1>t. /\ config.min_distance \in Nat /\ config.max_warrior_length \in Nat
      /\ Len(Program(id)) \in Nat
      /\ Len(Program(id)) <= config.max_warrior_length
  BY BattleTypes, ProgramTypes DEF Config, TooLong
<1>a. base \in Nat /\ above \in Nat /\ spacing \in Nat
  BY PlaceInShare, CoreSizeAssumption, MaxIntAssumption DEF Addr
<1>1. next * spacing + config.min_distance <= above
  BY <1>n, PlaceInShare
<1>2. config.max_warrior_length < spacing
  <2>1. config.max_warrior_length + config.min_distance < spacing
    BY <1>n, PlaceInShare
  <2> QED BY <2>1, <1>t, <1>a
<1>3. (id + 1) * spacing <= next * spacing
  <2>1. \A m \in Nat, n \in Nat, s \in Nat : m <= n => m * s <= n * s
    OBVIOUS
  <2>2. (id + 1) \in Nat
    BY <1>n
  <2> QED BY <1>n, <1>a, <2>1, <2>2
<1>4. base + config.max_warrior_length <= (id + 1) * spacing
  <2>1. CASE id = 0
    <3>1. base = 0 /\ (id + 1) * spacing = spacing
      BY <1>a, <2>1, PlaceInShare
    <3> QED BY <1>2, <1>t, <1>a, <3>1
  <2>2. CASE id > 0
    <3>1. base + config.max_warrior_length < (id + 1) * spacing
      BY <2>2, PlaceInShare
    <3> QED BY <1>t, <1>a, <1>n, <3>1
  <2> QED BY <1>n, <2>1, <2>2
<1>5. next * spacing \in Nat /\ (id + 1) * spacing \in Nat
  BY <1>n, <1>a
<1> QED BY <1>1, <1>3, <1>4, <1>5, <1>t, <1>a
-----------------------------------------------------------------------------
(* The line-up while it is loaded.                                         *)

\* The warriors loaded so far start there: each in its share and whole in the
\* core, with the task of its origin, and the other cells are as created.
LoadedAt(start) ==
  /\ start \in [0 .. loaded - 1 -> Addr]
  /\ \A id \in 0 .. loaded - 1 :
        /\ start[id] \in Places(id) /\ ~ TooLong(id)
        /\ start[id] + Len(Program(id)) <= CoreSize
        /\ process_queue.queue[id + 1].offset = New(Wrap(start[id] + Origin(id)))
        /\ \A i \in 1 .. Len(Program(id)) :
              instructions[start[id] + i - 1] = Normalize(Program(id)[i])
  /\ \A a \in Addr :
        (\A id \in 0 .. loaded - 1 : a \notin start[id] .. start[id] + Len(Program(id)) - 1)
          => instructions[a] = DefaultInstruction

\* The queue holds one task of each warrior loaded, in order.
InOrder ==
  /\ Len(process_queue.queue) = loaded
  /\ \A id \in 0 .. loaded - 1 : process_queue.queue[id + 1].id = id

Loading ==
  phase \in {"new", "loading"} => InOrder /\ \E start : LoadedAt(start)

LEMMA InitLoading == Init => Loading
<1> SUFFICES ASSUME Init PROVE InOrder /\ \E start : LoadedAt(start)
  BY DEF Loading
<1>1. /\ loaded = 0 /\ 0 .. loaded - 1 = {}
      /\ process_queue.queue = << >>
      /\ \A a \in Addr : instructions[a] = DefaultInstruction
  BY DEF Init, EmptyQueue
<1>2. InOrder
  BY <1>1 DEF InOrder
<1>3. LoadedAt([id \in 0 .. loaded - 1 |-> 0])
  BY <1>1 DEF LoadedAt
<1> QED BY <1>2, <1>3

\* One more warrior is loaded at the end of the queue and written where none is.
LEMMA LoadWarriorLoads ==
  ASSUME TypeOK, Loading, LoadWarrior
  PROVE  Loading'
<1>1. /\ phase = "loading" /\ phase' = phase /\ loaded' = loaded + 1
      /\ battle' = battle /\ ~ TooLong(loaded)
  BY DEF LoadWarrior
<1>2. PICK base \in Places(loaded) :
        /\ base + Len(Program(loaded)) <= CoreSize
        /\ instructions' = Written(instructions, base, Program(loaded))
        /\ process_queue' = Push(process_queue, loaded,
                                 New(Wrap(base + Origin(loaded))), NoThread)
  BY DEF LoadWarrior
<1>3. PICK start : LoadedAt(start)
  BY <1>1 DEF Loading
<1>t. /\ loaded \in WarriorID /\ loaded \in Nat
      /\ base \in Addr /\ base \in Nat
      /\ Addr \subseteq Nat
      /\ \A id \in 0 .. loaded - 1 : id \in WarriorID /\ id < loaded
  <2>1. loaded \in WarriorID /\ loaded \in Nat
    BY LoadedQueue, BattleTypes
  <2>2. base \in Addr /\ Addr \subseteq Nat
    BY <2>1, PlaceInShare, CoreSizeAssumption, MaxIntAssumption DEF Addr
  <2>3. \A id \in 0 .. loaded - 1 : id \in WarriorID /\ id < loaded
    BY <2>1, BattleTypes DEF WarriorID
  <2> QED BY <2>1, <2>2, <2>3
<1>p. \A id \in WarriorID : Len(Program(id)) \in Nat
  BY ProgramTypes
<1>s. /\ \A id : /\ Places(id)' = Places(id) /\ TooLong(id)' = TooLong(id)
                 /\ Program(id)' = Program(id) /\ Origin(id)' = Origin(id)
  BY <1>1, SameBattle DEF Places, Gaps, spacing, TooLong
<1>q. /\ InOrder
      /\ Len(process_queue'.queue) = loaded + 1
      /\ \A id \in 0 .. loaded - 1 :
            process_queue'.queue[id + 1] = process_queue.queue[id + 1]
      /\ process_queue'.queue[loaded + 1].id = loaded
      /\ process_queue'.queue[loaded + 1].offset = New(Wrap(base + Origin(loaded)))
  <2>1. InOrder
    BY <1>1 DEF Loading
  <2>2. New(Wrap(base + Origin(loaded))) \in Addr
    BY <1>t, ProgramTypes, WrapIsInt, NewInCore
  <2>3. NoThread \in Nat \cup {NoThread}
    OBVIOUS
  <2>4. process_queue \in ProcessQueue(WarriorID, Addr)
    BY DEF TypeOK
  <2>5. Pushed(process_queue, process_queue', loaded,
               New(Wrap(base + Origin(loaded))), NoThread)
    BY <1>2, <1>t, <2>2, <2>3, <2>4, PushEntries
  <2>6. process_queue' \in ProcessQueue(WarriorID, Addr)
    BY <1>2, <1>t, <2>2, <2>3, <2>4, PushType
  <2>7. Len(process_queue'.queue) = loaded + 1
    BY <2>1, <2>5, <2>6, LenProperties DEF Pushed, InOrder, ProcessQueue
  <2> QED BY <1>t, <2>1, <2>5, <2>7 DEF Pushed, InOrder
<1>m. \A a \in Addr : instructions'[a] =
         IF a - base \in 0 .. Len(Program(loaded)) - 1
           THEN Normalize(Program(loaded)[a - base + 1]) ELSE instructions[a]
  BY <1>2 DEF Written
<1>4. PICK new : /\ new \in [0 .. loaded -> Addr]
                 /\ new[loaded] = base
                 /\ \A id \in 0 .. loaded - 1 : new[id] = start[id]
  <2> DEFINE f == [id \in 0 .. loaded |-> IF id = loaded THEN base ELSE start[id]]
  <2>1. /\ f \in [0 .. loaded -> Addr]
        /\ f[loaded] = base
        /\ \A id \in 0 .. loaded - 1 : f[id] = start[id]
    BY <1>3, <1>t DEF LoadedAt
  <2> HIDE DEF f
  <2> QED BY <2>1
<1>5. ASSUME NEW id \in 0 .. loaded
      PROVE  /\ new[id] \in Places(id) /\ ~ TooLong(id)
             /\ new[id] + Len(Program(id)) <= CoreSize
             /\ process_queue'.queue[id + 1].offset = New(Wrap(new[id] + Origin(id)))
             /\ \A i \in 1 .. Len(Program(id)) :
                   instructions'[new[id] + i - 1] = Normalize(Program(id)[i])
  <2>1. CASE id = loaded
    <3>1. ASSUME NEW i \in 1 .. Len(Program(id))
          PROVE  instructions'[base + i - 1] = Normalize(Program(id)[i])
      <4> DEFINE a == base + i - 1
      <4>1. /\ a \in Addr
            /\ a - base \in 0 .. Len(Program(loaded)) - 1
            /\ a - base + 1 = i
        BY <1>2, <1>t, <1>p, <2>1, CoreSizeAssumption, MaxIntAssumption DEF Addr
      <4> HIDE DEF a
      <4>2. instructions'[a] = Normalize(Program(loaded)[i])
        BY <1>m, <4>1
      <4> QED BY <2>1, <4>2 DEF a
    <3> QED BY <1>1, <1>2, <1>4, <1>q, <2>1, <3>1
  <2>2. CASE id # loaded
    <3>1. id \in 0 .. loaded - 1 /\ new[id] = start[id]
      BY <1>4, <1>t, <2>2
    <3>2. start[id] + Len(Program(id)) <= base
      <4>1. start[id] + Len(Program(id)) + config.min_distance <= base
        BY <1>3, <1>t, <3>1, PlacesApart DEF LoadedAt
      <4>2. /\ start[id] \in Nat /\ Len(Program(id)) \in Nat
            /\ config.min_distance \in Nat
        BY <1>3, <1>p, <1>t, <3>1, BattleTypes DEF LoadedAt, Config
      <4> QED BY <1>t, <4>1, <4>2
    <3>3. ASSUME NEW i \in 1 .. Len(Program(id))
          PROVE  instructions'[start[id] + i - 1] = Normalize(Program(id)[i])
      <4> DEFINE a == start[id] + i - 1
      <4>1. start[id] \in Nat /\ Len(Program(id)) \in Nat
        BY <1>3, <1>p, <1>t, <3>1 DEF LoadedAt
      <4>2. a \in Addr /\ ~ (a - base \in 0 .. Len(Program(loaded)) - 1)
        <5>1. PICK from \in Nat, len \in Nat, own \in Nat, place \in Nat :
                 /\ from = start[id] /\ len = Len(Program(id))
                 /\ own = Len(Program(loaded)) /\ place = base
                 /\ from + len <= place /\ place < CoreSize
          BY <1>t, <1>p, <3>2, <4>1, CoreSizeAssumption, MaxIntAssumption DEF Addr
        <5>2. i \in 1 .. len /\ a = from + i - 1
          BY <5>1
        <5> HIDE DEF a
        <5>3. a \in 0 .. CoreSize - 1 /\ a < place
          <6>1. PICK j \in Nat, size \in Nat :
                   /\ j = i /\ size = CoreSize /\ 1 <= j /\ j <= len /\ place < size
            BY <5>1, <5>2, CoreSizeAssumption, MaxIntAssumption
          <6>2. a = from + j - 1
            BY <5>2, <6>1
          <6>3. from + j - 1 \in 0 .. size - 1 /\ from + j - 1 < place
            <7>1. /\ 1 <= j /\ j <= len /\ place < size /\ from + len <= place
              BY <5>1, <6>1
            <7> QED BY <7>1
          <6> QED BY <6>1, <6>2, <6>3
        <5>4. ~ (a - place \in 0 .. own - 1)
          BY <5>1, <5>3
        <5> QED BY <5>1, <5>3, <5>4 DEF Addr
      <4>3. instructions[a] = Normalize(Program(id)[i])
        BY <1>3, <3>1 DEF LoadedAt
      <4> HIDE DEF a
      <4>4. instructions'[a] = Normalize(Program(id)[i])
        BY <1>m, <4>2, <4>3
      <4> QED BY <4>4 DEF a
    <3> QED BY <1>3, <1>q, <3>1, <3>3 DEF LoadedAt
  <2> QED BY <2>1, <2>2
<1>6. ASSUME NEW a \in Addr,
             \A id \in 0 .. loaded : a \notin new[id] .. new[id] + Len(Program(id)) - 1
      PROVE  instructions'[a] = DefaultInstruction
  <2>1. ~ (a - base \in 0 .. Len(Program(loaded)) - 1)
    <3>1. loaded \in 0 .. loaded /\ a \in Nat
      BY <1>t
    <3>2. a \notin base .. base + Len(Program(loaded)) - 1
      BY <1>4, <1>6, <3>1
    <3> QED BY <1>t, <1>p, <3>1, <3>2
  <2>2. \A id \in 0 .. loaded - 1 : a \notin start[id] .. start[id] + Len(Program(id)) - 1
    BY <1>4, <1>6, <1>t
  <2> QED BY <1>3, <1>m, <2>1, <2>2 DEF LoadedAt
<1>7. 0 .. loaded' - 1 = 0 .. loaded
  BY <1>1, <1>t
<1>8. LoadedAt(new)'
  BY <1>4, <1>5, <1>6, <1>7, <1>s DEF LoadedAt
<1>9. InOrder'
  <2>1. ASSUME NEW id \in 0 .. loaded PROVE process_queue'.queue[id + 1].id = id
    <3>1. CASE id = loaded
      BY <1>q, <3>1
    <3>2. CASE id # loaded
      <4>1. id \in 0 .. loaded - 1
        BY <1>t, <3>2
      <4> QED BY <1>q, <4>1 DEF InOrder
    <3> QED BY <3>1, <3>2
  <2> QED BY <1>1, <1>7, <1>q, <2>1 DEF InOrder
<1> QED BY <1>8, <1>9 DEF Loading
LEMMA NextLoading == TypeOK /\ Loading /\ [Next]_vars => Loading'
<1> SUFFICES ASSUME TypeOK, Loading, [Next]_vars PROVE Loading'
  OBVIOUS
<1>1. CASE LoadWarrior
  BY <1>1, LoadWarriorLoads
<1>2. CASE TaskDies \/ TaskGoesOn \/ Conclude
  BY <1>2 DEF TaskDies, TaskGoesOn, Conclude, Stepping, Loading
<1>3. CASE Moves \/ UNCHANGED vars
  <2>1. phase' \in {"new", "loading"} =>
          /\ phase \in {"new", "loading"}
          /\ battle' = battle /\ loaded' = loaded
          /\ instructions' = instructions /\ process_queue' = process_queue
    BY <1>3 DEF Moves, Become, vars
  <2> SUFFICES ASSUME phase' \in {"new", "loading"} PROVE Loading'
    BY DEF Loading
  <2>2. PICK start : LoadedAt(start)
    BY <2>1 DEF Loading
  <2>3. \A id : /\ Places(id)' = Places(id) /\ TooLong(id)' = TooLong(id)
                /\ Program(id)' = Program(id) /\ Origin(id)' = Origin(id)
    BY <2>1, SameBattle DEF Places, Gaps, spacing, TooLong
  <2>4. LoadedAt(start)'
    BY <2>1, <2>2, <2>3 DEF LoadedAt
  <2>5. InOrder'
    BY <2>1 DEF Loading, InOrder
  <2> QED BY <2>4, <2>5 DEF Loading
<1> QED BY <1>1, <1>2, <1>3, StepMoves

LEMMA LoadingInvariance == Spec => [](TypeOK /\ Loading)
<1>1. TypeOK /\ Loading /\ [Next]_vars => (TypeOK /\ Loading)'
  BY NextTypes, NextLoading
<1> QED BY <1>1, InitTypes, InitLoading, PTL DEF Spec

-----------------------------------------------------------------------------
(* What follows.                                                           *)

\* Two of the loaded warriors keep their distance.
LEMMA LoadedApart ==
  ASSUME TypeOK, NEW start, LoadedAt(start), NEW id \in 1 .. loaded - 1
  PROVE  start[id] - (start[id - 1] + Len(Program(id - 1))) >= config.min_distance
<1>1. /\ loaded \in 0 .. num_warriors /\ num_warriors \in Nat
      /\ WarriorID = 0 .. num_warriors - 1
  BY BattleTypes DEF TypeOK, WarriorID
<1>2. /\ id \in WarriorID /\ id - 1 \in WarriorID /\ id - 1 < id
      /\ id \in 0 .. loaded - 1 /\ id - 1 \in 0 .. loaded - 1
  BY <1>1
<1>3. /\ start[id] \in Places(id) /\ start[id - 1] \in Places(id - 1)
      /\ ~ TooLong(id - 1)
  BY <1>2 DEF LoadedAt
<1>4. start[id - 1] + Len(Program(id - 1)) + config.min_distance <= start[id]
  BY <1>2, <1>3, PlacesApart
<1>5. start[id] \in Int /\ start[id - 1] \in Int
  BY <1>2, CoreSizeAssumption, MaxIntAssumption DEF LoadedAt, Addr
<1>6. Len(Program(id - 1)) \in Int /\ config.min_distance \in Int
  BY <1>2, ProgramTypes, BattleTypes DEF Config
<1> QED BY <1>4, <1>5, <1>6

\* There are places for the warriors loaded so far that explain the memory and the
\* queue, in every core and whatever the origins: every program is whole at its
\* place, the other cells are as created, and the distances are kept.
Placement ==
  phase = "loading" =>
    \E start :
      /\ LoadedAt(start)
      /\ \A id \in 1 .. loaded - 1 :
            start[id] - (start[id - 1] + Len(Program(id - 1))) >= config.min_distance

\* load_warriors places every line-up without writing one warrior over another or
\* closer than min_distance to the one before (core/mod.rs:182-200).
THEOREM PlacementCorrect == Spec => []Placement
<1>1. TypeOK /\ Loading => Placement
  <2> SUFFICES ASSUME TypeOK, Loading, phase = "loading" PROVE Placement
    BY DEF Placement
  <2>1. PICK start : LoadedAt(start)
    BY DEF Loading
  <2> QED BY <2>1, LoadedApart DEF Placement
<1> QED BY <1>1, LoadingInvariance, PTL

\* No origin is so far away that the sum with an offset overflows (mod.rs:231 adds
\* them as i32).  Where one does, the start of the warrior cannot be read off its
\* task any more, although it is placed as any other.
OriginsFit ==
  \A b \in Battles : \A i \in DOMAIN b.warriors :
     CoreSize + b.warriors[i].origin <= MaxInt + 1

\* The start of a warrior is then what is left of its task without the origin.
LEMMA BaseIsStart ==
  ASSUME OriginsFit, TypeOK, NEW start, LoadedAt(start), NEW id \in 0 .. loaded - 1
  PROVE  Base(id) = start[id]
<1>1. /\ loaded \in 0 .. num_warriors /\ num_warriors \in Nat
      /\ id \in 0 .. num_warriors - 1 /\ id \in WarriorID
  BY BattleTypes DEF TypeOK, WarriorID
<1>2. warriors \in Seq(Warrior) /\ battle \in Battles
  BY BattleTypes DEF TypeOK
<1>3. id + 1 \in DOMAIN warriors
  BY <1>1, <1>2 DEF num_warriors
<1>4. warriors[id + 1] \in Warrior
  BY <1>2, <1>3, ElementOfSeq
<1>5. Origin(id) \in Nat /\ CoreSize + Origin(id) <= MaxInt + 1
  BY <1>2, <1>3, <1>4, MaxIntAssumption DEF OriginsFit, Warrior, Origin, warriors
<1>6. start[id] \in Addr /\ start[id] \in Nat /\ start[id] < CoreSize
  <2>1. start[id] \in Addr
    BY DEF LoadedAt
  <2> QED BY <2>1, CoreSizeAssumption, MaxIntAssumption DEF Addr
<1>7. Wrap(start[id] + Origin(id)) = start[id] + Origin(id)
  <2>1. start[id] + Origin(id) \in Int /\ start[id] + Origin(id) <= MaxInt
        /\ -(MaxInt + 1) <= start[id] + Origin(id)
    BY <1>5, <1>6, CoreSizeAssumption, MaxIntAssumption
  <2> QED BY <2>1, WrapExact
<1> DEFINE sum == start[id] + Origin(id)
<1>8. sum \in Int /\ Origin(id) \in Int /\ sum - Origin(id) = start[id]
  BY <1>5, <1>6
<1>9. Base(id) = New(New(sum) - Origin(id))
  BY <1>7 DEF Base, LoadedAt
<1> HIDE DEF sum
<1>10. New(New(sum) - Origin(id)) = New(sum - Origin(id))
  BY <1>8, NewCongruent
<1> QED BY <1>6, <1>8, <1>9, <1>10, NewExact

\* While warriors are loaded each one before is whole in the core and the rest of the
\* core is as it was created: for every core, configuration and line-up.
THEOREM LineUpCorrect ==
  ASSUME OriginsFit
  PROVE  Spec => []LineUpIntact
<1>1. TypeOK /\ Loading => LineUpIntact
  <2> SUFFICES ASSUME TypeOK, Loading, phase = "loading" PROVE LineUpIntact
    BY DEF LineUpIntact
  <2>1. PICK start : LoadedAt(start)
    BY DEF Loading
  <2>2. \A id \in 0 .. loaded - 1 : Base(id) = start[id]
    BY <2>1, BaseIsStart
  <2>3. ASSUME NEW id \in 0 .. loaded - 1, NEW i \in 1 .. Len(Program(id))
        PROVE  instructions[New(Base(id) + i - 1)] = Normalize(Program(id)[i])
    <3>1. id \in WarriorID
      BY BattleTypes DEF TypeOK, WarriorID
    <3> DEFINE a == start[id] + i - 1
    <3>2. a \in Addr
      <4>1. Len(Program(id)) \in Nat /\ start[id] \in Addr
            /\ start[id] + Len(Program(id)) <= CoreSize
        BY <2>1, <3>1, ProgramTypes DEF LoadedAt
      <4> QED BY <4>1, CoreSizeAssumption, MaxIntAssumption DEF Addr
    <3>3. instructions[a] = Normalize(Program(id)[i])
      BY <2>1 DEF LoadedAt
    <3>4. Base(id) + i - 1 = a
      BY <2>2
    <3> HIDE DEF a
    <3> QED BY <3>2, <3>3, <3>4, NewExact
  <2>4. ASSUME NEW a \in Addr,
               \A id \in 0 .. loaded - 1 : a \notin Base(id) .. End(id) - 1
        PROVE  instructions[a] = DefaultInstruction
    <3>1. ASSUME NEW id \in 0 .. loaded - 1
          PROVE  a \notin start[id] .. start[id] + Len(Program(id)) - 1
      <4>1. Base(id) = start[id] /\ End(id) = start[id] + Len(Program(id))
        BY <2>2 DEF End
      <4>2. a \notin Base(id) .. End(id) - 1
        BY <2>4
      <4>3. start[id] \in Int /\ Len(Program(id)) \in Int /\ a \in Int
        <5>1. id \in WarriorID
          BY BattleTypes DEF TypeOK, WarriorID
        <5> QED BY <2>1, <5>1, ProgramTypes, CoreSizeAssumption, MaxIntAssumption
            DEF LoadedAt, Addr
      <4> QED BY <4>1, <4>2, <4>3
    <3> QED BY <2>1, <3>1 DEF LoadedAt
  <2> QED BY <2>3, <2>4 DEF LineUpIntact
<1> QED BY <1>1, LoadingInvariance, PTL

\* Every warrior is at least min_distance behind the end of the one before it.
THEOREM DistanceCorrect ==
  ASSUME OriginsFit
  PROVE  Spec => []DistanceKept
<1>1. TypeOK /\ Loading => DistanceKept
  <2> SUFFICES ASSUME TypeOK, Loading, phase = "loading", NEW id \in 1 .. loaded - 1
               PROVE  Base(id) - End(id - 1) >= config.min_distance
    BY DEF DistanceKept
  <2>1. PICK start : LoadedAt(start)
    BY DEF Loading
  <2>2. loaded \in Int /\ id \in 0 .. loaded - 1 /\ id - 1 \in 0 .. loaded - 1
    BY BattleTypes DEF TypeOK
  <2>3. Base(id) = start[id] /\ Base(id - 1) = start[id - 1]
    BY <2>1, <2>2, BaseIsStart
  <2> QED BY <2>1, <2>3, LoadedApart DEF End
<1> QED BY <1>1, LoadingInvariance, PTL


-----------------------------------------------------------------------------
(* Rows of turns.                                                          *)

\* Turns at the end of a row, one after the other or together.
LEMMA GainedTurns ==
  ASSUME NEW S, NEW row \in Seq(S), NEW w \in S
  PROVE  /\ row = row \o [i \in 1 .. 0 |-> w]
         /\ Append(row, w) = row \o [i \in 1 .. 1 |-> w]
         /\ Append(Append(row, w), w) = row \o [i \in 1 .. 2 |-> w]
<1>1. /\ [i \in 1 .. 0 |-> w] \in Seq(S) /\ Len([i \in 1 .. 0 |-> w]) = 0
      /\ [i \in 1 .. 1 |-> w] \in Seq(S) /\ Len([i \in 1 .. 1 |-> w]) = 1
      /\ [i \in 1 .. 2 |-> w] \in Seq(S) /\ Len([i \in 1 .. 2 |-> w]) = 2
  BY IsASeq
<1>2. row = row \o [i \in 1 .. 0 |-> w]
  BY <1>1
<1>3. Append(row, w) = row \o [i \in 1 .. 1 |-> w]
  BY <1>1
<1>4. Append(Append(row, w), w) = row \o [i \in 1 .. 2 |-> w]
  BY <1>1
<1> QED BY <1>2, <1>3, <1>4

LEMMA TurnsType ==
  ASSUME NEW Ids, NEW Offsets, NEW pq \in ProcessQueue(Ids, Offsets)
  PROVE  /\ TurnsOf(pq) \in Seq(Ids)
         /\ Len(TurnsOf(pq)) = Len(pq.queue)
         /\ \A i \in 1 .. Len(pq.queue) : TurnsOf(pq)[i] = pq.queue[i].id
<1>1. pq.queue \in Seq(Entry(Ids, Offsets))
  BY DEF ProcessQueue
<1>2. DOMAIN pq.queue = 1 .. Len(pq.queue) /\ Len(pq.queue) \in Nat
  BY <1>1
<1>3. \A i \in 1 .. Len(pq.queue) : pq.queue[i].id \in Ids
  <2> TAKE i \in 1 .. Len(pq.queue)
  <2>1. pq.queue[i] \in Entry(Ids, Offsets)
    BY <1>1, ElementOfSeq
  <2> QED BY <2>1 DEF Entry
<1> QED BY <1>2, <1>3, IsASeq DEF TurnsOf

\* A push adds a turn of the warrior to the end of the row.
LEMMA PushTurns ==
  ASSUME NEW Ids, NEW Offsets, NEW pq \in ProcessQueue(Ids, Offsets),
         NEW id \in Ids, NEW offset \in Offsets, NEW thread \in Nat \cup {NoThread}
  PROVE  TurnsOf(Push(pq, id, offset, thread)) = Append(TurnsOf(pq), id)
<1> DEFINE new == Push(pq, id, offset, thread)
           n   == Len(pq.queue)
<1>1. new \in ProcessQueue(Ids, Offsets) /\ Pushed(pq, new, id, offset, thread)
  BY PushType, PushEntries
<1> HIDE DEF new
<1>2. /\ TurnsOf(pq) \in Seq(Ids) /\ Len(TurnsOf(pq)) = n /\ n \in Nat
      /\ \A i \in 1 .. n : TurnsOf(pq)[i] = pq.queue[i].id
  BY <1>1, TurnsType DEF Pushed
<1>3. /\ DOMAIN new.queue = 1 .. n + 1
      /\ \A i \in 1 .. n : new.queue[i] = pq.queue[i]
      /\ new.queue[n + 1].id = id
  BY <1>1 DEF Pushed
<1>4. TurnsOf(new) \in Seq(Ids) /\ Len(TurnsOf(new)) = n + 1
  <2>1. new.queue \in Seq(Entry(Ids, Offsets))
    BY <1>1 DEF ProcessQueue
  <2>2. Len(new.queue) = n + 1
    BY <1>2, <1>3, <2>1, LenProperties
  <2> QED BY <1>1, <2>2, TurnsType
<1>5. \A i \in 1 .. n + 1 :
         TurnsOf(new)[i] = IF i = n + 1 THEN id ELSE TurnsOf(pq)[i]
  BY <1>2, <1>3 DEF TurnsOf
<1> DEFINE row == Append(TurnsOf(pq), id)
<1>6. /\ row \in Seq(Ids) /\ Len(row) = n + 1
      /\ \A i \in 1 .. n + 1 : row[i] = IF i = n + 1 THEN id ELSE TurnsOf(pq)[i]
  BY <1>2, AppendProperties
<1> HIDE DEF row
<1>7. TurnsOf(new) = row
  BY <1>4, <1>5, <1>6, SeqEqual
<1> QED BY <1>7 DEF row, new

\* A pop takes the front turn off the row; it was the front task's.
LEMMA PopTurns ==
  ASSUME NEW Ids, NEW Offsets, NEW pq \in ProcessQueue(Ids, Offsets),
         pq.queue # << >>
  PROVE  /\ TurnsOf(Pop(pq)) = Tail(TurnsOf(pq))
         /\ TurnsOf(pq) # << >>
         /\ Head(TurnsOf(pq)) = Head(pq.queue).id
<1> DEFINE new == Pop(pq)
           n   == Len(pq.queue)
<1>1. new \in ProcessQueue(Ids, Offsets) /\ Popped(pq, new)
  BY PopType, PopEntries
<1> HIDE DEF new
<1>2. /\ TurnsOf(pq) \in Seq(Ids) /\ Len(TurnsOf(pq)) = n /\ n \in Nat \ {0}
      /\ \A i \in 1 .. n : TurnsOf(pq)[i] = pq.queue[i].id
  BY <1>1, TurnsType DEF Popped
<1>3. TurnsOf(pq) # << >> /\ Head(TurnsOf(pq)) = TurnsOf(pq)[1]
  BY <1>2, EmptySeq
<1>4. Head(TurnsOf(pq)) = Head(pq.queue).id
  BY <1>1, <1>2, <1>3 DEF Popped
<1>5. /\ DOMAIN new.queue = 1 .. n - 1
      /\ \A i \in 1 .. n - 1 : new.queue[i] = pq.queue[i + 1]
  BY <1>1 DEF Popped
<1>6. /\ TurnsOf(new) \in Seq(Ids) /\ Len(TurnsOf(new)) = n - 1
  <2>1. new.queue \in Seq(Entry(Ids, Offsets))
    BY <1>1 DEF ProcessQueue
  <2>2. Len(new.queue) = n - 1
    BY <1>2, <1>5, <2>1, LenProperties
  <2> QED BY <1>1, <2>2, TurnsType
<1>7. \A i \in 1 .. n - 1 : TurnsOf(new)[i] = TurnsOf(pq)[i + 1]
  BY <1>2, <1>5 DEF TurnsOf
<1> DEFINE row == Tail(TurnsOf(pq))
<1>8. /\ row \in Seq(Ids) /\ Len(row) = n - 1
      /\ \A i \in 1 .. n - 1 : row[i] = TurnsOf(pq)[i + 1]
  BY <1>2, <1>3, HeadTailProperties
<1> HIDE DEF row
<1>9. TurnsOf(new) = row
  BY <1>6, <1>7, <1>8, SeqEqual
<1> QED BY <1>3, <1>4, <1>9 DEF row, new
-----------------------------------------------------------------------------
(* The refinement.                                                         *)

\* The instance has a copy of the operator of its own.
LEMMA SameCardinality == \A S : Promise!Cardinality(S) = Cardinality(S)
  BY DEF Promise!Cardinality, Cardinality

\* Those who stand, in the row of turns, are those with a task.
LEMMA StandingHaveTasks ==
  ASSUME TypeOK
  PROVE  Promise!Standing = { w \in WarriorID : TasksOf(process_queue, w) # {} }
<1>1. /\ process_queue \in ProcessQueue(WarriorID, Addr)
      /\ process_queue.queue \in Seq(Entry(WarriorID, Addr))
  BY DEF TypeOK, ProcessQueue
<1>2. /\ DOMAIN TurnsOf(process_queue) = DOMAIN process_queue.queue
      /\ \A i \in DOMAIN process_queue.queue :
            TurnsOf(process_queue)[i] = process_queue.queue[i].id
  BY DEF TurnsOf
<1>3. \A i \in DOMAIN process_queue.queue : process_queue.queue[i].id \in WarriorID
  <2> TAKE i \in DOMAIN process_queue.queue
  <2>1. process_queue.queue[i] \in Entry(WarriorID, Addr)
    BY <1>1, ElementOfSeq
  <2> QED BY <2>1 DEF Entry
<1> QED BY <1>2, <1>3 DEF Promise!Standing, TasksOf

LEMMA InitPlays == Init => Promise!Init
<1> SUFFICES ASSUME Init PROVE Promise!Init
  OBVIOUS
<1>1. WarriorID = 0 .. Cardinality(WarriorID) - 1
  BY InitTypes, BattleTypes DEF WarriorID
<1>2. TurnsOf(process_queue) = << >>
  <2>1. process_queue.queue = << >>
    BY DEF Init, EmptyQueue
  <2> QED BY <2>1 DEF TurnsOf
<1>3. Stage = "entering" /\ Given = [w \in WarriorID |-> "Undecided"]
  BY DEF Init, Stage, Given
<1> QED BY <1>1, <1>2, <1>3, SameCardinality DEF Promise!Init

\* A loaded warrior enters the battle with a turn behind those before it.
LEMMA LoadWarriorEnters ==
  ASSUME TypeOK, Loading, LoadWarrior
  PROVE  Promise!Enter
<1>1. /\ phase = "loading" /\ phase' = phase /\ battle' = battle /\ results' = results
  BY DEF LoadWarrior
<1>2. PICK offset \in Addr :
        process_queue' = Push(process_queue, loaded, offset, NoThread)
  BY LoadedQueue
<1>3. loaded \in WarriorID
  BY LoadedQueue
<1>4. /\ process_queue \in ProcessQueue(WarriorID, Addr)
      /\ NoThread \in Nat \cup {NoThread}
  BY DEF TypeOK
<1>5. Len(TurnsOf(process_queue)) = loaded
  BY <1>1, <1>4, TurnsType DEF Loading, InOrder
<1>6. TurnsOf(process_queue') = Append(TurnsOf(process_queue), loaded)
  <2>1. \A thread \in Nat \cup {NoThread} :
          TurnsOf(Push(process_queue, loaded, offset, thread))
            = Append(TurnsOf(process_queue), loaded)
    BY <1>3, <1>4, PushTurns
  <2> QED BY <1>2, <1>4, <2>1
<1>7. TurnsOf(process_queue)' = TurnsOf(process_queue')
  BY DEF TurnsOf
<1>8. WarriorID' = WarriorID
  BY <1>1, SameBattle
<1>9. /\ Stage = "entering" /\ Stage' = Stage
      /\ Given' = Given
  BY <1>1, <1>8 DEF Stage, Given
<1> QED BY <1>3, <1>5, <1>6, <1>7, <1>8, <1>9 DEF Promise!Enter

\* When all have entered, all stand, and the battle can start.
LEMMA RunStarts ==
  ASSUME IInv, Run
  PROVE  Promise!Start
<1>1. /\ phase = "loading" /\ loaded = num_warriors /\ phase' = "running"
      /\ battle' = battle /\ process_queue' = process_queue /\ results' = results
  BY DEF Run, Become
<1>2. num_warriors \in Nat /\ num_warriors > 0 /\ 0 \in WarriorID
  BY <1>1, BattleTypes DEF IInv, Contested, WarriorID
<1>3. \A w \in WarriorID : TasksOf(process_queue, w) # {}
  BY <1>1, <1>2 DEF IInv, Bookkeeping, WarriorID
<1>4. Promise!Standing = WarriorID
  BY <1>3, StandingHaveTasks DEF IInv
<1>5. WarriorID' = WarriorID
  BY <1>1, SameBattle
<1>6. TurnsOf(process_queue)' = TurnsOf(process_queue)
  BY <1>1 DEF TurnsOf
<1>7. Stage = "entering" /\ Stage' = "fighting" /\ Given' = Given
  BY <1>1, <1>5 DEF Stage, Given
<1> QED BY <1>2, <1>4, <1>5, <1>6, <1>7 DEF Promise!Start

\* A battle that cannot be loaded, or is broken off by a panic, is called off.
LEMMA FailureCallsOff ==
  ASSUME TypeOK, NEW p \in {"rejected", "panicked"}, Become(p),
         phase \in {"new", "loading", "running", "stopped"}
  PROVE  Promise!CallOff
<1>1. phase' = p /\ battle' = battle /\ process_queue' = process_queue
  BY DEF Become
<1>2. WarriorID' = WarriorID
  BY <1>1, SameBattle
<1>3. TurnsOf(process_queue)' = TurnsOf(process_queue)
  BY <1>1 DEF TurnsOf
<1>4. /\ Stage \in {"entering", "fighting"} /\ Stage' = "off"
      /\ Given' = Given
  BY <1>1, <1>2 DEF Stage, Given
<1> QED BY <1>2, <1>3, <1>4 DEF Promise!CallOff

\* A task is a turn of its warrior, taken while two stand or one plays alone: it
\* earns nothing when the task dies, one turn when it goes on, two when it splits.
LEMMA TaskTakesTurn ==
  ASSUME IInv, TaskDies \/ TaskGoesOn
  PROVE  Promise!Turn
<1>1. /\ phase = "running" /\ process_queue.queue # << >>
      /\ phase' \in {"running", "stopped"} /\ battle' = battle
      /\ TaskDies => process_queue' = Pop(process_queue)
      /\ TaskGoesOn => process_queue' = Requeued(process_queue, Task, Executed)
  BY DEF TaskDies, TaskGoesOn, Stepping
<1>t. /\ process_queue \in ProcessQueue(WarriorID, Addr)
      /\ Task.id \in WarriorID /\ Task.thread \in Nat /\ Task.offset \in Addr
      /\ Executed \in Outcome
      /\ Task = Head(process_queue.queue)
  BY <1>1, TaskTypes DEF IInv, TypeOK, Task
<1> DEFINE row == Tail(TurnsOf(process_queue))
<1>2. /\ TurnsOf(process_queue) # << >>
      /\ Head(TurnsOf(process_queue)) = Task.id
      /\ TurnsOf(Pop(process_queue)) = row
      /\ row \in Seq(WarriorID)
  <2>1. TurnsOf(process_queue) \in Seq(WarriorID) /\ TurnsOf(process_queue) # << >>
    BY <1>1, <1>t, TurnsType, PopTurns
  <2> QED BY <1>1, <1>t, <2>1, PopTurns, HeadTailProperties
<1> HIDE DEF row
<1>3. ASSUME TaskGoesOn
      PROVE  TurnsOf(process_queue') =
               IF Executed.split THEN Append(Append(row, Task.id), Task.id)
                                 ELSE Append(row, Task.id)
  <2> DEFINE popped == Pop(process_queue)
             at     == AddInt(Task.offset, 1)
             pc     == Add(Task.offset, Executed.offset)
             kept   == IF Executed.split THEN Push(popped, Task.id, at, Task.thread)
                                         ELSE popped
             thread == IF Executed.split THEN NoThread ELSE Task.thread
  <2>1. process_queue' = Push(kept, Task.id, pc, thread)
    BY <1>1, <1>3 DEF Requeued
  <2>2. at \in Addr /\ pc \in Addr
    <3>1. Executed.offset \in Int /\ 1 \in Int
      BY <1>t, CoreSizeAssumption, MaxIntAssumption DEF Outcome, Addr
    <3> QED BY <1>t, <3>1, ArithmeticInCore
  <2>3. popped \in ProcessQueue(WarriorID, Addr) /\ TurnsOf(popped) = row
    BY <1>1, <1>2, <1>t, PopType
  <2>4. thread \in Nat \cup {NoThread} /\ Task.thread \in Nat \cup {NoThread}
    BY <1>t
  <2> HIDE DEF popped, at, pc, thread
  <2>5. /\ kept \in ProcessQueue(WarriorID, Addr)
        /\ TurnsOf(kept) = IF Executed.split THEN Append(row, Task.id) ELSE row
    <3>1. CASE Executed.split
      <4>1. kept = Push(popped, Task.id, at, Task.thread)
        BY <3>1
      <4> HIDE DEF kept
      <4>2. kept \in ProcessQueue(WarriorID, Addr)
        BY <1>t, <2>2, <2>3, <2>4, <4>1, PushType
      <4>3. TurnsOf(kept) = Append(TurnsOf(popped), Task.id)
        BY <1>t, <2>2, <2>3, <2>4, <4>1, PushTurns
      <4> QED BY <2>3, <3>1, <4>2, <4>3
    <3>2. CASE ~ Executed.split
      BY <2>3, <3>2
    <3> QED BY <3>1, <3>2
  <2> HIDE DEF kept
  <2>6. TurnsOf(process_queue') = Append(TurnsOf(kept), Task.id)
    BY <1>t, <2>1, <2>2, <2>4, <2>5, PushTurns
  <2> QED BY <2>5, <2>6
<1>g. /\ row = row \o [i \in 1 .. 0 |-> Task.id]
      /\ Append(row, Task.id) = row \o [i \in 1 .. 1 |-> Task.id]
      /\ Append(Append(row, Task.id), Task.id) = row \o [i \in 1 .. 2 |-> Task.id]
  BY <1>2, <1>t, GainedTurns
<1>4. \E gained \in 0 .. 2 :
         TurnsOf(process_queue') = row \o [i \in 1 .. gained |-> Task.id]
  <2>1. CASE TaskDies
    <3>1. TurnsOf(process_queue') = row \o [i \in 1 .. 0 |-> Task.id]
      BY <1>1, <1>2, <1>g, <2>1
    <3> QED BY <3>1
  <2>2. CASE TaskGoesOn /\ Executed.split
    <3>1. TurnsOf(process_queue') = row \o [i \in 1 .. 2 |-> Task.id]
      BY <1>3, <1>g, <2>2
    <3> QED BY <3>1
  <2>3. CASE TaskGoesOn /\ ~ Executed.split
    <3>1. TurnsOf(process_queue') = row \o [i \in 1 .. 1 |-> Task.id]
      BY <1>3, <1>g, <2>3
    <3> QED BY <3>1
  <2> QED BY <2>1, <2>2, <2>3
<1>5. ~ Promise!LastStanding
  <2>1. Promise!Standing = Survivors(results)
    BY <1>1, StandingHaveTasks, SurvivorsHaveTasks DEF IInv
  <2>2. /\ Cardinality(WarriorID) = num_warriors
        /\ Cardinality(Survivors(results)) \in Nat
        /\ num_warriors > 1 => Cardinality(Survivors(results)) > 1
    BY <1>1, BattleTypes, SurvivorsFinite DEF IInv, Contested
  <2> QED BY <2>1, <2>2, SameCardinality DEF Promise!LastStanding
<1>6. WarriorID' = WarriorID
  BY <1>1, SameBattle
<1>7. TurnsOf(process_queue)' = TurnsOf(process_queue')
  BY DEF TurnsOf
<1>8. Stage = "fighting" /\ Stage' = "fighting" /\ Given' = Given
  BY <1>1, <1>6 DEF Stage, Given
<1> QED BY <1>2, <1>4, <1>5, <1>6, <1>7, <1>8 DEF Promise!Turn, row

\* The verdicts that run has kept up to date are those read off the row of turns.
LEMMA ConcludeDecides ==
  ASSUME IInv, Conclude
  PROVE  Promise!Decide
<1>1. /\ phase = "stopped" /\ phase' = "finished" /\ battle' = battle
      /\ process_queue' = process_queue
      /\ results' = VerdictsOf(results)
  BY DEF Conclude
<1>2. Promise!Standing = Survivors(results)
  BY <1>1, StandingHaveTasks, SurvivorsHaveTasks DEF IInv
<1>3. \A w \in WarriorID :
         results[w] = IF w \in Survivors(results) THEN "Undecided" ELSE "Loss"
  BY <1>1 DEF IInv, Bookkeeping, LossIffFallen, Survivors
<1>4. results' = [w \in WarriorID |->
                    IF w \notin Promise!Standing THEN "Loss"
                    ELSE IF Cardinality(Promise!Standing) > 1 THEN "Tie" ELSE "Win"]
  BY <1>1, <1>2, <1>3 DEF VerdictsOf
<1>5. WarriorID' = WarriorID
  BY <1>1, SameBattle
<1>6. TurnsOf(process_queue)' = TurnsOf(process_queue)
  BY <1>1 DEF TurnsOf
<1>7. Stage = "fighting" /\ Stage' = "over" /\ Given' = results'
  BY <1>1 DEF Stage, Given
<1> QED BY <1>4, <1>5, <1>6, <1>7, SameCardinality DEF Promise!Decide

\* The other steps of the caller are none of the battle.
LEMMA MoveStutters ==
  ASSUME TypeOK,
         \/ phase = "new" /\ Become("loading")
         \/ phase = "running" /\ Become("stopped")
         \/ UNCHANGED vars
  PROVE  UNCHANGED Promise!battleVars
<1>1. /\ battle' = battle /\ process_queue' = process_queue /\ results' = results
      /\ Stage' = Stage /\ (phase' = "finished" <=> phase = "finished")
  BY DEF Become, vars, Stage
<1>2. WarriorID' = WarriorID
  BY <1>1, SameBattle
<1>3. TurnsOf(process_queue)' = TurnsOf(process_queue) /\ Given' = Given
  BY <1>1, <1>2 DEF TurnsOf, Given
<1> QED BY <1>1, <1>2, <1>3 DEF Promise!battleVars

LEMMA NextPlays ==
  IInv /\ Loading /\ [Next]_vars => [Promise!Next]_Promise!battleVars
<1> SUFFICES ASSUME IInv, Loading, [Next]_vars
             PROVE  [Promise!Next]_Promise!battleVars
  OBVIOUS
<1>t. TypeOK
  BY DEF IInv
<1>1. CASE LoadWarrior
  BY <1>1, <1>t, LoadWarriorEnters DEF Promise!Next
<1>2. CASE Run
  BY <1>2, RunStarts DEF Promise!Next
<1>3. CASE LoadNobody \/ LoadRefused \/ LoadPanics \/ LoadRejects \/ TaskPanics
  <2>1. /\ phase \in {"new", "loading", "running", "stopped"}
        /\ \E p \in {"rejected", "panicked"} : Become(p)
    BY <1>3 DEF LoadNobody, LoadRefused, LoadPanics, LoadRejects, TaskPanics, Stepping
  <2> QED BY <1>t, <2>1, FailureCallsOff DEF Promise!Next
<1>4. CASE TaskDies \/ TaskGoesOn
  BY <1>4, TaskTakesTurn DEF Promise!Next
<1>5. CASE Conclude
  BY <1>5, ConcludeDecides DEF Promise!Next
<1>6. CASE LoadBegins \/ Halt \/ OutOfCycles \/ UNCHANGED vars
  BY <1>6, <1>t, MoveStutters DEF LoadBegins, Halt, OutOfCycles
<1> QED
  BY <1>1, <1>2, <1>3, <1>4, <1>5, <1>6 DEF Next, Step, Load, Cycle, Rest

\* The core plays the battle of module Battle: the row of turns, who takes them and
\* earns more, when it ends and with which verdicts (core/mod.rs:320-362).
THEOREM BattlePlayed == Spec => PlaysBattle
  BY InitPlays, NextPlays, Invariance, LoadingInvariance, PTL
  DEF Spec, PlaysBattle, Promise!Spec
=============================================================================
