--------------------------- MODULE CorewarTheorems ---------------------------
(***************************************************************************)
(* The rounds of the run command (bin/corewar.rs), for every number of     *)
(* rounds and every line-up: the scores account for every round, whether a *)
(* line-up loads does not depend on the round, and a warrior that plays    *)
(* alone meets the same fate in each.                                      *)
(***************************************************************************)
EXTENDS Corewar, BattleTheorems

-----------------------------------------------------------------------------
(* The steps of the program.                                               *)

\* A round is judged when run returns: everybody has a verdict and, of several, either
\* one has won or more than one has tied.
Judged ==
  phase = "finished" =>
    /\ \A w \in WarriorID : results[w] \in {"Win", "Loss", "Tie"}
    /\ num_warriors > 1 =>
         LET tied == { w \in WarriorID : results[w] = "Tie" }
             won  == { w \in WarriorID : results[w] = "Win" }
         IN  \/ won = {} /\ Cardinality(tied) > 1
             \/ Cardinality(won) = 1 /\ tied = {}

LEMMA ConcludeJudges ==
  ASSUME IInv, Conclude
  PROVE  Judged'
<1> DEFINE S    == Survivors(results)
           tied == { w \in WarriorID : results'[w] = "Tie" }
           won  == { w \in WarriorID : results'[w] = "Win" }
<1>1. /\ phase = "stopped" /\ battle' = battle /\ results' = VerdictsOf(results)
      /\ WarriorID' = WarriorID /\ num_warriors' = num_warriors
  BY SameBattle DEF Conclude
<1>2. \A w \in WarriorID : results[w] = IF w \in S THEN "Undecided" ELSE "Loss"
  BY <1>1 DEF IInv, Bookkeeping, LossIffFallen, Survivors
<1>3. S \subseteq WarriorID
  BY DEF Survivors
<1>4. \A w \in WarriorID : results'[w] = IF w \notin S THEN "Loss"
                                         ELSE IF Cardinality(S) > 1 THEN "Tie" ELSE "Win"
  BY <1>1, <1>2 DEF VerdictsOf
<1>5. /\ Cardinality(S) \in Nat
      /\ Cardinality(S) = 0 <=> S = {}
  BY SurvivorsFinite DEF IInv
<1>6. num_warriors > 1 => \/ won = {} /\ Cardinality(tied) > 1
                          \/ Cardinality(won) = 1 /\ tied = {}
  <2>1. CASE Cardinality(S) > 1
    <3>1. tied = S /\ won = {}
      BY <1>3, <1>4, <2>1
    <3> QED BY <2>1, <3>1
  <2>2. CASE ~ (Cardinality(S) > 1)
    <3>1. won = S /\ tied = {}
      BY <1>3, <1>4, <2>2
    <3> QED BY <1>1, <1>5, <2>2, <3>1 DEF IInv, Contested
  <2> QED BY <2>1, <2>2
<1>7. \A w \in WarriorID : results'[w] \in {"Win", "Loss", "Tie"}
  BY <1>4
<1> HIDE DEF tied, won
<1> QED BY <1>1, <1>6, <1>7 DEF Judged, tied, won

LEMMA NextJudged == IInv /\ Judged /\ [Next]_vars => Judged'
<1> SUFFICES ASSUME IInv, Judged, [Next]_vars PROVE Judged'
  OBVIOUS
<1>1. CASE Conclude
  BY <1>1, ConcludeJudges
<1>2. CASE ~ Conclude
  <2>1. phase' = "finished" => UNCHANGED vars
    BY <1>2, StepMoves
    DEF IInv, Moves, Become, LoadWarrior, TaskDies, TaskGoesOn, Stepping
  <2>2. UNCHANGED vars => WarriorID' = WarriorID /\ num_warriors' = num_warriors
    BY SameBattle DEF vars
  <2> QED BY <2>1, <2>2 DEF Judged, vars
<1> QED BY <1>1, <1>2

\* What a step of the program is to the core of the round: one of its own, or the
\* core of the next round takes its place.
LEMMA CoreSteps ==
  ASSUME TypeOK, [MainNext]_mainVars
  PROVE  /\ battle' = battle
         /\ \/ [Next]_vars /\ UNCHANGED <<round, scores>>
            \/ CountRound /\ UNCHANGED vars
            \/ CountRound /\ Init'
<1>1. ASSUME PlayRound PROVE [Next]_vars /\ UNCHANGED <<round, scores>>
  BY <1>1 DEF PlayRound, Next
<1>2. CASE CountRound
  <2>1. battle' = battle /\ (FreshCore \/ UNCHANGED vars)
    BY <1>2 DEF CountRound, vars
  <2>2. FreshCore => Init'
    BY <2>1, SameBattle DEF FreshCore, Init, TypeOK
  <2> QED BY <1>2, <2>1, <2>2
<1>3. [Next]_vars => battle' = battle
  BY StepMoves DEF Moves, Become, LoadWarrior, TaskDies, TaskGoesOn, Conclude, vars
<1> QED BY <1>1, <1>2, <1>3 DEF MainNext, Exit, mainVars

LEMMA InitPrimed ==
  /\ Init' => IInv'
  /\ Init' => Loading'
<1>1. Init => IInv /\ Loading
  BY InitIInv, InitLoading
<1> QED BY <1>1, PTL

-----------------------------------------------------------------------------
(* The line-up can be loaded in every round or in none.                    *)

\* Wherever the warrior is placed, it fits.
Fits(id) ==
  /\ Places(id) # {} /\ ~ TooLong(id)
  /\ \A base \in Places(id) : base + Len(Program(id)) <= CoreSize

Loadable ==
  /\ num_warriors > 0 /\ spacing >= config.min_distance
  /\ \A id \in WarriorID : Fits(id)

\* What is known of the line-up from what has been loaded of it, in this round or in
\* an earlier one.
LoadedFits ==
  /\ phase = "loading" =>
       /\ num_warriors > 0 /\ spacing >= config.min_distance
       /\ \A id \in 0 .. loaded - 1 : Fits(id)
  /\ phase \in {"running", "stopped", "finished"} => loaded = num_warriors /\ Loadable
  /\ round > 0 => Loadable

\* A warrior that has a place and fits there would fit in any other place.
LEMMA PlacedFits ==
  ASSUME TypeOK, NEW id \in WarriorID, ~ TooLong(id), NEW place \in Places(id),
         place + Len(Program(id)) <= CoreSize
  PROVE  Fits(id)
<1>1. CASE id = 0
  BY <1>1 DEF Fits, Places
<1>2. CASE id > 0
  <2>1. ASSUME NEW base \in Places(id) PROVE base + Len(Program(id)) <= CoreSize
    <3>1. /\ base \in Int /\ spacing \in Int /\ (id + 1) * spacing \in Int
          /\ base + config.max_warrior_length < (id + 1) * spacing
          /\ (id + 1) * spacing <= CoreSize
      <4>1. base \in Addr /\ spacing \in Nat /\ id \in Nat
        BY PlaceInShare, BattleTypes
      <4>2. base \in Int /\ (id + 1) * spacing \in Int
        BY <4>1, CoreSizeAssumption, MaxIntAssumption DEF Addr
      <4> QED BY <1>2, <4>1, <4>2, PlaceInShare
    <3>2. /\ Len(Program(id)) \in Nat /\ config.max_warrior_length \in Nat
          /\ Len(Program(id)) <= config.max_warrior_length
      BY ProgramTypes, BattleTypes DEF Config, TooLong
    <3> DEFINE above == (id + 1) * spacing
    <3> HIDE DEF above
    <3>3. /\ above \in Int /\ above <= CoreSize
          /\ base + config.max_warrior_length < above
      BY <3>1 DEF above
    <3> QED BY <3>1, <3>2, <3>3, CoreSizeAssumption, MaxIntAssumption
  <2> QED BY <2>1 DEF Fits
<1> QED BY <1>1, <1>2, BattleTypes

LEMMA SameLineUp ==
  ASSUME battle' = battle
  PROVE  /\ spacing' = spacing /\ config' = config
         /\ num_warriors' = num_warriors /\ WarriorID' = WarriorID
         /\ \A id : Fits(id)' = Fits(id)
         /\ Loadable' = Loadable
<1>1. /\ spacing' = spacing /\ config' = config
      /\ num_warriors' = num_warriors /\ WarriorID' = WarriorID
  BY SameBattle DEF spacing
<1>2. \A id : Fits(id)' = Fits(id)
  <2>1. \A id : /\ Places(id)' = Places(id) /\ TooLong(id)' = TooLong(id)
                /\ Program(id)' = Program(id)
    BY <1>1, SameBattle DEF Places, Gaps, TooLong
  <2> QED BY <2>1 DEF Fits
<1> QED BY <1>1, <1>2 DEF Loadable

\* A step of the core keeps what is known, and refuses only a line-up that never loads.
LEMMA StepFits ==
  ASSUME IInv, round \in Nat, LoadedFits, LoadFailsFirst,
         [Next]_vars, UNCHANGED <<round, scores>>
  PROVE  LoadedFits' /\ LoadFailsFirst'
<1>0. TypeOK /\ (phase = "new" => loaded = 0)
  BY DEF IInv, Bookkeeping
<1>b. /\ battle' = battle /\ round' = round
  BY <1>0, StepMoves
  DEF Moves, Become, LoadWarrior, TaskDies, TaskGoesOn, Conclude, vars
<1>s. /\ spacing' = spacing /\ config' = config
      /\ num_warriors' = num_warriors /\ WarriorID' = WarriorID
      /\ \A id : Fits(id)' = Fits(id)
      /\ Loadable' = Loadable
  BY <1>b, SameLineUp
<1>n. /\ num_warriors \in Nat /\ WarriorID = 0 .. num_warriors - 1
      /\ loaded \in 0 .. num_warriors
  BY <1>0, BattleTypes DEF WarriorID, TypeOK
<1>1. CASE LoadNobody \/ LoadRefused \/ LoadPanics \/ LoadRejects
  <2>1. ~ Loadable
    <3>1. CASE LoadNobody
      BY <1>n, <3>1 DEF LoadNobody, Loadable
    <3>2. CASE LoadRefused
      <4>1. spacing \in Int /\ config.min_distance \in Int
        BY <1>0, <1>n, <3>2, CoreSizeAssumption, MaxIntAssumption, BattleTypes
        DEF LoadRefused, spacing, Config
      <4> QED BY <3>2, <4>1 DEF LoadRefused, Loadable
    <3>3. CASE LoadPanics \/ LoadRejects
      <4>1. loaded \in WarriorID
        BY <1>n, <3>3 DEF LoadPanics, LoadRejects
      <4>2. ASSUME NEW base \in Places(loaded), base + Len(Program(loaded)) > CoreSize,
                   Fits(loaded)
            PROVE  FALSE
        <5>1. base \in Int /\ Len(Program(loaded)) \in Int
          BY <1>0, <4>1, PlaceInShare, ProgramTypes, CoreSizeAssumption, MaxIntAssumption
          DEF Addr
        <5>2. base + Len(Program(loaded)) <= CoreSize
          BY <4>2 DEF Fits
        <5> QED BY <4>2, <5>1, <5>2, CoreSizeAssumption, MaxIntAssumption
      <4>3. ~ Fits(loaded)
        BY <3>3, <4>2 DEF LoadPanics, LoadRejects, Fits
      <4> QED BY <4>1, <4>3 DEF Loadable
    <3> QED BY <1>1, <3>1, <3>2, <3>3
  <2>2. round = 0
    BY <1>b, <2>1 DEF LoadedFits
  <2>3. phase' \in {"rejected", "panicked"}
    BY <1>1 DEF LoadNobody, LoadRefused, LoadPanics, LoadRejects, Become
  <2> QED BY <1>b, <2>2, <2>3 DEF LoadedFits, LoadFailsFirst
<1>2. CASE LoadBegins
  <2>1. phase = "new" /\ phase' = "loading" /\ loaded' = loaded
        /\ num_warriors > 0 /\ spacing >= config.min_distance
    BY <1>2 DEF LoadBegins, Become
  <2>2. 0 .. loaded' - 1 = {}
    BY <1>0, <2>1
  <2> QED BY <1>b, <1>s, <2>1, <2>2 DEF LoadedFits, LoadFailsFirst
<1>3. CASE LoadWarrior
  <2>1. /\ phase = "loading" /\ phase' = "loading" /\ loaded' = loaded + 1
        /\ loaded \in WarriorID
    BY <1>0, <1>3, LoadedQueue DEF LoadWarrior
  <2>2. Fits(loaded)
    BY <1>0, <1>3, <2>1, PlacedFits DEF LoadWarrior
  <2>3. \A id \in 0 .. loaded' - 1 : id = loaded \/ id \in 0 .. loaded - 1
    BY <1>n, <2>1
  <2>4. LoadedFits'
    BY <1>b, <1>s, <2>1, <2>2, <2>3 DEF LoadedFits
  <2> QED BY <2>1, <2>4 DEF LoadFailsFirst
<1>4. CASE Run
  <2>1. phase = "loading" /\ phase' = "running" /\ loaded = num_warriors /\ loaded' = loaded
    BY <1>4 DEF Run, Become
  <2>2. Loadable
    BY <1>n, <2>1 DEF LoadedFits, Loadable
  <2> QED BY <1>b, <1>s, <2>1, <2>2 DEF LoadedFits, LoadFailsFirst
<1>5. CASE Cycle \/ Conclude
  <2>1. /\ phase \in {"running", "stopped"} /\ loaded' = loaded
        /\ phase' \in {"running", "stopped", "finished", "panicked"}
    BY <1>5
    DEF Cycle, TaskDies, TaskGoesOn, TaskPanics, Halt, OutOfCycles, Conclude, Stepping, Become
  <2>2. loaded = num_warriors /\ Loadable /\ num_warriors > 0
    BY <2>1 DEF LoadedFits, Loadable
  <2> QED BY <1>b, <1>s, <1>n, <2>1, <2>2 DEF LoadedFits, LoadFailsFirst
<1>6. CASE UNCHANGED vars
  BY <1>6, <1>b, <1>s DEF vars, LoadedFits, LoadFailsFirst
<1> QED BY <1>1, <1>2, <1>3, <1>4, <1>5, <1>6 DEF Next, Step, Load, Rest

-----------------------------------------------------------------------------
(* The scores.                                                             *)

\* The rounds counted and the scores of the warriors.
Tallied ==
  /\ round \in 0 .. Rounds
  /\ scores \in [WarriorID -> Score]
  /\ ScoresAddUp

MainIInv == IInv /\ Judged /\ Tallied /\ LoadedFits /\ LoadFailsFirst

LEMMA InitMainIInv == MainInit => MainIInv
<1> SUFFICES ASSUME MainInit PROVE MainIInv
  OBVIOUS
<1>1. IInv /\ phase = "new" /\ loaded = 0 /\ round = 0
  BY InitIInv DEF MainInit, Init
<1>2. Tallied
  BY RoundsAssumption DEF MainInit, Tallied, ScoresAddUp, Score
<1>3. Judged /\ LoadedFits /\ LoadFailsFirst
  BY <1>1 DEF Judged, LoadedFits, LoadFailsFirst
<1> QED BY <1>1, <1>2, <1>3 DEF MainIInv

\* A judged warrior gains exactly one of its three counts.
LEMMA CountedOnce ==
  ASSUME NEW score \in Score, NEW verdict \in {"Win", "Loss", "Tie"}
  PROVE  LET counted == Counted(score, verdict)
         IN  /\ counted \in Score
             /\ counted.wins   = score.wins   + (IF verdict = "Win"  THEN 1 ELSE 0)
             /\ counted.losses = score.losses + (IF verdict = "Loss" THEN 1 ELSE 0)
             /\ counted.ties   = score.ties   + (IF verdict = "Tie"  THEN 1 ELSE 0)
  BY DEF Counted, Score

LEMMA CountRoundTallies ==
  ASSUME MainIInv, CountRound
  PROVE  Tallied' /\ round' = round + 1 /\ Loadable
<1>1. /\ round \in 0 .. Rounds /\ round < Rounds /\ round' = round + 1
      /\ phase = "finished" /\ battle' = battle
      /\ scores' = [w \in WarriorID |-> Counted(scores[w], results[w])]
      /\ WarriorID' = WarriorID
  BY SameBattle DEF MainIInv, Tallied, CountRound
<1>2. ASSUME NEW w \in WarriorID
      PROVE  /\ scores'[w] \in Score
             /\ scores'[w].wins + scores'[w].losses + scores'[w].ties = round + 1
  <2>1. scores[w] \in Score /\ results[w] \in {"Win", "Loss", "Tie"}
    BY <1>1 DEF MainIInv, Tallied, Judged
  <2>2. scores[w].wins + scores[w].losses + scores[w].ties = round
    BY DEF MainIInv, Tallied, ScoresAddUp
  <2>3. scores'[w] = Counted(scores[w], results[w])
    BY <1>1
  <2>4. /\ scores'[w] \in Score
        /\ scores'[w].wins   = scores[w].wins   + (IF results[w] = "Win"  THEN 1 ELSE 0)
        /\ scores'[w].losses = scores[w].losses + (IF results[w] = "Loss" THEN 1 ELSE 0)
        /\ scores'[w].ties   = scores[w].ties   + (IF results[w] = "Tie"  THEN 1 ELSE 0)
    BY <2>1, <2>3, CountedOnce
  <2> QED BY <2>1, <2>2, <2>4 DEF Score
<1>3. round' \in 0 .. Rounds
  BY <1>1, RoundsAssumption
<1>4. Loadable
  BY <1>1 DEF MainIInv, LoadedFits
<1> QED BY <1>1, <1>2, <1>3, <1>4 DEF Tallied, ScoresAddUp

LEMMA NextMainIInv == MainIInv /\ [MainNext]_mainVars => MainIInv'
<1> SUFFICES ASSUME MainIInv, [MainNext]_mainVars PROVE MainIInv'
  OBVIOUS
<1>t. TypeOK /\ round \in Nat
  BY DEF MainIInv, IInv, Tallied
<1>b. /\ battle' = battle /\ WarriorID' = WarriorID /\ num_warriors' = num_warriors
      /\ Loadable' = Loadable
  BY <1>t, CoreSteps, SameLineUp
<1>1. CASE [Next]_vars /\ UNCHANGED <<round, scores>>
  <2>1. IInv' /\ Judged'
    BY <1>1, NextIInv, NextJudged DEF MainIInv
  <2>2. Tallied'
    BY <1>1, <1>b DEF MainIInv, Tallied, ScoresAddUp
  <2>3. LoadedFits' /\ LoadFailsFirst'
    BY <1>1, <1>t, StepFits DEF MainIInv
  <2> QED BY <2>1, <2>2, <2>3 DEF MainIInv
<1>2. CASE CountRound /\ UNCHANGED vars
  <2>1. IInv' /\ Judged'
    BY <1>2, NextIInv, NextJudged DEF MainIInv
  <2>2. Tallied' /\ Loadable /\ phase' = "finished" /\ loaded' = loaded
    BY <1>2, CountRoundTallies DEF CountRound, vars
  <2>3. LoadedFits' /\ LoadFailsFirst'
    BY <1>2, <1>b, <2>2 DEF CountRound, MainIInv, LoadedFits, LoadFailsFirst
  <2> QED BY <2>1, <2>2, <2>3 DEF MainIInv
<1>3. CASE CountRound /\ Init'
  <2>1. IInv' /\ phase' = "new"
    BY <1>3, InitPrimed DEF Init
  <2>2. Tallied' /\ Loadable
    BY <1>3, CountRoundTallies
  <2>3. Judged' /\ LoadedFits' /\ LoadFailsFirst'
    BY <1>b, <2>1, <2>2 DEF Judged, LoadedFits, LoadFailsFirst
  <2> QED BY <2>1, <2>2, <2>3 DEF MainIInv
<1> QED BY <1>t, <1>1, <1>2, <1>3, CoreSteps

LEMMA MainInvariance == MainSpec => []MainIInv
  BY InitMainIInv, NextMainIInv, PTL DEF MainSpec

\* No warrior drops out of the results of a round: after any number of rounds the wins,
\* losses and ties of each add up to the rounds played (bin/corewar.rs:116-130).
THEOREM ScoresCorrect == MainSpec => []ScoresAddUp
<1>1. MainIInv => ScoresAddUp
  BY DEF MainIInv, Tallied
<1> QED BY <1>1, MainInvariance, PTL

\* If a line-up fails to load it does so in the first round: no later gap of the random
\* number generator is out of range, too long or past the end of the core.
THEOREM LoadFailuresCorrect == MainSpec => []LoadFailsFirst
<1>1. MainIInv => LoadFailsFirst
  BY DEF MainIInv
<1> QED BY <1>1, MainInvariance, PTL

-----------------------------------------------------------------------------
(* How several warriors share the rounds.                                  *)

LEMMA InitShared == MainInit => RoundsShared
<1> SUFFICES ASSUME MainInit PROVE RoundsShared
  OBVIOUS
<1>1. IsFiniteSet(WarriorID)
  BY InitIInv, BattleTypes DEF MainInit, IInv
<1>2. \A w \in WarriorID : scores[w].wins = 0 /\ scores[w].ties = 0
  BY DEF MainInit
<1>3. /\ [w \in WarriorID |-> scores[w].wins] = [w \in WarriorID |-> 0]
      /\ [w \in WarriorID |-> scores[w].ties] = [w \in WarriorID |-> 0]
  BY <1>2
<1>4. Wins = 0 /\ SumFunction([w \in WarriorID |-> scores[w].ties]) = 0
  BY <1>1, <1>3, SumZero DEF Wins
<1> QED BY <1>2, <1>4 DEF MainInit, RoundsShared

\* A round won by one adds a win to the sum; a round won by nobody adds one tie to
\* several warriors and to none more than one.
LEMMA CountRoundShares ==
  ASSUME MainIInv, RoundsShared, CountRound
  PROVE  RoundsShared'
<1> SUFFICES ASSUME num_warriors' > 1 PROVE RoundsShared'
  BY DEF RoundsShared
<1> DEFINE won   == { w \in WarriorID : results[w] = "Win" }
           tied  == { w \in WarriorID : results[w] = "Tie" }
           wins  == [w \in WarriorID |-> scores[w].wins]
           ties  == [w \in WarriorID |-> scores[w].ties]
           wins2 == [w \in WarriorID |-> scores'[w].wins]
           ties2 == [w \in WarriorID |-> scores'[w].ties]
<1>1. /\ phase = "finished" /\ round \in Nat /\ round' = round + 1
      /\ WarriorID' = WarriorID /\ num_warriors > 1
      /\ scores' = [w \in WarriorID |-> Counted(scores[w], results[w])]
      /\ IsFiniteSet(WarriorID)
  BY SameBattle, BattleTypes DEF MainIInv, IInv, Tallied, CountRound
<1>2. \/ won = {} /\ Cardinality(tied) > 1
      \/ Cardinality(won) = 1 /\ tied = {}
  BY <1>1 DEF MainIInv, Judged
<1>3. ASSUME NEW w \in WarriorID
      PROVE  /\ wins[w] \in Nat /\ ties[w] \in Nat
             /\ wins2[w] \in Nat /\ ties2[w] \in Nat
             /\ wins2[w] = wins[w] + (IF w \in won THEN 1 ELSE 0)
             /\ ties2[w] = ties[w] + (IF w \in tied THEN 1 ELSE 0)
  <2>1. scores[w] \in Score /\ results[w] \in {"Win", "Loss", "Tie"}
    BY <1>1 DEF MainIInv, Tallied, Judged
  <2>2. scores'[w] = Counted(scores[w], results[w])
    BY <1>1
  <2>3. /\ scores'[w] \in Score
        /\ scores'[w].wins = scores[w].wins + (IF results[w] = "Win" THEN 1 ELSE 0)
        /\ scores'[w].ties = scores[w].ties + (IF results[w] = "Tie" THEN 1 ELSE 0)
    BY <2>1, <2>2, CountedOnce
  <2> QED BY <2>1, <2>3 DEF Score
<1>4. /\ SumFunction(wins) \in Int
      /\ SumFunction(wins2) = SumFunction(wins) + Cardinality(won)
  <2>1. /\ wins \in [WarriorID -> Int] /\ wins2 \in [WarriorID -> Int]
        /\ won \in SUBSET WarriorID
        /\ CountsMore(wins, wins2, WarriorID, won)
    BY <1>3 DEF CountsMore
  <2>2. IsFiniteSet(WarriorID)
    BY <1>1
  <2> HIDE DEF wins, wins2, won, ties, ties2, tied
  <2> QED BY <2>1, <2>2, SumCounts
<1>5. /\ SumFunction(ties) \in Int
      /\ SumFunction(ties2) = SumFunction(ties) + Cardinality(tied)
  <2>1. /\ ties \in [WarriorID -> Int] /\ ties2 \in [WarriorID -> Int]
        /\ tied \in SUBSET WarriorID
        /\ CountsMore(ties, ties2, WarriorID, tied)
    BY <1>3 DEF CountsMore
  <2>2. IsFiniteSet(WarriorID)
    BY <1>1
  <2> HIDE DEF wins, wins2, won, ties, ties2, tied
  <2> QED BY <2>1, <2>2, SumCounts
<1>6. /\ \A w \in WarriorID : ties[w] <= round - SumFunction(wins)
      /\ SumFunction(ties) >= 2 * (round - SumFunction(wins))
  BY <1>1 DEF RoundsShared, Wins
<1>7. /\ Cardinality(won) \in Nat /\ Cardinality(tied) \in Nat
      /\ Cardinality({}) = 0
  BY <1>1, FS_Subset, FS_CardinalityType, FS_EmptySet
<1>8. /\ \A w \in WarriorID : ties2[w] <= round' - SumFunction(wins2)
      /\ SumFunction(ties2) >= 2 * (round' - SumFunction(wins2))
  <2> HIDE DEF wins, wins2, ties, ties2, won, tied
  <2>1. CASE won = {} /\ Cardinality(tied) > 1
    BY <1>1, <1>3, <1>4, <1>5, <1>6, <1>7, <2>1
  <2>2. CASE Cardinality(won) = 1 /\ tied = {}
    BY <1>1, <1>3, <1>4, <1>5, <1>6, <1>7, <2>2
  <2> QED BY <1>2, <2>1, <2>2
<1> QED BY <1>1, <1>8 DEF RoundsShared, Wins

\* Of several warriors every round played has one winner, or nobody wins it and two or
\* more tie: summed over all rounds, for any line-up (core/mod.rs:346-366).
THEOREM RoundsSharedCorrect == MainSpec => []RoundsShared
<1>1. MainIInv /\ RoundsShared /\ [MainNext]_mainVars => RoundsShared'
  <2> SUFFICES ASSUME MainIInv, RoundsShared, [MainNext]_mainVars PROVE RoundsShared'
    OBVIOUS
  <2>1. CASE CountRound
    BY <2>1, CountRoundShares
  <2>2. CASE UNCHANGED <<battle, round, scores>>
    <3>1. WarriorID' = WarriorID /\ num_warriors' = num_warriors
      BY <2>2, SameBattle
    <3> QED BY <2>2, <3>1 DEF RoundsShared, Wins
  <2> QED BY <2>1, <2>2, CoreSteps DEF MainIInv, IInv
<1> QED BY <1>1, InitShared, MainInvariance, PTL DEF MainSpec

-----------------------------------------------------------------------------
(* A warrior that plays alone.                                             *)

\* The core of a battle, as far as its steps read it.
Snapshot == [mem |-> instructions, pq |-> process_queue]

\* A lone warrior is always placed at 0.
LoneStart ==
  [mem |-> Written([a \in Addr |-> DefaultInstruction], 0, Program(0)),
   pq  |-> Push(EmptyQueue(WarriorID), 0, New(Wrap(0 + Origin(0))), NoThread)]

\* What one step makes of a core.
Advance(s) ==
  LET task     == Head(s.pq.queue)
      executed == Execute(s.mem, task.offset)
  IN  [mem |-> executed.mem,
       pq  |-> IF executed.error \in Errors THEN Pop(s.pq)
               ELSE Requeued(s.pq, task, executed)]

\* The cores t[0], ..., t[n] follow one another from the start, each before the last
\* one with a task in its queue.
Trail(t, n) ==
  /\ t[0] = LoneStart
  /\ \A i \in 0 .. n - 1 : t[i].pq.queue # << >> /\ t[i + 1] = Advance(t[i])

\* The warrior loses if any trail within the cycles comes to an empty queue.
Loses == \E n \in 0 .. config.max_cycles : \E t : Trail(t, n) /\ t[n].pq.queue = << >>

Unstarted ==
  phase \in {"new", "loading"} =>
    /\ steps_taken = 0
    /\ loaded = 0 => /\ instructions = [a \in Addr |-> DefaultInstruction]
                     /\ process_queue = EmptyQueue(WarriorID)
    /\ loaded = 1 => Snapshot = LoneStart

Trailing ==
  phase \in {"running", "stopped", "finished"} =>
    \E t : Trail(t, steps_taken) /\ t[steps_taken] = Snapshot

Over ==
  phase \in {"stopped", "finished"} =>
    process_queue.queue = << >> \/ steps_taken = config.max_cycles

LoneVerdict ==
  phase = "finished" =>
    results[0] = (IF process_queue.queue = << >> THEN "Loss" ELSE "Win")

\* The score of a warrior that has met the same fate in every round.
LoneScore ==
  IF Loses THEN [wins |-> 0, losses |-> round, ties |-> 0]
           ELSE [wins |-> round, losses |-> 0, ties |-> 0]

\* Two trails agree as far as both go.
LEMMA TrailsAgree ==
  ASSUME NEW m \in Nat, NEW n \in Nat, NEW t, NEW u, Trail(t, m), Trail(u, n), n <= m
  PROVE  t[n] = u[n]
<1> DEFINE T == { i \in Nat : i <= n => t[i] = u[i] }
<1>1. 0 \in T
  BY DEF Trail
<1>2. ASSUME NEW i \in Nat, i \in T PROVE i + 1 \in T
  <2>1. SUFFICES ASSUME i + 1 <= n PROVE t[i + 1] = u[i + 1]
    OBVIOUS
  <2>2. i \in 0 .. n - 1 /\ i \in 0 .. m - 1
    BY <2>1
  <2>3. t[i] = u[i]
    BY <1>2, <2>1
  <2> QED BY <2>2, <2>3 DEF Trail
<1>3. \A i \in Nat : i \in T
  <2> HIDE DEF T
  <2> QED BY <1>1, <1>2, NatSetInduction
<1> QED BY <1>3

\* So the verdict of a battle says whether the warrior loses every battle.
LEMMA LoneFate ==
  ASSUME TypeOK, num_warriors = 1, phase = "finished", Trailing, Over, LoneVerdict
  PROVE  results[0] = IF Loses THEN "Loss" ELSE "Win"
<1>1. PICK t : Trail(t, steps_taken) /\ t[steps_taken] = Snapshot
  BY DEF Trailing
<1>2. /\ steps_taken \in Nat /\ config.max_cycles \in Nat
      /\ steps_taken \in 0 .. config.max_cycles
  BY BattleTypes DEF TypeOK
<1>3. CASE process_queue.queue = << >>
  <2>1. Loses
    BY <1>1, <1>2, <1>3 DEF Loses, Snapshot
  <2> QED BY <1>3, <2>1 DEF LoneVerdict
<1>4. CASE process_queue.queue # << >>
  <2>1. steps_taken = config.max_cycles
    BY <1>4 DEF Over
  <2>2. ASSUME Loses PROVE FALSE
    <3>1. PICK n \in 0 .. steps_taken : \E u : Trail(u, n) /\ u[n].pq.queue = << >>
      BY <2>1, <2>2 DEF Loses
    <3>2. PICK u : Trail(u, n) /\ u[n].pq.queue = << >>
      BY <3>1
    <3>3. t[n] = u[n]
      BY <1>1, <1>2, <3>2, TrailsAgree
    <3>4. CASE n = steps_taken
      BY <1>1, <1>4, <3>2, <3>3, <3>4 DEF Snapshot
    <3>5. CASE n # steps_taken
      <4>1. n \in 0 .. steps_taken - 1
        BY <1>2, <3>5
      <4> QED BY <1>1, <3>2, <3>3, <4>1 DEF Trail
    <3> QED BY <3>4, <3>5
  <2> QED BY <1>4, <2>2 DEF LoneVerdict
<1> QED BY <1>3, <1>4

LEMMA SameLoner ==
  ASSUME battle' = battle
  PROVE  /\ num_warriors' = num_warriors /\ config' = config /\ WarriorID' = WarriorID
         /\ LoneStart' = LoneStart
         /\ \A t, n : Trail(t, n)' = Trail(t, n)
         /\ Loses' = Loses
<1>1. /\ num_warriors' = num_warriors /\ config' = config /\ WarriorID' = WarriorID
      /\ LoneStart' = LoneStart
  BY SameBattle DEF LoneStart
<1>2. \A t, n : Trail(t, n)' = Trail(t, n)
  BY <1>1 DEF Trail
<1>3. Loses' = Loses
  BY <1>1, <1>2 DEF Loses
<1> QED BY <1>1, <1>2, <1>3

LEMMA TrailExtends ==
  ASSUME NEW n \in Nat, NEW t, Trail(t, n), t[n].pq.queue # << >>
  PROVE  \E u : Trail(u, n + 1) /\ u[n + 1] = Advance(t[n])
<1> DEFINE u == [i \in 0 .. n + 1 |-> IF i = n + 1 THEN Advance(t[n]) ELSE t[i]]
<1>1. u[n + 1] = Advance(t[n]) /\ \A i \in 0 .. n : u[i] = t[i]
  OBVIOUS
<1>2. 0 \in 0 .. n /\ \A i \in 0 .. n : i = n \/ i \in 0 .. n - 1
  OBVIOUS
<1>3. \A i \in 0 .. n - 1 : i \in 0 .. n /\ i + 1 \in 0 .. n
  OBVIOUS
<1> HIDE DEF u
<1>4. Trail(u, n + 1)
  <2>1. ASSUME NEW i \in 0 .. n PROVE u[i].pq.queue # << >> /\ u[i + 1] = Advance(u[i])
    <3>1. CASE i = n
      BY <1>1, <3>1
    <3>2. CASE i # n
      BY <1>1, <1>2, <1>3, <3>2 DEF Trail
    <3> QED BY <3>1, <3>2
  <2>2. (n + 1) - 1 = n
    OBVIOUS
  <2> QED BY <1>1, <1>2, <2>1, <2>2 DEF Trail
<1> QED BY <1>1, <1>4

\* In a battle of one, only tasks of the warrior 0 are queued.
LEMMA LoneTasks ==
  ASSUME TypeOK, num_warriors = 1
  PROVE  /\ WarriorID = {0}
         /\ TasksOf(process_queue, 0) = {} <=> process_queue.queue = << >>
<1>1. WarriorID = {0}
  BY DEF WarriorID
<1>2. process_queue.queue \in Seq(Entry({0}, Addr))
  BY <1>1 DEF TypeOK, ProcessQueue
<1>3. \A i \in DOMAIN process_queue.queue : process_queue.queue[i].id = 0
  <2>1. \A i \in 1 .. Len(process_queue.queue) :
           process_queue.queue[i] \in Entry({0}, Addr)
    BY <1>2, ElementOfSeq
  <2> QED BY <1>2, <2>1 DEF Entry
<1> QED BY <1>1, <1>2, <1>3 DEF TasksOf

LEMMA LoneLoads ==
  ASSUME TypeOK, num_warriors = 1, Unstarted, LoadWarrior
  PROVE  /\ phase = "loading" /\ phase' = "loading" /\ loaded' = 1
         /\ steps_taken' = 0 /\ Snapshot' = LoneStart
<1>1. /\ loaded = 0 /\ phase = "loading" /\ phase' = "loading" /\ loaded' = 1
      /\ steps_taken' = steps_taken
  BY LoadedQueue, LoneTasks DEF LoadWarrior
<1>2. /\ instructions = [a \in Addr |-> DefaultInstruction]
      /\ process_queue = EmptyQueue(WarriorID)
      /\ steps_taken = 0
  BY <1>1 DEF Unstarted
<1>3. Places(loaded) = {0}
  BY <1>1 DEF Places
<1>4. /\ instructions' = Written(instructions, 0, Program(0))
      /\ process_queue' = Push(process_queue, 0, New(Wrap(0 + Origin(0))), NoThread)
  BY <1>1, <1>3 DEF LoadWarrior
<1> QED BY <1>1, <1>2, <1>4 DEF Snapshot, LoneStart

\* A step of the battle of one is the next core of its trail.
LEMMA LoneAdvances ==
  ASSUME TypeOK, num_warriors = 1, TaskDies \/ TaskGoesOn
  PROVE  /\ phase = "running" /\ phase' = "running"
         /\ process_queue.queue # << >>
         /\ steps_taken' = steps_taken + 1
         /\ Snapshot' = Advance(Snapshot)
<1>1. \A r : ~ Decided(r)
  BY DEF Decided
<1>2. "None" \notin Errors
  BY DEF Errors
<1>3. CASE TaskDies
  BY <1>1, <1>3 DEF TaskDies, Stepping, Snapshot, Advance, Task, Executed
<1>4. CASE TaskGoesOn
  BY <1>1, <1>2, <1>4 DEF TaskGoesOn, Stepping, Snapshot, Advance, Task, Executed
<1> QED BY <1>3, <1>4

LEMMA LoneConcludes ==
  ASSUME IInv, num_warriors = 1, Conclude
  PROVE  /\ phase = "stopped" /\ phase' = "finished"
         /\ UNCHANGED <<instructions, process_queue, steps_taken>>
         /\ results'[0] = IF process_queue.queue = << >> THEN "Loss" ELSE "Win"
<1>1. /\ phase = "stopped" /\ phase' = "finished"
      /\ UNCHANGED <<instructions, process_queue, steps_taken>>
      /\ results' = VerdictsOf(results)
  BY DEF Conclude
<1>2. /\ WarriorID = {0}
      /\ results[0] = IF process_queue.queue = << >> THEN "Loss" ELSE "Undecided"
  BY <1>1, LoneTasks DEF IInv, Bookkeeping, LossIffFallen
<1>3. process_queue.queue # << >> => ~ (Cardinality(Survivors(results)) > 1)
  <2>1. SUFFICES ASSUME process_queue.queue # << >>
                 PROVE  ~ (Cardinality(Survivors(results)) > 1)
    OBVIOUS
  <2>2. Survivors(results) = {0}
    BY <1>2, <2>1 DEF Survivors
  <2> QED BY <2>2, FS_Singleton
<1> QED BY <1>1, <1>2, <1>3 DEF VerdictsOf

\* What is known of the round of a lone warrior, without its scores.
LoneRound == Unstarted /\ Trailing /\ Over /\ LoneVerdict

LEMMA InitLone == Init => LoneRound
  BY DEF Init, LoneRound, Unstarted, Trailing, Over, LoneVerdict

LEMMA StepLone ==
  ASSUME IInv, num_warriors = 1, LoneRound, [Next]_vars
  PROVE  LoneRound'
<1>0. TypeOK
  BY DEF IInv
<1>b. battle' = battle
  BY <1>0, StepMoves
  DEF Moves, Become, LoadWarrior, TaskDies, TaskGoesOn, Conclude, vars
<1>s. /\ config' = config /\ WarriorID' = WarriorID
      /\ LoneStart' = LoneStart
      /\ \A t, n : Trail(t, n)' = Trail(t, n)
  BY <1>b, SameLoner
<1>t. /\ steps_taken \in Nat /\ config.max_cycles \in Nat
      /\ steps_taken <= config.max_cycles
  BY <1>0, BattleTypes DEF TypeOK
<1>1. CASE Moves
  <2>1. /\ UNCHANGED <<instructions, process_queue, loaded, steps_taken, results>>
        /\ \/ phase = "new" /\ phase' = "loading"
           \/ phase = "loading" /\ phase' = "running" /\ loaded = 1
           \/ phase = "running" /\ phase' = "stopped"
                /\ (process_queue.queue = << >> \/ steps_taken >= config.max_cycles)
           \/ phase' \in {"rejected", "panicked"}
    BY <1>1 DEF Moves, Become
  <2>2. Snapshot' = Snapshot
    BY <2>1 DEF Snapshot
  <2>3. CASE phase = "loading" /\ phase' = "running"
    <3>1. steps_taken = 0 /\ Snapshot = LoneStart
      BY <2>1, <2>3 DEF LoneRound, Unstarted
    <3>2. \E t : Trail(t, 0) /\ t[0] = LoneStart
      <4>1. Trail([i \in 0 .. 0 |-> LoneStart], 0)
        BY DEF Trail
      <4> QED BY <4>1 DEF Trail
    <3>3. Trailing'
      BY <1>s, <2>1, <2>2, <3>1, <3>2 DEF Trailing
    <3> QED BY <2>3, <3>3 DEF LoneRound, Unstarted, Over, LoneVerdict
  <2>4. CASE phase = "running" /\ phase' = "stopped"
    <3>1. Trailing'
      BY <1>s, <2>1, <2>2, <2>4 DEF LoneRound, Trailing
    <3>2. Over'
      BY <1>s, <1>t, <2>1, <2>4 DEF Over
    <3> QED BY <2>4, <3>1, <3>2 DEF LoneRound, Unstarted, LoneVerdict
  <2>5. CASE phase = "new" /\ phase' = "loading"
    BY <1>s, <2>1, <2>2, <2>5 DEF LoneRound, Unstarted, Trailing, Over, LoneVerdict
  <2>6. CASE phase' \in {"rejected", "panicked"}
    BY <2>6 DEF LoneRound, Unstarted, Trailing, Over, LoneVerdict
  <2> QED BY <2>1, <2>3, <2>4, <2>5, <2>6
<1>2. CASE LoadWarrior
  BY <1>0, <1>2, <1>s, LoneLoads
  DEF LoneRound, Unstarted, Trailing, Over, LoneVerdict
<1>3. CASE TaskDies \/ TaskGoesOn
  <2>1. /\ phase = "running" /\ phase' = "running"
        /\ process_queue.queue # << >>
        /\ steps_taken' = steps_taken + 1
        /\ Snapshot' = Advance(Snapshot)
    BY <1>0, <1>3, LoneAdvances
  <2>2. PICK t : Trail(t, steps_taken) /\ t[steps_taken] = Snapshot
    BY <2>1 DEF LoneRound, Trailing
  <2>3. PICK u : Trail(u, steps_taken + 1) /\ u[steps_taken + 1] = Advance(Snapshot)
    <3>1. t[steps_taken].pq.queue # << >>
      BY <2>1, <2>2 DEF Snapshot
    <3>2. \E u : Trail(u, steps_taken + 1) /\ u[steps_taken + 1] = Advance(t[steps_taken])
      BY <1>t, <2>2, <3>1, TrailExtends
    <3> QED BY <2>2, <3>2
  <2>4. Trailing'
    BY <1>s, <2>1, <2>3 DEF Trailing
  <2> QED BY <2>1, <2>4 DEF LoneRound, Unstarted, Over, LoneVerdict
<1>4. CASE Conclude
  <2>1. /\ phase = "stopped" /\ phase' = "finished"
        /\ UNCHANGED <<instructions, process_queue, steps_taken>>
        /\ results'[0] = IF process_queue.queue = << >> THEN "Loss" ELSE "Win"
    BY <1>4, LoneConcludes
  <2>2. Snapshot' = Snapshot
    BY <2>1 DEF Snapshot
  <2> QED BY <1>s, <2>1, <2>2 DEF LoneRound, Unstarted, Trailing, Over, LoneVerdict
<1>5. CASE UNCHANGED vars
  <2>1. Snapshot' = Snapshot
    BY <1>5 DEF vars, Snapshot
  <2> QED BY <1>5, <1>s, <2>1
      DEF vars, LoneRound, Unstarted, Trailing, Over, LoneVerdict
<1> QED BY <1>0, <1>1, <1>2, <1>3, <1>4, <1>5, StepMoves

\* A warrior alone fares the same in every round: the rounds before have left nothing
\* behind that could change its fate (a new core for each, bin/corewar.rs:117).
THEOREM RoundsIndependentCorrect == MainSpec => []RoundsIndependent
<1> DEFINE Lonely == num_warriors = 1 => LoneRound /\ scores[0] = LoneScore
<1>1. MainInit => Lonely
  <2> SUFFICES ASSUME MainInit, num_warriors = 1
               PROVE  LoneRound /\ scores[0] = LoneScore
    OBVIOUS
  <2>1. scores[0] = [wins |-> 0, losses |-> 0, ties |-> 0] /\ round = 0
    BY DEF MainInit, WarriorID
  <2> QED BY <2>1, InitLone DEF MainInit, LoneScore
<1>2. Init' => LoneRound'
  BY InitLone, PTL
<1>3. ASSUME MainIInv, Lonely, [MainNext]_mainVars PROVE Lonely'
  <2> SUFFICES ASSUME num_warriors' = 1 PROVE LoneRound' /\ scores'[0] = LoneScore'
    OBVIOUS
  <2>t. TypeOK /\ IInv /\ round \in Nat
    BY <1>3 DEF MainIInv, IInv, Tallied
  <2>b. battle' = battle /\ num_warriors = 1 /\ Loses' = Loses /\ WarriorID = {0}
    BY <1>3, <2>t, CoreSteps, SameLoner, LoneTasks
  <2>1. LoneRound /\ scores[0] = LoneScore
    BY <1>3, <2>b
  <2>2. CASE [Next]_vars /\ UNCHANGED <<round, scores>>
    <3>1. LoneRound'
      BY <2>b, <2>1, <2>2, <2>t, StepLone
    <3> QED BY <2>b, <2>1, <2>2, <3>1 DEF LoneScore
  <2>3. ASSUME CountRound PROVE scores'[0] = LoneScore'
    <3>1. /\ phase = "finished" /\ round' = round + 1
          /\ scores'[0] = Counted(scores[0], results[0])
      BY <2>3, <2>b DEF CountRound
    <3>2. results[0] = IF Loses THEN "Loss" ELSE "Win"
      BY <2>b, <2>1, <2>t, <3>1, LoneFate DEF LoneRound
    <3> QED BY <2>b, <2>1, <2>t, <3>1, <3>2 DEF LoneScore, Counted
  <2>4. CASE CountRound /\ UNCHANGED vars
    BY <2>b, <2>1, <2>3, <2>4, <2>t, StepLone
  <2>5. CASE CountRound /\ Init'
    BY <1>2, <2>3, <2>5
  <2> QED BY <1>3, <2>2, <2>4, <2>5, <2>t, CoreSteps
<1>4. Lonely => RoundsIndependent
  BY DEF RoundsIndependent, LoneScore
<1>5. MainIInv /\ Lonely /\ [MainNext]_mainVars => Lonely'
  BY <1>3
<1> HIDE DEF Lonely
<1> QED BY <1>1, <1>4, <1>5, MainInvariance, PTL DEF MainSpec
=============================================================================
