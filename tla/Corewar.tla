------------------------------ MODULE Corewar -------------------------------
(***************************************************************************)
(* bin/corewar.rs: the `run' command, once its warriors are parsed.  Each  *)
(* round is a battle of module Core in a core of its own, and the verdicts *)
(* are counted per warrior.  The scores are printed when all rounds are    *)
(* played; an Err or a panic ends the program before.                      *)
(***************************************************************************)
EXTENDS Core, Functions

CONSTANT Rounds     \* --rounds

ASSUME RoundsAssumption == Rounds \in Nat

VARIABLES
  round,      \* how many rounds are counted
  scores      \* of each warrior; (0, 0, 0) where the map has no entry yet

mainVars == <<vars, round, scores>>

Score == [wins : Nat, losses : Nat, ties : Nat]

MainInit ==
  /\ Init
  /\ round = 0
  /\ scores = [w \in WarriorID |-> [wins |-> 0, losses |-> 0, ties |-> 0]]

\* load_warriors and run, in the core of this round.
PlayRound ==
  /\ round < Rounds
  /\ Step
  /\ UNCHANGED <<round, scores>>

\* Mutant: a tie is a win.
CountedGenerously(score, verdict) ==
  CASE verdict \in {"Win", "Tie"} -> [score EXCEPT !.wins = @ + 1]
    [] verdict = "Loss" -> [score EXCEPT !.losses = @ + 1]
    [] OTHER            -> score

\* Mutant: a lost round leaves no trace.
CountedUnlessLost(score, verdict) ==
  CASE verdict = "Win" -> [score EXCEPT !.wins = @ + 1]
    [] verdict = "Tie" -> [score EXCEPT !.ties = @ + 1]
    [] OTHER           -> score

\* run's results hold every warrior (no verdict, no entry).
Counted(score, verdict) ==
  CASE verdict = "Win"  -> [score EXCEPT !.wins = @ + 1]
    [] verdict = "Loss" -> [score EXCEPT !.losses = @ + 1]
    [] verdict = "Tie"  -> [score EXCEPT !.ties = @ + 1]
    [] OTHER            -> score

\* Mutant: the core of the round before is loaded again.
ReusedCore ==
  /\ phase' = "new"
  /\ process_queue' = EmptyQueue(WarriorID)
  /\ loaded' = 0
  /\ steps_taken' = 0
  /\ results' = [w \in WarriorID |-> "Undecided"]
  /\ UNCHANGED instructions

\* Core::new for the next round.
FreshCore ==
  /\ phase' = "new"
  /\ instructions' = [a \in Addr |-> DefaultInstruction]
  /\ process_queue' = EmptyQueue(WarriorID)
  /\ loaded' = 0
  /\ steps_taken' = 0
  /\ results' = [w \in WarriorID |-> "Undecided"]

CountRound ==
  /\ round < Rounds
  /\ phase = "finished"
  /\ scores' = [w \in WarriorID |-> Counted(scores[w], results[w])]
  /\ round' = round + 1
  /\ IF round' < Rounds
       THEN FreshCore
       ELSE UNCHANGED <<phase, instructions, process_queue, loaded, steps_taken, results>>
  /\ UNCHANGED battle

\* The program has printed the scores, or died.
Exited == round = Rounds \/ phase \in {"rejected", "panicked"}
Exit   == Exited /\ UNCHANGED mainVars

MainNext == PlayRound \/ CountRound \/ Exit

\* One thread again: WF_mainVars(PlayRound \/ CountRound), written without ENABLED.
MainFairness == []<>Exited \/ []<><<PlayRound \/ CountRound>>_mainVars

MainSpec == MainInit /\ [][MainNext]_mainVars /\ MainFairness

-----------------------------------------------------------------------------
Wins == SumFunction([w \in WarriorID |-> scores[w].wins])

\* Every warrior is judged once in every round: its wins, losses and ties add up
\* to the rounds counted, so no warrior drops out of run's results.
ScoresAddUp ==
  \A w \in WarriorID : scores[w].wins + scores[w].losses + scores[w].ties = round

\* A round among several has one winner or at least two warriors that tie, never
\* both: over the rounds counted, the ties are those of the rounds nobody won.
RoundsShared ==
  num_warriors > 1 =>
    LET undecided == round - Wins
    IN  /\ \A w \in WarriorID : scores[w].ties <= undecided
        /\ SumFunction([w \in WarriorID |-> scores[w].ties]) >= 2 * undecided

\* Whether a line-up can be loaded does not depend on where the warriors fall, so
\* a refusal or panic of load_warriors never throws away rounds already played.
LoadFailsFirst ==
  /\ phase = "rejected" => round = 0
  /\ phase = "panicked" /\ (loaded < num_warriors \/ num_warriors = 0) => round = 0

\* Rounds share nothing: a warrior alone (always placed at 0) fares the same in
\* every round, whatever it did to its core in the rounds before.
RoundsIndependent ==
  num_warriors = 1 =>
    round \in {scores[0].wins, scores[0].losses, scores[0].ties}

\* The program ends: it counts all its rounds or stops at an error.
RunsToTheEnd == <>Exited
=============================================================================
