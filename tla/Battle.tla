------------------------------- MODULE Battle -------------------------------
(***************************************************************************)
(* What a battle promises, without memory, counters or bookkeeping.        *)
(* The state is the row of turns to come, each belonging to a warrior.     *)
(* The front turn is played; its owner gets nothing for it (the task       *)
(* died), a turn at the end of the row, or two (it split).  A warrior      *)
(* stands as long as it has a turn.  Of several warriors the last one      *)
(* standing ends the battle, and the verdict is read off the row.          *)
(***************************************************************************)
EXTENDS Integers, Sequences, FiniteSets

VARIABLES
  fighters,    \* the warriors, 0 .. n-1
  stage,       \* "entering", "fighting", "over" or "off"
  turns,       \* the owners of the turns to come
  verdict

battleVars == <<fighters, stage, turns, verdict>>

Standing == { turns[i] : i \in DOMAIN turns }

\* Several fought and at most one stands: nobody plays any more.
LastStanding == Cardinality(fighters) > 1 /\ Cardinality(Standing) <= 1

Init ==
  /\ fighters = 0 .. Cardinality(fighters) - 1
  /\ stage = "entering"
  /\ turns = << >>
  /\ verdict = [w \in fighters |-> "Undecided"]

\* The warriors enter in order, with one turn each.
Enter ==
  /\ stage = "entering" /\ Len(turns) \in fighters
  /\ turns' = Append(turns, Len(turns))
  /\ UNCHANGED <<fighters, stage, verdict>>

Start ==
  /\ stage = "entering" /\ fighters # {} /\ Standing = fighters
  /\ stage' = "fighting"
  /\ UNCHANGED <<fighters, turns, verdict>>

\* The battle does not take place, or is broken off by a panic.
CallOff ==
  /\ stage \in {"entering", "fighting"}
  /\ stage' = "off"
  /\ UNCHANGED <<fighters, turns, verdict>>

Turn ==
  /\ stage = "fighting" /\ turns # << >> /\ ~ LastStanding
  /\ \E gained \in 0 .. 2 :
        turns' = Tail(turns) \o [i \in 1 .. gained |-> Head(turns)]
  /\ UNCHANGED <<fighters, stage, verdict>>

Decide ==
  /\ stage = "fighting"
  /\ stage' = "over"
  /\ verdict' = [w \in fighters |->
                   IF w \notin Standing THEN "Loss"
                   ELSE IF Cardinality(Standing) > 1 THEN "Tie" ELSE "Win"]
  /\ UNCHANGED <<fighters, turns>>

Next == Enter \/ Start \/ CallOff \/ Turn \/ Decide

Spec == Init /\ [][Next]_battleVars
=============================================================================
