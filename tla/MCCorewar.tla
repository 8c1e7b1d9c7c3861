----------------------------- MODULE MCCorewar ------------------------------
(***************************************************************************)
(* Three rounds of some of MCCore's line-ups: duels and a trio that end    *)
(* differently in different places, a warrior that leaves something behind *)
(* in its core, and line-ups that cannot be loaded.                        *)
(***************************************************************************)
EXTENDS MCCore, Corewar

\* Survives in a core where an earlier run of it has left its mark.
Marker == W(<<I("Jmn", "B", D(0), D(2)), I("Mov", "AB", F("Immediate", 1), D(1))>>, 0)

\* Jumps to where its opponent may have been placed, or into nothing.
Seeker == W(<<I("Jmp", "B", D(7), D(0))>>, 0)

LineUps ==
  { <<v>> : v \in {Marker, Imp, Doomed, Pspace} }
  \cup { <<Seeker, Sitter>>, <<Imp, Doomed>>, <<Bomber, Doomed>>, <<Spreader, Sitter>>,
         <<Stone, Imp>>, <<Seeker, Doomed, Imp>>, <<Imp, Pspace>> }

MCTournaments ==
  [config : {Setup(11, 2, 1)}, warriors : LineUps]
  \cup [config : {Setup(11, 2, 9), Setup(11, 6, 0), Setup(11, 1, 1)},
        warriors : {<< >>, <<Imp, Imp>>, <<Seeker, Stone>>}]
=============================================================================
