---------------------------- MODULE GameContract ----------------------------
(***************************************************************************)
(* What the players of a game are promised (game.rs, "A phase is made of   *)
(* sessions" and "Termination"), with nothing of sessions, selections and  *)
(* clocks: nights and days in turn, in each of which one player dies or    *)
(* nobody, until a side has won or the days have run out; then everybody   *)
(* is paid, and the survivors are let go.                                  *)
(***************************************************************************)
EXTENDS Naturals

CONSTANTS
  Players,
  Winner(_),   \* the side that has won while these live
  DayCap       \* the day after which nobody having won is a stalemate

VARIABLES
  round, phase,   \* the phase in progress
  living,
  winner,         \* who has won: nobody, if the days have run out
  running,        \* the players started and not stopped
  paid            \* the rewards are in the log

vars == <<round, phase, living, winner, running, paid>>

Init ==
  /\ round = 1 /\ phase = "Night" /\ living = Players
  /\ winner = "undecided" /\ running = {} /\ paid = FALSE

\* Everybody is started in the first night.
Begin ==
  /\ running = {} /\ winner = "undecided" /\ running' = Players
  /\ UNCHANGED <<round, phase, living, winner, paid>>

\* What follows a phase that leaves `living'`: the end, for the side that has
\* won or, after the last day, for nobody; or the next phase.
Ends(who) == winner' = who /\ paid' = TRUE /\ UNCHANGED <<round, phase>>
Won == Winner(living') # "undecided" /\ Ends(Winner(living'))
Stalemate ==
  Winner(living') = "undecided" /\ phase = "Day" /\ round = DayCap /\ Ends("nobody")
Dawn ==
  /\ Winner(living') = "undecided" /\ phase = "Night" /\ phase' = "Day"
  /\ UNCHANGED <<round, winner, paid>>
Dusk ==
  /\ Winner(living') = "undecided" /\ phase = "Day" /\ round < DayCap
  /\ phase' = "Night" /\ round' = round + 1
  /\ UNCHANGED <<winner, paid>>

\* A phase is over, with at most one dead, who runs no more.
PhaseEnds(dead) ==
  /\ running = living /\ winner = "undecided"
  /\ living' = living \ dead /\ running' = living \ dead
  /\ Won \/ Stalemate \/ Dawn \/ Dusk

\* The survivors are let go.
Close ==
  /\ winner # "undecided" /\ running' = {}
  /\ UNCHANGED <<round, phase, living, winner, paid>>

Next ==
  \/ Begin \/ Close \/ PhaseEnds({})
  \/ \E p \in living : PhaseEnds({p})

Spec == Init /\ [][Next]_vars
=============================================================================
