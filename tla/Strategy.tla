------------------------------ MODULE Strategy ------------------------------
(***************************************************************************)
(* How a player chooses (strategy.rs).  A strategy may choose anything of  *)
(* the action space, or nothing; the random baseline narrows it to         *)
(* candidates of its own and takes any of them.  Which one its seeded      *)
(* generator draws is left open.                                           *)
(***************************************************************************)
EXTENDS Knowledge

CONSTANT Baseline   \* the players that play the random baseline

ASSUME BaselineAssumption == Baseline \subseteq Players

\* excluded: a werewolf's packmates, and whom a seer has seen.
Excluded(k, me, kind) ==
  CASE RoleOf[me] = "Werewolf" /\ kind \in {"Devour", "Nominate"} -> k.pack
    [] RoleOf[me] = "Seer" /\ kind = "Investigate" ->
         {p \in Players : k.investigations[p] # Nothing}
    [] OTHER -> {}

\* candidates: what is left, or, nothing left, the whole space.
Candidates(k, me, kind) ==
  LET space == SpaceKnown(k, me, kind)
      left  == space \ Excluded(k, me, kind)
  IN  IF left = {} THEN space ELSE left

\* choose: what a player may select.  The baseline always selects where it can.
MaySelect(k, me, kind) == IF me \in Baseline THEN Candidates(k, me, kind) ELSE SpaceKnown(k, me, kind)
MayAbstain(k, me, kind) == me \notin Baseline \/ Candidates(k, me, kind) = {}
=============================================================================
