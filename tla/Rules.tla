------------------------------- MODULE Rules -------------------------------
(***************************************************************************)
(* The rules a role carries (role.rs) and what a session is for            *)
(* (message.rs): who is asked what in which phase, and whom each may name. *)
(* The game checks every selection against them from its own state, and a  *)
(* player decides by them from what it knows.                              *)
(***************************************************************************)
EXTENDS Naturals, FiniteSets

CONSTANTS
  Players,   \* the actors dealt into the game
  RoleOf,    \* the deal: the role of each
  Nobody     \* no player: a target not selected, a patient not protected

Roles  == {"Villager", "Werewolf", "Seer", "Doctor"}
Phases == {"Night", "Day"}
Kinds  == {"Nominate", "Devour", "Investigate", "Protect"}

Pack == {p \in Players : RoleOf[p] = "Werewolf"}

\* Game::new and Config::validate: a deal that is not over before it begins.
ASSUME DealAssumption ==
  /\ IsFiniteSet(Players) /\ Nobody \notin Players
  /\ RoleOf \in [Players -> Roles]
  /\ Cardinality(Pack) >= 1
  /\ Cardinality(Players) > 2 * Cardinality(Pack)

\* SessionKind::phase.
PhaseOf(kind) == IF kind = "Nominate" THEN "Day" ELSE "Night"

Nothing == "nothing"

\* Role::asked_in.
AskedIn(role, phase) ==
  IF phase = "Day" THEN "Nominate"
  ELSE CASE role = "Werewolf" -> "Devour"
         [] role = "Seer"     -> "Investigate"
         [] role = "Doctor"   -> "Protect"
         [] OTHER             -> Nothing

\* action_space: any other living player, but for the doctor its patient of
\* last night.
ActionSpace(me, living, kind, lastProtected) ==
  {p \in living : p # me /\ ~(kind = "Protect" /\ p = lastProtected)}

\* Role::faction.
Faction(role) == IF role = "Werewolf" THEN "Werewolves" ELSE "Village"

\* Game::winner: the side that has won while `living` are in the game.
Winner(living) ==
  LET wolves == Cardinality(living \cap Pack)
      others == Cardinality(living \ Pack)
  IN  IF wolves = 0 THEN "Village"
      ELSE IF wolves >= others THEN "Werewolves"
      ELSE "undecided"
=============================================================================
