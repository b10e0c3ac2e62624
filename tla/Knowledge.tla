----------------------------- MODULE Knowledge -----------------------------
(***************************************************************************)
(* What a player knows (knowledge.rs): the fold of what it has observed,   *)
(* and of what it has selected itself.  The phases gone by, which no       *)
(* strategy there is looks at, and the clock are left out.                 *)
(***************************************************************************)
EXTENDS Game

\* Nobody's selection seen, nobody dead, nobody investigated.
Unseen == [p \in Players |-> Nobody]
Alive == [round |-> 0, cause |-> Nothing, role |-> Nothing]

\* Knowledge::new.
NewKnowledge ==
  [round |-> 0, phase |-> "Night", living |-> {}, pack |-> {}, lastProtected |-> Nobody,
   selections |-> Unseen, dead |-> [p \in Players |-> Alive],
   investigations |-> [p \in Players |-> Nothing], over |-> FALSE]

\* acted: the player's own selection, and a doctor's patient by name.
Acted(k, me, kind, target) ==
  [k EXCEPT !.selections[me] = target,
            !.lastProtected = IF kind = "Protect" THEN target ELSE @]

\* Somebody has died.
Buried(k, message) ==
  [k EXCEPT !.living = @ \ {message.who}, !.pack = @ \ {message.who},
            !.dead[message.who] = [round |-> message.round, cause |-> message.cause,
                                   role |-> message.role]]

\* The votes of the phase that is over are kept for the next.
ObservedCarryingOver(k, message) ==
  CASE message.is = "Assigned"   -> [k EXCEPT !.pack = message.pack]
    [] message.is = "PhaseBegan" -> [k EXCEPT !.round = message.round, !.phase = message.phase,
                                              !.living = message.living]
    [] message.is = "Eliminated" -> Buried(k, message)
    [] message.is = "Investigated" -> [k EXCEPT !.investigations[message.target] = message.faction]
    [] message.is = "Relayed"    -> [k EXCEPT !.selections[message.envelope.from] = message.envelope.target]
    [] message.is = "Outcome"    -> [k EXCEPT !.over = TRUE]
    [] OTHER -> k

\* observe and narrated: each message folded in.  A phase beginning clears the
\* selections of the one before.
Observed(k, message) ==
  CASE message.is = "Assigned"   -> [k EXCEPT !.pack = message.pack]
    [] message.is = "PhaseBegan" -> [k EXCEPT !.round = message.round, !.phase = message.phase,
                                              !.living = message.living, !.selections = Unseen]
    [] message.is = "Eliminated" -> Buried(k, message)
    [] message.is = "Investigated" -> [k EXCEPT !.investigations[message.target] = message.faction]
    [] message.is = "Relayed"    -> [k EXCEPT !.selections[message.envelope.from] = message.envelope.target]
    [] message.is = "Outcome"    -> [k EXCEPT !.over = TRUE]
    [] OTHER -> k

\* Role::action_space, from what the player knows.
SpaceKnown(k, me, kind) == ActionSpace(me, k.living, kind, k.lastProtected)

\* Player::audience: the living others who should see a selection.
Audience(k, me, kind) ==
  CASE kind = "Devour"   -> (k.pack \cap k.living) \ {me}
    [] kind = "Nominate" -> k.living \ {me}
    [] OTHER             -> {}
=============================================================================
