-------------------------------- MODULE Live --------------------------------
(***************************************************************************)
(* Watching a game as it plays (live.rs): a sink of the log writer's that  *)
(* renders each action as a line.  A reading knows who is living from the  *)
(* moderator's narrations alone, and by that a recipients column says      *)
(* "everybody".  How a line is laid out is left out.                       *)
(***************************************************************************)
EXTENDS FiniteSets

\* Reading::new: nobody is known to be living.
NewView == {}

\* A death is not learned of before the next phase.
LearnPhases(living, message) ==
  IF message.is = "PhaseBegan" THEN message.living ELSE living

\* Reading::learn: who is living, as the records so far say.
Learn(living, message) ==
  CASE message.is = "PhaseBegan" -> message.living
    [] message.is = "Eliminated" -> living \ {message.who}
    [] OTHER -> living

\* Reading::all_the_living: to all of them, but for the player a relay passes on.
AllTheLiving(living, recipients, message) ==
  /\ living # {}
  /\ \/ recipients = living
     \/ message.is = "Relayed" /\ recipients = living \ {message.envelope.from}

\* Narration, rendered: how many live, where a line says so.
LivingTold(message) ==
  IF message.is \in {"PhaseBegan", "Outcome"} THEN {Cardinality(message.living)} ELSE {}

\* Reading::line: an action is folded in before it is rendered, and renders as
\* a line; nothing else does.
Shown(line) == line.type = "action"
Seen(living, line) == IF Shown(line) THEN Learn(living, line.message.payload) ELSE living
SaysEverybody(living, line) ==
  Shown(line) /\ AllTheLiving(Seen(living, line), line.message.recipients, line.message.payload)
=============================================================================
