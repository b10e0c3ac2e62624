----------------------------- MODULE Moderator -----------------------------
(***************************************************************************)
(* The moderator (moderator.rs): the environment's handler, as a function  *)
(* from an observation to what it becomes and the effects it yields.  It   *)
(* folds the observation into the game, turns what the game says into      *)
(* effects, reminds itself of the game's next deadline, and, the game      *)
(* over, pays everybody and sets the farewell whose arrival stops them.    *)
(*                                                                         *)
(* An observation is a selection, a `look` at the clocks, or the farewell, *)
(* with the instant it arrived.                                            *)
(***************************************************************************)
EXTENDS Game

CONSTANT FarewellFloor   \* the least the survivors have to hear the outcome

\* A Duration.
ASSUME FloorAssumption == FarewellFloor \in Nat

\* farewell: how long they have, which is no less than a player is given to be
\* scheduled and answer.
Farewell == Max({FarewellFloor, ShortestQuiet})

\* Moderator::new.  `effects` holds what the last call yields, in order.
NewModerator ==
  [game |-> NewGame, reminded |-> {}, farewell |-> FALSE, stopped |-> FALSE, effects |-> << >>]

Yield(m, effect) == [m EXCEPT !.effects = Append(@, effect)]

\* The effects of the moderator's: a message to some players, a control to some
\* players, and others of its own.
Tell(to, message) == [do |-> "tell", to |-> to, message |-> message]
Command(to, control) == [do |-> "command", to |-> to, control |-> control]

\* A relay is the moderator's own message, around the player's.
Relayed(envelope) == [is |-> "Relayed", envelope |-> envelope]

\* send: the effect that carries one directive.
Sent(directive) ==
  CASE directive.say = "narrate" -> Tell(directive.to, directive.narration)
    [] directive.say = "forward" -> Tell(directive.to, Relayed(directive.envelope))
    [] directive.say = "stop"    -> Command({directive.who}, "stop")

\* Look: why the moderator reminded itself, with the instant it is for.
Look(d) == [is |-> "look", deadline |-> d]
Goodbye(d) == [is |-> "farewell", deadline |-> d]

\* reminders: one at the game's next deadline, unless it is set already.
Remind(m) ==
  IF Deadlines(m.game) = {} \/ Min(Deadlines(m.game)) \in m.reminded THEN m
  ELSE LET d == Min(Deadlines(m.game))
       IN  Yield([m EXCEPT !.reminded = @ \cup {d}], [do |-> "remind", look |-> Look(d)])

\* The end of the game with nothing to come back for.
SayGoodbyeForGood(m) ==
  Yield([m EXCEPT !.farewell = TRUE], [do |-> "pay", rewards |-> Rewards(m.game)])

\* The end of the game: everybody paid, and the farewell set, from the instant
\* everything ahead of it has been carried out.
SayGoodbye(m) ==
  Yield(Yield([m EXCEPT !.farewell = TRUE], [do |-> "pay", rewards |-> Rewards(m.game)]),
        [do |-> "farewell", wait |-> Farewell])

\* say: the game's directives, then the reminder or the end.
Say(m) ==
  LET said == [m EXCEPT !.effects = [i \in DOMAIN m.game.says |-> Sent(m.game.says[i])], !.game.says = << >>]
  IN  IF ~Over(said.game) THEN Remind(said)
      ELSE IF said.farewell THEN said
      ELSE SayGoodbye(said)

\* Step::start: every player started, and the game begun at the origin.
Start(m, origin) ==
  LET opened == Say([m EXCEPT !.game = Begin(origin)])
  IN  [opened EXCEPT !.effects = <<Command(Players, "start")>> \o @]

\* The key forgotten is the arrival's, not the deadline's.
FoldByArrival(m, obs, luck) ==
  IF obs.is = "select"
    THEN [m EXCEPT !.game = Expire(Select(@, obs.from, obs.selection, obs.at), obs.at, luck)]
    ELSE [m EXCEPT !.reminded = @ \ {obs.at}, !.game = Expire(@, obs.at, luck)]

\* fold: a selection is counted and then the clocks are looked at; a look is
\* forgotten under the deadline it was set for.
Fold(m, obs, luck) ==
  IF obs.is = "select"
    THEN [m EXCEPT !.game = Expire(Select(@, obs.from, obs.selection, obs.at), obs.at, luck)]
    ELSE [m EXCEPT !.reminded = @ \ {obs.deadline}, !.game = Expire(@, obs.at, luck)]

\* The dead stopped again with the living.
StopEveryone(m) ==
  IF m.stopped THEN [m EXCEPT !.effects = << >>]
  ELSE [m EXCEPT !.stopped = TRUE,
                 !.effects = <<Command(Players, "stop")>>]

\* stop_everybody: the living and the moderator itself, once.
StopEverybody(m) ==
  IF m.stopped THEN [m EXCEPT !.effects = << >>]
  ELSE [m EXCEPT !.stopped = TRUE,
                 !.effects = <<Command(m.game.living, "stop")>>]

\* Whatever comes back from the timer after the outcome ends the episode.
StepOnAnyLook(m, obs, luck) ==
  IF ~Over(m.game) THEN Say(Fold(m, obs, luck))
  ELSE IF obs.is # "select" THEN StopEverybody(m)
  ELSE [m EXCEPT !.effects = << >>]

\* Step::step: once the game is over only the farewell counts.
Step(m, obs, luck) ==
  IF ~Over(m.game) THEN Say(Fold(m, obs, luck))
  ELSE IF obs.is = "farewell" THEN StopEverybody(m)
  ELSE [m EXCEPT !.effects = << >>]

\* The call panics: the selection is one the game cannot vouch for.
StepPanics(m, obs) ==
  ~Over(m.game) /\ obs.is = "select" /\ Panics(m.game, obs.from, obs.selection)

(***************************************************************************)
(* The effects of a call, as the runtime carries them out: in order, one   *)
(* at a time (Handling).                                                   *)
(***************************************************************************)
Commanded(effects, control) ==
  UNION {effects[i].to : i \in {j \in DOMAIN effects :
    effects[j].do = "command" /\ effects[j].control = control}}
Stops(effects, n) == Commanded(SubSeq(effects, 1, n), "stop")
Starts(effects) == Commanded(effects, "start")

\* What the router refuses: a message or a control to an actor stopped before,
\* by this call or by an earlier one.
Refuses(effects, running) ==
  \E i \in DOMAIN effects :
    /\ effects[i].do \in {"tell", "command"}
    /\ \E p \in effects[i].to :
         p \notin (running \cup Starts(effects)) \ Stops(effects, i - 1)

\* The reminders a call sets, at the instant it is carried out.
RemindersSet(effects, now) ==
  {effects[i].look : i \in {j \in DOMAIN effects : effects[j].do = "remind"}}
  \cup {Goodbye(now + effects[i].wait) :
     i \in {j \in DOMAIN effects : effects[j].do = "farewell"}}

Pays(effects) == \E i \in DOMAIN effects : effects[i].do = "pay"
=============================================================================
