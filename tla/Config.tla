------------------------------- MODULE Config -------------------------------
(***************************************************************************)
(* The configuration of an episode (config.rs): what loading one checks,   *)
(* what is written back beside a log, and what a run takes from it - its   *)
(* deal (assignment.rs), its random streams (seed.rs) and the episode's    *)
(* time limit (setup.rs).                                                  *)
(*                                                                         *)
(* A configuration is a record [seed, players, roles, trajectory,          *)
(* moderator, timing]; a duration is a number.  Text that is not TOML of   *)
(* the schema is refused before any of this.  Which of its possible deals  *)
(* a seed makes is left open: a deal is a function of what DealtBy holds.  *)
(***************************************************************************)
EXTENDS Naturals, Sequences, FiniteSets, FiniteSetsExt, SequencesExt

CONSTANTS
  Reserved,         \* the names of the streams that are no player's
  DefaultModerator, \* the moderator's id where none is set
  NoPath,           \* no log
  Unset,            \* a day cap left to its default
  Nobody,           \* no player
  MaxDuration,      \* bound: the longest duration there is
  MaxInstant,       \* bound: how far ahead of now an instant may be
  Slack, Floor      \* of the time limit

ASSUME DurationsAssumption ==
  /\ MaxDuration \in Nat /\ Slack \in Nat \ {0} /\ Floor \in Nat
  /\ MaxInstant \in Nat /\ MaxInstant < MaxDuration
ASSUME UnsetAssumption == Unset \notin Nat
ASSUME ReservedAssumption == IsFiniteSet(Reserved)

Ids(c) == Range(c.players)

\* RoleCounts::special.
Special(roles) == roles.werewolves + roles.seers + roles.doctors

(***************************************************************************)
(* The clocks.                                                             *)
(***************************************************************************)
NightSessions == <<"pack", "seer", "doctor">>

\* Timing, NightTiming and DayTiming where nothing is set.
DefaultNight == [quiet |-> 1, limit |-> 20]
DefaultTiming == [pack |-> DefaultNight, seer |-> DefaultNight, doctor |-> DefaultNight,
                  day |-> [limit |-> 60], dayCap |-> Unset]

\* Timing::day_cap.
DayCapOf(c) == IF c.timing.dayCap = Unset THEN Len(c.players) ELSE c.timing.dayCap

\* Timing::resolved.
Resolved(c) == [c.timing EXCEPT !.dayCap = DayCapOf(c)]

\* seconds::deserialize: a number below zero, or past the longest, is no duration.
IsDuration(seconds) == seconds \in 0 .. MaxDuration
Durations(timing) ==
  (UNION {{timing[session].quiet, timing[session].limit} : session \in Range(NightSessions)})
  \cup {timing.day.limit}

\* Of checks in the order they are made, the error of the first that fails.
FirstError(checks) ==
  LET failed == {i \in DOMAIN checks : checks[i].fails}
  IN  IF failed = {} THEN "none" ELSE checks[Min(failed)].error

\* Timing::validate, session by session.
TimingChecks(timing) ==
  FlattenSeq([i \in DOMAIN NightSessions |->
    LET clock == timing[NightSessions[i]]
    IN  << [fails |-> clock.limit = 0, error |-> "TimingNotPositive"],
           [fails |-> clock.quiet = 0, error |-> "TimingNotPositive"],
           [fails |-> clock.quiet > clock.limit, error |-> "QuietExceedsLimit"] >>])
  \o << [fails |-> timing.day.limit = 0, error |-> "TimingNotPositive"],
        [fails |-> timing.dayCap = 0, error |-> "DayCapTooSmall"] >>

(***************************************************************************)
(* Validation.                                                             *)
(***************************************************************************)

\* The checks of each player in turn.
PlayerChecks(c) ==
  FlattenSeq([i \in DOMAIN c.players |->
    LET player == c.players[i]
    IN  << [fails |-> player \in Range(SubSeq(c.players, 1, i - 1)), error |-> "DuplicatePlayer"],
           [fails |-> player = c.moderator, error |-> "PlayerIsModerator"],
           [fails |-> player \in Reserved, error |-> "ReservedPlayer"] >>])

\* A pack of half the players let through.
RoleChecksToParity(c) ==
  LET players == Len(c.players)
  IN  << [fails |-> c.roles.werewolves = 0, error |-> "NoWerewolves"],
         [fails |-> players < 2 * c.roles.werewolves, error |-> "WerewolfParity"],
         [fails |-> Special(c.roles) > players, error |-> "TooManyRoles"],
         [fails |-> c.roles.doctors > 1, error |-> "TooManyDoctors"] >>

\* The checks of the roles.
RoleChecks(c) ==
  LET players == Len(c.players)
  IN  << [fails |-> c.roles.werewolves = 0, error |-> "NoWerewolves"],
         [fails |-> players <= 2 * c.roles.werewolves, error |-> "WerewolfParity"],
         [fails |-> Special(c.roles) > players, error |-> "TooManyRoles"],
         [fails |-> c.roles.doctors > 1, error |-> "TooManyDoctors"] >>

\* Config::validate.
Validate(c) == FirstError(RoleChecks(c) \o PlayerChecks(c) \o TimingChecks(c.timing))

\* config::load and parse: what a file holds, if it is a valid configuration.
Loads(file) ==
  /\ file.is = "config"
  /\ \A seconds \in Durations(file.config.timing) : IsDuration(seconds)
  /\ Validate(file.config) = "none"

(***************************************************************************)
(* Writing it back.                                                        *)
(***************************************************************************)

\* The configuration beside a log still names the log.
EffectiveNamingItsLog(c) == [c EXCEPT !.timing = Resolved(c)]

\* The clocks are not written back.
EffectiveUntimed(c) == [c EXCEPT !.trajectory = NoPath, !.timing = DefaultTiming]

\* Config::effective, as it reads back.
Effective(c) == [c EXCEPT !.trajectory = NoPath, !.timing = Resolved(c)]

(***************************************************************************)
(* What a run takes from it.                                               *)
(***************************************************************************)

\* Assignment::deal: the deals there can be, players sorted and so a set.
Deals(c) ==
  LET villagers == Len(c.players) - Special(c.roles)
      held(d, role) == Cardinality({p \in Ids(c) : d[p] = role})
  IN  {d \in [Ids(c) -> {"Werewolf", "Seer", "Doctor", "Villager"}] :
         /\ held(d, "Werewolf") = c.roles.werewolves /\ held(d, "Seer") = c.roles.seers
         /\ held(d, "Doctor") = c.roles.doctors /\ held(d, "Villager") = villagers}
DealtBy(c) == [seed |-> c.seed, players |-> Ids(c), roles |-> c.roles]

\* seed_for: the label of each generator, one for each player and for each of
\* the others.
Streams(c) == c.players \o SetToSeq(Reserved)

\* setup::limit.  A night is added to a day, which panics past the longest
\* duration, and there is a limit only where it does not: what is made of the
\* sum saturates.
RoundOf(c) ==
  Max({c.timing[NightSessions[i]].limit : i \in DOMAIN NightSessions}) + c.timing.day.limit
LimitPanics(c) == RoundOf(c) > MaxDuration
Saturating(d) == Min({d, MaxDuration})
TimeLimit(c) == Max({Saturating(Saturating(RoundOf(c) * DayCapOf(c)) * Slack), Floor})

\* `wait` adds the limit to now, which panics past the last instant there is.
WaitPanics(c) == TimeLimit(c) > MaxInstant

\* The run gets as far as to wait for its game.
Reckoned(c) == ~LimitPanics(c) /\ ~WaitPanics(c)

\* Episode::new, within a time limit.
NewEpisode(environment, limit) ==
  [environment |-> environment, limit |-> limit, roster |-> {}, refused |-> {}]

\* Episode::add: an id that is taken is a DuplicateAgent.
Add(e, id) ==
  IF id = e.environment \/ id \in e.roster THEN [e EXCEPT !.refused = @ \cup {id}]
  ELSE [e EXCEPT !.roster = @ \cup {id}]

\* setup::moderate and seat: an episode of the moderator's, and those dealt a
\* role added to it.  An id refused panics.
Seated(c) == FoldLeft(Add, NewEpisode(c.moderator, TimeLimit(c)), SetToSeq(Ids(c)))

\* setup::episode, of a configuration that has a limit: the game that is
\* played, and all that it is played by.
GameOf(c) == [deal |-> DealtBy(c), timing |-> Resolved(c), episode |-> Seated(c)]
=============================================================================
