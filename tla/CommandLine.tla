---------------------------- MODULE CommandLine ----------------------------
(***************************************************************************)
(* The commands (bin/werewolf.rs), one after another, and the files they   *)
(* leave: a configuration, the logs, and beside each log the effective     *)
(* configuration its game was played from.  `play` writes that first and   *)
(* the log after it, and may end anywhere between - by an error, a panic   *)
(* or the process being killed.  `replay` writes nothing, and is an        *)
(* operator.                                                               *)
(*                                                                         *)
(* A path is a name and how many times ".toml" was appended to it.         *)
(***************************************************************************)
EXTENDS Config, Integers

CONSTANTS
  Paths,        \* where files may be
  Logs,         \* the paths --trajectory may name
  Seeds,        \* the seeds --seed may give
  Names,        \* the ids a configuration may give an actor
  Configured,   \* where the user's own configuration is
  Texts,        \* the configurations it may hold
  MaxCommands   \* bound: how many times play is run

VARIABLES
  disk,      \* what is at each path
  play,      \* the play under way
  commands,  \* how many there have been
  pair       \* history: the log the last play left, and what it was played from

cliVars == <<disk, play, commands, pair>>

\* config::effective_path.
EffectivePath(log) == [log EXCEPT !.toml = @ + 1]

\* What serde makes of a file that is of the schema, and nothing has checked.
Schema ==
  LET night == [quiet : Int, limit : Int]
  IN  [seed : Nat, players : Seq(Names),
       roles : [werewolves : Nat, seers : Nat, doctors : Nat],
       trajectory : Logs \cup {NoPath}, moderator : Names,
       timing : [pack : night, seer : night, doctor : night, day : [limit : Int],
                 dayCap : Nat \cup {Unset}]]

ASSUME TextsAssumption == Texts \subseteq Schema
ASSUME PathsAssumption ==
  /\ Logs \subseteq Paths /\ Configured \in Paths
  /\ \A log \in Logs : log \in [name : {log.name}, toml : Nat] /\ EffectivePath(log) \in Paths
ASSUME SeedsAssumption == Seeds \subseteq Nat \ {0} /\ NoPath \notin Logs

\* What a file holds.  Of a configuration `from` tells the one it is the
\* effective configuration of, if it is one.
Missing == [is |-> "missing"]
Empty == [is |-> "empty"]
Configuration(c, from) == [is |-> "config", config |-> c, from |-> from]
LogOf(c, whole) == [is |-> "log", config |-> c, whole |-> whole]

NoConfig == [none |-> TRUE]
Idle == [stage |-> "idle"]
NoPair == [none |-> TRUE]

InitCommands ==
  /\ \E c \in Texts :
       disk = [p \in Paths |-> IF p = Configured THEN Configuration(c, NoConfig) ELSE Missing]
  /\ play = Idle /\ commands = 0 /\ pair = NoPair

(***************************************************************************)
(* play.                                                                   *)
(***************************************************************************)

\* The overrides applied, where there are any.
Overridden(c, seed, trajectory) ==
  [c EXCEPT !.seed = IF seed = 0 THEN @ ELSE seed,
            !.trajectory = IF trajectory = NoPath THEN @ ELSE trajectory]

\* load: one is validated as it was read and again as it was overridden.
Accepted(path, seed, trajectory) ==
  Loads(disk[path]) /\ Validate(Overridden(disk[path].config, seed, trajectory)) = "none"

\* A play is started from the file at a path, which may be no configuration.
Play(path, seed, trajectory) ==
  /\ play = Idle /\ commands < MaxCommands /\ commands' = commands + 1
  /\ LET read == disk[path]
         c    == Overridden(read.config, seed, trajectory)
     IN  play' =
           IF ~Accepted(path, seed, trajectory) THEN Idle
           ELSE [stage  |-> IF c.trajectory = NoPath THEN "playing" ELSE "loaded",
                 config |-> c,
                 \* the user named the log, here or in a configuration
                 named  |-> trajectory # NoPath \/ read.from = NoConfig,
                 from   |-> IF seed = 0 THEN read.from ELSE NoConfig]
  /\ UNCHANGED <<disk, pair>>

\* write_effective: the file is created, or cleared, and then written.
ClearEffective ==
  /\ play.stage = "loaded"
  /\ disk' = [disk EXCEPT ![EffectivePath(play.config.trajectory)] = Empty]
  /\ play' = [play EXCEPT !.stage = "writing"]
  /\ pair' = NoPair
  /\ UNCHANGED commands
WriteEffective ==
  /\ play.stage = "writing"
  /\ disk' = [disk EXCEPT ![EffectivePath(play.config.trajectory)] =
                Configuration(Effective(play.config), play.config)]
  /\ play' = [play EXCEPT !.stage = "written"]
  /\ UNCHANGED <<commands, pair>>

\* setup::run: the log is created, or cleared.
CreateLog ==
  /\ play.stage = "written"
  /\ disk' = [disk EXCEPT ![play.config.trajectory] = LogOf(play.config, FALSE)]
  /\ play' = [play EXCEPT !.stage = "playing"]
  /\ UNCHANGED <<commands, pair>>

\* setup::play: the game is played to its end, the log complete.  There is no
\* such end where reckoning its limit panics.
Finished ==
  /\ play.stage = "playing" /\ Reckoned(play.config)
  /\ LET log == play.config.trajectory
     IN  IF log = NoPath THEN UNCHANGED <<disk, pair>>
         ELSE /\ disk' = [disk EXCEPT ![log] = LogOf(play.config, TRUE)]
              /\ pair' = [log |-> log, config |-> play.config]
  /\ play' = Idle
  /\ UNCHANGED commands

\* The play ends where it is: a file cannot be written, a clock cannot be
\* reckoned, the episode does not run cleanly, the process is killed.
GivenUp ==
  /\ play # Idle /\ play' = Idle
  /\ UNCHANGED <<disk, commands, pair>>

\* No more commands.
Quit == play = Idle /\ commands = MaxCommands /\ UNCHANGED cliVars

NextCommand ==
  \/ ClearEffective \/ WriteEffective \/ CreateLog \/ Finished \/ GivenUp \/ Quit
  \/ \E path \in Paths, seed \in Seeds \cup {0}, trajectory \in Logs \cup {NoPath} :
       Play(path, seed, trajectory)

SpecCommands == InitCommands /\ [][NextCommand]_cliVars

(***************************************************************************)
(* replay.                                                                 *)
(***************************************************************************)
Failed == [is |-> "error"]

\* Transcript::read: a log without its end, or with no records of the
\* moderator it is read for, is no game.
Reads(file, moderator) ==
  file.is = "log" /\ file.whole /\ file.config.moderator = moderator

\* A --moderator that is given has its way.
ReplayAsTold(log, given) ==
  LET beside    == disk[EffectivePath(log)]
      found     == Loads(beside)
      reader    == IF given # Nobody THEN given
                   ELSE IF found THEN beside.config.moderator ELSE DefaultModerator
  IN  IF (beside # Missing /\ ~found) \/ ~Reads(disk[log], reader) THEN Failed
      ELSE [is |-> "shown", seed |-> IF found THEN <<beside.config.seed>> ELSE << >>,
            moderator |-> reader, game |-> disk[log].config]

\* replay: the configuration beside the log names the seed and the moderator,
\* or, where there is none, the seed is unknown and the moderator is the one
\* given, or the default; one that cannot be read is an error.
Replay(log, given) ==
  LET beside    == disk[EffectivePath(log)]
      found     == Loads(beside)
      reader    == IF found THEN beside.config.moderator
                   ELSE IF given # Nobody THEN given ELSE DefaultModerator
  IN  IF (beside # Missing /\ ~found) \/ ~Reads(disk[log], reader) THEN Failed
      ELSE [is |-> "shown", seed |-> IF found THEN <<beside.config.seed>> ELSE << >>,
            moderator |-> reader, game |-> disk[log].config]
-----------------------------------------------------------------------------
(***************************************************************************)
(* Properties.                                                             *)
(***************************************************************************)
Dealt(Players, RoleOf) == INSTANCE Rules

\* It can be dealt, no deal of it is over before it begins, no two actors
\* share an id and no two generators a stream, every session can be selected
\* in and close on quiet, and the time limit, which the code reckons, leaves a
\* whole game its time.
Playable(c) ==
  /\ Deals(c) # {}
  /\ \A d \in Deals(c) : Dealt(Ids(c), d)!Winner(Ids(c)) = "undecided"
  /\ Seated(c).refused = {} /\ Cardinality(Seated(c).roster) = Len(c.players)
  /\ Cardinality(Range(Streams(c))) = Len(Streams(c))
  /\ \A session \in Range(NightSessions) :
       c.timing[session].quiet \in 1 .. c.timing[session].limit
  /\ c.timing.day.limit > 0 /\ DayCapOf(c) > 0
  /\ Reckoned(c) /\ TimeLimit(c) >= DayCapOf(c) * RoundOf(c)

\* A configuration that reaches a game is one that can be played, whatever its
\* overrides (config.rs, "a bad file never reaches a thread"), but for one
\* thing that nothing checks, although config.rs:252 has no file crash a run by
\* the length of its clocks: they may be too long to be added up, or the limit
\* made of them too long to be waited for.
AcceptedIsPlayable ==
  play # Idle /\ Reckoned(play.config) => Playable(play.config)

\* The log a play left, until another play writes, is replayed as the game it
\* was, under its own seed and by its own moderator whatever --moderator says
\* (werewolf.rs, replay).
PairIsReplayed ==
  pair # NoPair =>
    \A given \in Range(pair.config.players) \cup {Nobody, DefaultModerator, pair.config.moderator} :
      Replay(pair.log, given) = [is |-> "shown", seed |-> <<pair.config.seed>>,
                                 moderator |-> pair.config.moderator, game |-> pair.config]

\* Played again, the effective configuration of a run is the game of the run:
\* the same deal, the same streams, the same clocks to the same day
\* (config.rs, Config::effective); and it is never refused.
ReproductionIsTheGame ==
  /\ play # Idle /\ play.from # NoConfig =>
       /\ Reckoned(play.config) = Reckoned(play.from)
       /\ Reckoned(play.from) => GameOf(play.config) = GameOf(play.from)
  /\ \A p \in Paths : (disk[p].is = "config" /\ disk[p].from # NoConfig) =>
       Validate(disk[p].config) = "none"

\* "Replaying the file cannot truncate the very log it describes"
\* (config.rs:535): nothing is written by a play whose user named no log, in
\* its arguments or in a configuration of its own.
ReproductionSparesTheLog == [][disk' # disk => play.named]_cliVars

(***************************************************************************)
(* What the repository says of the commands, and they do not do.           *)
(***************************************************************************)

\* A run that ends badly "leaves the pair that reproduces it"
\* (bin/werewolf.rs:168): the seed a log is replayed under is its game's.
ReplayTellsTheSeed ==
  play = Idle => \A log \in Logs :
    LET shown == Replay(log, Nobody)
    IN  shown.is = "shown" => shown.seed \in {<< >>, <<shown.game.seed>>}
=============================================================================
