# Social Deception, in TLA+

A specification of the actor runtime in `social-deception/src` and of the game
of Werewolf played on it: what their threads, channels, clocks, rules and files
do, checked by TLC on small instances and, for the timer, the log writer, the
episode, the game under its moderator and at the table, and the command line,
proved by TLAPS.

File and line references are to `social-deception/src/`.

## The system

An **episode** (`episode.rs`) runs a roster of **actors** and one
**environment**. Each actor is two threads (`thread.rs`): *perception* takes
messages off an inbox, controls off a control channel and reminders off a
requests channel, and hands one message at a time to the *handler* over a
rendezvous; the handler runs one call at a time and carries out what the call
yields. Messages go from actor to actor through the **router** (`router.rs`),
reminders back to the actor's own perception and its **timer** (`timer.rs`);
only an environment yields controls (start, stop) and rewards. Everything is
recorded in a log, which a **writer** thread (`log.rs`) hands to sinks.

**Werewolf** (`werewolf/`) is a domain on this runtime. Its environment is the
**moderator**, which folds selections and the passing of time into a **game**,
a pure state machine, and says what the game says; the agents are **players**,
each of which folds what it observes into its **knowledge** and lets a strategy
choose from the action space its **role** gives it.

The command line (`bin/werewolf.rs`) loads a **configuration**
(`werewolf/config.rs`), from which `setup.rs` deals the roles, seats the players
and sets the episode's time limit; it writes the log, and beside it the effective
configuration the game can be played from again. A log is read by two readers: a
**transcript** (`werewolf/transcript.rs`), which folds a finished file into the
game it records, and the **live view** (`werewolf/live.rs`), a sink that follows
the file as it grows.

| Part | State | Operations | Talks to | What is hard | What makes it correct |
|---|---|---|---|---|---|
| timer | reminders by deadline, the armed channel | `hold`, `due`, `drain` | its perception thread | boundaries, re-arming, order | each reminder once, in order, never early, never forgotten |
| perception | message in hand, reminders held | `sense`, `run`, `stop`, `abandon`, `deafened` | inbox, controls, requests, calls | a select between ready channels; a stop against everything else | stop preempts; every message observed or undelivered |
| handler | next number, item in hand | `called`, `act`, `command`, `pay` | router, requests, log | a stop in the middle of a call, any send failing | every number in the log; nothing after a stop |
| router | seats | `route`, `command` | every actor | partial delivery | all or nothing for unknown ids, in order |
| episode | the roster, a time limit | `run`, `wait`, `stop_everybody`, `join` | every actor, completion channel | races of stop, report, failure and limit | always returns, with the answer the threads earned |
| log writer | channel, live sinks | `spawn`, `deliver`, `join` | every actor, the sinks | a sink failing at any record or at finish | complete or failed; an optional sink costs only itself |
| game | living, round, phase, sessions, last protected | `begin`, `select`, `expire` | the moderator | late selections, ties, several clocks closing at once | ends, with who won; deaths as selected |
| moderator | game, deadlines reminded of, farewell, stopped | `start`, `step` | router, timer | a reminder forgotten or doubled, stale reminders after the end | always one wake-up away from moving on; paid, told, stopped, in order |
| player | knowledge | `start`, `policy` | the moderator | acts on mail it has not finished | what it knows is the game as far as told |
| configuration, assignment, seeds | none that outlives a call | load, validate, `effective`, deal, split the seed, `limit` | command line, setup | boundaries of what is accepted | what is accepted can be played; what is written back plays the same game |
| strategy | a generator | `choose` | its player | a choice made on knowledge that has gone stale | stays in the action space |
| transcript | the phase in progress, verdicts, the numbers read | `fold`, `read`, `verdicts`, display | the log | lines in an order no one thread gives them, a file cut short anywhere | what is read is what was played; a whole log is read |
| live view | the living, as told | `shown` | the log writer | its lines arrive as the transcript's do | "everybody" is everybody |
| command line | the files | `play`, `replay` | configuration, setup, transcript | a play that ends between two writes, over the files of an earlier one | a log is replayed as the game it was |
| testing support | | | | | not modelled |

## Modules

The runtime, from the bottom up:

* **`ReminderQueue`, `Reminders`** (`timer.rs`): the table of reminders and the
  channel armed for the earliest, driven as `Perception` drives them while the
  clock runs. `IsHeld` switches to the timer tests use, which fires when told.
  **`RemindersProofs`** proves its safety properties.
* **`ActorState`** declares what the threads of an episode share.
  **`Perception`** (`Perception::run`, `sense`, `stop`, `abandon`, `deafened`)
  and **`Handling`** (`act`, `command`, `pay`, `called`, and the router's
  `route` and `command`) have one action per step of a thread that another can
  see. **`EpisodeRun`** adds the thread that called `Episode::run` and composes
  the whole into `Spec`. A thread is joined as the code joins it (`Joined`,
  `WriterJoined`): an actor whose handler panicked is not waited for any longer,
  and its perception thread only as long as the log writer lives. What handlers decide is application code: each has a
  *script*, the items its calls will yield.
* **`EpisodeContract`** says what a caller of `run` and an observer of the log
  are promised with no threads or channels at all: actors stopped once or
  failed, messages entrusted and then observed or undelivered for good, one
  answer, after which nothing changes but that an actor that failed may yet be
  stopped (`Straggle`). **`EpisodeProperties`** has the properties, and the
  refinement mapping under which `EpisodeRun` implements the contract.
  **`EpisodeProofs`** proves them: types, stops and the answer, then where every
  number and message is and in what order, then the refinement, each on top of
  the one before.
* **`LogWriter`** (`Writer`, `deliver`, `Policy`): the writer against actors
  that send, fail and go, and sinks that fail at any record.
  **`LogWriterProofs`** proves its safety properties. `EpisodeRun` sees
  of it only that it may be lost at any time (`LoseWriter`).

The game:

* **`Rules`** (`role.rs`, `message.rs`): roles, phases, kinds of session, the
  action space, the win condition.
* **`Game`** (`game.rs`) and **`Moderator`** (`moderator.rs`) are functions: the
  source's are pure, from a state and an observation to a state and what is to
  be done, and so are these. A game is a record; a call collects its directives
  in `says`, as a moderator's collects its effects in `effects`.
* **`ModeratedGame`**: the moderator with its timer, against players who may
  select anything the rules permit at any instant, any number of times, or lose
  a race with the clock. **`GameContract`** is the game with none of that: nights
  and days in turn, at most one death in each, the win looked at after each, the
  rewards and the end; `ModeratedGame` has the refinement mapping under which it
  implements it (`KeepsToTheRules`). **`GameProofs`** has the facts about the functions of
  `Game` and `Moderator`, and **`ModeratedGameProofs`** from them the safety
  properties of the moderated game and the refinement.
* **`Knowledge`** (`knowledge.rs`) and **`Table`**: the moderator against real
  players with inboxes, who read their mail and make up their minds when they
  please, and select by what they know. **`Strategy`** (`strategy.rs`) is what a
  strategy may choose of an action space, and what the random baseline narrows
  that to. **`TableProofs`** proves the table's safety properties, from the same
  facts.

The files:

* **`RecordedGame`**: `ModeratedGame` and the log it leaves, a line at a time.
  The handler thread writes the actions of a call, the perception thread the
  observation that call answers, in any order of the two; a stop leaves the
  reminders that were held undelivered. Every state is a file that may be all
  there is. Beside it a history of what was played is kept, to compare with.
* **`Transcript`** (`transcript.rs`) and **`Live`** (`live.rs`): the two readers,
  as folds of lines. `RecordedGame` instantiates both. What is proved of it, that it
  is the moderated game and what a watcher makes of its lines, is in
  `ModeratedGameProofs`.
* **`Config`** (`config.rs`, `assignment.rs`, `seed.rs`, and of `setup.rs` and
  `episode.rs` the limit and the seating): the checks in their order, the effective
  configuration, what a game is a function of.
* **`CommandLine`** (`bin/werewolf.rs`): `play`, one after another, each of which
  may end after any of its writes, and `replay`, which writes nothing.
  **`CommandLineProofs`** proves its properties.
* **`Folding`** is no part of the program: what `FoldLeft` and `FlattenSeq` do, for
  any operator and any sequence. A module of proofs instantiates it with the
  operator its folds are of.

The `MC*` modules give instances for TLC.

`Reminders` is not instantiated in `Perception`: an actor's timer is taken
there as one that may fire at any time, which every behaviour of `Reminders`
is an instance of. In the same way `ModeratedGame` and `Table` take the runtime
for what `EpisodeRun` shows of it: messages of one sender arrive in order, a
message or control to an actor stopped before is refused and fails the sender,
a stopped player observes at most the message it had in hand.

## What is abstracted

* A message is its sender and number; what it says matters only in the game.
  Records are kept per kind and actor. Appending to the log is part of the step
  it belongs to, except the observation record, which the handler overtakes.
  The records one abandonment writes are taken by the writer together or not
  at all. Dropping the calls channel, draining what is left and raising the
  stopped flag are one step where no other thread can tell.
* Scripts are finite: a call beyond the script yields nothing. `wait` reading
  its reports one by one is one step per answer it can come to. That it panics
  over a limit past the last instant is not in `EpisodeRun`: its limit is one a
  clock can reach (`Config` has which are not, `WaitPanics`).
* The game's sessions and its closed-but-unresolved ones are one table with a
  stage. A tie falls to any of the tied, where the code draws from a seeded
  generator. A strategy chooses anything in the action space, or nothing.
* The moderator folds an observation, and what comes of it is carried out, at
  the instant it arrives; the code stamps the arrival in one thread and folds
  it in the other, and everything it computes from time it computes from the
  stamp, but for the farewell's deadline.
* A player's history of the phases gone by is left out: nothing it sends
  depends on it.
* A log has the moderator's lines and the rewards. Other players' records are
  lines no reader has a use for: only that of a selection is there; controls and cycles
  are skipped by both readers. A player's message has the number 0, which nobody
  reads; an envelope's own number is left out. The rewards of a game are written
  together. A reader of a file is the fold of its lines so far, so that
  every prefix of every log is read.
* A configuration is a record: TOML that is not of the schema is refused before
  anything here. Durations are whole numbers up to `MaxDuration`, and the clock
  goes up to `MaxInstant`: a sum of clocks past the one, or a limit past the other,
  panics (`LimitPanics`, `WaitPanics`), and the play is given up. Which deal
  a seed makes of those there can be, and what a stream yields, is left open: a
  game is the same if what it is a function of is.
* A path is a name and the number of times `.toml` was appended to it. A write
  that fails leaves the file empty, as the clearing of it did. That a seed is too
  large for TOML to hold is one of the ways a write may fail.

## Runs

| Run | Instance | Properties | States |
|---|---|---|---|
| `reminders` | reminders at a few instants, clock running, either order | types, `FiresOnce`, `ArmedForEarliest`, `ComesInItsTurn` (`NeverEarly`, `OvertakenOnlyByNearer`), and `EveryReminderComesBack` | 10 thousand |
| `talk` | two agents who write to each other and remind themselves, an environment that starts, pays and stops | `EveryObservationWasSent`, `ObservedInSendingOrder`, `StopPreempts`, `NothingFollowsAStop` | 0.8 million |
| `fails` | one agent, an environment, handlers that fail, name strangers, outlive their actor; a time limit; the writer may go | types, `EveryMessageInOnePlace`, `EveryNumberAccountedFor`, `AnswerMatchesTheThreads`, `FollowsContract`, `RunReturns` | 0.6 million |
| `log_writer` | two actors of up to three records, three sinks, two required | types, `CompleteIfDone`, `NoGaps`, `OptionalCostsNothing`, `WriterEnds` | 30 thousand |
| `moderated_game` | werewolf, doctor, seer and villager; two days; a reminder may be one late | `UndecidedUntilWon`, `ClockIsWatched`, `OnlyTheLivingRun`, `FarewellIsGiven`, `OnSchedule`, `KeepsToTheRules`, `GameEnds` | 0.1 million |
| `recorded` | a pack of two among five, one day, three selections; every prefix of the log | `WhatIsReadWasPlayed`, `WholeLogIsRead`, `ShownAsPlayed`, `EverybodyIsTheLiving`, `DeathsAreCalledFor` | 0.7 million |
| `table` | six players with a pack of two; the pack, or a werewolf and the seer, awake; one day | `KnowsTheGame`, `SeesWhatCounts`, `NobodyGoneIsAddressed`, `TableClears` | 1.9 million |
| `command_line` | configurations good and bad, up to three plays, two logs | `AcceptedIsPlayable`, `PairIsReplayed`, `ReproductionIsTheGame`, `ReproductionSparesTheLog` | 0.1 million |

Each property is stated, with the code it is about, where it is defined; each
has a mutant of the code in `PROJECT.json` that breaks it.

Bounds, and why they are enough:

* *Two agents and an environment* are the fewest with a sender that is neither
  the recipient nor the environment, so that messages cross. *Scripts of one
  call with two items* let a stop fall between two items, between two calls and
  after the last; the failing scripts cover each way an item can fail
  (`send` to a stranger or a stopped actor, a command likewise, a reward to
  nobody, a panic).
* *Three records, three sinks*: failures before, at and after one another, of
  both policies; the header, a record in the middle and the finish.
* `DayCap` bounds the rounds: with two days a session of each kind is opened
  again after one that a selection may still be on its way from. *Limits of one
  or two and a quiet period of one* make every order of quiet period, limit and
  late reminder happen. `MaxLate` is how late a reminder may be folded.
* `MaxHeard`: three selections are the fewest for a majority of five, with its
  hammer, in a day; or for a pack that disagrees and another role's choice in a
  night. The clocks keep time (`MaxLate = 0`): lateness is `moderated_game`'s.
* `MaxCommands`: a play, another over the files it left, and one that plays what
  the second left. There are two logs: one that the configuration may name, and
  one whose effective configuration is where the user's own is.
  The configurations take every value next to a boundary of `validate`, and some
  of them have clocks that `validate` passes and that `MaxDuration` or `MaxInstant`
  does not hold.
* `Lively` and `Unread` bound a table: those who dawdle never read, and a player
  too far behind catches up no more, which loses no behaviour of the moderator's
  but the later selections of those players. `Baseline` names who of them chooses
  by the random baseline. Two who read are the fewest for a
  relay to be seen; at the table of six a night's death does not end the game.
  With one day and a doctor asleep, nobody makes the moderator panic at that table:
  `TableClears` allows for it (`doctor`), and how a game of more days ends is
  `moderated_game`'s question, where selections are those the game permits.

### What the repository says and a run does not do

Four runs each show one property violated that a comment of the repository states:

* `lost`: `tests/support/actor.rs:460` has every message observed or undelivered, with no
  third answer, and `thread.rs:823` has a reminder accounted for whichever side of the
  handoff the stop found it on. A stop drains the requests and the inbox, and they
  are dropped when the perception thread returns (`thread.rs:820`). What is handed back
  or routed between the two is in no record, and the answer is `Ok`.
* `lost_writer`: `episode.rs:387` has a required sink's error surface as the
  actors' `WriterClosed`. If no actor sends after it - the flush at `finish`
  comes after every sender has gone - the writer's own result is the only trace,
  and `episode.rs:456` drops it.
* `doctor`: `role.rs:36` has player and game agree on what the rules permit. Whom
  a doctor protected last night is remembered by the doctor when it sends and by
  the game when it counts (and then for ever). A selection that is late parts the
  two, and the next night but one the doctor may name whom the game forbids:
  `select` panics in the moderator's thread, which ends the game.
* `torn_pair`: `bin/werewolf.rs:168` has even a run that ends badly leave the pair
  that reproduces it. `play` writes the effective configuration before it clears
  the log. Between the two, over the files of an earlier play, the pair is that
  earlier game's log with this one's configuration, and `replay` names the wrong
  seed.

Noticed and not run:

* `thread.rs:654` has a start go ahead of any message in hand, since the start hook
  runs before the first observation. `sense` hands over a message in hand to an actor no
  start has reached yet.
* `episode.rs:42` and `episode.rs:382` have `run` answer `Departed` when an actor ends
  unbidden, and an arm of a test (`episode.rs:970`) takes that answer. `wait` does come
  to it, but a thread that ends unbidden has failed, and `run` reports failures first (`episode.rs:461`): the answer is `Agents`, as the comment at
  `episode.rs:983` has it, and `AnswerMatchesTheThreads`.
* `episode.rs:383` has every actor joined before `run` returns. `Actor::join` passes a
  handler's panic on before it joins perception (`thread.rs:346`); then only the writer
  waits for that thread, and not if it has been lost.
* `config.rs:252` has a value too large to use refused rather than crash a run. Each is,
  but not their sums: `night + timing.day.limit` (`setup.rs:177`) panics, as may
  `Instant::now() + limit` (`episode.rs:512`).
* `game.rs:60` has nobody lynched once the hard limit passes first. `fold` counts a
  selection before it looks at the clock, and `select` does not ask.
* `stop_everybody` (`episode.rs:489`) stops at the first closed seat, though its
  comment speaks of ignoring.
* `deliver` (`log.rs:775`) reports the last required sink's error where `join`
  promises the first.
* The documentation of narrations has eliminations and outcomes told to the dead,
  and the code tells the living.
* `transcript.rs:46` has the moves of a phase be those made in it. A selection that
  arrives in the next phase is filed there (`answered`), and one that resolves a
  phase may be logged after the next has begun (`thread.rs:669`). The verdicts
  and the hammer do not depend on it.
* `effective_path` "can never collide": it does when `play game.toml` is told
  `--trajectory game`, and overwrites the user's file.
* `RoleCounts::seers` is "zero or one" (`config.rs:79`), and `validate` lets any
  number through.
* `log.rs:100` has a cycle record follow every record of its cycle, since an
  agent is one thread. It is two.
* A log cut off after its outcome and before its rewards is read as a whole game.

## Fairness

* `Reminders`: the clock and the thread run.
* `EpisodeRun`: weak fairness of each thread - the operating system runs what
  can run, and a handler's call returns (`RunReturns` is not claimed of a handler
  that loops) - and of the time limit, a real clock. A select that could take
  any of several ready arms is fair to none of them: that a stop gets through is
  due to the poll ahead of it.
* `LogWriter`: the writer runs, and actors end, as `RunReturns` shows they do.
* `ModeratedGame`, `Table`: the moderator starts, time passes, and a due reminder
  comes back; nothing is assumed of players. Weak fairness of the latter is
  written out as `[]<>~Due \/ []<><<Returns>>_vars`: it means the same, and
  TLC need not evaluate a whole call of the moderator to know whether it is
  enabled.

## Proofs

`RemindersProofs` proves, for every set of deadlines, any number of reminders
and both timers, from `DeadlinesAssumption` and its companions in `Reminders`:

* `TypesHold`, `TheChannelIsArmed`: typing and arming are one invariant, `Armed`.
  The channel armed has a type only because a nonempty set of deadlines has a
  least element, which is the well-foundedness of the naturals.
* `EachFiresOnce`: `Once` adds to `FiresOnce` that nothing is dropped before the
  drain: the drain replaces what was dropped before it, and would lose it.
* `RemindersComeInTurn`: `InOrder` adds to the two halves of `ComesInItsTurn` that
  the queue of each deadline is in the order it was set (`QueuesInOrder`) and that
  what is *held* cannot overtake what has *fired* (`HeldCannotOvertake`): nothing
  held is both older than a fired reminder and as near. Without these the order of
  what has fired is no invariant.

`LogWriterProofs` proves, for any actors, any sinks of either policy and any
number of records, from `SinksAssumption`:

* `SinksHaveNoGaps`, `OptionalSinksCostNothing`, `TheRecordIsComplete` and the
  types (`WriterTypes`), all from one invariant, `Inv`. It adds `Standing` - the
  writer has failed just when a required sink has, no send has failed before
  that, and a writer that is done has no sender and nothing left to take - and
  `Kept`: while the writer has not failed, a record sent is in the channel or
  handed out. A writer that is done has an empty channel, so everything was handed
  out, and by `NoGaps` a live sink has all of that: `CompleteIfDone`.

### The episode

For any roster, any scripts of any length, any deadlines, whether or not there is
a limit and the log writer may be lost, from the assumptions in `ActorState`
(actors are seated once and none is the stranger, only an environment's
handler yields effects). Each invariant rests on those before it:

* `Typed` (`EpisodeTypes`): `TypeOK`, and what is in hand where a thread is in the
  middle of something - a numbered message while it is routed (`Carrying`), a
  message handed over until it is recorded (`HandingOver`). Without these the next
  step takes the head of an empty sequence.
* `Preempted` (`StopAlwaysPreempts`): once a message has been handed over with a
  stop waiting, the perception thread is not at its `select!`, and on its way to
  the poll ahead of it the stop still waits. This is what makes the count of such
  messages stay at one.
* `Halting` (`NothingEverFollowsAStop`): where the perception thread is after a
  stop and why either thread ended. An actor whose channel has hung up was stopped
  or has failed, and a handler ends only after that or by failing.
* `Answering` (`AnswerFits`): a report that is not of a stopped actor is of a
  failed one; the answer is given once every actor and the writer have been joined, and is
  the verdict unless somebody failed. A thread still running then is of an actor
  whose handler panicked, and has no writer to log anything to.
* `Numbered`: the numbers a handler gave out are split
  between action records, sends that failed, reminders and the item in hand,
  apart from each other; a message being routed is owed nowhere it is still to go.
* `Placed` (`MessagesAreInOnePlace`, `ObservationsWereSent`): what is owed to an
  actor is split between its six places, and no place holds a number twice - the
  held reminders not even under two deadlines.
* `Drained`: what a stop leaves of an actor that has not failed. Nothing is in hand,
  held, or in the inbox from itself, and in its requests there is at most one reminder,
  handed back too late, after which its handler yields no other. With `Numbered` and
  `Placed` it is `NumbersAreAccountedFor`: of an actor that stops without failing every
  number is in the log but for that one. The property names the exception
  (`Overtaken`) because the code has it: `lost` is the run about it.
* `Ordered` (`ObservationsAreInOrder`): of one sender, what is observed comes before
  what is in hand, and that before what is queued; each part rises. It is the
  queues between that make the order of what is observed inductive.

`ThreadsKeepTheContract` is the whole refinement, `Spec => Contract!Spec`: the
contract states no fairness, so nothing of it is left to TLC. A step maps to the
contract's, or to a stutter, only in a state with these invariants: that an
observed message was open is `Placed`, that an actor stops once is `Halting`,
that after the answer there are none but stragglers, of actors that failed and with nothing
to say, is `Answering` (`StragglersFailed`, `StragglersGiveUp`).

### The game under its moderator

For any number of players and any deal that is not over before it begins
(`DealAssumption`), any clocks that `Timing::validate` accepts
(`TimingAssumption`), any least farewell (`FloorAssumption`) and any lateness of
the reminders (`LateAssumption`).

`GameProofs` is about functions, not steps. A phase that ends leaves a game
`Between` phases, with no session; in a call it is `Midway`; a call leaves it
`InPlay`: undecided, with a session open, all sessions of this phase, only the
living seated and selected, and no majority unlynched - or over, with the
winner the living make. `SelectPlays` and `ExpirePlays` say so of the two ways a
game is called, along with what became of its phase (it stays, or it is
`PhaseOver` with some dead), whom the selections called for (`Called`), and that
it goes on `Telling` only those who are left. The latter holds of lists of
directives in sequence (`TellMore`), so that a directive after a death is shown
not to name the dead. That a majority is found as soon as there is one rests on
a selection adding one vote to one target (`MajorityByOne`).

`ModeratedGameProofs` has the effects a call yields carry those directives, in
order and to nobody gone (`CarriedOut`), and the invariant, `IInv`
(`GameInvariant`). It is the properties themselves - `ClockIsWatched`,
`OnlyTheLivingRun`, `FarewellIsGiven`, `OnSchedule`, `DeathsAreCalledFor` - and

* `Typed`, `Played`: types, and that the game is `InPlay` once begun.
  `UndecidedUntilWon` follows from this alone.
* `FarewellIsSet`: the moderator has asked for its farewell, and paid, just when
  the game is over; a farewell on the timer is due when the survivors have had their time,
  and until the game is over nothing but looks is there. `FarewellIsGiven` says
  nothing of the timer and is not inductive without it.
* `Timely`: the limit of a session that is open leaves the rounds to come their
  time. With `ClockIsWatched`, which keeps the clock within `MaxLate` of some
  session's limit, it makes `OnSchedule` inductive: the clock alone does not say
  how much of a phase may be left.

A call while the game goes on, whether a selection or a look came in, is one lemma
(`GoesOn`); the start and the calls after the end are the others. The earliest
deadline exists since a nonempty set of naturals has a least element.

`GameKeepsToTheRules` is the whole refinement, `Spec => Contract!Spec`, again with no
fairness in the contract. A call while the game goes on stays in its phase, a
stutter, or is one `PhaseEnds`. That one call kills one player at most, however many
sessions it closes, is read off what the call says (`Script`, which the watcher of
the log needs too); that who runs and who is paid change in the same step as who
lives is `OnlyTheLivingRun` and `FarewellIsSet`; that the stalemate falls on the last
day, and on a day, is `InPlay`. Calls after the end change nothing, or are `Close`.

### The game and its log

A game that leaves a log is a moderated game (`RecordedGameIsModerated`), so that
`IInv` holds of it. `LinesNameTheLiving` is about every file the log may be cut off
to. The invariant, `WatchInv`, says that a watcher who reads on, through all that is
yet to be written of the call, ends up knowing who lives. The watcher in this fold is
one that loses its mind at the first line it misreads, and does not get it back
(`OnceWrong`): that the fold comes out right says that no line before its end is
misread.

That a call keeps it takes the order in which a call has things to say, which is what
`Script` is: asides - relays and findings, none of them for all the living - and
then, if the phase is over, the death or that there was none, and what is next.
`SelectionSays`, `ExpireSays` and `BeginSays` (`GameProofs`) say that calls keep to it.
A relay for all the others who live is rightly for "everybody" since those who live
when it is read are those who lived when it was passed on, the death coming later in
the same call. That at least three live while nobody has won (`ThreeLive`) keeps a
message to one player from being one to all.

### The game at the table

For any deal and timing as above, any players that read and any that choose by the
baseline (`BoundsAssumption`, `BaselineAssumption`), and however late each of them
is with its mail. What a player makes of its mail is a fold. The induction over the
messages is made once, in `Folding`, of sets of indices and for an operator that is
a constant of the module; a fact about two folds, or about a fold and a set it stays
in (`FoldKeeps`, `FoldsKeep`), is then an instance of it.

The invariant, `TInv` (`TableInvariant`), has as its heart `GameIsKnown`: what
each running player would know had it read its mail is in `Known`, the set of all
there is to know of the game. That is `PlayersKnowTheGame` and
`MembersSeeWhatCounts`. To be kept by a call of the moderator's it needs:

* `Played`: the game is `InPlay`, those who run are the living, and the sessions of
  the pack and of the day have all who are asked in this phase for members
  (`Convened`). That the router refuses the moderator nothing,
  `NobodyGoneIsRelayedTo`, is due to a relay being for the living of the game the
  moderator found, all of whom run.
* `MailFits`, `ChoicesFit`: what is unread, and what selection is on its way, is of
  a phase gone by or of this one; of this one it names the living as they are, and
  is for those who share the session. A selection that is late is of no session
  that is open (`TimePasses`), or `SeesWhatCounts` would fail.
* `PackIsKnown`: a werewolf knows its pack, or reads of it next. A selection made
  before that would be passed on to nobody.

A call is followed directive by directive. `Informs(A, x, y, B, N)` says that who
knew `A` of the game `x` knows `B` of the game `y` once it has heard what `y` has to
say more than `x`, all of it in `N`; it composes (`InformsOn`). Each function of
`Game` gets one: within a phase what is known is all there is (`Known`), while a
phase closes the moment and the living are out of date, but not the dead
(`Abreast`), and a phase that begins makes up for it. `ExpireHeeds`,
`ChoiceHeeds` and `BeginHeeds` say so of a whole call, and `AnswersAreRead` of the
mail it leaves. What a player has selected itself makes no difference to the rest it
knows (`ReadsAlike`), so that its own step keeps `GameIsKnown` as well.

### The command line

For any configurations of the schema, any seeds, any paths and any number of plays,
from the assumptions named in `Config` and `CommandLine`. The invariant,
`CommandsInv`:

* `FilesAre`: a file written beside a log is the effective configuration of one that
  was let through; `PlayIs`: so is what a play has loaded, but for the log it names.
* `WrittenIs`: from the moment a play writes there is no pair, and what is beside
  its log is its own until it ends; `PairIs`: a pair stays what it is until the next
  play writes.

`WhatIsAcceptedIsPlayable` is about the checks of `validate` in their order: the
first that fails is reported, and where none does the deal is undecided and every
clock is one a game can be timed by. Of the limit it speaks only where the code
reckons one (`Reckoned`): nothing `validate` checks keeps the clocks from being too long
to add up. `APairIsReplayed`, `AReproductionIsTheGame` and
`AReproductionSparesTheLog` rest on an effective configuration being accepted and
its own effective configuration.

### What is only model-checked

* Liveness: `EveryReminderComesBack`, `WriterEnds`, `RunReturns`, `GameEnds`,
  `TableClears`. Fairness and `ENABLED` are out of the prover's reach.
* What a transcript comes to: `WhatIsReadWasPlayed`, `WholeLogIsRead` and
  `ShownAsPlayed`. They are folds of a log, as the watcher's is, and within reach of
  the same means.

## Not modelled

* *Testing support* (`testing.rs`, `tests/support`): not the program.
* *Text*: formatting of transcripts, the live view and errors, JSON and TOML,
  the conversion of times. Which lines are shown and what they tell is modelled
  where a property is about it (`Shown`, `LivingTold`).
* *Randomness*: the shuffle, the hash that splits a seed, the generator. That two
  plays of a seed come to the same verdicts (`transcript.rs:383`) depends on which
  selections arrive in time, and is not claimed.
* *Which error* is reported where several occur in one sink or one play.

`command_line` claims `replay` only of a whole log: what is read of a log cut short
is `recorded`'s question.

## Plan

Done: the runtime, the log writer, the game, the moderator, the table, the recorded
game with its readers, the configuration and the command line; the proofs of the
timer, the log writer, the episode and the game under its moderator with the
abstract ones they implement, the game's log and its watcher, the game at the table
and the command line.

Left: of the recorded game, what a transcript comes to.
