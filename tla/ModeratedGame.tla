--------------------------- MODULE ModeratedGame ---------------------------
(***************************************************************************)
(* The moderator at work: its handler (Moderator), the timer that brings   *)
(* its reminders back, and players who may send any selection a player     *)
(* could, in any session, as often and as late as they like.  What players *)
(* do with what they are told is Table's subject.                          *)
(*                                                                         *)
(* An observation is folded at the instant it arrives, and a call is       *)
(* carried out whole before the next: the moderator's handler thread does  *)
(* one call at a time, and nothing it folds depends on when it runs.       *)
(***************************************************************************)
EXTENDS Moderator

CONSTANT MaxLate   \* bound: how long past its deadline a reminder may be folded

ASSUME LateAssumption == MaxLate \in Nat

VARIABLES
  mod,       \* the moderator
  clock,     \* the instant the last observation arrived
  timer,     \* the reminders on its timer
  running,   \* the players started and not stopped
  paid,      \* the rewards are in the log
  refused,   \* history: the router has refused an effect
  unjust,    \* history: those whose death, or life, the selections do not explain
  endedAt    \* history: when the outcome was told

history == <<refused, unjust, endedAt>>
vars == <<mod, clock, timer, running, paid, refused, unjust, endedAt>>

g == mod.game
Living == g.living

Init ==
  /\ mod = NewModerator
  /\ clock = 0 /\ timer = {} /\ running = {} /\ paid = FALSE
  /\ refused = FALSE /\ unjust = {} /\ endedAt = 0

\* The effects of the call that made the moderator m, carried out.
CarryOut(m) ==
  /\ mod' = [m EXCEPT !.effects = << >>]
  /\ running' = (running \cup Starts(m.effects)) \ Stops(m.effects, Len(m.effects))
  /\ paid' = (paid \/ Pays(m.effects))
  /\ refused' = (refused \/ Refuses(m.effects, running))
  /\ endedAt' = IF Over(m.game) /\ ~Over(g) THEN clock ELSE endedAt

\* The dead who should not be, and, the phase over with nobody dead, those who
\* should be.
Judge(counted, m) ==
  LET died  == Living \ m.game.living
      moved == Over(m.game) \/ m.game.phase # g.phase
  IN  unjust' = unjust
        \cup {p \in died : p \notin Condemned(counted) \ Shielded(counted)}
        \cup IF moved /\ died = {} /\ Condemned(counted) \cap Shielded(counted) = {}
               THEN Condemned(counted) ELSE {}

\* The moderator is started, at the origin.
Opened ==
  /\ ~g.begun
  /\ CarryOut(Start(mod, 0))
  /\ timer' = RemindersSet(Start(mod, 0).effects, 0)
  /\ UNCHANGED <<clock, unjust>>

\* Time passes, but not past what a reminder may be late by.
Tick ==
  /\ timer # {} /\ ~mod.stopped
  /\ \A r \in timer : clock < r.deadline + MaxLate
  /\ clock' = clock + 1
  /\ UNCHANGED <<mod, timer, running, paid, history>>

\* A session that is over, for selections still on their way.
Passed(sel) ==
  \/ sel.round < g.round
  \/ /\ sel.round = g.round
     /\ \/ PhaseOf(sel.kind) = "Night" /\ g.phase = "Day"
        \/ g.sessions[sel.kind].stage = "closed"
        \/ Over(g)

\* Player::audience.
Audience(p, kind) ==
  CASE kind = "Devour" -> (Living \cap Pack) \ {p}
    [] kind = "Nominate" -> Living \ {p}
    [] OTHER -> {}

\* Whom a tie may fall to: somebody the pack has named.
Named == {g.sessions["Devour"].selections[p] : p \in Pack}

\* What players may have sent: a selection the rules permit, or one that lost
\* its race with the clock, whose target nobody looks at.
Selections(p) ==
  UNION {LET sel(target) == Selection(round, kind, target, Audience(p, kind))
             anyone      == CHOOSE q \in Players \ {p} : TRUE
         IN  IF Passed(sel(anyone)) THEN {sel(anyone)}
             ELSE {sel(q) : q \in {t \in Players \ {p} :
                              InSession(g, p, sel(t)) /\ ~Panics(g, p, sel(t))}} :
         round \in {g.round, g.round - 1} \ {0},
         kind \in {AskedIn(RoleOf[p], phase) : phase \in Phases} \ {Nothing}}

\* The moderator a call makes, of a selection that arrives or of a reminder
\* that comes back.
Hearing(p, sel, luck) ==
  Step(mod, [is |-> "select", from |-> p, selection |-> sel, at |-> clock], luck)
Waking(r, luck) ==
  Step(mod, [is |-> r.is, deadline |-> r.deadline, at |-> clock], luck)

\* The selections there are once this one has arrived.
Counting(p, sel) ==
  IF InSession(g, p, sel)
    THEN [g EXCEPT !.sessions[sel.kind].selections[p] = sel.target] ELSE g

\* A call is over that made the moderator m.
Answered(m, counted, left) ==
  /\ g.begun /\ ~mod.stopped
  /\ CarryOut(m)
  /\ timer' = left \cup RemindersSet(m.effects, clock)
  /\ Judge(counted, m)
  /\ UNCHANGED clock

\* A selection arrives.
Hear(p, sel) ==
  \E luck \in Named \cup {sel.target} :
    Answered(Hearing(p, sel, luck), Counting(p, sel), timer)

\* A reminder comes back.
Wake(r) ==
  /\ r.deadline <= clock
  /\ \E luck \in Named : Answered(Waking(r, luck), g, timer \ {r})

\* Everybody stopped, the moderator with them.
Ended == mod.stopped /\ UNCHANGED vars

Next ==
  \/ Opened \/ Tick \/ Ended
  \/ \E p \in Players : \E sel \in Selections(p) : Hear(p, sel)
  \/ \E r \in timer : Wake(r)

\* The moderator is started, the clock runs, and a reminder that is due comes
\* back.  Nobody need select.  The weak fairness of Wake is written out, since
\* when it is enabled is a plain predicate: []<>~Due \/ []<><<Wake>>.
Due == ~mod.stopped /\ \E r \in timer : r.deadline <= clock
Returns == \E r \in timer : r.deadline <= clock /\ r \notin timer'
Fairness ==
  /\ []<> g.begun
  /\ WF_vars(Tick)
  /\ []<> ~Due \/ []<><<Returns>>_vars

Spec == Init /\ [][Next]_vars /\ Fairness
-----------------------------------------------------------------------------
(***************************************************************************)
(* Properties.                                                             *)
(***************************************************************************)
\* The win condition is checked after every elimination, and only then
\* (game.rs): a game goes on exactly as long as neither side has won and its
\* days have not run out, and what it answers is what the living say.
UndecidedUntilWon ==
  /\ ~Over(g) => Winner(Living) = "undecided" /\ g.round <= DayCap
  /\ g.winner \in {"Village", "Werewolves"} => Winner(Living) = g.winner
  /\ g.winner = "nobody" => Winner(Living) = "undecided" /\ g.round = DayCap
  /\ Over(g) => Open(g) = {}

\* The moderator is never left without a wake-up: while a game goes on it has
\* a session open, the earliest deadline of its sessions is on the timer, and
\* `reminded` is exactly the looks on the timer - a deadline forgotten early
\* would be set twice, one never forgotten not at all.
ClockIsWatched ==
  g.begun /\ ~Over(g) =>
    /\ mod.reminded = {r.deadline : r \in timer}
    /\ Open(g) # {} /\ Min(Deadlines(g)) \in mod.reminded

\* Nothing is ever sent to a player who has been stopped, and the players
\* running are the living until everybody is stopped: a message or a control
\* too many would fail the moderator's own thread (router.rs, Closed).
OnlyTheLivingRun ==
  /\ ~refused
  /\ g.begun => running = IF mod.stopped THEN {} ELSE Living

\* Nobody dies but whom the selections called for, the last one counted
\* included - the pack's plurality and nobody's patient by night, by day the
\* choice of more than half of the living - and whom they called for dies.
DeathsAreCalledFor == unjust = {}

\* Everybody is stopped only once the rewards are logged and the farewell has
\* run its time, whatever else the timer brings back after the outcome.
FarewellIsGiven ==
  mod.stopped => paid /\ Over(g) /\ clock >= endedAt + Farewell

\* setup::limit's bound on a game: each phase is over within its longest limit
\* and what its reminder was late by, so a game within its day cap of rounds.
NightLimit == Max({Limit[k] : k \in Kinds \ {"Nominate"}})
RoundLimit == NightLimit + Limit["Nominate"] + 2 * MaxLate
OnSchedule ==
  ~Over(g) =>
    clock <= (g.round - 1) * RoundLimit
             + IF g.phase = "Night" THEN NightLimit + MaxLate ELSE RoundLimit

\* Through all its sessions and clocks the game keeps to its rules (game.rs):
\* night follows day, no phase costs more than one life, the win condition is
\* looked at after each, and when it is over everybody is paid in the same step
\* and the survivors alone are left to be stopped.
Contract == INSTANCE GameContract WITH
  round <- g.round, phase <- g.phase, living <- Living, winner <- g.winner
KeepsToTheRules == Contract!Spec

\* A game ends, and everybody is stopped, however its players act and if they
\* never do (game.rs, Termination).
GameEnds == <>mod.stopped
=============================================================================
