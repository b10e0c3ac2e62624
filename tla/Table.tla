------------------------------- MODULE Table -------------------------------
(***************************************************************************)
(* A game at the table: the moderator, its inbox and its timer, and the    *)
(* players (player.rs), each with an inbox of its own, what it knows and a *)
(* strategy that may take any time over any choice the rules permit.       *)
(*                                                                         *)
(* A stop reaches a player ahead of its inbox, but for the one message it  *)
(* may have in hand already (Perception).  An observation of the           *)
(* moderator's is folded, and what comes of it carried out, at the instant *)
(* it arrives.                                                             *)
(***************************************************************************)
EXTENDS Moderator, Strategy

CONSTANTS
  Lively,   \* a bound: the players that read their mail at all, the rest
            \* dawdling, are one of these sets
  Unread    \* a bound: a player further behind than this catches up no more

ASSUME BoundsAssumption == Lively \subseteq SUBSET Players /\ Unread \in Nat

VARIABLES
  mod,         \* the moderator's handler
  moderating,  \* the moderator's threads: running, stopped, panicked, refused
  heard,       \* the moderator's inbox
  timer,       \* the reminders it holds
  clock,
  mail,        \* the inbox of each player
  knows,       \* what each player knows
  status       \* of each player: waiting, running, told to stop, stopped

\* The players that read their mail.
lively == DOMAIN mail

playerVars == <<mail, knows, status>>
vars == <<mod, moderating, heard, timer, clock, mail, knows, status>>

g == mod.game

Init ==
  /\ mod = NewModerator /\ moderating = "waiting"
  /\ heard = << >> /\ timer = {} /\ clock = 0
  /\ mail \in {[p \in players |-> << >>] : players \in Lively}
  /\ knows = [p \in lively |-> NewKnowledge]
  /\ status = [p \in Players |-> "waiting"]

(***************************************************************************)
(* The moderator.                                                          *)
(***************************************************************************)

\* The messages of a call to p, in order.
Told(effects, p) ==
  FlattenSeq([i \in DOMAIN effects |->
    IF effects[i].do = "tell" /\ p \in effects[i].to THEN <<effects[i].message>> ELSE << >>])

\* The effects of the call that made the moderator m, carried out.
CarryOut(m) ==
  LET running == {p \in Players : status[p] = "running"}
      stops   == Stops(m.effects, Len(m.effects))
  IN  /\ mod' = [m EXCEPT !.effects = << >>]
      /\ mail' = [p \in lively |-> mail[p] \o Told(m.effects, p)]
      /\ status' = [p \in Players |->
           CASE p \in stops \cap lively -> "told"
             [] p \in stops \ lively -> "stopped"
             [] p \in Starts(m.effects) \ stops -> "running"
             [] OTHER -> status[p]]
      /\ moderating' = IF Refuses(m.effects, running) THEN "refused"
                       ELSE IF m.stopped THEN "stopped" ELSE "running"

\* The moderator is started, at the origin.
Opened ==
  /\ moderating = "waiting"
  /\ CarryOut(Start(mod, 0))
  /\ timer' = RemindersSet(Start(mod, 0).effects, 0)
  /\ UNCHANGED <<heard, clock, knows>>

\* Whom a tie may fall to.
Named == {g.sessions["Devour"].selections[p] : p \in Pack}

\* What is next in the moderator's inbox arrives at this instant.
Arriving == [Head(heard) EXCEPT !.at = clock]

\* The moderator folds an observation and answers it.
Answer(obs, left) ==
  /\ \E luck \in Named \cup {Nobody} :
       LET m == Step(mod, obs, luck)
       IN  CarryOut(m) /\ timer' = left \cup RemindersSet(m.effects, clock)
  /\ UNCHANGED <<clock, knows>>

\* A selection reaches the moderator, whose call panics if the game cannot
\* vouch for it.
Count ==
  /\ moderating = "running" /\ heard # << >>
  /\ heard' = Tail(heard)
  /\ IF StepPanics(mod, Arriving)
       THEN moderating' = "panicked" /\ UNCHANGED <<mod, timer, clock, playerVars>>
       ELSE Answer(Arriving, timer)

\* A reminder that is due comes back to it, the earliest first, ahead of the
\* selections in its inbox or behind them.
Return(r) ==
  /\ moderating = "running" /\ r.deadline <= clock
  /\ \A q \in timer : r.deadline <= q.deadline
  /\ Answer([is |-> r.is, deadline |-> r.deadline, at |-> clock], timer \ {r})
  /\ UNCHANGED heard

\* Time passes, the moderator keeping up with its reminders; a selection may
\* be on its way for as long as it likes.
Tick ==
  /\ moderating = "running" /\ timer # {}
  /\ \A r \in timer : clock < r.deadline
  /\ clock' = clock + 1
  /\ UNCHANGED <<mod, moderating, heard, timer, playerVars>>

(***************************************************************************)
(* The players.                                                            *)
(***************************************************************************)

\* One selection on its way to the moderator.
Send(p, k, kind, target) ==
  heard' = Append(heard, [is |-> "select", from |-> p, at |-> 0,
    selection |-> Selection(k.round, kind, target, Audience(k, p, kind))])

\* A player observes a message and, if it is a phase that asks something of its
\* role, selects - or not.  One told to stop observes no more than the one in
\* hand, and what it decides by then may go unsent.
Take(p) ==
  /\ status[p] \in {"running", "told"} /\ Len(mail[p]) \in 1 .. Unread
  /\ LET message == Head(mail[p])
         k == Observed(knows[p], message)
         kind == AskedIn(RoleOf[p], k.phase)
         asked == message.is = "PhaseBegan" /\ kind # Nothing
     IN  \/ /\ asked => MayAbstain(k, p, kind)
            /\ knows' = [knows EXCEPT ![p] = k]
            /\ UNCHANGED heard
         \/ /\ asked
            /\ \E target \in MaySelect(k, p, kind) :
                 /\ knows' = [knows EXCEPT ![p] = Acted(k, p, kind, target)]
                 /\ Send(p, k, kind, target)
  /\ mail' = [mail EXCEPT ![p] = IF status[p] = "told" THEN << >> ELSE Tail(@)]
  /\ status' = [status EXCEPT ![p] = IF @ = "told" THEN "stopped" ELSE @]
  /\ UNCHANGED <<mod, moderating, timer, clock>>

\* A player perceives its stop: what is in its inbox goes undelivered.
Halt(p) ==
  /\ status[p] = "told"
  /\ status' = [status EXCEPT ![p] = "stopped"]
  /\ mail' = [mail EXCEPT ![p] = << >>]
  /\ UNCHANGED <<mod, moderating, heard, timer, clock, knows>>

\* The game is over at the table, or the moderator's thread has failed.
Ended ==
  /\ moderating \in {"stopped", "panicked", "refused"}
  /\ \A p \in Players : status[p] # "told"
  /\ UNCHANGED vars

Next ==
  \/ Opened \/ Count \/ Tick \/ Ended
  \/ \E r \in timer : Return(r)
  \/ \E p \in lively : Take(p) \/ Halt(p)

\* The moderator's threads start, its timer comes back and time passes, and a
\* player told to stop does.  What Return waits for is a plain predicate, and
\* its weak fairness is written out.
Due == moderating = "running" /\ \E r \in timer : r.deadline <= clock
Returns == Due /\ timer' # timer /\ UNCHANGED heard
Fairness ==
  /\ []<>(moderating # "waiting")
  /\ []<> ~Due \/ []<><<Returns>>_vars
  /\ WF_vars(Tick)
  /\ \A p \in Players : WF_vars(Halt(p))

Spec == Init /\ [][Next]_vars /\ Fairness
-----------------------------------------------------------------------------
(***************************************************************************)
(* Properties.                                                             *)
(***************************************************************************)

\* What p will know once it has read its mail.
CaughtUp(p) == FoldLeft(Observed, knows[p], mail[p])

Running == {p \in lively : status[p] = "running"}

\* What a player knows, with what it has still to read, is the game: the
\* moment, who lives, who is dead and what they were, the pack for one of it,
\* and whether it is over; and what a seer has found is so.  A player acts on
\* a game that was, never on one that was not (knowledge.rs, A state, not a
\* belief).
KnowsTheGame ==
  \A p \in Running :
    LET k == CaughtUp(p)
    IN  /\ k.round = g.round /\ k.phase = g.phase /\ k.living = g.living
        /\ k.pack = IF p \in Pack THEN Pack \cap g.living ELSE {}
        /\ k.over = Over(g)
        /\ \A q \in Players :
             /\ k.dead[q].role = IF q \in g.living THEN Nothing ELSE RoleOf[q]
             /\ k.dead[q].round <= g.round
             /\ k.investigations[q] \in {Nothing, Faction(RoleOf[q])}

\* A member watches its session converge (game.rs, "a session closes
\* silently"): the selections of the others it sees are the ones that count,
\* none that came too late among them, and a session it is not in it sees
\* nothing of.
SeesWhatCounts ==
  ~Over(g) =>
    \A p \in Running : \A q \in Players \ {p} :
      CaughtUp(p).selections[q] =
        LET shared == {k \in {"Devour", "Nominate"} : {p, q} \subseteq g.sessions[k].members}
        IN  IF shared = {} THEN Nobody
            ELSE g.sessions[CHOOSE k \in shared : TRUE].selections[q]

\* The moderator's thread survives the game: no player it names in a relay,
\* though the list is the selecting player's own, has been stopped by the time
\* the relay is sent.
NobodyGoneIsAddressed == moderating # "refused"

\* However the players dawdle, a game whose moderator's thread survives ends,
\* with everybody stopped.  It need not survive: a doctor awake over two nights
\* may make it panic (NoPlayerBreaksTheGame), and then it stops nobody.
\* No table of one day comes to that.
TableClears ==
  <>(\/ moderating = "panicked"
     \/ moderating = "stopped" /\ \A p \in Players : status[p] = "stopped")

\* The player and the game "cannot disagree about what the rules permit"
\* (role.rs:38): no selection a player makes by its own rules is one the game
\* panics at.
NoPlayerBreaksTheGame == moderating # "panicked"
=============================================================================
