-------------------------------- MODULE Game --------------------------------
(***************************************************************************)
(* The rules of Werewolf as a pure state machine (game.rs): a game takes a *)
(* selection, or the passing of time, and becomes another game with things *)
(* to say.  Nothing here is a step of the system; Moderator folds          *)
(* observations with these operators.                                      *)
(*                                                                         *)
(* A session is `open` while members may select in it, `closed` from its   *)
(* close until its night resolves (the code's `resolved`), and `none`      *)
(* otherwise.  `says` collects the directives of one call, in order.       *)
(***************************************************************************)
EXTENDS Rules, Sequences, SequencesExt

CONSTANTS
  Quiet,    \* the quiet period of each kind of night session
  Limit,    \* the hard limit of each kind of session
  DayCap    \* the day after which nobody having won is a stalemate

\* Timing::validate.
ASSUME TimingAssumption ==
  /\ Limit \in [Kinds -> Nat \ {0}]
  /\ Quiet \in [Kinds \ {"Nominate"} -> Nat \ {0}]
  /\ \A k \in Kinds \ {"Nominate"} : Quiet[k] <= Limit[k]
  /\ DayCap \in Nat \ {0}

Unopened == [stage |-> "none", members |-> {},
             selections |-> [p \in Players |-> Nobody],
             limit |-> 0, lastChange |-> 0]

\* Game::new.
NewGame == [living |-> Players, round |-> 1, phase |-> "Night", begun |-> FALSE,
            sessions |-> [k \in Kinds |-> Unopened],
            lastProtected |-> [p \in Players |-> Nobody],
            winner |-> "undecided", says |-> << >>]

Over(g) == g.winner # "undecided"
Open(g) == {k \in Kinds : g.sessions[k].stage = "open"}

(***************************************************************************)
(* Directives.                                                             *)
(***************************************************************************)
Narration(to, narration) == [say |-> "narrate", to |-> to, narration |-> narration]
Saying(g, directive) == [g EXCEPT !.says = Append(@, directive)]
Narrate(g, to, narration) == Saying(g, Narration(to, narration))
NarrateLiving(g, narration) == Narrate(g, g.living, narration)
Forward(g, to, envelope) == Saying(g, [say |-> "forward", to |-> to, envelope |-> envelope])
Stop(g, p) == Saying(g, [say |-> "stop", who |-> p])

Assigned(p) == [is |-> "Assigned", role |-> RoleOf[p],
                pack |-> IF p \in Pack THEN Pack ELSE {}]
PhaseBegan(g) == [is |-> "PhaseBegan", round |-> g.round, phase |-> g.phase, living |-> g.living]
Eliminated(g, p, cause) == [is |-> "Eliminated", who |-> p, role |-> RoleOf[p],
                              round |-> g.round, cause |-> cause]
Investigated(p) == [is |-> "Investigated", target |-> p, faction |-> Faction(RoleOf[p])]
\* A selection passed on without losing who made it; its number, which only
\* joins it to the player's own record of it, is left out.
Envelope(from, sel) == [from |-> from, kind |-> sel.kind, target |-> sel.target]
Outcome(g, winner) == [is |-> "Outcome", winner |-> winner, rounds |-> g.round, living |-> g.living]
Quietly(name) == [is |-> name]

(***************************************************************************)
(* The clocks of a session.                                                *)
(***************************************************************************)
Settled(s) == \A p \in s.members : s.selections[p] # Nobody

\* A limit that a change of mind restarts, like the quiet period.
DeadlineRestarted(k, s) ==
  IF k # "Nominate" /\ Settled(s) /\ s.lastChange + Quiet[k] < s.limit
    THEN s.lastChange + Quiet[k] ELSE s.lastChange + Limit[k]

\* Session::deadline: its limit, or the end of its quiet period once every
\* member has selected.  The day has no quiet period.
Deadline(k, s) ==
  IF k # "Nominate" /\ Settled(s) /\ s.lastChange + Quiet[k] < s.limit
    THEN s.lastChange + Quiet[k] ELSE s.limit

Expired(g, now) == {k \in Open(g) : Deadline(k, g.sessions[k]) <= now}

\* What next_deadline takes the least of.
Deadlines(g) == IF Over(g) THEN {} ELSE {Deadline(k, g.sessions[k]) : k \in Open(g)}

\* shortest_quiet_period.
ShortestQuiet == Min({Quiet[k] : k \in DOMAIN Quiet})

(***************************************************************************)
(* Phases.                                                                 *)
(***************************************************************************)

\* action_space_for: the targets p may select, by the game's own state.
SpaceFor(g, p, k) == ActionSpace(p, g.living, k, g.lastProtected[p])

\* Who is asked in a session of this kind: nobody the rules leave no target.
Members(g, k) ==
  {p \in g.living : AskedIn(RoleOf[p], g.phase) = k /\ SpaceFor(g, p, k) # {}}

\* begin_phase: announced to the living, and its sessions opened; a session
\* with no member does not open.
BeginPhase(g, now) ==
  [NarrateLiving(g, PhaseBegan(g)) EXCEPT !.sessions =
    [k \in Kinds |-> IF Members(g, k) = {} THEN Unopened
                     ELSE [Unopened EXCEPT !.stage = "open", !.members = Members(g, k),
                                           !.limit = now + Limit[k], !.lastChange = now]]]

\* begin: each player its role, then the first night.
Begin(now) ==
  LET deal == SetToSeq(Players)
  IN  BeginPhase([NewGame EXCEPT
        !.begun = TRUE,
        !.says = [i \in DOMAIN deal |-> Narration({deal[i]}, Assigned(deal[i]))]], now)

\* A round for each phase.
NextPhaseByRounds(g, now) ==
  BeginPhase([g EXCEPT !.phase = IF @ = "Night" THEN "Day" ELSE "Night", !.round = @ + 1], now)

\* next_phase: the day of the same round, or the night of the next.
NextPhase(g, now) ==
  BeginPhase(IF g.phase = "Night" THEN [g EXCEPT !.phase = "Day"]
             ELSE [g EXCEPT !.phase = "Night", !.round = @ + 1], now)

\* end, and the outcome told to the living.
End(g, winner) ==
  NarrateLiving([g EXCEPT !.winner = winner], Outcome(g, winner))

\* advance with the win condition forgotten until the cap.
AdvanceUnchecked(g, now) ==
  IF g.phase = "Day" /\ g.round >= DayCap THEN End(g, "nobody") ELSE NextPhase(g, now)

\* advance: the outcome if a side has won or the days have run out, and
\* otherwise the next phase.
Advance(g, now) ==
  IF Winner(g.living) # "undecided" THEN End(g, Winner(g.living))
  ELSE IF g.phase = "Day" /\ g.round >= DayCap THEN End(g, "nobody")
  ELSE NextPhase(g, now)

\* Told to the player eliminated, who has no use for it.
EliminateUnheard(g, p, cause) ==
  Stop(Narrate([g EXCEPT !.living = @ \ {p}], {p}, Eliminated(g, p, cause)), p)

\* eliminate: told to those still living, and the dead player stopped.
Eliminate(g, p, cause) ==
  Stop(NarrateLiving([g EXCEPT !.living = @ \ {p}], Eliminated(g, p, cause)), p)

(***************************************************************************)
(* The night.                                                              *)
(***************************************************************************)
Votes(s, p) == Cardinality({q \in s.members : s.selections[q] = p})

\* plurality: those most selected, if anybody was; which of them is luck's.
Leaders(s) ==
  {p \in Players : Votes(s, p) > 0 /\ \A q \in Players : Votes(s, q) <= Votes(s, p)}

\* Whom the doctors' latest selections shield.
Protected(g) == {g.sessions["Protect"].selections[p] : p \in Players} \ {Nobody}

\* pick: one of them, whichever luck has it.
Pick(luck, among) == IF luck \in among THEN luck ELSE CHOOSE p \in among : TRUE

\* resolve_night: the pack's victim, unless the doctor reached it first.
ResolveNight(g, now, luck) ==
  LET leaders == Leaders(g.sessions["Devour"])
      victim  == Pick(luck, leaders)
      taken   == [g EXCEPT !.sessions = [k \in Kinds |-> Unopened]]
  IN  IF leaders # {} /\ victim \notin Protected(g)
        THEN Advance(Eliminate(taken, victim, "Devoured"), now)
        ELSE NextPhase(NarrateLiving(taken, Quietly("NoDeath")), now)

\* The findings of a seer's session: to each seer, its own.
Findings(s) ==
  LET seers == SetToSeq({p \in s.members : s.selections[p] # Nobody})
  IN  [i \in DOMAIN seers |->
        Narration({seers[i]}, Investigated(s.selections[seers[i]]))]

\* close_night_session, for each session whose time is up.
CloseNightSessions(g, kinds) ==
  [g EXCEPT
    !.sessions = [k \in Kinds |-> IF k \in kinds THEN [@[k] EXCEPT !.stage = "closed"] ELSE @[k]],
    !.lastProtected = [p \in Players |->
      IF "Protect" \in kinds /\ g.sessions["Protect"].selections[p] # Nobody
        THEN g.sessions["Protect"].selections[p] ELSE @[p]],
    !.says = IF "Investigate" \in kinds THEN @ \o Findings(g.sessions["Investigate"]) ELSE @]

(***************************************************************************)
(* The day.                                                                *)
(***************************************************************************)
\* More than anybody else, however few.
PluralityNotMajority(g) == Leaders(g.sessions["Nominate"])

\* majority: the player more than half of the living are selecting.
Majority(g) ==
  {p \in Players : 2 * Votes(g.sessions["Nominate"], p) > Cardinality(g.living)}

\* close_day: the lynching, or none if the limit passed first.
CloseDay(g, lynched, now) ==
  LET shut == [g EXCEPT !.sessions["Nominate"] = Unopened]
  IN  Advance(IF lynched = {} THEN NarrateLiving(shut, Quietly("NoLynch"))
              ELSE Eliminate(shut, CHOOSE p \in lynched : TRUE, "Lynched"), now)

(***************************************************************************)
(* The calls.                                                              *)
(***************************************************************************)

\* expire: closes every session whose time is up, and resolves the night once
\* the last one has closed.
Expire(g, now, luck) ==
  LET late   == Expired(g, now)
      closed == CloseNightSessions(g, late)
  IN  IF Over(g) \/ (g.phase = "Day" /\ late = {}) THEN g
      ELSE IF g.phase = "Day" THEN CloseDay(g, {}, now)
      ELSE IF Open(closed) = {} THEN ResolveNight(closed, now, luck)
      ELSE closed

\* Select: what a player sends, and who else should see it.
Selection(round, kind, target, seenBy) ==
  [round |-> round, kind |-> kind, target |-> target, seenBy |-> seenBy]

\* The session this selection names is open, with this member.
InSession(g, from, sel) ==
  sel.round = g.round /\ sel.kind \in Open(g) /\ from \in g.sessions[sel.kind].members

\* select panics: the target is outside the action space, or the rules never
\* ask this of the player.
Panics(g, from, sel) ==
  IF InSession(g, from, sel)
    THEN sel.target \notin SpaceFor(g, from, sel.kind)
    ELSE sel.round = g.round /\ AskedIn(RoleOf[from], PhaseOf(sel.kind)) # sel.kind

\* Session::select: the latest target, and the quiet period restarted if it
\* changed.
Record(s, from, target, at) ==
  [s EXCEPT !.selections[from] = target,
            !.lastChange = IF s.selections[from] # target THEN at ELSE @]

\* select: counted and relayed while its session is open, ignored otherwise;
\* the day closes on the selection that makes a majority.
Select(g, from, sel, at) ==
  LET counted == [g EXCEPT !.sessions[sel.kind] = Record(@, from, sel.target, at)]
      relayed == IF sel.seenBy = {} THEN counted
                 ELSE Forward(counted, sel.seenBy, Envelope(from, sel))
  IN  IF ~InSession(g, from, sel) THEN g
      ELSE IF sel.kind = "Nominate" /\ Majority(relayed) # {}
        THEN CloseDay(relayed, {sel.target}, at)
      ELSE relayed

\* rewards.
Rewards(g) ==
  [p \in Players |-> IF Faction(RoleOf[p]) = g.winner THEN "won" ELSE "lost"]

(***************************************************************************)
(* Whom the selections call for, as the properties have it: a reading of   *)
(* the rules that owes nothing to the way the game finds its victim.       *)
(***************************************************************************)

\* Who is to die by the selections there are in `counted`: of the most wanted
\* by the pack, one no doctor shields, by night; by day whoever most of the
\* living want dead.
Wanted(counted, kind, p) ==
  Cardinality({q \in counted.living : counted.sessions[kind].selections[q] = p})
Condemned(counted) ==
  IF counted.phase = "Day"
    THEN {p \in Players : Wanted(counted, "Nominate", p)
                           > Cardinality(counted.living) - Wanted(counted, "Nominate", p)}
    ELSE {p \in Players : /\ Wanted(counted, "Devour", p) > 0
                          /\ \A q \in Players : Wanted(counted, "Devour", q)
                                                <= Wanted(counted, "Devour", p)}
Shielded(counted) ==
  {p \in Players : counted.phase = "Night" /\ Wanted(counted, "Protect", p) > 0}
=============================================================================
