------------------------ MODULE ModeratedGameProofs ------------------------
(***************************************************************************)
(* What ModeratedGame promises, proved for every deal, every timing, every *)
(* lateness of the reminders and every selection players may send.         *)
(*                                                                         *)
(* GameProofs says what each call makes of a game and of its moderator.    *)
(* Here the calls are carried out, and refused by nobody, since a          *)
(* directive is only ever for somebody the directives before it have left  *)
(* running.                                                                *)
(*                                                                         *)
(* RecordedGame is that game with its log.  What a watcher makes of the    *)
(* lines comes last: those a call leaves, however many of them there are   *)
(* yet, are read rightly one after the other.                              *)
(***************************************************************************)
EXTENDS RecordedGame, GameProofs

\* The longest limit of a night.
LEMMA NightLimitType ==
  NightLimit \in Nat /\ \A k \in Kinds \ {"Nominate"} : Limit[k] <= NightLimit
<1> DEFINE S == {Limit[k] : k \in Kinds \ {"Nominate"}}
<1>1. S = {Limit["Devour"], Limit["Investigate"], Limit["Protect"]}
  BY DEF Kinds
<1>2. Limit["Devour"] \in Nat /\ Limit["Investigate"] \in Nat /\ Limit["Protect"] \in Nat
  BY TimingAssumption DEF Kinds
<1>3. \E t \in {Limit["Devour"], Limit["Investigate"], Limit["Protect"]} :
        \A u \in {Limit["Devour"], Limit["Investigate"], Limit["Protect"]} : t >= u
  BY <1>2
<1> HIDE DEF S
<1>4. Max(S) \in S /\ \A u \in S : Max(S) >= u
  BY <1>1, <1>3 DEF Max
<1>5. NightLimit = Max(S) /\ S \in SUBSET Nat
  BY <1>1, <1>2 DEF NightLimit, S
<1>6. \A k \in Kinds \ {"Nominate"} : Limit[k] \in S
  BY DEF S
<1> QED
  BY <1>4, <1>5, <1>6

(***************************************************************************)
(* The invariant.                                                          *)
(***************************************************************************)
\* Between two calls the moderator has nothing left to say or to do.
Typed ==
  /\ mod \in ModType /\ mod.effects = << >> /\ g.says = << >>
  /\ clock \in Nat

\* The moderator is not started yet, or its game can be played.
Played ==
  IF g.begun THEN InPlay(g)
  ELSE mod = NewModerator /\ timer = {} /\ clock = 0 /\ running = {}

\* The farewell is set when the game ends, with the rewards; until then the
\* timer holds nothing but looks, and nobody is stopped for good.
FarewellIsSet ==
  /\ mod.farewell <=> Over(g)
  /\ paid = Over(g)
  /\ ~Over(g) => ~mod.stopped /\ \A r \in timer : r = Look(r.deadline)
  /\ Over(g) => \A r \in timer : r.is = "farewell" => r.deadline = endedAt + Farewell

\* The limits of the sessions open leave the rounds to come their time.
Before(x) == (x.round - 1) * RoundLimit
Timely ==
  g.begun /\ ~Over(g) =>
    \A k \in Open(g) : g.sessions[k].limit
      <= Before(g) + IF g.phase = "Night" THEN NightLimit ELSE RoundLimit - MaxLate

IInv ==
  /\ Typed /\ Played /\ FarewellIsSet /\ Timely
  /\ ClockIsWatched /\ OnlyTheLivingRun /\ FarewellIsGiven /\ OnSchedule /\ DeathsAreCalledFor

\* A call while the game goes on: it becomes y, with the reminders in `left`
\* still on the timer, and is told to whom y says.
Goes(y, left, counted, m) ==
  /\ g.begun /\ ~Over(g)
  /\ Turns(g, counted, y, clock) /\ KeepsTelling(g, y)
  /\ left \subseteq timer
  /\ m = Say([mod EXCEPT !.game = y, !.reminded = {r.deadline : r \in left}])
  /\ CarryOut(m)
  /\ timer' = left \cup RemindersSet(m.effects, clock)
  /\ Judge(counted, m)
  /\ clock' = clock

\* What a call leaves, while the game goes on.
LEMMA GoesFields ==
  ASSUME IInv, NEW y, NEW left, NEW counted, NEW m, Goes(y, left, counted, m)
  PROVE  /\ InPlay(y) /\ mod' \in ModType /\ mod'.effects = << >> /\ g' = [y EXCEPT !.says = << >>]
         /\ m.game = [y EXCEPT !.says = << >>] /\ Carries(m.effects, y.says)
         /\ ~mod'.stopped /\ running' = y.living /\ ~refused'
         /\ paid' = Over(y)
         /\ ~Over(y) => /\ ~mod'.farewell
                        /\ mod'.reminded = {r.deadline : r \in left} \cup {Min(Deadlines(y))}
                        /\ timer' = left \cup {Look(Min(Deadlines(y)))}
         /\ Over(y) => /\ mod'.farewell /\ endedAt' = clock
                       /\ timer' = left \cup {Goodbye(clock + Farewell)}
<1> DEFINE R == {r.deadline : r \in left}
           n == [mod EXCEPT !.game = y, !.reminded = R]
           d == Min(Deadlines(y))
<1>1. /\ mod \in ModType /\ InPlay(g) /\ ~Over(g) /\ ~mod.farewell /\ ~mod.stopped
      /\ mod.reminded = {r.deadline : r \in timer} /\ \A r \in timer : r = Look(r.deadline)
      /\ running = g.living /\ ~refused /\ g.says = << >> /\ ~paid
  BY DEF IInv, Typed, Played, FarewellIsSet, ClockIsWatched, OnlyTheLivingRun, Goes, Living
<1>2. InPlay(y)
  BY DEF Goes, Turns, Stayed, PhaseOver
<1>3. R \in SUBSET Nat
  <2>1. left \subseteq timer /\ mod.reminded \in SUBSET Nat
    BY <1>1 DEF Goes, ModType
  <2> QED
    BY <1>1, <2>1
<1>4. y \in GameType /\ y.says \in Seq(Directives)
  BY <1>2 DEF InPlay, GameType
<1> HIDE DEF R
<1>5. n \in ModType /\ n.game = y /\ n.reminded = R /\ ~n.farewell /\ ~n.stopped
  BY <1>1, <1>3, <1>4 DEF ModType
<1>6. m = Say(n)
  BY DEF Goes, R
<1> HIDE DEF n
<1>7. Said(n, m)
  BY <1>2, <1>5, <1>6, SayGoing, SayOver
<1>8. /\ m \in ModType /\ m.game = [y EXCEPT !.says = << >>] /\ ~m.stopped
      /\ Carries(m.effects, y.says)
  BY <1>5, <1>7 DEF Said
<1>9. /\ mod' = [m EXCEPT !.effects = << >>]
      /\ running' = (running \cup Starts(m.effects)) \ Stops(m.effects, Len(m.effects))
      /\ paid' = (paid \/ Pays(m.effects))
      /\ refused' = (refused \/ Refuses(m.effects, running))
      /\ endedAt' = IF Over(m.game) /\ ~Over(g) THEN clock ELSE endedAt
      /\ timer' = left \cup RemindersSet(m.effects, clock)
  BY DEF Goes, CarryOut
<1>10. /\ mod' \in ModType /\ mod'.effects = << >> /\ mod'.game = m.game /\ ~mod'.stopped
       /\ mod'.farewell = m.farewell /\ mod'.reminded = m.reminded
  <2>1. << >> \in Seq(Effects)
    OBVIOUS
  <2> QED
    BY <1>8, <1>9, <2>1 DEF ModType
<1>11. Telling(g.living, y.says, y.living)
  <2>1. Telling(g.living, g.says, g.living)
    BY <1>1 DEF Telling, Gone
  <2>2. g.living \in SUBSET Players
    BY <1>1 DEF InPlay, GameType
  <2> QED
    BY <2>1, <2>2 DEF Goes, KeepsTelling
<1>12. /\ Starts(m.effects) = {} /\ g.living \ Stops(m.effects, Len(m.effects)) = y.living
       /\ \A i \in 1 .. Len(m.effects) : m.effects[i].do \in {"tell", "command"}
            => m.effects[i].to \subseteq g.living \ Stops(m.effects, i - 1)
  <2>1. g.living \in SUBSET Players
    BY <1>1 DEF InPlay, GameType
  <2> QED
    BY <1>4, <1>8, <1>11, <2>1, CarriedOut
<1>13. running' = y.living
  BY <1>1, <1>9, <1>12
<1>14. ~refused'
  <2>1. DOMAIN m.effects = 1 .. Len(m.effects)
    BY <1>8 DEF Carries
  <2>2. ~Refuses(m.effects, running)
    BY <1>1, <1>12, <2>1 DEF Refuses
  <2> QED
    BY <1>1, <1>9, <2>2
<1>15. Over(m.game) <=> Over(y)
  BY <1>2, <1>8, HeardOut
<1>16. ASSUME ~Over(y)
       PROVE  /\ ~m.farewell /\ m.reminded = R \cup {d}
              /\ timer' = left \cup {Look(d)} /\ ~Pays(m.effects)
  <2>1. /\ m.farewell = n.farewell /\ m.reminded = n.reminded \cup {d}
        /\ RemindersSet(m.effects, clock) = IF d \in n.reminded THEN {} ELSE {Look(d)}
        /\ ~Pays(m.effects)
    BY <1>2, <1>5, <1>6, <1>16, SayGoing
  <2>2. d \in R => Look(d) \in left
    BY <1>1 DEF R, Goes
  <2> HIDE DEF d
  <2> QED
    BY <1>5, <1>9, <2>1, <2>2
<1>17. ASSUME Over(y)
       PROVE  /\ m.farewell /\ Pays(m.effects)
              /\ timer' = left \cup {Goodbye(clock + Farewell)}
  BY <1>5, <1>6, <1>9, <1>17, SayOver
<1>18. g' = mod'.game
  BY DEF g
<1> HIDE DEF d
<1>19. ~Over(y) => /\ ~mod'.farewell /\ mod'.reminded = R \cup {d}
                   /\ timer' = left \cup {Look(d)}
  BY <1>10, <1>16
<1>20. Over(y) => /\ mod'.farewell /\ endedAt' = clock
                  /\ timer' = left \cup {Goodbye(clock + Farewell)}
  BY <1>1, <1>9, <1>10, <1>15, <1>17
<1>21. paid' = Over(y)
  <2>1. Pays(m.effects) <=> Over(y)
    BY <1>16, <1>17
  <2>2. Pays(m.effects) \in BOOLEAN /\ Over(y) \in BOOLEAN
    BY DEF Pays, Over
  <2>3. paid' = (paid \/ Pays(m.effects))
    BY <1>9
  <2> QED
    BY <1>1, <2>1, <2>2, <2>3
<1> QED
  BY <1>2, <1>8, <1>10, <1>13, <1>14, <1>18, <1>19, <1>20, <1>21 DEF d, R

\* Whoever dies was called for, and whoever was called for dies.
LEMMA GoesJustly ==
  ASSUME IInv, NEW y, NEW left, NEW counted, NEW m, Goes(y, left, counted, m)
  PROVE  unjust' = {}
<1> DEFINE died == g.living \ y.living
<1>1. /\ m.game.living = y.living /\ m.game.phase = y.phase /\ (Over(m.game) <=> Over(y))
  <2>1. InPlay(y) /\ m.game = [y EXCEPT !.says = << >>]
    BY GoesFields
  <2> QED
    BY <2>1, HeardOut
<1>2. unjust = {} /\ g.living \in SUBSET Players
  BY DEF IInv, DeathsAreCalledFor, Played, InPlay, GameType, Goes
<1>3. unjust' = unjust
        \cup {p \in died : p \notin Condemned(counted) \ Shielded(counted)}
        \cup IF (Over(y) \/ y.phase # g.phase) /\ died = {} /\ Condemned(counted) \cap Shielded(counted) = {}
               THEN Condemned(counted) ELSE {}
  BY <1>1 DEF Goes, Judge, Living
<1>4. Turns(g, counted, y, clock)
  BY DEF Goes
<1> HIDE DEF died
<1>5. CASE Stayed(g, y)
  <2>1. died = {} /\ ~Over(y) /\ y.phase = g.phase
    BY <1>5 DEF Stayed, died
  <2> QED
    BY <1>2, <1>3, <2>1
<1>6. ASSUME NEW gone \in SUBSET g.living, PhaseOver(g, y, gone, clock), Called(counted, gone)
      PROVE  unjust' = {}
  <2>1. died = gone
    BY <1>6 DEF PhaseOver, died
  <2> QED
    BY <1>2, <1>3, <1>6, <2>1 DEF Called
<1> QED
  BY <1>4, <1>5, <1>6 DEF Turns

\* Lengths of rounds.
LEMMA Rounds ==
  /\ NightLimit \in Nat /\ RoundLimit \in Nat /\ Limit["Nominate"] \in Nat
  /\ RoundLimit = NightLimit + Limit["Nominate"] + 2 * MaxLate
  /\ \A n \in Nat \ {0} : (n - 1) * RoundLimit \in Nat /\ n * RoundLimit = (n - 1) * RoundLimit + RoundLimit
<1>1. NightLimit \in Nat /\ Limit["Nominate"] \in Nat /\ MaxLate \in Nat
  BY NightLimitType, TimingAssumption, LateAssumption DEF Kinds
<1>2. RoundLimit \in Nat /\ RoundLimit = NightLimit + Limit["Nominate"] + 2 * MaxLate
  BY <1>1 DEF RoundLimit
<1>3. ASSUME NEW n \in Nat \ {0}
      PROVE  (n - 1) * RoundLimit \in Nat /\ n * RoundLimit = (n - 1) * RoundLimit + RoundLimit
  BY <1>2
<1> QED
  BY <1>1, <1>2, <1>3

\* Each phase is over in its time.
LEMMA GoesInTime ==
  ASSUME IInv, NEW y, NEW left, NEW counted, NEW m, Goes(y, left, counted, m), ~Over(y)
  PROVE  Timely' /\ OnSchedule'
<1> DEFINE B(x) == Before(x) + IF x.phase = "Night" THEN NightLimit ELSE RoundLimit - MaxLate
           C(x) == Before(x) + IF x.phase = "Night" THEN NightLimit + MaxLate ELSE RoundLimit
<1>1. /\ InPlay(g) /\ ~Over(g) /\ g.begun /\ clock \in Nat /\ g.round \in Nat \ {0} /\ g.phase \in Phases
      /\ \A k \in Open(g) : g.sessions[k].limit <= B(g)
      /\ clock <= C(g)
  <2>1. InPlay(g) /\ ~Over(g) /\ g.begun /\ clock \in Nat
    BY DEF IInv, Typed, Played, Goes
  <2>2. g.round \in 1 .. DayCap /\ g.phase \in Phases /\ DayCap \in Nat
    BY <2>1, TimingAssumption DEF InPlay, GameType
  <2>3. \A k \in Open(g) : g.sessions[k].limit <= B(g)
    BY <2>1 DEF IInv, Timely
  <2>4. clock <= C(g)
    BY <2>1 DEF IInv, OnSchedule, Before
  <2> HIDE DEF B, C
  <2> QED
    BY <2>1, <2>2, <2>3, <2>4
<1>2. /\ InPlay(y) /\ g' = [y EXCEPT !.says = << >>] /\ clock' = clock
  BY GoesFields DEF Goes
<1>3. /\ g'.round = y.round /\ g'.phase = y.phase /\ g'.sessions = y.sessions /\ Open(g') = Open(y)
  BY <1>2, HeardOut
<1>4. Turns(g, counted, y, clock)
  BY DEF Goes
<1>5. (\A k \in Open(y) : y.sessions[k].limit <= B(y)) /\ clock <= C(y)
  <2>1. CASE Stayed(g, y)
    <3>1. B(y) = B(g) /\ C(y) = C(g)
      BY <2>1 DEF Stayed, Before
    <3> QED
      BY <1>1, <2>1, <3>1 DEF Stayed
  <2>2. CASE NewPhase(g, y, clock)
    <3>1. \A k \in Open(y) : y.sessions[k].limit = clock + Limit[k] /\ k \in Kinds /\ PhaseOf(k) = y.phase
      BY <1>2, <2>2, UnopenedType DEF NewPhase, InPlay, Open
    <3> DEFINE b == Before(g)
    <3>2. b \in Nat /\ NightLimit \in Nat /\ RoundLimit \in Nat /\ Limit["Nominate"] \in Nat /\ MaxLate \in Nat
          /\ RoundLimit = NightLimit + Limit["Nominate"] + 2 * MaxLate
      BY <1>1, Rounds, LateAssumption DEF Before
    <3>3. CASE g.phase = "Night"
      <4>1. y.phase = "Day" /\ Before(y) = b
        BY <2>2, <3>3 DEF NewPhase, Before
      <4>2. \A k \in Open(y) : k = "Nominate"
        BY <3>1, <4>1 DEF PhaseOf
      <4>3. clock <= b + NightLimit + MaxLate
        BY <1>1, <3>2, <3>3
      <4>4. B(y) = b + (RoundLimit - MaxLate) /\ C(y) = b + RoundLimit
        BY <4>1
      <4> HIDE DEF b, B, C
      <4>5. clock + Limit["Nominate"] <= B(y) /\ clock <= C(y)
        BY <1>1, <3>2, <4>3, <4>4
      <4> QED
        BY <3>1, <4>2, <4>5
    <3>4. CASE g.phase = "Day"
      <4>1. y.phase = "Night" /\ Before(y) = b + RoundLimit
        <5>1. y.phase = "Night" /\ y.round = g.round + 1
          BY <2>2, <3>4 DEF NewPhase
        <5>2. g.round * RoundLimit = (g.round - 1) * RoundLimit + RoundLimit
          BY <1>1, Rounds
        <5>3. y.round - 1 = g.round
          BY <1>1, <5>1
        <5> QED
          BY <5>1, <5>2, <5>3, Zenon DEF Before
      <4>2. \A k \in Open(y) : k \in Kinds \ {"Nominate"}
        BY <3>1, <4>1 DEF PhaseOf
      <4>3. clock <= b + RoundLimit
        BY <1>1, <3>4
      <4>4. B(y) = b + RoundLimit + NightLimit /\ C(y) = b + RoundLimit + (NightLimit + MaxLate)
        BY <4>1
      <4> HIDE DEF b, B, C
      <4>5. \A k \in Open(y) : Limit[k] \in Nat /\ Limit[k] <= NightLimit
        BY <4>2, NightLimitType, TimingAssumption
      <4>6. \A k \in Open(y) : clock + Limit[k] <= B(y)
        BY <1>1, <3>2, <4>3, <4>4, <4>5
      <4>7. clock <= C(y)
        BY <1>1, <3>2, <4>3, <4>4
      <4> QED
        BY <3>1, <4>6, <4>7
    <3> QED
      BY <1>1, <3>3, <3>4 DEF Phases
  <2> QED
    BY <1>4, <2>1, <2>2 DEF Turns, PhaseOver, Finished
<1>6. B(g') = B(y) /\ C(g') = C(y)
  BY <1>3 DEF Before
<1>7. Timely'
  BY <1>3, <1>5, <1>6 DEF Timely
<1>8. OnSchedule'
  BY <1>2, <1>5, <1>6 DEF OnSchedule, Before
<1> QED
  BY <1>7, <1>8
\* A call while the game goes on keeps the invariant.
LEMMA GoesOn ==
  ASSUME IInv, NEW y, NEW left, NEW counted, NEW m, Goes(y, left, counted, m)
  PROVE  IInv'
<1>1. /\ InPlay(y) /\ mod' \in ModType /\ mod'.effects = << >> /\ g' = [y EXCEPT !.says = << >>]
      /\ ~mod'.stopped /\ running' = y.living /\ ~refused'
      /\ ~Over(y) => /\ ~mod'.farewell
                     /\ mod'.reminded = {r.deadline : r \in left} \cup {Min(Deadlines(y))}
                     /\ timer' = left \cup {Look(Min(Deadlines(y)))}
      /\ paid' = Over(y)
      /\ Over(y) => /\ mod'.farewell /\ endedAt' = clock
                    /\ timer' = left \cup {Goodbye(clock + Farewell)}
  BY GoesFields
<1>2. /\ InPlay(g') /\ g'.says = << >> /\ (Over(g') <=> Over(y)) /\ Open(g') = Open(y)
      /\ Deadlines(g') = Deadlines(y) /\ g'.living = y.living
  BY <1>1, HeardOut
<1>3. g'.begun
  BY <1>2 DEF InPlay
<1>4. /\ clock \in Nat /\ \A r \in timer : r = Look(r.deadline)
      /\ left \subseteq timer /\ clock' = clock
  BY DEF IInv, Typed, FarewellIsSet, Goes
<1>5. Typed'
  BY <1>1, <1>2, <1>4 DEF Typed
<1>6. Played'
  BY <1>2, <1>3 DEF Played
<1>7. FarewellIsSet'
  <2>1. CASE Over(y)
    <3>1. \A r \in left : r.is = "look"
      BY <1>4 DEF Look
    <3>2. Goodbye(clock + Farewell).deadline = clock + Farewell
      BY DEF Goodbye
    <3> QED
      BY <1>1, <1>2, <2>1, <3>1, <3>2 DEF FarewellIsSet
  <2>2. CASE ~Over(y)
    <3>1. Look(Min(Deadlines(y))).deadline = Min(Deadlines(y))
      BY DEF Look
    <3>2. \A r \in timer' : r = Look(r.deadline)
      BY <1>1, <1>4, <2>2, <3>1
    <3>3. ~Over(g') /\ ~mod'.farewell /\ ~mod'.stopped
      BY <1>1, <1>2, <2>2
    <3>4. paid' = FALSE /\ Over(g') = FALSE
      BY <1>1, <2>2, <3>3 DEF Over
    <3> QED
      BY <3>2, <3>3, <3>4 DEF FarewellIsSet
  <2> QED
    BY <2>1, <2>2
<1>8. Timely' /\ OnSchedule'
  <2>1. CASE Over(y)
    BY <1>2, <2>1 DEF Timely, OnSchedule
  <2>2. CASE ~Over(y)
    BY <2>2, GoesInTime
  <2> QED
    BY <2>1, <2>2
<1>9. ClockIsWatched'
  <2>1. CASE Over(y)
    BY <1>2, <2>1 DEF ClockIsWatched
  <2>2. CASE ~Over(y)
    <3> DEFINE d == Min(Deadlines(y))
    <3>1. Look(d).deadline = d
      BY DEF Look
    <3> HIDE DEF d
    <3>2. mod'.reminded = {r.deadline : r \in left} \cup {d} /\ timer' = left \cup {Look(d)}
      BY <1>1, <2>2 DEF d
    <3>3. mod'.reminded = {r.deadline : r \in timer'}
      BY <3>1, <3>2
    <3>4. Open(y) # {}
      BY <1>1, <2>2 DEF InPlay
    <3>5. Min(Deadlines(g')) = d
      BY <1>2 DEF d
    <3>6. Open(g') # {} /\ d \in mod'.reminded
      BY <1>2, <3>2, <3>4
    <3> QED
      BY <3>3, <3>5, <3>6 DEF ClockIsWatched
  <2> QED
    BY <2>1, <2>2
<1>10. OnlyTheLivingRun'
  BY <1>1, <1>2 DEF OnlyTheLivingRun, Living
<1>11. FarewellIsGiven'
  BY <1>1 DEF FarewellIsGiven
<1>12. DeathsAreCalledFor'
  BY GoesJustly DEF DeathsAreCalledFor
<1> QED
  BY <1>5, <1>6, <1>7, <1>8, <1>9, <1>10, <1>11, <1>12 DEF IInv

(***************************************************************************)
(* The calls.                                                              *)
(***************************************************************************)
\* Whatever players may send can be counted, if its session is still there, and
\* is for others.
LEMMA SelectionsCount ==
  ASSUME InPlay(g), NEW p \in Players, NEW sel \in Selections(p)
  PROVE  InSession(g, p, sel) => Counts(g, p, sel) /\ p \notin sel.seenBy
<1> DEFINE made(r, k, t) == Selection(r, k, t, Audience(p, k))
           anyone == CHOOSE q \in Players \ {p} : TRUE
           rounds == {g.round, g.round - 1} \ {0}
           kinds  == {AskedIn(RoleOf[p], ph) : ph \in Phases} \ {Nothing}
<1>1. PICK r \in rounds, k \in kinds :
        sel \in (IF Passed(made(r, k, anyone)) THEN {made(r, k, anyone)}
                 ELSE {made(r, k, q) : q \in {t \in Players \ {p} :
                         InSession(g, p, made(r, k, t)) /\ ~Panics(g, p, made(r, k, t))}})
  BY DEF Selections
<1>2. g.living \in SUBSET Players
  BY DEF InPlay, GameType
<1>3. CASE Passed(made(r, k, anyone))
  <2>1. sel = made(r, k, anyone)
    BY <1>1, <1>3
  <2> HIDE DEF made
  <2>2. Passed(sel)
    BY <1>3, <2>1
  <2>3. g.round \in Nat
    BY DEF InPlay, GameType
  <2>4. Over(g) => Open(g) = {}
    BY UnopenedType DEF InPlay, Open
  <2>5. g.phase = "Day" => \A j \in Open(g) : PhaseOf(j) # "Night"
    BY UnopenedType DEF InPlay, Open
  <2>6. ~InSession(g, p, sel)
    BY <2>2, <2>3, <2>4, <2>5 DEF Passed, InSession, Open
  <2> QED
    BY <2>6
<1>4. CASE ~Passed(made(r, k, anyone))
  <2>1. PICK t \in Players : sel = made(r, k, t) /\ InSession(g, p, sel) /\ ~Panics(g, p, sel)
    BY <1>1, <1>4
  <2>2. sel.seenBy = Audience(p, k)
    BY <2>1 DEF Selection
  <2>3. Audience(p, k) \in SUBSET g.living /\ p \notin Audience(p, k)
    BY DEF Audience, Living
  <2> QED
    BY <2>1, <2>2, <2>3 DEF Counts, Panics
<1> QED
  BY <1>3, <1>4
\* The game a selection is counted in.
LEMMA CountingSelects ==
  ASSUME InPlay(g), NEW p \in Players, NEW sel
  PROVE  Selected(g, p, sel, Counting(p, sel))
<1> DEFINE k == sel.kind
           s == [g.sessions[k] EXCEPT !.selections = [g.sessions[k].selections EXCEPT ![p] = sel.target]]
           ss == [g.sessions EXCEPT ![k] = s]
           c == [g EXCEPT !.sessions = ss]
<1>1. g \in GameType /\ g.sessions \in [Kinds -> Seats]
  BY DEF InPlay, GameType
<1>2. CASE ~InSession(g, p, sel)
  <2>1. Counting(p, sel) = g
    BY <1>2 DEF Counting
  <2> QED
    BY <1>2, <2>1 DEF Selected
<1>3. CASE InSession(g, p, sel)
  <2>1. Counting(p, sel) = c
    BY <1>3 DEF Counting
  <2>2. k \in Kinds /\ g.sessions[k] \in Seats
    BY <1>1, <1>3 DEF InSession, Open
  <2>3. s.selections = [g.sessions[k].selections EXCEPT ![p] = sel.target]
    BY <2>2 DEF Seats
  <2> HIDE DEF s
  <2>4. ss[k] = s /\ \A j \in Kinds \ {k} : ss[j] = g.sessions[j]
    BY <1>1, <2>2
  <2> HIDE DEF ss
  <2>5. c.living = g.living /\ c.phase = g.phase /\ c.sessions = ss
    BY <1>1 DEF GameType
  <2> HIDE DEF c
  <2> QED
    BY <1>3, <2>1, <2>3, <2>4, <2>5 DEF Selected
<1> QED
  BY <1>2, <1>3

\* A selection that arrives while the game goes on.
LEMMA HearingGoes ==
  ASSUME IInv, NEW p \in Players, NEW sel \in Selections(p), NEW luck,
         Answered(Hearing(p, sel, luck), Counting(p, sel), timer), ~Over(g)
  PROVE  Goes(Expire(Select(g, p, sel, clock), clock, luck), timer, Counting(p, sel),
              Hearing(p, sel, luck))
<1> DEFINE y == Expire(Select(g, p, sel, clock), clock, luck)
           m == Hearing(p, sel, luck)
<1>1. g.begun /\ InPlay(g) /\ clock \in Nat /\ mod \in ModType /\ mod.reminded = {r.deadline : r \in timer}
  BY DEF Answered, IInv, Played, Typed, ClockIsWatched
<1>2. Turns(g, Counting(p, sel), y, clock) /\ KeepsTelling(g, y)
  BY <1>1, SelectionsCount, CountingSelects, SelectionPlays
<1>3. m = Say([mod EXCEPT !.game = y, !.reminded = {r.deadline : r \in timer}])
  <2>1. m = Say([mod EXCEPT !.game = y])
    BY DEF Hearing, Step, Fold, g
  <2> HIDE DEF y
  <2>2. [mod EXCEPT !.game = y, !.reminded = mod.reminded] = [mod EXCEPT !.game = y]
    BY <1>1 DEF ModType
  <2> QED
    BY <1>1, <2>1, <2>2
<1> HIDE DEF y, m
<1>4. Goes(y, timer, Counting(p, sel), m)
  BY <1>1, <1>2, <1>3 DEF Goes, Answered, m
<1> QED
  BY <1>4 DEF y, m

\* A look that comes back while the game goes on: it was for the deadline it
\* names, and is forgotten under it.
LEMMA WakingGoes ==
  ASSUME IInv, NEW r \in timer, NEW luck, Answered(Waking(r, luck), g, timer \ {r}), ~Over(g)
  PROVE  Goes(Expire(g, clock, luck), timer \ {r}, g, Waking(r, luck))
<1> DEFINE y == Expire(g, clock, luck)
           m == Waking(r, luck)
           left == timer \ {r}
<1>1. /\ g.begun /\ InPlay(g) /\ clock \in Nat /\ mod \in ModType
      /\ mod.reminded = {q.deadline : q \in timer} /\ \A q \in timer : q = Look(q.deadline)
  BY DEF Answered, IInv, Played, Typed, ClockIsWatched, FarewellIsSet
<1>2. Turns(g, g, y, clock) /\ KeepsTelling(g, y)
  BY <1>1, ExpirePlays
<1>3. mod.reminded \ {r.deadline} = {q.deadline : q \in left}
  BY <1>1
<1>4. r.is = "look"
  BY <1>1 DEF Look
<1>5. m = Say([mod EXCEPT !.game = y, !.reminded = {q.deadline : q \in left}])
  <2>1. m = Say([mod EXCEPT !.reminded = mod.reminded \ {r.deadline}, !.game = y])
    BY <1>4 DEF Waking, Step, Fold, g
  <2> DEFINE R == mod.reminded \ {r.deadline}
  <2> HIDE DEF y, R
  <2>2. [mod EXCEPT !.reminded = R, !.game = y] = [mod EXCEPT !.game = y, !.reminded = R]
    BY <1>1 DEF ModType
  <2> QED
    BY <1>3, <2>1, <2>2 DEF R
<1> HIDE DEF y, m
<1>6. Goes(y, left, g, m)
  BY <1>1, <1>2, <1>5 DEF Goes, Answered, m
<1> QED
  BY <1>6 DEF y, m, left

(***************************************************************************)
(* The end.                                                                *)
(***************************************************************************)
\* With the game over there is nobody the selections call for: there are none.
LEMMA OverCallsForNobody ==
  ASSUME NEW x, InPlay(x), Over(x)
  PROVE  Condemned(x) = {}
<1>1. x \in GameType /\ x.living \in SUBSET Players /\ \A k \in Kinds : x.sessions[k] = Unopened
  BY DEF InPlay, GameType
<1>2. Cardinality(x.living) \in Nat
  BY <1>1, PlayersAreFinite
<1>3. ASSUME NEW k \in Kinds, NEW p \in Players PROVE Wanted(x, k, p) = 0
  <2>1. x.sessions[k].selections = [q \in Players |-> Nobody]
    BY <1>1 DEF Unopened
  <2>2. {q \in x.living : x.sessions[k].selections[q] = p} = {}
    BY <1>1, <2>1, DealAssumption
  <2> QED
    BY <2>2, FS_EmptySet DEF Wanted
<1>4. "Nominate" \in Kinds /\ "Devour" \in Kinds
  BY DEF Kinds
<1>5. CASE x.phase = "Day"
  BY <1>2, <1>3, <1>4, <1>5 DEF Condemned
<1>6. CASE x.phase # "Day"
  BY <1>3, <1>4, <1>6 DEF Condemned
<1> QED
  BY <1>5, <1>6

\* What a call once the game is over leaves: nothing, or, the farewell back,
\* everybody stopped.
LEMMA OverFields ==
  ASSUME IInv, NEW m, NEW left, g.begun, Over(g), ~mod.stopped,
         \/ m = [mod EXCEPT !.effects = << >>]
         \/ /\ m = [mod EXCEPT !.stopped = TRUE, !.effects = <<Command(g.living, "stop")>>]
            /\ clock >= endedAt + Farewell,
         left \subseteq timer, CarryOut(m), timer' = left \cup RemindersSet(m.effects, clock)
  PROVE  /\ g' = g /\ m.game = g /\ mod' \in ModType /\ mod'.effects = << >> /\ mod'.stopped = m.stopped
         /\ mod'.farewell /\ running' = (IF m.stopped THEN {} ELSE g.living) /\ m.stopped \in BOOLEAN
         /\ paid' = TRUE /\ ~refused' /\ endedAt' = endedAt /\ timer' \subseteq timer
         /\ m.stopped => clock >= endedAt + Farewell
<1>1. /\ InPlay(g) /\ mod \in ModType /\ mod.effects = << >> /\ g.says = << >> /\ clock \in Nat
      /\ mod.farewell /\ paid /\ ~refused /\ running = g.living
      /\ \A r \in timer : r.is = "farewell" => r.deadline = endedAt + Farewell
  BY DEF IInv, Played, Typed, FarewellIsSet, OnlyTheLivingRun, Living
<1>2. g.living \in SUBSET Players
  BY <1>1 DEF InPlay, GameType
<1>3. /\ (running \cup Starts(m.effects)) \ Stops(m.effects, Len(m.effects)) = IF m.stopped THEN {} ELSE g.living
      /\ ~Refuses(m.effects, running) /\ RemindersSet(m.effects, clock) = {}
      /\ m.game = mod.game /\ m.farewell = mod.farewell
      /\ m.stopped => clock >= endedAt + Farewell
      /\ m.stopped \in BOOLEAN
      /\ [m EXCEPT !.effects = << >>] = [mod EXCEPT !.stopped = m.stopped]
  <2>1. CASE m = [mod EXCEPT !.effects = << >>]
    <3>1. m.effects = << >> /\ m.game = mod.game /\ m.farewell = mod.farewell /\ m.stopped = FALSE
      BY <1>1, <2>1 DEF ModType
    <3>2. [m EXCEPT !.effects = << >>] = [mod EXCEPT !.stopped = FALSE]
      BY <1>1, <2>1 DEF ModType
    <3> QED
      BY <1>1, <3>1, <3>2, NothingIsDone
  <2>2. CASE /\ m = [mod EXCEPT !.stopped = TRUE, !.effects = <<Command(g.living, "stop")>>]
             /\ clock >= endedAt + Farewell
    <3> DEFINE e == <<Command(g.living, "stop")>>
    <3> HIDE DEF e
    <3>1. m.effects = e /\ m.game = mod.game /\ m.farewell = mod.farewell /\ m.stopped = TRUE
      BY <1>1, <2>2 DEF ModType, e
    <3>2. [m EXCEPT !.effects = << >>] = [mod EXCEPT !.stopped = TRUE]
      BY <1>1, <2>2 DEF ModType
    <3>3. /\ (g.living \cup Starts(e)) \ Stops(e, Len(e)) = {} /\ ~Refuses(e, g.living)
          /\ \A now : RemindersSet(e, now) = {}
      BY <1>2, StopsTheLiving DEF e
    <3> QED
      BY <1>1, <2>2, <3>1, <3>2, <3>3
  <2> QED
    BY <2>1, <2>2
<1>4. /\ mod' = [mod EXCEPT !.stopped = m.stopped] /\ running' = (IF m.stopped THEN {} ELSE g.living)
      /\ paid' = TRUE /\ ~refused' /\ endedAt' = endedAt /\ timer' \subseteq timer
  BY <1>1, <1>3 DEF CarryOut, g
<1>5. /\ mod' \in ModType /\ mod'.game = mod.game /\ mod'.effects = << >> /\ mod'.stopped = m.stopped
      /\ mod'.farewell
  BY <1>1, <1>3, <1>4 DEF ModType
<1>6. g' = g /\ m.game = g
  BY <1>3, <1>5 DEF g
<1> QED
  BY <1>3, <1>4, <1>5, <1>6

\* A call once the game is over: nothing, or, the farewell back, everybody
\* stopped.
LEMMA OverAndDone ==
  ASSUME IInv, NEW m, NEW left, g.begun, Over(g), ~mod.stopped,
         \/ m = [mod EXCEPT !.effects = << >>]
         \/ /\ m = [mod EXCEPT !.stopped = TRUE, !.effects = <<Command(g.living, "stop")>>]
            /\ clock >= endedAt + Farewell,
         left \subseteq timer, CarryOut(m), timer' = left \cup RemindersSet(m.effects, clock),
         Judge(g, m), clock' = clock
  PROVE  IInv'
<1>1. /\ InPlay(g) /\ mod.effects = << >> /\ g.says = << >> /\ clock \in Nat /\ unjust = {}
      /\ \A r \in timer : r.is = "farewell" => r.deadline = endedAt + Farewell
  BY DEF IInv, Played, Typed, FarewellIsSet, DeathsAreCalledFor
<1>2. g.living \in SUBSET Players
  BY <1>1 DEF InPlay, GameType
<1>3. /\ g' = g /\ m.game = g /\ mod' \in ModType /\ mod'.effects = << >> /\ mod'.stopped = m.stopped
      /\ mod'.farewell /\ running' = (IF m.stopped THEN {} ELSE g.living) /\ m.stopped \in BOOLEAN
      /\ paid' = TRUE /\ ~refused' /\ endedAt' = endedAt /\ timer' \subseteq timer
      /\ m.stopped => clock >= endedAt + Farewell
  BY OverFields
<1>4. unjust' = {}
  <2>1. g.living \ m.game.living = {} /\ Condemned(g) = {}
    BY <1>1, <1>3, OverCallsForNobody
  <2> QED
    BY <1>1, <2>1 DEF Judge, Living
<1>5. Typed' /\ Played'
  BY <1>1, <1>3 DEF Typed, Played
<1>6. FarewellIsSet'
  BY <1>1, <1>3 DEF FarewellIsSet
<1>7. Timely' /\ OnSchedule' /\ ClockIsWatched'
  BY <1>3 DEF Timely, OnSchedule, ClockIsWatched
<1>8. OnlyTheLivingRun'
  BY <1>3 DEF OnlyTheLivingRun, Living
<1>9. FarewellIsGiven'
  BY <1>3 DEF FarewellIsGiven
<1>10. DeathsAreCalledFor'
  BY <1>4 DEF DeathsAreCalledFor
<1> QED
  BY <1>5, <1>6, <1>7, <1>8, <1>9, <1>10 DEF IInv
(***************************************************************************)
(* The start.                                                              *)
(***************************************************************************)
\* The moderator a start makes: it starts everybody, says what the game does and
\* looks at the first deadline.
LEMMA StartFields ==
  ASSUME mod = NewModerator
  PROVE  LET m == Start(mod, 0)
             y == Begin(0)
             d == Min(Deadlines(y))
         IN  /\ m \in ModType /\ m.game = [y EXCEPT !.says = << >>]
             /\ ~m.farewell /\ m.reminded = {d} /\ ~m.stopped
             /\ \E e : Carries(e, y.says) /\ m.effects = <<Command(Players, "start")>> \o e
             /\ ({} \cup Starts(m.effects)) \ Stops(m.effects, Len(m.effects)) = Players
             /\ ~Refuses(m.effects, {}) /\ RemindersSet(m.effects, 0) = {Look(d)}
             /\ ~Pays(m.effects)
<1> DEFINE y == Begin(0)
           n == [mod EXCEPT !.game = y]
           o == Say(n)
           r == <<Command(Players, "start")>> \o o.effects
           m == Start(mod, 0)
           d == Min(Deadlines(y))
<1>1. InPlay(y) /\ ~Over(y) /\ Telling(Players, y.says, Players)
  BY BeginPlays
<1>2. y \in GameType /\ y.says \in Seq(Directives)
  BY <1>1 DEF InPlay, GameType
<1>3. m = [o EXCEPT !.effects = r]
  BY DEF Start
<1> HIDE DEF y
<1>4. n \in ModType /\ n.game = y /\ n.reminded = {} /\ ~n.farewell /\ ~n.stopped
  BY <1>2, NewModeratorFields DEF ModType
<1> HIDE DEF n
<1>5. /\ Said(n, o) /\ ~o.farewell /\ o.reminded = {} \cup {d}
      /\ RemindersSet(o.effects, 0) = {Look(d)} /\ ~Pays(o.effects)
  BY <1>1, <1>4, SayGoing
<1> HIDE DEF o
<1>6. o \in ModType /\ o.game = [y EXCEPT !.says = << >>] /\ ~o.stopped /\ Carries(o.effects, y.says)
  BY <1>4, <1>5 DEF Said
<1>7. /\ r \in Seq(Effects) /\ ({} \cup Starts(r)) \ Stops(r, Len(r)) = Players /\ ~Refuses(r, {})
      /\ RemindersSet(r, 0) = {Look(d)} /\ ~Pays(r)
  <2>1. r = <<Command(Players, "start")>> \o o.effects
    OBVIOUS
  <2> HIDE DEF r
  <2>2. StartsThem(r, o.effects, Players)
    BY <1>1, <1>2, <1>6, <2>1, StartedOut
  <2> QED
    BY <1>5, <2>2 DEF StartsThem
<1>8. r = <<Command(Players, "start")>> \o o.effects
  OBVIOUS
<1> HIDE DEF r, m, d
<1>9. /\ m \in ModType /\ m.effects = r /\ m.game = o.game /\ m.farewell = o.farewell
       /\ m.reminded = o.reminded /\ m.stopped = o.stopped
  BY <1>3, <1>6, <1>7 DEF ModType
<1>10. \E e : Carries(e, y.says) /\ m.effects = <<Command(Players, "start")>> \o e
  BY <1>6, <1>8, <1>9
<1> QED
  BY <1>5, <1>6, <1>7, <1>9, <1>10 DEF m, y, d

\* The start: the first night begins, with a look set at its first deadline.
LEMMA Opens ==
  ASSUME IInv, Opened
  PROVE  IInv'
<1> DEFINE y == Begin(0)
           m == Start(mod, 0)
           d == Min(Deadlines(y))
<1>1. mod = NewModerator /\ timer = {} /\ clock = 0 /\ running = {} /\ ~refused /\ unjust = {}
      /\ paid = FALSE
  <2>1. /\ mod = NewModerator /\ timer = {} /\ clock = 0 /\ running = {} /\ ~refused /\ unjust = {}
        /\ paid = Over(g)
    BY DEF IInv, Played, OnlyTheLivingRun, DeathsAreCalledFor, FarewellIsSet, Opened
  <2>2. ~Over(g)
    BY <2>1, NewModeratorFields DEF g
  <2> QED
    BY <2>1, <2>2 DEF Over
<1>2. /\ InPlay(y) /\ ~Over(y) /\ y.living = Players /\ y.round = 1 /\ y.phase = "Night"
      /\ \A k \in Open(y) : y.sessions[k].limit = 0 + Limit[k]
  BY BeginPlays
<1>3. /\ m \in ModType /\ m.game = [y EXCEPT !.says = << >>]
      /\ ~m.farewell /\ m.reminded = {d} /\ ~m.stopped
      /\ ({} \cup Starts(m.effects)) \ Stops(m.effects, Len(m.effects)) = Players
      /\ ~Refuses(m.effects, {}) /\ RemindersSet(m.effects, 0) = {Look(d)} /\ ~Pays(m.effects)
  BY <1>1, StartFields
<1> HIDE DEF y, m
<1>4. /\ mod' = [m EXCEPT !.effects = << >>]
       /\ running' = (running \cup Starts(m.effects)) \ Stops(m.effects, Len(m.effects))
       /\ refused' = (refused \/ Refuses(m.effects, running))
       /\ timer' = RemindersSet(m.effects, 0) /\ clock' = clock /\ unjust' = unjust
       /\ paid' = (paid \/ Pays(m.effects))
  BY DEF Opened, CarryOut, m
<1>5. /\ mod' \in ModType /\ mod'.effects = << >> /\ mod'.game = m.game /\ ~mod'.farewell
       /\ mod'.reminded = {d} /\ ~mod'.stopped
  <2>1. << >> \in Seq(Effects)
    OBVIOUS
  <2> QED
    BY <1>3, <1>4, <2>1 DEF ModType
<1>6. running' = Players /\ ~refused' /\ timer' = {Look(d)} /\ clock' = 0 /\ unjust' = {}
      /\ paid' = FALSE
  BY <1>1, <1>3, <1>4
<1>7. g' = [y EXCEPT !.says = << >>]
  BY <1>3, <1>5 DEF g
<1>8. /\ InPlay(g') /\ g'.says = << >> /\ ~Over(g') /\ Open(g') = Open(y) /\ Min(Deadlines(g')) = d
       /\ g'.living = Players /\ g'.round = 1 /\ g'.phase = "Night" /\ g'.sessions = y.sessions
  BY <1>2, <1>7, HeardOut
<1>9. Look(d).deadline = d
  BY DEF Look
<1> HIDE DEF d
<1>10. Typed' /\ Played'
  BY <1>5, <1>6, <1>8 DEF Typed, Played, InPlay
<1>11. FarewellIsSet'
  <2>1. Over(g') = FALSE
    BY <1>8 DEF Over
  <2> QED
    BY <1>5, <1>6, <1>9, <2>1 DEF FarewellIsSet
<1>12. Timely' /\ OnSchedule'
  <2>1. \A k \in Open(g') : k \in Kinds \ {"Nominate"} /\ g'.sessions[k].limit = Limit[k]
    <3>1. ASSUME NEW k \in Open(g') PROVE k \in Kinds \ {"Nominate"} /\ g'.sessions[k].limit = Limit[k]
      <4>1. k \in Kinds /\ PhaseOf(k) = "Night" /\ g'.sessions[k].limit = 0 + Limit[k] /\ Limit[k] \in Nat
        BY <1>2, <1>8, UnopenedType, TimingAssumption DEF InPlay, Open
      <4> QED
        BY <4>1 DEF PhaseOf
    <3> QED
      BY <3>1
  <2>2. (1 - 1) * RoundLimit = 0 /\ RoundLimit \in Nat /\ NightLimit \in Nat
    BY Rounds
  <2>3. Before(g') = 0
    BY <1>8, <2>2 DEF Before
  <2>4. Timely'
    BY <1>8, <2>1, <2>2, <2>3, NightLimitType, TimingAssumption DEF Timely
  <2>5. OnSchedule'
    BY <1>6, <1>8, <2>2, <2>3, LateAssumption DEF OnSchedule, Before
  <2> QED
    BY <2>4, <2>5
<1>13. ClockIsWatched'
  BY <1>5, <1>6, <1>8, <1>9 DEF ClockIsWatched, InPlay
<1>14. OnlyTheLivingRun'
  BY <1>5, <1>6, <1>8 DEF OnlyTheLivingRun, Living
<1>15. FarewellIsGiven' /\ DeathsAreCalledFor'
  BY <1>5, <1>6 DEF FarewellIsGiven, DeathsAreCalledFor
<1> QED
  BY <1>10, <1>11, <1>12, <1>13, <1>14, <1>15 DEF IInv
(***************************************************************************)
(* Every step.                                                             *)
(***************************************************************************)
\* The invariant holds before the moderator is started.
LEMMA InitIInv == Init => IInv
<1> SUFFICES ASSUME Init PROVE IInv
  OBVIOUS
<1>1. /\ mod = NewModerator /\ clock = 0 /\ timer = {} /\ running = {}
      /\ ~refused /\ unjust = {} /\ g = NewGame /\ paid = FALSE
  BY NewModeratorFields DEF Init, g
<1>2. Typed /\ Played /\ FarewellIsSet
  <2>1. Over(g) = FALSE
    BY <1>1, NewModeratorFields DEF Over
  <2> QED
    BY <1>1, <2>1, NewModeratorFields DEF Typed, Played, FarewellIsSet
<1>3. Timely /\ ClockIsWatched /\ OnlyTheLivingRun /\ FarewellIsGiven /\ DeathsAreCalledFor
  BY <1>1, NewModeratorFields DEF Timely, ClockIsWatched, OnlyTheLivingRun, FarewellIsGiven, DeathsAreCalledFor
<1>4. OnSchedule
  <2>1. (1 - 1) * RoundLimit = 0 /\ RoundLimit \in Nat /\ NightLimit \in Nat
    BY Rounds
  <2> QED
    BY <1>1, <2>1, NewModeratorFields, LateAssumption DEF OnSchedule
<1> QED
  BY <1>2, <1>3, <1>4 DEF IInv

\* Time passes, but not past what the look at the earliest deadline may be late
\* by.
LEMMA Ticks ==
  ASSUME IInv, Tick
  PROVE  IInv'
<1>1. /\ clock' = clock + 1 /\ clock \in Nat /\ timer # {} /\ ~mod.stopped
      /\ \A r \in timer : clock < r.deadline + MaxLate
      /\ mod' = mod /\ timer' = timer /\ running' = running /\ paid' = paid
      /\ refused' = refused /\ unjust' = unjust /\ endedAt' = endedAt
  BY DEF IInv, Typed, Tick, history
<1>2. g' = g
  BY <1>1 DEF g
<1>3. g.begun /\ InPlay(g)
  BY <1>1 DEF IInv, Played
<1>4. Typed' /\ Played'
  BY <1>1, <1>2, <1>3 DEF IInv, Typed, Played
<1>5. FarewellIsSet' /\ Timely' /\ ClockIsWatched' /\ OnlyTheLivingRun' /\ DeathsAreCalledFor' /\ FarewellIsGiven'
  BY <1>1, <1>2 DEF IInv, FarewellIsSet, Timely, ClockIsWatched, OnlyTheLivingRun,
                    DeathsAreCalledFor, FarewellIsGiven, Living
<1>6. OnSchedule'
  <2>1. CASE Over(g)
    BY <1>2, <2>1 DEF OnSchedule
  <2>2. CASE ~Over(g)
    <3> DEFINE d == Min(Deadlines(g))
               b == Before(g)
    <3>1. d \in mod.reminded /\ mod.reminded = {r.deadline : r \in timer} /\ Open(g) # {}
      BY <1>3, <2>2 DEF IInv, ClockIsWatched
    <3>2. clock < d + MaxLate
      BY <1>1, <3>1
    <3>3. d \in Nat /\ \A k \in Open(g) : d <= g.sessions[k].limit
      BY <1>3, <2>2, EarliestDeadline
    <3>4. PICK k \in Open(g) : TRUE
      BY <3>1
    <3>5. g.sessions[k].limit \in Nat
      BY <1>3 DEF InPlay, GameType, Seats, Open
    <3>6. g.sessions[k].limit <= b + IF g.phase = "Night" THEN NightLimit ELSE RoundLimit - MaxLate
      BY <1>3, <2>2 DEF IInv, Timely
    <3>7. b \in Nat /\ NightLimit \in Nat /\ RoundLimit \in Nat /\ MaxLate \in Nat
      <4>1. g.round \in Nat \ {0}
        BY <1>3, TimingAssumption DEF InPlay
      <4> QED
        BY <4>1, Rounds, LateAssumption DEF Before
    <3> HIDE DEF d, b
    <3>8. clock + 1 <= b + IF g.phase = "Night" THEN NightLimit + MaxLate ELSE RoundLimit
      <4>1. clock + 1 <= g.sessions[k].limit + MaxLate
        BY <1>1, <3>2, <3>3, <3>5, <3>7
      <4>2. CASE g.phase = "Night"
        <5>1. g.sessions[k].limit <= b + NightLimit
          BY <3>6, <4>2
        <5>2. clock + 1 <= b + (NightLimit + MaxLate)
          BY <1>1, <3>5, <3>7, <4>1, <5>1
        <5> QED
          BY <4>2, <5>2
      <4>3. CASE g.phase # "Night"
        <5>1. g.sessions[k].limit <= b + (RoundLimit - MaxLate)
          BY <3>6, <4>3
        <5>2. clock + 1 <= b + RoundLimit
          BY <1>1, <3>5, <3>7, <4>1, <5>1
        <5> QED
          BY <4>3, <5>2
      <4> QED
        BY <4>2, <4>3
    <3> QED
      BY <1>1, <1>2, <3>8 DEF OnSchedule, Before, b
  <2> QED
    BY <2>1, <2>2
<1> QED
  BY <1>4, <1>5, <1>6 DEF IInv

\* Once the game is over a selection is nothing to the moderator.
LEMMA HearingOver ==
  ASSUME IInv, g.begun, Over(g), NEW p \in Players, NEW sel, NEW luck
  PROVE  Hearing(p, sel, luck) = [mod EXCEPT !.effects = << >>] /\ Counting(p, sel) = g
<1>1. Hearing(p, sel, luck) = [mod EXCEPT !.effects = << >>]
  BY DEF Hearing, Step, g
<1>2. ~InSession(g, p, sel)
  BY UnopenedType DEF IInv, Played, InPlay, InSession, Open
<1> QED
  BY <1>1, <1>2 DEF Counting

\* So is a reminder but the farewell, which stops everybody.
LEMMA WakingOver ==
  ASSUME IInv, Over(g), ~mod.stopped, NEW r \in timer, r.deadline <= clock, NEW luck
  PROVE  LET m == Waking(r, luck)
         IN  \/ m = [mod EXCEPT !.effects = << >>]
             \/ /\ m = [mod EXCEPT !.stopped = TRUE, !.effects = <<Command(g.living, "stop")>>]
                /\ clock >= endedAt + Farewell
<1> DEFINE m == Waking(r, luck)
<1>1. CASE r.is = "farewell"
  <2>1. m = [mod EXCEPT !.stopped = TRUE, !.effects = <<Command(g.living, "stop")>>]
    BY <1>1 DEF Waking, Step, StopEverybody, g
  <2>2. r.deadline = endedAt + Farewell
    BY <1>1 DEF IInv, FarewellIsSet
  <2> QED
    BY <2>1, <2>2
<1>2. CASE r.is # "farewell"
  BY <1>2 DEF Waking, Step, g
<1> QED
  BY <1>1, <1>2

\* A selection is heard.
LEMMA Hears ==
  ASSUME IInv, NEW p \in Players, NEW sel \in Selections(p), Hear(p, sel)
  PROVE  IInv'
<1>1. PICK luck : Answered(Hearing(p, sel, luck), Counting(p, sel), timer)
  BY DEF Hear
<1>2. CASE ~Over(g)
  BY <1>1, <1>2, HearingGoes, GoesOn
<1>3. CASE Over(g)
  <2> DEFINE m == Hearing(p, sel, luck)
  <2>1. g.begun /\ ~mod.stopped
    BY <1>1 DEF Answered
  <2>2. m = [mod EXCEPT !.effects = << >>] /\ Counting(p, sel) = g
    BY <1>3, <2>1, HearingOver
  <2> HIDE DEF m
  <2>3. /\ CarryOut(m) /\ timer' = timer \cup RemindersSet(m.effects, clock) /\ Judge(g, m)
        /\ clock' = clock
    BY <1>1, <2>2 DEF Answered, m
  <2> QED
    BY <1>3, <2>1, <2>2, <2>3, OverAndDone
<1> QED
  BY <1>2, <1>3

\* A reminder comes back.
LEMMA Wakes ==
  ASSUME IInv, NEW r \in timer, Wake(r)
  PROVE  IInv'
<1>1. PICK luck : Answered(Waking(r, luck), g, timer \ {r})
  BY DEF Wake
<1>2. CASE ~Over(g)
  BY <1>1, <1>2, WakingGoes, GoesOn
<1>3. CASE Over(g)
  <2> DEFINE m == Waking(r, luck)
  <2>1. g.begun /\ ~mod.stopped /\ r.deadline <= clock
    BY <1>1 DEF Answered, Wake
  <2>2. \/ m = [mod EXCEPT !.effects = << >>]
        \/ /\ m = [mod EXCEPT !.stopped = TRUE, !.effects = <<Command(g.living, "stop")>>]
           /\ clock >= endedAt + Farewell
    BY <1>3, <2>1, WakingOver
  <2> HIDE DEF m
  <2>3. /\ CarryOut(m) /\ timer' = (timer \ {r}) \cup RemindersSet(m.effects, clock) /\ Judge(g, m)
        /\ clock' = clock
    BY <1>1 DEF Answered, m
  <2>4. timer \ {r} \subseteq timer
    OBVIOUS
  <2> QED
    BY <1>3, <2>1, <2>2, <2>3, <2>4, OverAndDone
<1> QED
  BY <1>2, <1>3

\* Every step keeps the invariant.
LEMMA StepsKeep == IInv /\ [Next]_vars => IInv'
<1> SUFFICES ASSUME IInv, [Next]_vars PROVE IInv'
  OBVIOUS
<1>1. CASE Opened
  BY <1>1, Opens
<1>2. CASE Tick
  BY <1>2, Ticks
<1>3. ASSUME NEW p \in Players, NEW sel \in Selections(p), Hear(p, sel) PROVE IInv'
  BY <1>3, Hears
<1>4. ASSUME NEW r \in timer, Wake(r) PROVE IInv'
  BY <1>4, Wakes
<1>5. CASE UNCHANGED vars
  <2>1. /\ mod' = mod /\ clock' = clock /\ timer' = timer /\ running' = running /\ paid' = paid
        /\ refused' = refused /\ unjust' = unjust /\ endedAt' = endedAt
    BY <1>5 DEF vars
  <2>2. g' = g
    BY <2>1 DEF g
  <2> QED
    BY <2>1, <2>2 DEF IInv, Typed, Played, FarewellIsSet, Timely, ClockIsWatched, OnlyTheLivingRun,
                      FarewellIsGiven, OnSchedule, DeathsAreCalledFor, Living
<1> QED
  BY <1>1, <1>2, <1>3, <1>4, <1>5 DEF Next, Ended

\* The invariant holds of every state.
THEOREM GameInvariant == Spec => []IInv
  BY InitIInv, StepsKeep, PTL DEF Spec

\* The win condition is checked after every elimination, and only then: the
\* game goes on exactly as long as neither side has won and its days have not
\* run out.
THEOREM WinIsCheckedAtEachDeath == Spec => []UndecidedUntilWon
<1>1. IInv => UndecidedUntilWon
  <2> SUFFICES ASSUME IInv PROVE UndecidedUntilWon
    OBVIOUS
  <2>1. CASE g.begun
    <3>1. InPlay(g)
      BY <2>1 DEF IInv, Played
    <3>2. Over(g) => Open(g) = {}
      BY <3>1, UnopenedType DEF InPlay, Open
    <3> QED
      BY <3>1, <3>2, TimingAssumption DEF UndecidedUntilWon, InPlay, Living, Over
  <2>2. CASE ~g.begun
    <3>1. g = NewGame
      BY <2>2, NewModeratorFields DEF IInv, Played, g
    <3>2. g.winner = "undecided" /\ g.living = Players /\ g.round = 1
      BY <3>1 DEF NewGame
    <3> QED
      BY <3>2, DealUndecided, TimingAssumption DEF UndecidedUntilWon, Living, Over
  <2> QED
    BY <2>1, <2>2
<1> QED
  BY GameInvariant, <1>1, PTL

\* While the game goes on the moderator has a wake-up at the earliest deadline,
\* and remembers exactly the looks that are on the timer.
THEOREM SomeLookIsAlwaysSet == Spec => []ClockIsWatched
<1>1. IInv => ClockIsWatched
  BY DEF IInv
<1> QED
  BY GameInvariant, <1>1, PTL

\* The router refuses the moderator nothing, and the players running are the
\* living until everybody is stopped.
THEOREM NobodyGoneIsSent == Spec => []OnlyTheLivingRun
<1>1. IInv => OnlyTheLivingRun
  BY DEF IInv
<1> QED
  BY GameInvariant, <1>1, PTL

\* Everybody is stopped only after the rewards are logged and the farewell has
\* run its time.
THEOREM FarewellRunsItsTime == Spec => []FarewellIsGiven
<1>1. IInv => FarewellIsGiven
  BY DEF IInv
<1> QED
  BY GameInvariant, <1>1, PTL

\* Each phase is over within its longest limit and its reminder's lateness.
THEOREM GameKeepsSchedule == Spec => []OnSchedule
<1>1. IInv => OnSchedule
  BY DEF IInv
<1> QED
  BY GameInvariant, <1>1, PTL

\* Those who die are those the selections called for.
THEOREM DeathsAreJust == Spec => []DeathsAreCalledFor
<1>1. IInv => DeathsAreCalledFor
  BY DEF IInv
<1> QED
  BY GameInvariant, <1>1, PTL

(***************************************************************************)
(* The rules.                                                              *)
(***************************************************************************)
\* A call has at most one death to tell of.
LEMMA OneDies ==
  ASSUME NEW q, NEW L, NEW M, Script(q, L, M)
  PROVE  M = L \/ \E p \in L : M = L \ {p}
  BY DEF Script

\* What a phase leaves is what the rules have follow it.
LEMMA PhaseFollows ==
  ASSUME IInv, NEW y, NEW gone, PhaseOver(g, y, gone, clock), g.begun, ~Over(g),
         g'.round = y.round, g'.phase = y.phase, Living' = y.living, g'.winner = y.winner,
         paid' = Over(y)
  PROVE  Contract!Won \/ Contract!Stalemate \/ Contract!Dawn \/ Contract!Dusk
<1>1. InPlay(g) /\ InPlay(y) /\ g.winner = "undecided" /\ paid = FALSE
  BY DEF IInv, Played, FarewellIsSet, PhaseOver, Over
<1>2. /\ g.round \in 1 .. DayCap /\ y.round \in 1 .. DayCap /\ DayCap \in Nat /\ g.phase \in Phases
      /\ y.winner \in Winners
  BY <1>1, TimingAssumption DEF InPlay, GameType
<1>3. CASE Finished(g, y)
  <2>1. paid' = TRUE /\ g'.round = g.round /\ g'.phase = g.phase
    BY <1>3 DEF Finished, Over
  <2>2. CASE y.winner \in {"Village", "Werewolves"}
    <3>1. Winner(y.living) = y.winner
      BY <1>1, <2>2 DEF InPlay
    <3>2. Contract!Won
      BY <2>1, <2>2, <3>1 DEF Contract!Won, Contract!Ends
    <3> QED
      BY <3>2
  <2>3. CASE y.winner = "nobody"
    <3>1. Winner(y.living) = "undecided" /\ g.round = DayCap /\ g.phase = "Day"
      BY <1>1, <1>3, <2>3 DEF InPlay, Finished
    <3>2. Contract!Stalemate
      BY <2>1, <2>3, <3>1 DEF Contract!Stalemate, Contract!Ends
    <3> QED
      BY <3>2
  <2> QED
    BY <1>2, <1>3, <2>2, <2>3 DEF Finished, Over, Winners
<1>4. CASE NewPhase(g, y, clock)
  <2>1. /\ Winner(y.living) = "undecided" /\ y.winner = "undecided" /\ paid' = FALSE
    BY <1>1, <1>4 DEF InPlay, NewPhase, Over
  <2>2. CASE g.phase = "Night"
    <3>1. Contract!Dawn
      BY <1>1, <1>4, <2>1, <2>2 DEF Contract!Dawn, NewPhase
    <3> QED
      BY <3>1
  <2>3. CASE g.phase = "Day"
    <3>1. y.phase = "Night" /\ y.round = g.round + 1 /\ g.round < DayCap
      BY <1>2, <1>4, <2>3 DEF NewPhase
    <3>2. Contract!Dusk
      BY <1>1, <2>1, <2>3, <3>1 DEF Contract!Dusk
    <3> QED
      BY <3>2
  <2> QED
    BY <1>2, <2>2, <2>3 DEF Phases
<1> QED
  BY <1>3, <1>4 DEF PhaseOver

\* So is every call while the game goes on.
LEMMA GoesByTheRules ==
  ASSUME IInv, NEW y, NEW left, NEW counted, NEW m, Goes(y, left, counted, m),
         Script(y.says, g.living, y.living)
  PROVE  Contract!Next \/ UNCHANGED Contract!vars
<1>1. /\ g.begun /\ ~Over(g) /\ running = Living /\ g.winner = "undecided" /\ paid = FALSE
  BY DEF Goes, IInv, FarewellIsSet, OnlyTheLivingRun, Over
<1>2. /\ InPlay(y) /\ g' = [y EXCEPT !.says = << >>] /\ running' = y.living /\ paid' = Over(y)
  BY GoesFields
<1>3. /\ g'.round = y.round /\ g'.phase = y.phase /\ Living' = y.living /\ g'.winner = y.winner
  BY <1>2, HeardOut DEF Living
<1>4. CASE Stayed(g, y)
  <2>1. /\ g'.round = g.round /\ g'.phase = g.phase /\ Living' = Living /\ g'.winner = g.winner
        /\ running' = running /\ paid' = paid
    BY <1>1, <1>2, <1>3, <1>4 DEF Stayed, Over, Living
  <2> QED
    BY <2>1 DEF Contract!vars
<1>5. ASSUME NEW gone \in SUBSET g.living, PhaseOver(g, y, gone, clock)
      PROVE  Contract!Next
  <2>1. Contract!Won \/ Contract!Stalemate \/ Contract!Dawn \/ Contract!Dusk
    BY <1>1, <1>2, <1>3, <1>5, PhaseFollows
  <2>2. y.living = Living \/ \E p \in Living : y.living = Living \ {p}
    BY OneDies DEF Living
  <2>3. ASSUME NEW dead, y.living = Living \ dead
        PROVE  Contract!PhaseEnds(dead)
    BY <1>1, <1>2, <1>3, <2>1, <2>3 DEF Contract!PhaseEnds
  <2>4. CASE y.living = Living
    <3>1. Contract!PhaseEnds({})
      BY <2>3, <2>4
    <3> QED
      BY <3>1 DEF Contract!Next
  <2>5. CASE \E p \in Living : y.living = Living \ {p}
    <3>1. PICK p \in Living : Contract!PhaseEnds({p})
      BY <2>3, <2>5
    <3> QED
      BY <3>1 DEF Contract!Next
  <2> QED
    BY <2>2, <2>4, <2>5
<1> QED
  BY <1>4, <1>5 DEF Goes, Turns

\* The game starts as the rules have it.
LEMMA InitFollows == Init => Contract!Init
<1> SUFFICES ASSUME Init PROVE Contract!Init
  OBVIOUS
<1>1. g = NewGame /\ running = {} /\ paid = FALSE
  BY NewModeratorFields DEF Init, g
<1>2. /\ g.round = 1 /\ g.phase = "Night" /\ Living = Players /\ g.winner = "undecided"
  BY <1>1, NewModeratorFields DEF Living, Over
<1> QED
  BY <1>1, <1>2 DEF Contract!Init

\* The moderator's start is the game's beginning.
LEMMA OpensByTheRules ==
  ASSUME IInv, Opened
  PROVE  Contract!Begin
<1> DEFINE y == Begin(0)
           m == Start(mod, 0)
<1>1. mod = NewModerator /\ running = {} /\ ~g.begun
  BY DEF IInv, Played, Opened
<1>2. g = NewGame
  BY <1>1, NewModeratorFields DEF g
<1>3. /\ g.round = 1 /\ g.phase = "Night" /\ Living = Players /\ g.winner = "undecided"
      /\ paid = FALSE
  BY <1>2, NewModeratorFields DEF Living, Over, IInv, FarewellIsSet
<1>4. InPlay(y) /\ ~Over(y) /\ y.living = Players /\ y.round = 1 /\ y.phase = "Night"
  BY BeginPlays
<1>5. /\ m \in ModType /\ m.game = [y EXCEPT !.says = << >>]
      /\ ({} \cup Starts(m.effects)) \ Stops(m.effects, Len(m.effects)) = Players
      /\ ~Pays(m.effects)
  BY <1>1, StartFields
<1> HIDE DEF y, m
<1>6. /\ mod' = [m EXCEPT !.effects = << >>]
      /\ running' = (running \cup Starts(m.effects)) \ Stops(m.effects, Len(m.effects))
      /\ paid' = (paid \/ Pays(m.effects))
  BY DEF Opened, CarryOut, m
<1>7. mod'.game = m.game
  BY <1>5, <1>6 DEF ModType
<1>8. g' = [y EXCEPT !.says = << >>]
  BY <1>5, <1>7 DEF g
<1>9. /\ g'.round = 1 /\ g'.phase = "Night" /\ g'.living = Players /\ g'.winner = "undecided"
  BY <1>4, <1>8, HeardOut DEF Over
<1>10. running' = Players /\ paid' = FALSE
  BY <1>1, <1>3, <1>5, <1>6
<1> QED
  BY <1>1, <1>3, <1>9, <1>10 DEF Contract!Begin, Living

\* A call once the game is over lets the survivors go, or changes nothing.
LEMMA OverByTheRules ==
  ASSUME IInv, NEW m, NEW left, g.begun, Over(g), ~mod.stopped,
         \/ m = [mod EXCEPT !.effects = << >>]
         \/ /\ m = [mod EXCEPT !.stopped = TRUE, !.effects = <<Command(g.living, "stop")>>]
            /\ clock >= endedAt + Farewell,
         left \subseteq timer, CarryOut(m), timer' = left \cup RemindersSet(m.effects, clock)
  PROVE  Contract!Next \/ UNCHANGED Contract!vars
<1>1. /\ g' = g /\ running' = (IF m.stopped THEN {} ELSE g.living) /\ m.stopped \in BOOLEAN
      /\ paid' = TRUE
  BY OverFields
<1>2. paid = TRUE /\ running = Living /\ g.winner # "undecided"
  BY DEF IInv, FarewellIsSet, OnlyTheLivingRun, Over
<1>3. /\ g'.round = g.round /\ g'.phase = g.phase /\ Living' = Living /\ g'.winner = g.winner
      /\ paid' = paid
  BY <1>1, <1>2 DEF Living
<1>4. CASE m.stopped
  <2>1. Contract!Close
    BY <1>1, <1>2, <1>3, <1>4 DEF Contract!Close
  <2> QED
    BY <2>1 DEF Contract!Next
<1>5. CASE ~m.stopped
  <2>1. running' = running
    BY <1>1, <1>2, <1>5 DEF Living
  <2> QED
    BY <1>3, <2>1 DEF Contract!vars
<1> QED
  BY <1>4, <1>5

\* A selection that is heard keeps the rules.
LEMMA HearsByTheRules ==
  ASSUME IInv, NEW p \in Players, NEW sel \in Selections(p), Hear(p, sel)
  PROVE  Contract!Next \/ UNCHANGED Contract!vars
<1>1. PICK luck : Answered(Hearing(p, sel, luck), Counting(p, sel), timer)
  BY DEF Hear
<1> DEFINE m == Hearing(p, sel, luck)
<1>2. g.begun /\ ~mod.stopped /\ InPlay(g) /\ clock \in Nat /\ g.says = << >>
  BY <1>1 DEF Answered, IInv, Played, Typed
<1>3. CASE ~Over(g)
  <2> DEFINE y == Expire(Select(g, p, sel, clock), clock, luck)
             counted == Counting(p, sel)
  <2>1. Goes(y, timer, counted, m)
    BY <1>1, <1>3, HearingGoes
  <2>2. Asides(g.says, g.living)
    BY <1>2 DEF Asides
  <2>3. InSession(g, p, sel) => Counts(g, p, sel) /\ p \notin sel.seenBy
    BY <1>2, SelectionsCount
  <2>4. Script(y.says, g.living, y.living)
    BY <1>2, <1>3, <2>2, <2>3, SelectionSays
  <2> HIDE DEF y, m, counted
  <2> QED
    BY <2>1, <2>4, GoesByTheRules
<1>4. CASE Over(g)
  <2>1. m = [mod EXCEPT !.effects = << >>]
    BY <1>2, <1>4, HearingOver
  <2> HIDE DEF m
  <2>2. CarryOut(m) /\ timer' = timer \cup RemindersSet(m.effects, clock)
    BY <1>1 DEF Answered, m
  <2> QED
    BY <1>2, <1>4, <2>1, <2>2, OverByTheRules
<1> QED
  BY <1>3, <1>4

\* A reminder that comes back keeps the rules.
LEMMA WakesByTheRules ==
  ASSUME IInv, NEW r \in timer, Wake(r)
  PROVE  Contract!Next \/ UNCHANGED Contract!vars
<1> DEFINE left == timer \ {r}
<1>1. PICK luck : Answered(Waking(r, luck), g, left)
  BY DEF Wake
<1> DEFINE m == Waking(r, luck)
<1>2. g.begun /\ ~mod.stopped /\ InPlay(g) /\ clock \in Nat /\ g.says = << >> /\ r.deadline <= clock
  BY <1>1 DEF Answered, Wake, IInv, Played, Typed
<1>3. CASE ~Over(g)
  <2> DEFINE y == Expire(g, clock, luck)
  <2>1. Goes(y, left, g, m)
    BY <1>1, <1>3, WakingGoes
  <2>2. Asides(g.says, g.living)
    BY <1>2 DEF Asides
  <2>3. Script(y.says, g.living, y.living)
    BY <1>2, <1>3, <2>2, ExpireSays
  <2> HIDE DEF y, m, left
  <2> QED
    BY <2>1, <2>3, GoesByTheRules
<1>4. CASE Over(g)
  <2>1. \/ m = [mod EXCEPT !.effects = << >>]
        \/ /\ m = [mod EXCEPT !.stopped = TRUE, !.effects = <<Command(g.living, "stop")>>]
           /\ clock >= endedAt + Farewell
    BY <1>2, <1>4, WakingOver
  <2>2. left \subseteq timer
    OBVIOUS
  <2>3. CarryOut(m) /\ timer' = left \cup RemindersSet(m.effects, clock)
    BY <1>1 DEF Answered
  <2> HIDE DEF m, left
  <2> QED
    BY <1>2, <1>4, <2>1, <2>2, <2>3, OverByTheRules
<1> QED
  BY <1>3, <1>4

\* Every step of the moderated game is one the rules have, or none of theirs.
LEMMA StepsFollow == IInv /\ [Next]_vars => [Contract!Next]_Contract!vars
<1> SUFFICES ASSUME IInv, [Next]_vars PROVE Contract!Next \/ UNCHANGED Contract!vars
  OBVIOUS
<1>1. CASE Opened
  BY <1>1, OpensByTheRules DEF Contract!Next
<1>2. ASSUME NEW p \in Players, NEW sel \in Selections(p), Hear(p, sel)
      PROVE  Contract!Next \/ UNCHANGED Contract!vars
  BY <1>2, HearsByTheRules
<1>3. ASSUME NEW r \in timer, Wake(r) PROVE Contract!Next \/ UNCHANGED Contract!vars
  BY <1>3, WakesByTheRules
<1>4. CASE Tick \/ UNCHANGED vars
  <2>1. mod' = mod /\ running' = running /\ paid' = paid
    BY <1>4 DEF Tick, vars
  <2>2. g' = g
    BY <2>1 DEF g
  <2> QED
    BY <2>1, <2>2 DEF Contract!vars, Living
<1> QED
  BY <1>1, <1>2, <1>3, <1>4 DEF Next, Ended

\* The moderated game implements the rules of Werewolf (game.rs): whatever is
\* selected and however late the moderator is called back, night follows day,
\* no phase costs more than one life, the win condition is looked at after each,
\* and the game over, everybody is paid in that step and the survivors stopped.
THEOREM GameKeepsToTheRules == Spec => KeepsToTheRules
<1>1. Init => Contract!Init
  BY InitFollows
<1>2. IInv /\ [Next]_vars => [Contract!Next]_Contract!vars
  BY StepsFollow
<1> QED
  BY <1>1, <1>2, GameInvariant, PTL DEF Spec, KeepsToTheRules, Contract!Spec

(***************************************************************************)
(* The recorded game is the moderated one.                                 *)
(***************************************************************************)
\* A step of the recorded game is one of the moderated game's, or the writing
\* of a line.
LEMMA RecordedSteps == [NextRecorded]_recordedVars => [Next]_vars
<1> SUFFICES ASSUME [NextRecorded]_recordedVars PROVE [Next]_vars
  OBVIOUS
<1>1. CASE OpenedRecorded
  BY <1>1 DEF OpenedRecorded, Next
<1>2. CASE TickRecorded
  BY <1>2 DEF TickRecorded, Next
<1>3. CASE WriteAction
  BY <1>3 DEF WriteAction, Written
<1>4. CASE WriteObservation
  BY <1>4 DEF WriteObservation, Written
<1>5. CASE EndedRecorded \/ UNCHANGED recordedVars
  BY <1>5 DEF EndedRecorded, recordedVars
<1>6. ASSUME NEW p \in Players, NEW sel \in Selections(p), HearRecorded(p, sel) PROVE Next
  <2>1. Hear(p, sel)
    BY <1>6 DEF HearRecorded, Hear
  <2> QED
    BY <2>1 DEF Next
<1>7. ASSUME NEW r \in timer, WakeRecorded(r) PROVE Next
  <2>1. Wake(r)
    BY <1>7 DEF WakeRecorded, Wake
  <2> QED
    BY <2>1 DEF Next
<1>8. ASSUME NEW r \in DOMAIN numbers, WriteUndelivered(r) PROVE UNCHANGED vars
  BY <1>8 DEF WriteUndelivered, Written
<1> QED
  BY <1>1, <1>2, <1>3, <1>4, <1>5, <1>6, <1>7, <1>8 DEF NextRecorded

(***************************************************************************)
(* What a watcher makes of the lines.                                      *)
(***************************************************************************)
\* A line is mislabelled to somebody who knows `living` to live.
Wrongs(living, line) ==
  /\ View!Shown(line)
  /\ \/ View!SaysEverybody(living, line) # line.forAll
     \/ living # {} /\ View!LivingTold(line.message.payload) \ {Cardinality(living)} # {}

\* Who lives, as the lines have it: nobody knows once a line was mislabelled.
Watch(v, lines) ==
  IF v = << >> \/ Wrongs(v[1], lines[1]) THEN << >> ELSE <<View!Seen(v[1], lines[1])>>

Watching == INSTANCE Folding WITH Op <- Watch

\* The joining of sequences is Folding's.
LEMMA JoiningIsIt == \A ss : FlattenSeq(ss) = Watching!FlattenSeq(ss)
  BY Zenon DEF FlattenSeq, Watching!FlattenSeq

\* So is counting the watcher's.
LEMMA CountingIsIt == \A S : View!Cardinality(S) = Cardinality(S)
  BY Zenon DEF View!Cardinality, Cardinality

\* Who has misread a line once stays so.
LEMMA OnceWrong ==
  ASSUME NEW S, NEW s \in Seq(S)
  PROVE  Watching!Fold(<< >>, s) = << >>
<1> DEFINE I == {<< >>}
<1>1. << >> \in I /\ \A v \in I, e \in S : Watch(v, e) \in I
  BY DEF Watch
<1> HIDE DEF I
<1>2. Watching!Fold(<< >>, s) \in I
  BY <1>1, Watching!FoldKeeps
<1> QED
  BY <1>2 DEF I

\* A line is read rightly by who knows `living` to live.
Right(living, to, message, all) ==
  /\ View!AllTheLiving(View!Learn(living, message), to, message) <=> all
  /\ living = {} \/ View!LivingTold(message) \ {Cardinality(living)} = {}

\* The line of a message of the moderator's.
LEMMA LineIsRead ==
  ASSUME NEW living, NEW to, NEW seq, NEW message, NEW all \in BOOLEAN,
         Right(living, to, message, all)
  PROVE  LET line == ActionRecord(Message(Env, to, seq, message), all)
         IN  Watching!Fold(<<living>>, << <<line>> >>) = <<View!Learn(living, message)>>
<1> DEFINE line == ActionRecord(Message(Env, to, seq, message), all)
<1>1. /\ line.type = "action" /\ line.forAll = all
      /\ line.message.recipients = to /\ line.message.payload = message
  BY DEF ActionRecord, Message, Wire
<1> HIDE DEF line
<1>2. View!Shown(line) /\ View!Seen(living, line) = View!Learn(living, message)
  BY <1>1 DEF View!Shown, View!Seen
<1> DEFINE told == View!AllTheLiving(View!Learn(living, message), to, message)
<1>3. View!SaysEverybody(living, line) <=> told
  BY <1>1, <1>2 DEF View!SaysEverybody
<1>4. told \in BOOLEAN /\ (told <=> all)
  BY DEF Right, View!AllTheLiving
<1>5. View!SaysEverybody(living, line) \in BOOLEAN
  BY DEF View!SaysEverybody
<1> HIDE DEF told
<1>6. View!SaysEverybody(living, line) = line.forAll
  BY <1>1, <1>3, <1>4, <1>5
<1>7. ~Wrongs(living, line)
  BY <1>1, <1>6 DEF Right, Wrongs
<1>8. Watch(<<living>>, <<line>>) = <<View!Learn(living, message)>>
  BY <1>2, <1>7 DEF Watch
<1>9. Watching!Fold(<<living>>, << <<line>> >>) = Watch(<<living>>, <<line>>)
  BY Watching!FoldOne
<1> QED
  BY <1>8, <1>9 DEF line

\* A sequence is one of what is in it.
LEMMA SeqOfItsRange ==
  ASSUME NEW S, NEW s \in Seq(S)
  PROVE  s \in Seq(Range(s))
<1>1. Len(s) \in Nat /\ DOMAIN s = 1 .. Len(s) /\ s \in [1 .. Len(s) -> S]
  OBVIOUS
<1>2. \A i \in 1 .. Len(s) : s[i] \in Range(s)
  BY <1>1 DEF Range
<1>3. s \in [1 .. Len(s) -> Range(s)]
  BY <1>1, <1>2
<1> QED
  BY <1>1, <1>3

\* An effect leaves no lines, or some in one go, and what they are to a watcher
\* is what it tells.
LEMMA EffectIsRead ==
  ASSUME NEW m, NEW i, m.effects[i] \in Effects, NEW living,
         m.effects[i].do = "tell" =>
           Right(living, m.effects[i].to, m.effects[i].message, ForAll(m, m.effects[i]))
  PROVE  /\ RecordsOf(m, i) = << >> \/ \E b : RecordsOf(m, i) = <<b>>
         /\ Watching!Fold(<<living>>, RecordsOf(m, i)) =
              <<IF m.effects[i].do = "tell" THEN View!Learn(living, m.effects[i].message) ELSE living>>
<1> DEFINE e == m.effects[i]
           payees == SetToSeq(Players)
           line == ActionRecord(Message(Env, e.to, Number(m.effects, i), e.message), ForAll(m, e))
           pays == [j \in DOMAIN payees |-> RewardRecord(payees[j], e.rewards[payees[j]])]
<1>1. RecordsOf(m, i) = CASE e.do = "tell" -> << <<line>> >>
                          [] e.do = "pay" -> <<pays>>
                          [] OTHER -> << >>
  BY DEF RecordsOf
<1>2. CASE e.do = "tell"
  <2>1. RecordsOf(m, i) = << <<line>> >>
    BY <1>1, <1>2
  <2>2. ForAll(m, e) \in BOOLEAN
    BY DEF ForAll
  <2>3. Watching!Fold(<<living>>, << <<line>> >>) = <<View!Learn(living, e.message)>>
    BY <1>2, <2>2, LineIsRead
  <2> HIDE DEF line, e
  <2> QED
    BY <1>2, <2>1, <2>3 DEF e
<1>3. CASE e.do = "pay"
  <2>1. RecordsOf(m, i) = <<pays>>
    BY <1>1, <1>3
  <2>2. DOMAIN payees = 1 .. Cardinality(Players) /\ Cardinality(Players) >= 1
    <3>1. DOMAIN payees = 1 .. Cardinality(Players) /\ Cardinality(Players) \in Nat
      BY SetToSeqType, PlayersAreFinite
    <3>2. Pack \in SUBSET Players /\ Cardinality(Pack) \in Nat
      BY PlayersAreFinite DEF Pack
    <3> QED
      BY <3>1, <3>2, DealAssumption
  <2> HIDE DEF payees
  <2>3. 1 \in DOMAIN payees
    BY <2>2, PlayersAreFinite
  <2>4. pays[1] = RewardRecord(payees[1], e.rewards[payees[1]])
    BY <2>3
  <2>5. pays[1].type = "reward"
    BY <2>4 DEF RewardRecord
  <2> HIDE DEF pays, e
  <2>6. ~View!Shown(pays[1])
    BY <2>5 DEF View!Shown
  <2>7. Watch(<<living>>, pays) = <<living>>
    BY <2>6 DEF Watch, Wrongs, View!Seen
  <2>8. Watching!Fold(<<living>>, <<pays>>) = Watch(<<living>>, pays)
    BY Watching!FoldOne
  <2> QED
    BY <1>3, <2>1, <2>7, <2>8 DEF e
<1>4. CASE e.do # "tell" /\ e.do # "pay"
  <2>1. RecordsOf(m, i) = << >>
    BY <1>1, <1>4
  <2>2. Watching!Fold(<<living>>, << >>) = <<living>>
    BY Watching!FoldNothing
  <2> QED
    BY <1>4, <2>1, <2>2
<1> QED
  BY <1>2, <1>3, <1>4

\* The lines of a call are read rightly one after the other, if each of its
\* messages is by what those before it have told.
LEMMA CallIsRead ==
  ASSUME NEW m, NEW n \in Nat, m.effects \in Seq(Effects), Len(m.effects) = n,
         NEW f,
         \A i \in 1 .. n :
           IF m.effects[i].do = "tell"
             THEN /\ Right(f[i - 1], m.effects[i].to, m.effects[i].message, ForAll(m, m.effects[i]))
                  /\ f[i] = View!Learn(f[i - 1], m.effects[i].message)
             ELSE f[i] = f[i - 1]
  PROVE  LET lines == FlattenSeq([i \in DOMAIN m.effects |-> RecordsOf(m, i)])
         IN  lines \in Seq(Range(lines)) /\ Watching!Fold(<<f[0]>>, lines) = <<f[n]>>
<1> DEFINE S == {RecordsOf(m, i)[1] : i \in 1 .. n}
           ss == [i \in DOMAIN m.effects |-> RecordsOf(m, i)]
           h == [i \in 0 .. n |-> <<f[i]>>]
<1>1. DOMAIN m.effects = 1 .. n /\ \A i \in 1 .. n : m.effects[i] \in Effects
  OBVIOUS
<1>2. ASSUME NEW i \in 1 .. n
      PROVE  RecordsOf(m, i) \in Seq(S) /\ Watching!Fold(<<f[i - 1]>>, RecordsOf(m, i)) = <<f[i]>>
  <2>1. /\ RecordsOf(m, i) = << >> \/ \E b : RecordsOf(m, i) = <<b>>
        /\ Watching!Fold(<<f[i - 1]>>, RecordsOf(m, i)) =
             <<IF m.effects[i].do = "tell" THEN View!Learn(f[i - 1], m.effects[i].message) ELSE f[i - 1]>>
    BY <1>1, EffectIsRead
  <2>2. Watching!Fold(<<f[i - 1]>>, RecordsOf(m, i)) = <<f[i]>>
    BY <2>1
  <2>3. RecordsOf(m, i) \in Seq(S)
    <3> DEFINE r == RecordsOf(m, i)
    <3>1. r[1] \in S
      OBVIOUS
    <3> HIDE DEF r, S
    <3>2. ASSUME r = << >> PROVE r \in Seq(S)
      BY <3>2
    <3>3. ASSUME NEW b, r = <<b>> PROVE r \in Seq(S)
      <4>1. b \in S
        BY <3>1, <3>3
      <4> QED
        BY <3>3, <4>1
    <3> QED
      BY <2>1, <3>2, <3>3 DEF r
  <2> QED
    BY <2>2, <2>3
<1> HIDE DEF S
<1>3. ss \in Seq(Seq(S)) /\ Len(ss) = n /\ \A i \in 1 .. n : ss[i] = RecordsOf(m, i)
  <2>1. ss = [i \in 1 .. n |-> RecordsOf(m, i)]
    BY <1>1
  <2> HIDE DEF ss
  <2>2. ss \in [1 .. n -> Seq(S)]
    BY <1>2, <2>1
  <2> QED
    BY <2>1, <2>2
<1>4. \A i \in 1 .. Len(ss) : Watching!Fold(h[i - 1], ss[i]) = h[i]
  <2> TAKE i \in 1 .. Len(ss)
  <2>1. i \in 1 .. n /\ i - 1 \in 0 .. n /\ i \in 0 .. n
    BY <1>3
  <2>2. h[i - 1] = <<f[i - 1]>> /\ h[i] = <<f[i]>> /\ ss[i] = RecordsOf(m, i)
    BY <1>3, <2>1
  <2> HIDE DEF h, ss
  <2> QED
    BY <1>2, <2>1, <2>2
<1>5. h[0] = <<f[0]>> /\ h[n] = <<f[n]>>
  OBVIOUS
<1> HIDE DEF h, ss
<1>6. Watching!Fold(h[0], Watching!FlattenSeq(ss)) = h[Len(ss)]
  BY <1>3, <1>4, Watching!FoldThrough
<1>7. Watching!FlattenSeq(ss) \in Seq(S)
  BY <1>3, Watching!Flattened
<1> DEFINE lines == FlattenSeq(ss)
<1>8. lines = Watching!FlattenSeq(ss)
  BY JoiningIsIt
<1> HIDE DEF lines
<1>9. lines \in Seq(Range(lines))
  BY <1>7, <1>8, SeqOfItsRange
<1>10. Watching!Fold(<<f[0]>>, lines) = <<f[n]>>
  BY <1>3, <1>5, <1>6, <1>8
<1> QED
  BY <1>9, <1>10 DEF lines, ss

\* Three players live at least while neither side has won.
LEMMA ThreeLive ==
  ASSUME NEW L \in SUBSET Players, Winner(L) = "undecided"
  PROVE  L # {} /\ \A p, q : L # {p} /\ L \ {p} # {q} /\ L \ {p} # {}
<1> DEFINE W == L \cap Pack
           V == L \ Pack
<1>1. W # {} /\ V # {}
  BY UndecidedMeans
<1>2. ASSUME NEW v, V = {v} PROVE FALSE
  <2>1. Cardinality(V) = 1
    BY <1>2, FS_Singleton
  <2>2. Cardinality(W) # 0 /\ ~(Cardinality(W) >= Cardinality(V))
    BY DEF Winner
  <2>3. Cardinality(W) \in Nat
    BY PlayersAreFinite
  <2> QED
    BY <2>1, <2>2, <2>3
<1>3. PICK w \in W, u \in V : TRUE
  BY <1>1
<1>4. PICK v \in V : v # u
  BY <1>2
<1>5. w \in L /\ u \in L /\ v \in L /\ w # u /\ w # v /\ u # v
  BY <1>3, <1>4
<1> QED
  BY <1>5

\* Each message of a script is read rightly, by who knows whom those before it
\* leave living.
LEMMA ScriptIsRead ==
  ASSUME NEW m, NEW q \in Seq(Directives), NEW L \in SUBSET Players, NEW M,
         Script(q, L, M), Carries(m.effects, q), L = Living, m.game.living = M,
         Winner(L) = "undecided"
  PROVE  LET lines == FlattenSeq([i \in DOMAIN m.effects |-> RecordsOf(m, i)])
         IN  lines \in Seq(Range(lines)) /\ Watching!Fold(<<L>>, lines) = <<M>>
<1>1. PICK n \in 0 .. Len(q) :
        /\ \A i \in 1 .. n : Aside(q[i], L)
        /\ \/ Len(q) = n /\ M = L
           \/ /\ Len(q) = n + 2 /\ M = L /\ Ending(q[n + 2], M)
              /\ \E name \in {"NoDeath", "NoLynch"} : q[n + 1] = Narration(L, Quietly(name))
           \/ /\ Len(q) = n + 3 /\ Ending(q[n + 3], M) /\ q[n + 2].say = "stop"
              /\ q[n + 1].say = "narrate" /\ q[n + 1].to = M /\ q[n + 1].narration.is = "Eliminated"
              /\ q[n + 1].narration.who \in L /\ M = L \ {q[n + 1].narration.who}
  BY DEF Script
<1> DEFINE e == m.effects
           f == [i \in 0 .. Len(e) |-> IF i <= n THEN L ELSE M]
           Read(i, v, w) ==
             IF e[i].do = "tell"
               THEN Right(v, e[i].to, e[i].message, ForAll(m, e[i])) /\ w = View!Learn(v, e[i].message)
               ELSE w = v
<1>2. /\ e \in Seq(Effects) /\ Len(e) \in Nat /\ Len(q) \in Nat /\ Len(q) <= Len(e)
      /\ \A i \in 1 .. Len(q) : e[i] = Sent(q[i])
      /\ \A i \in Len(q) + 1 .. Len(e) : e[i].do \in {"remind", "pay", "farewell"}
  BY DEF Carries
<1>3. L # {} /\ M # {} /\ \A p : L # {p} /\ M # {p}
  BY <1>1, ThreeLive
<1>4. ASSUME NEW i \in 1 .. Len(q), q[i].say = "narrate"
      PROVE  e[i].do = "tell" /\ e[i].to = q[i].to /\ e[i].message = q[i].narration
  <2>1. e[i] = Sent(q[i])
    BY <1>2
  <2>2. Sent(q[i]) = Tell(q[i].to, q[i].narration)
    BY <1>4 DEF Sent
  <2> HIDE DEF e
  <2> QED
    BY <2>1, <2>2 DEF Tell
<1>5. ASSUME NEW i \in 1 .. n PROVE Read(i, L, L)
  <2>0. i \in 1 .. Len(q) /\ q[i] \in Directives /\ e[i] = Sent(q[i]) /\ Aside(q[i], L)
    BY <1>1, <1>2, ElementOfSeq
  <2>1. CASE q[i].say = "forward" /\ q[i].envelope.from \in L /\ q[i].to \subseteq L \ {q[i].envelope.from}
    <3> DEFINE r == Relayed(q[i].envelope)
    <3>1. e[i].do = "tell" /\ e[i].to = q[i].to /\ e[i].message = r
      BY <2>0, <2>1 DEF Sent, Tell
    <3>2. r.is = "Relayed" /\ r.envelope = q[i].envelope
      BY DEF Relayed
    <3> HIDE DEF r
    <3>3. View!Learn(L, r) = L /\ View!LivingTold(r) = {}
      BY <3>2 DEF View!Learn, View!LivingTold
    <3>4. ForAll(m, e[i]) <=> e[i].to = L \ {r.envelope.from}
      BY <3>1, <3>2 DEF ForAll
    <3>5. View!AllTheLiving(L, e[i].to, r) <=> e[i].to = L \ {r.envelope.from}
      BY <1>3, <2>1, <3>1, <3>2 DEF View!AllTheLiving
    <3> HIDE DEF e
    <3> QED
      BY <3>1, <3>3, <3>4, <3>5 DEF Right
  <2>2. ASSUME NEW p \in Players, NEW t \in Players, q[i] = Narration({p}, Investigated(t))
        PROVE  Read(i, L, L)
    <3> DEFINE r == Investigated(t)
    <3>1. e[i].do = "tell" /\ e[i].to = {p} /\ e[i].message = r
      <4>1. q[i].say = "narrate" /\ q[i].to = {p} /\ q[i].narration = r
        BY <2>2 DEF Narration
      <4> QED
        BY <2>0, <4>1, <1>4
    <3>2. r.is = "Investigated"
      BY DEF Investigated
    <3> HIDE DEF r, e
    <3>3. View!Learn(L, r) = L /\ View!LivingTold(r) = {}
      BY <3>2 DEF View!Learn, View!LivingTold
    <3>4. ~ForAll(m, e[i])
      BY <1>3, <3>1, <3>2 DEF ForAll
    <3>5. ~View!AllTheLiving(L, e[i].to, r)
      BY <1>3, <3>1, <3>2 DEF View!AllTheLiving
    <3> QED
      BY <3>1, <3>3, <3>4, <3>5 DEF Right
  <2> QED
    BY <2>0, <2>1, <2>2 DEF Aside
<1>6. ASSUME NEW i \in 1 .. Len(q), Ending(q[i], M) PROVE Read(i, M, M)
  <2> DEFINE r == q[i].narration
  <2>1. e[i].do = "tell" /\ e[i].to = M /\ e[i].message = r /\ r.is \in {"PhaseBegan", "Outcome"} /\ r.living = M
    BY <1>4, <1>6 DEF Ending
  <2> HIDE DEF r, e
  <2>2. View!Learn(M, r) = M /\ View!LivingTold(r) = {Cardinality(M)}
    <3>1. View!Learn(M, r) = M
      BY <2>1 DEF View!Learn
    <3>2. View!LivingTold(r) = {Cardinality(r.living)}
      BY <2>1, CountingIsIt DEF View!LivingTold
    <3> QED
      BY <2>1, <3>1, <3>2
  <2>3. ForAll(m, e[i])
    BY <2>1 DEF ForAll
  <2>4. View!AllTheLiving(M, e[i].to, r)
    BY <1>3, <2>1 DEF View!AllTheLiving
  <2> QED
    BY <2>1, <2>2, <2>3, <2>4 DEF Right
<1>7. ASSUME NEW i \in 1 .. Len(q), NEW name \in {"NoDeath", "NoLynch"},
             q[i] = Narration(L, Quietly(name)), M = L
      PROVE  Read(i, L, M)
  <2> DEFINE r == Quietly(name)
  <2>1. e[i].do = "tell" /\ e[i].to = L /\ e[i].message = r
    BY <1>4, <1>7 DEF Narration
  <2>2. r.is = name
    BY DEF Quietly
  <2> HIDE DEF r, e
  <2>3. View!Learn(L, r) = L /\ View!LivingTold(r) = {}
    BY <2>2 DEF View!Learn, View!LivingTold
  <2>4. ForAll(m, e[i])
    BY <1>7, <2>1, <2>2 DEF ForAll
  <2>5. View!AllTheLiving(L, e[i].to, r)
    BY <1>3, <2>1 DEF View!AllTheLiving
  <2> QED
    BY <1>7, <2>1, <2>3, <2>4, <2>5 DEF Right
<1>8. ASSUME NEW i \in 1 .. Len(q), q[i].say = "narrate", q[i].to = M,
             q[i].narration.is = "Eliminated", M = L \ {q[i].narration.who}
      PROVE  Read(i, L, M)
  <2> DEFINE r == q[i].narration
  <2>1. e[i].do = "tell" /\ e[i].to = M /\ e[i].message = r /\ r.is = "Eliminated" /\ M = L \ {r.who}
    BY <1>4, <1>8
  <2> HIDE DEF r, e
  <2>2. View!Learn(L, r) = M /\ View!LivingTold(r) = {}
    BY <2>1 DEF View!Learn, View!LivingTold
  <2>3. ForAll(m, e[i])
    BY <2>1 DEF ForAll
  <2>4. View!AllTheLiving(M, e[i].to, r)
    BY <1>3, <2>1 DEF View!AllTheLiving
  <2> QED
    BY <2>1, <2>2, <2>3, <2>4 DEF Right
<1>9. ASSUME NEW i \in 1 .. Len(q), q[i].say = "stop" PROVE Read(i, M, M)
  <2>1. e[i].do = "command"
    <3>1. e[i] = Sent(q[i]) /\ Sent(q[i]) = Command({q[i].who}, "stop")
      BY <1>2, <1>9 DEF Sent
    <3> HIDE DEF e
    <3> QED
      BY <3>1 DEF Command
  <2> HIDE DEF e
  <2> QED
    BY <2>1
<1>10. ASSUME NEW i \in Len(q) + 1 .. Len(e) PROVE Read(i, M, M)
  <2>1. e[i].do # "tell"
    BY <1>2
  <2> HIDE DEF e
  <2> QED
    BY <2>1
<1> HIDE DEF Read
<1>11. ASSUME NEW i \in 1 .. Len(e)
       PROVE  Read(i, IF i - 1 <= n THEN L ELSE M, IF i <= n THEN L ELSE M)
  <2> HIDE DEF e
  <2>0. n \in Nat /\ i \in Nat
    BY <1>2
  <2>1. CASE i <= n
    BY <1>5, <2>0, <2>1
  <2>2. CASE i > Len(q)
    <3>1. i \in Len(q) + 1 .. Len(e)
      BY <1>2, <2>2
    <3>2. Read(i, M, M)
      BY <1>10, <3>1
    <3>3. ~(i <= n) /\ (i - 1 <= n => M = L)
      BY <1>1, <1>2, <2>0, <2>2
    <3> QED
      BY <3>2, <3>3
  <2>3. CASE i > n /\ i <= Len(q)
    <3>0. i \in 1 .. Len(q)
      BY <1>2, <2>3
    <3>1. CASE i = n + 1
      <4>1. Read(i, L, M)
        BY <1>1, <1>2, <1>7, <1>8, <2>3, <3>0, <3>1
      <4>2. i - 1 <= n /\ ~(i <= n)
        BY <2>0, <3>1
      <4> QED
        BY <4>1, <4>2
    <3>2. CASE i # n + 1
      <4>1. ~(i - 1 <= n) /\ ~(i <= n)
        BY <2>0, <2>3, <3>2
      <4>2. Ending(q[i], M) \/ q[i].say = "stop"
        BY <1>1, <1>2, <2>0, <2>3, <3>2
      <4>3. Read(i, M, M)
        BY <1>6, <1>9, <3>0, <4>2
      <4> QED
        BY <4>1, <4>3
    <3> QED
      BY <3>1, <3>2
  <2> QED
    BY <1>2, <2>0, <2>1, <2>2, <2>3
<1>12. \A i \in 1 .. Len(e) : Read(i, f[i - 1], f[i])
  <2> TAKE i \in 1 .. Len(e)
  <2>1. i - 1 \in 0 .. Len(e) /\ i \in 0 .. Len(e)
    BY <1>2
  <2>2. f[i - 1] = (IF i - 1 <= n THEN L ELSE M) /\ f[i] = IF i <= n THEN L ELSE M
    BY <2>1
  <2> HIDE DEF f, e
  <2> QED
    BY <1>11, <2>2
<1>13. f[0] = L /\ f[Len(e)] = M
  BY <1>1, <1>2
<1> HIDE DEF f
<1>14. \A i \in 1 .. Len(m.effects) :
         IF m.effects[i].do = "tell"
           THEN /\ Right(f[i - 1], m.effects[i].to, m.effects[i].message, ForAll(m, m.effects[i]))
                /\ f[i] = View!Learn(f[i - 1], m.effects[i].message)
           ELSE f[i] = f[i - 1]
  BY <1>12 DEF Read, e
<1> QED
  BY <1>2, <1>13, <1>14, CallIsRead DEF e

\* A call that says nothing leaves nothing to misread.
LEMMA NothingIsRead ==
  ASSUME NEW m, m.effects \in Seq(Effects), NEW v,
         \A i \in 1 .. Len(m.effects) : m.effects[i].do # "tell"
  PROVE  LET lines == FlattenSeq([i \in DOMAIN m.effects |-> RecordsOf(m, i)])
         IN  lines \in Seq(Range(lines)) /\ Watching!Fold(<<v>>, lines) = <<v>>
<1> DEFINE n == Len(m.effects)
           f == [i \in 0 .. n |-> v]
<1>1. n \in Nat
  OBVIOUS
<1>2. f[0] = v /\ f[n] = v /\ \A i \in 1 .. n : f[i] = f[i - 1]
  BY <1>1
<1> HIDE DEF f, n
<1>3. \A i \in 1 .. n :
        IF m.effects[i].do = "tell"
          THEN /\ Right(f[i - 1], m.effects[i].to, m.effects[i].message, ForAll(m, m.effects[i]))
               /\ f[i] = View!Learn(f[i - 1], m.effects[i].message)
          ELSE f[i] = f[i - 1]
  BY <1>2 DEF n
<1>4. Len(m.effects) = n
  BY DEF n
<1> DEFINE lines == FlattenSeq([i \in DOMAIN m.effects |-> RecordsOf(m, i)])
<1>5. lines \in Seq(Range(lines)) /\ Watching!Fold(<<f[0]>>, lines) = <<f[n]>>
  BY <1>1, <1>3, <1>4, CallIsRead
<1> HIDE DEF lines
<1> QED
  BY <1>2, <1>5 DEF lines

\* A watcher learns from the start who lives: of the roles each is told, none is
\* for everybody.
LEMMA OpeningIsRead ==
  ASSUME NEW m, NEW e, m.effects \in Seq(Effects), m.game.living = Players,
         Carries(e, Begin(0).says), m.effects = <<Command(Players, "start")>> \o e
  PROVE  LET lines == FlattenSeq([i \in DOMAIN m.effects |-> RecordsOf(m, i)])
         IN  lines \in Seq(Range(lines)) /\ Watching!Fold(<<{}>>, lines) = <<Players>>
<1> DEFINE q == Begin(0).says
           E == m.effects
           k == Len(m.effects)
           Read(i, v, w) ==
             IF E[i].do = "tell"
               THEN Right(v, E[i].to, E[i].message, ForAll(m, E[i])) /\ w = View!Learn(v, E[i].message)
               ELSE w = v
<1>1. PICK n \in Nat :
        /\ q \in Seq(Directives) /\ Len(q) = n + 1
        /\ \A i \in 1 .. n : \E p \in Players : q[i] = Narration({p}, Assigned(p))
        /\ Ending(q[n + 1], Players) /\ q[n + 1].narration.is = "PhaseBegan"
  BY BeginSays
<1> HIDE DEF q
<1>2. /\ e \in Seq(Effects) /\ Len(e) \in Nat /\ Len(q) <= Len(e)
      /\ \A i \in 1 .. Len(q) : e[i] = Sent(q[i])
      /\ \A i \in Len(q) + 1 .. Len(e) : e[i].do \in {"remind", "pay", "farewell"}
  BY DEF Carries, q
<1>3. /\ k = Len(e) + 1 /\ k \in Nat /\ E[1] = Command(Players, "start")
      /\ \A i \in 2 .. k : E[i] = e[i - 1]
  <2> DEFINE c == Command(Players, "start")
  <2>1. E = <<c>> \o e
    OBVIOUS
  <2> HIDE DEF c, E
  <2>2. Len(E) = Len(e) + 1 /\ E[1] = c /\ \A i \in 2 .. Len(e) + 1 : E[i] = e[i - 1]
    BY <1>2, <2>1
  <2> QED
    BY <1>2, <2>2 DEF c, E
<1>4. Players # {} /\ \A p : Players # {p}
  BY DealUndecided, ThreeLive
<1> HIDE DEF k, E
<1>5. ASSUME NEW i \in 1 .. Len(q), q[i].say = "narrate"
      PROVE  E[i + 1].do = "tell" /\ E[i + 1].to = q[i].to /\ E[i + 1].message = q[i].narration
  <2>1. E[i + 1] = Sent(q[i])
    BY <1>1, <1>2, <1>3
  <2>2. Sent(q[i]) = Tell(q[i].to, q[i].narration)
    BY <1>5 DEF Sent
  <2> QED
    BY <2>1, <2>2 DEF Tell
<1>6. Read(1, {}, {})
  <2>1. E[1].do = "command"
    BY <1>3 DEF Command
  <2> QED
    BY <2>1
<1>7. ASSUME NEW i \in 1 .. n PROVE Read(i + 1, {}, {})
  <2>1. PICK p \in Players : q[i] = Narration({p}, Assigned(p))
    BY <1>1
  <2> DEFINE r == Assigned(p)
  <2>2. E[i + 1].do = "tell" /\ E[i + 1].to = {p} /\ E[i + 1].message = r
    <3>1. q[i].say = "narrate" /\ q[i].to = {p} /\ q[i].narration = r /\ i \in 1 .. Len(q)
      BY <1>1, <2>1 DEF Narration
    <3> QED
      BY <1>5, <3>1
  <2>3. r.is = "Assigned"
    BY DEF Assigned
  <2> HIDE DEF r
  <2>4. View!Learn({}, r) = {}
    BY <2>3 DEF View!Learn
  <2>5. ~ForAll(m, E[i + 1])
    BY <1>4, <2>2, <2>3 DEF ForAll
  <2>6. ~View!AllTheLiving({}, E[i + 1].to, r)
    BY DEF View!AllTheLiving
  <2> QED
    BY <2>2, <2>4, <2>5, <2>6 DEF Right
<1>8. Read(n + 2, {}, Players)
  <2> DEFINE r == q[n + 1].narration
  <2>1. n + 1 \in 1 .. Len(q) /\ (n + 1) + 1 = n + 2
    BY <1>1
  <2>2. E[n + 2].do = "tell" /\ E[n + 2].to = Players /\ E[n + 2].message = r /\ r.is = "PhaseBegan" /\ r.living = Players
    BY <1>1, <1>5, <2>1 DEF Ending
  <2> HIDE DEF r
  <2>3. View!Learn({}, r) = Players
    BY <2>2 DEF View!Learn
  <2>4. ForAll(m, E[n + 2])
    BY <2>2 DEF ForAll
  <2>5. View!AllTheLiving(Players, E[n + 2].to, r)
    BY <1>4, <2>2 DEF View!AllTheLiving
  <2> QED
    BY <2>2, <2>3, <2>4, <2>5 DEF Right
<1>9. ASSUME NEW i \in n + 3 .. k PROVE Read(i, Players, Players)
  <2>1. E[i] = e[i - 1] /\ i - 1 \in Len(q) + 1 .. Len(e)
    BY <1>1, <1>2, <1>3
  <2>2. E[i].do # "tell"
    BY <1>2, <2>1
  <2> QED
    BY <2>2
<1> HIDE DEF Read
<1> DEFINE f == [i \in 0 .. k |-> IF i <= n + 1 THEN {} ELSE Players]
<1>10. \A i \in 1 .. k : Read(i, f[i - 1], f[i])
  <2> TAKE i \in 1 .. k
  <2>1. i - 1 \in 0 .. k /\ i \in 0 .. k /\ i \in Nat
    BY <1>3
  <2>2. f[i - 1] = (IF i - 1 <= n + 1 THEN {} ELSE Players) /\ f[i] = IF i <= n + 1 THEN {} ELSE Players
    BY <2>1
  <2> HIDE DEF f
  <2>3. CASE i <= n + 1
    <3>1. i = 1 \/ (i - 1 \in 1 .. n /\ i = (i - 1) + 1)
      BY <2>1, <2>3
    <3>2. Read(i, {}, {})
      BY <1>6, <1>7, <3>1
    <3> QED
      BY <2>1, <2>2, <2>3, <3>2
  <2>4. CASE i = n + 2
    BY <1>8, <2>1, <2>2, <2>4
  <2>5. CASE i > n + 2
    <3>1. i \in n + 3 .. k
      BY <1>3, <2>1, <2>5
    <3> QED
      BY <1>9, <2>1, <2>2, <2>5, <3>1
  <2> QED
    BY <2>1, <2>3, <2>4, <2>5
<1>11. f[0] = {} /\ f[k] = Players
  BY <1>1, <1>2, <1>3
<1> HIDE DEF f
<1>12. \A i \in 1 .. k :
         IF m.effects[i].do = "tell"
           THEN /\ Right(f[i - 1], m.effects[i].to, m.effects[i].message, ForAll(m, m.effects[i]))
                /\ f[i] = View!Learn(f[i - 1], m.effects[i].message)
           ELSE f[i] = f[i - 1]
  BY <1>10 DEF Read, E
<1>13. Len(m.effects) = k
  BY DEF k
<1> DEFINE lines == FlattenSeq([i \in DOMAIN m.effects |-> RecordsOf(m, i)])
<1>14. lines \in Seq(Range(lines)) /\ Watching!Fold(<<f[0]>>, lines) = <<f[k]>>
  BY <1>3, <1>12, <1>13, CallIsRead
<1> HIDE DEF lines
<1> QED
  BY <1>11, <1>14 DEF lines

(***************************************************************************)
(* The invariant of the watching.                                          *)
(***************************************************************************)
\* Who lives, as somebody who read every line there is to write would know.
ToBeKnown == IF g.begun THEN Living ELSE {}

\* Nothing has been misread, and what is yet to be written will not be: it ends
\* in the knowledge of who lives.
WatchInv ==
  /\ unwritten \in Seq(Range(unwritten))
  /\ Watching!Fold(<<watched>>, unwritten) = <<ToBeKnown>>
  /\ ~mislabelled
  /\ unperceived # << >> => unperceived[1].type = "observation"

\* Nothing is known before the game begins.
LEMMA InitWatchInv == InitRecorded => WatchInv
<1> SUFFICES ASSUME InitRecorded PROVE WatchInv
  OBVIOUS
<1>1. unwritten = << >> /\ unperceived = << >> /\ watched = {} /\ ~mislabelled /\ ~g.begun
  BY NewModeratorFields DEF InitRecorded, Init, View!NewView, g, NewGame
<1>2. Watching!Fold(<<{}>>, << >>) = <<{}>>
  BY Watching!FoldNothing
<1> QED
  BY <1>1, <1>2 DEF WatchInv, ToBeKnown

\* With nothing left to write the watcher knows who lives.
LEMMA KnownBetweenCalls ==
  ASSUME WatchInv, unwritten = << >>
  PROVE  watched = ToBeKnown
<1>1. Watching!Fold(<<watched>>, << >>) = <<watched>>
  BY Watching!FoldNothing
<1> QED
  BY <1>1 DEF WatchInv

\* A call leaves lines that are read rightly.
LEMMA CallIsWatched ==
  ASSUME NEW m, NEW perceived, NEW kept, WatchInv, ToWrite(m, perceived, kept),
         LET lines == FlattenSeq([i \in DOMAIN m.effects |-> RecordsOf(m, i)])
         IN  lines \in Seq(Range(lines)) /\ Watching!Fold(<<ToBeKnown>>, lines) = <<ToBeKnown'>>,
         perceived # << >> => perceived[1].type = "observation",
         UNCHANGED <<watched, mislabelled>>
  PROVE  WatchInv'
<1> DEFINE lines == FlattenSeq([i \in DOMAIN m.effects |-> RecordsOf(m, i)])
<1>1. unwritten = << >> /\ unwritten' = lines /\ unperceived' = perceived
  BY DEF ToWrite
<1>2. watched = ToBeKnown
  BY <1>1, KnownBetweenCalls
<1>3. lines \in Seq(Range(lines)) /\ Watching!Fold(<<watched>>, lines) = <<ToBeKnown'>>
  BY <1>2
<1> HIDE DEF lines
<1>4. watched' = watched /\ mislabelled' = mislabelled /\ ~mislabelled
  BY DEF WatchInv
<1> QED
  BY <1>1, <1>3, <1>4 DEF WatchInv
\* The start is read rightly.
LEMMA OpeningIsWatched ==
  ASSUME IInv, WatchInv, OpenedRecorded
  PROVE  WatchInv'
<1> DEFINE m == Start(mod, 0)
           y == Begin(0)
           lines == FlattenSeq([i \in DOMAIN m.effects |-> RecordsOf(m, i)])
<1>1. ~g.begun /\ mod = NewModerator
  BY DEF OpenedRecorded, Opened, IInv, Played
<1>2. /\ m \in ModType /\ m.game = [y EXCEPT !.says = << >>]
      /\ \E e : Carries(e, y.says) /\ m.effects = <<Command(Players, "start")>> \o e
  BY <1>1, StartFields
<1>3. InPlay(y) /\ y.living = Players
  BY BeginPlays
<1>4. m.game.living = Players /\ m.game.begun
  <2> HIDE DEF y, m
  <2>1. InPlay(m.game) /\ m.game.living = y.living
    BY <1>2, <1>3, HeardOut
  <2> QED
    BY <1>3, <2>1 DEF InPlay
<1>5. mod' = [m EXCEPT !.effects = << >>]
  BY DEF OpenedRecorded, Opened, CarryOut
<1>6. ToWrite(m, << >>, {}) /\ UNCHANGED <<watched, mislabelled>>
  BY DEF OpenedRecorded
<1> HIDE DEF m
<1>7. g' = m.game
  BY <1>2, <1>5 DEF g, ModType
<1>8. m.effects \in Seq(Effects)
  BY <1>2 DEF ModType
<1>9. lines \in Seq(Range(lines)) /\ Watching!Fold(<<{}>>, lines) = <<Players>>
  BY <1>2, <1>4, <1>8, OpeningIsRead
<1> HIDE DEF lines
<1>10. ToBeKnown = {} /\ ToBeKnown' = Players
  BY <1>1, <1>4, <1>7 DEF ToBeKnown, Living
<1>11. Watching!Fold(<<ToBeKnown>>, lines) = <<ToBeKnown'>>
  BY <1>9, <1>10
<1> QED
  BY <1>6, <1>9, <1>11, CallIsWatched DEF lines

\* So is what a call says while the game goes on.
LEMMA GoingIsWatched ==
  ASSUME IInv, WatchInv, NEW y, NEW left, NEW counted, NEW m, Goes(y, left, counted, m),
         Script(y.says, g.living, y.living),
         NEW perceived, NEW kept, ToWrite(m, perceived, kept),
         perceived # << >> => perceived[1].type = "observation",
         UNCHANGED <<watched, mislabelled>>
  PROVE  WatchInv'
<1> DEFINE lines == FlattenSeq([i \in DOMAIN m.effects |-> RecordsOf(m, i)])
<1>1. g.begun /\ ~Over(g) /\ InPlay(g)
  BY DEF Goes, IInv, Played
<1>2. InPlay(y) /\ g' = [y EXCEPT !.says = << >>] /\ m.game = [y EXCEPT !.says = << >>]
      /\ Carries(m.effects, y.says)
  BY GoesFields
<1>3. m.game.living = y.living /\ g'.living = y.living /\ g'.begun
  <2>1. y.begun
    BY <1>2 DEF InPlay
  <2> QED
    BY <1>2, <2>1, HeardOut
<1>4. y.says \in Seq(Directives) /\ g.living \in SUBSET Players /\ Winner(g.living) = "undecided"
  BY <1>1, <1>2 DEF InPlay, GameType
<1> DEFINE q == y.says
           L == g.living
           M == y.living
<1>5. lines \in Seq(Range(lines)) /\ Watching!Fold(<<L>>, lines) = <<M>>
  <2>1. /\ q \in Seq(Directives) /\ L \in SUBSET Players /\ Script(q, L, M) /\ Carries(m.effects, q)
        /\ L = Living /\ m.game.living = M /\ Winner(L) = "undecided"
    BY <1>2, <1>3, <1>4 DEF Living
  <2> HIDE DEF q, L, M
  <2> QED
    BY <2>1, ScriptIsRead
<1> HIDE DEF lines
<1>6. ToBeKnown = g.living /\ ToBeKnown' = y.living
  BY <1>1, <1>3 DEF ToBeKnown, Living
<1>7. Watching!Fold(<<ToBeKnown>>, lines) = <<ToBeKnown'>>
  BY <1>5, <1>6
<1> QED
  BY <1>5, <1>7, CallIsWatched DEF lines

\* Once the game is over nothing more is said.
LEMMA OverIsWatched ==
  ASSUME IInv, WatchInv, NEW m, g.begun, Over(g),
         \/ m = [mod EXCEPT !.effects = << >>]
         \/ m = [mod EXCEPT !.stopped = TRUE, !.effects = <<Command(g.living, "stop")>>],
         CarryOut(m),
         NEW perceived, NEW kept, ToWrite(m, perceived, kept),
         perceived # << >> => perceived[1].type = "observation",
         UNCHANGED <<watched, mislabelled>>
  PROVE  WatchInv'
<1> DEFINE lines == FlattenSeq([i \in DOMAIN m.effects |-> RecordsOf(m, i)])
           c == Command(g.living, "stop")
<1>1. mod \in ModType /\ InPlay(g)
  BY DEF IInv, Typed, Played
<1>2. c \in Effects /\ c.do = "command"
  <2>1. g.living \in SUBSET Players
    BY <1>1 DEF InPlay, GameType
  <2> QED
    BY <2>1 DEF Command, Effects
<1> HIDE DEF c
<1>3. m.game = g /\ (m.effects = << >> \/ m.effects = <<c>>)
  BY <1>1 DEF ModType, g, c
<1>4. m.effects \in Seq(Effects) /\ \A i \in 1 .. Len(m.effects) : m.effects[i].do # "tell"
  <2>1. CASE m.effects = << >>
    BY <2>1
  <2>2. CASE m.effects = <<c>>
    BY <1>2, <2>2
  <2> QED
    BY <1>3, <2>1, <2>2
<1>5. g' = g
  <2>1. mod' = [m EXCEPT !.effects = << >>]
    BY DEF CarryOut
  <2>2. mod'.game = m.game
    <3>1. CASE m = [mod EXCEPT !.effects = << >>]
      BY <1>1, <2>1, <3>1 DEF ModType
    <3>2. CASE m = [mod EXCEPT !.stopped = TRUE, !.effects = <<Command(g.living, "stop")>>]
      BY <1>1, <2>1, <3>2 DEF ModType
    <3> QED
      BY <3>1, <3>2
  <2> QED
    BY <1>3, <2>2 DEF g
<1>6. ToBeKnown' = ToBeKnown
  BY <1>5 DEF ToBeKnown, Living
<1>7. lines \in Seq(Range(lines)) /\ Watching!Fold(<<ToBeKnown>>, lines) = <<ToBeKnown>>
  BY <1>4, NothingIsRead
<1> HIDE DEF lines
<1>8. Watching!Fold(<<ToBeKnown>>, lines) = <<ToBeKnown'>>
  BY <1>6, <1>7
<1> QED
  BY <1>7, <1>8, CallIsWatched DEF lines

\* A selection is heard.
LEMMA HearingIsWatched ==
  ASSUME IInv, WatchInv, NEW p \in Players, NEW sel \in Selections(p), HearRecorded(p, sel)
  PROVE  WatchInv'
<1> DEFINE seen == <<ObservationRecord(Env, Heard(p, sel))>>
<1>1. PICK luck :
        /\ Answered(Hearing(p, sel, luck), Counting(p, sel), timer)
        /\ ToWrite(Hearing(p, sel, luck), seen, timer)
  BY DEF HearRecorded
<1>2. UNCHANGED <<watched, mislabelled>>
  BY DEF HearRecorded
<1>3. seen # << >> => seen[1].type = "observation"
  BY DEF ObservationRecord
<1> HIDE DEF seen
<1> DEFINE m == Hearing(p, sel, luck)
<1>4. g.begun /\ CarryOut(m) /\ InPlay(g) /\ clock \in Nat /\ g.says = << >>
  BY <1>1 DEF Answered, IInv, Played, Typed
<1>5. CASE ~Over(g)
  <2> DEFINE y == Expire(Select(g, p, sel, clock), clock, luck)
             counted == Counting(p, sel)
  <2>1. Goes(y, timer, counted, m)
    BY <1>1, <1>5, HearingGoes
  <2>2. Asides(g.says, g.living)
    BY <1>4 DEF Asides
  <2>3. InSession(g, p, sel) => Counts(g, p, sel) /\ p \notin sel.seenBy
    BY <1>4, SelectionsCount
  <2>4. Script(y.says, g.living, y.living)
    BY <1>4, <1>5, <2>2, <2>3, SelectionSays
  <2>5. ToWrite(m, seen, timer)
    BY <1>1
  <2> HIDE DEF y, m, counted
  <2> QED
    BY <1>2, <1>3, <2>1, <2>4, <2>5, GoingIsWatched
<1>6. CASE Over(g)
  <2>1. m = [mod EXCEPT !.effects = << >>]
    BY <1>4, <1>6, HearingOver
  <2>2. ToWrite(m, seen, timer)
    BY <1>1
  <2> HIDE DEF m
  <2> QED
    BY <1>2, <1>3, <1>4, <1>6, <2>1, <2>2, OverIsWatched
<1> QED
  BY <1>5, <1>6

\* A reminder comes back.
LEMMA WakingIsWatched ==
  ASSUME IInv, WatchInv, NEW r \in timer, WakeRecorded(r)
  PROVE  WatchInv'
<1> DEFINE seen == <<ObservationRecord(Env, Reminded(r))>>
           left == timer \ {r}
<1>1. PICK luck :
        /\ Answered(Waking(r, luck), g, left)
        /\ ToWrite(Waking(r, luck), seen, left)
  BY DEF WakeRecorded
<1>2. UNCHANGED <<watched, mislabelled>> /\ r.deadline <= clock
  BY DEF WakeRecorded
<1>3. seen # << >> => seen[1].type = "observation"
  BY DEF ObservationRecord
<1> HIDE DEF seen
<1> DEFINE m == Waking(r, luck)
<1>4. g.begun /\ CarryOut(m) /\ InPlay(g) /\ clock \in Nat /\ g.says = << >> /\ ~mod.stopped
  BY <1>1 DEF Answered, IInv, Played, Typed
<1>5. CASE ~Over(g)
  <2> DEFINE y == Expire(g, clock, luck)
  <2>1. Goes(y, left, g, m)
    BY <1>1, <1>5, WakingGoes
  <2>2. Asides(g.says, g.living)
    BY <1>4 DEF Asides
  <2>3. Script(y.says, g.living, y.living)
    BY <1>4, <1>5, <2>2, ExpireSays
  <2>4. ToWrite(m, seen, left)
    BY <1>1
  <2> HIDE DEF y, m, left
  <2> QED
    BY <1>2, <1>3, <2>1, <2>3, <2>4, GoingIsWatched
<1>6. CASE Over(g)
  <2>1. \/ m = [mod EXCEPT !.effects = << >>]
        \/ m = [mod EXCEPT !.stopped = TRUE, !.effects = <<Command(g.living, "stop")>>]
    BY <1>2, <1>4, <1>6, WakingOver
  <2>2. ToWrite(m, seen, left)
    BY <1>1
  <2> HIDE DEF m, left
  <2> QED
    BY <1>2, <1>3, <1>4, <1>6, <2>1, <2>2, OverIsWatched
<1> QED
  BY <1>5, <1>6

\* The next lines of a call are no misreading: nobody gets over one.
LEMMA WritingIsWatched ==
  ASSUME WatchInv, WriteAction
  PROVE  WatchInv'
<1> DEFINE b == Head(unwritten)
           rest == Tail(unwritten)
           S == Range(unwritten)
<1>1. /\ unwritten \in Seq(S) /\ unwritten # << >> /\ ~mislabelled
      /\ Watching!Fold(<<watched>>, unwritten) = <<ToBeKnown>>
      /\ unwritten' = rest /\ unperceived' = unperceived
      /\ watched' = View!Seen(watched, b[1])
      /\ mislabelled' = (mislabelled \/ Mislabels(b[1])) /\ UNCHANGED vars
      /\ unperceived # << >> => unperceived[1].type = "observation"
  BY DEF WatchInv, WriteAction, Written
<1> HIDE DEF S
<1>2. rest \in Seq(S) /\ b \in S
  BY <1>1
<1> HIDE DEF b, rest
<1>3. Watching!Fold(<<watched>>, unwritten) = Watching!Fold(Watch(<<watched>>, b), rest)
  BY <1>1, Watching!FoldFirst DEF b, rest
<1>4. ~Wrongs(watched, b[1])
  <2> SUFFICES ASSUME Wrongs(watched, b[1]) PROVE FALSE
    OBVIOUS
  <2>1. Watch(<<watched>>, b) = << >>
    BY DEF Watch
  <2>2. Watching!Fold(<< >>, rest) = << >>
    BY <1>2, OnceWrong
  <2>3. << >> = <<ToBeKnown>>
    BY <1>1, <1>3, <2>1, <2>2
  <2> QED
    BY <2>3
<1>5. Watch(<<watched>>, b) = <<watched'>>
  BY <1>1, <1>4 DEF Watch
<1>6. ~mislabelled'
  BY <1>1, <1>4 DEF Mislabels, Wrongs
<1>7. ToBeKnown' = ToBeKnown
  BY <1>1 DEF ToBeKnown, Living, g, vars
<1>8. rest \in Seq(Range(rest))
  BY <1>2, SeqOfItsRange
<1>9. Watching!Fold(<<watched'>>, rest) = <<ToBeKnown'>>
  BY <1>1, <1>3, <1>5, <1>7
<1> QED
  BY <1>1, <1>6, <1>8, <1>9 DEF WatchInv

\* A line that is no action is nothing to a watcher.
LEMMA OthersAreNotWatched ==
  ASSUME WatchInv, NEW line, line.type # "action", UNCHANGED vars, unwritten' = unwritten,
         watched' = View!Seen(watched, line), mislabelled' = (mislabelled \/ Mislabels(line)),
         unperceived' = unperceived \/ unperceived' = << >>
  PROVE  WatchInv'
<1>1. ~View!Shown(line)
  BY DEF View!Shown
<1>2. watched' = watched
  BY <1>1 DEF View!Seen
<1>3. ~mislabelled'
  BY <1>1 DEF Mislabels, WatchInv
<1>4. ToBeKnown' = ToBeKnown
  BY DEF ToBeKnown, Living, g, vars
<1> QED
  BY <1>2, <1>3, <1>4 DEF WatchInv

\* Every step keeps the invariant.
LEMMA StepsAreWatched == IInv /\ WatchInv /\ [NextRecorded]_recordedVars => WatchInv'
<1> SUFFICES ASSUME IInv, WatchInv, [NextRecorded]_recordedVars PROVE WatchInv'
  OBVIOUS
<1>1. CASE OpenedRecorded
  BY <1>1, OpeningIsWatched
<1>2. CASE TickRecorded
  BY <1>2 DEF TickRecorded, Tick, logVars, WatchInv, ToBeKnown, Living, g
<1>3. CASE WriteAction
  BY <1>3, WritingIsWatched
<1>4. CASE WriteObservation
  <2> DEFINE line == unperceived[1]
  <2>1. line.type = "observation" /\ unwritten' = unwritten /\ unperceived' = << >> /\ Written(unperceived)
    BY <1>4 DEF WriteObservation, WatchInv
  <2>2. /\ watched' = View!Seen(watched, line) /\ mislabelled' = (mislabelled \/ Mislabels(line))
        /\ UNCHANGED vars
    BY <2>1 DEF Written
  <2> QED
    BY <2>1, <2>2, OthersAreNotWatched
<1>5. CASE EndedRecorded \/ UNCHANGED recordedVars
  BY <1>5 DEF EndedRecorded, recordedVars, logVars, vars, WatchInv, ToBeKnown, Living, g
<1>6. ASSUME NEW p \in Players, NEW sel \in Selections(p), HearRecorded(p, sel) PROVE WatchInv'
  BY <1>6, HearingIsWatched
<1>7. ASSUME NEW r \in timer, WakeRecorded(r) PROVE WatchInv'
  BY <1>7, WakingIsWatched
<1>8. ASSUME NEW r \in DOMAIN numbers, WriteUndelivered(r) PROVE WatchInv'
  <2> DEFINE line == UndeliveredRecord(Env, Reminded(r))
  <2>1. line.type = "undelivered"
    BY DEF UndeliveredRecord, ObservationRecord
  <2>2. /\ watched' = View!Seen(watched, line) /\ mislabelled' = (mislabelled \/ Mislabels(line))
        /\ UNCHANGED vars /\ unwritten' = unwritten /\ unperceived' = unperceived
    BY <1>8 DEF WriteUndelivered, Written
  <2> HIDE DEF line
  <2> QED
    BY <2>1, <2>2, OthersAreNotWatched
<1> QED
  BY <1>1, <1>2, <1>3, <1>4, <1>5, <1>6, <1>7, <1>8 DEF NextRecorded

\* A game that leaves a log is a moderated game.
THEOREM RecordedGameIsModerated == SpecRecorded => Init /\ [][Next]_vars
<1>1. InitRecorded => Init
  BY DEF InitRecorded
<1> QED
  BY <1>1, RecordedSteps, PTL DEF SpecRecorded

\* Both invariants hold of every state of it, wherever its log is cut off.
THEOREM RecordedGameInvariant == SpecRecorded => [](IInv /\ WatchInv)
<1>1. InitRecorded => IInv /\ WatchInv
  BY InitIInv, InitWatchInv DEF InitRecorded
<1>2. (IInv /\ WatchInv) /\ [NextRecorded]_recordedVars => (IInv /\ WatchInv)'
  BY RecordedSteps, StepsKeep, StepsAreWatched
<1> QED
  BY <1>1, <1>2, PTL DEF SpecRecorded

\* Those who die in a game that leaves a log are those the selections called
\* for.
THEOREM RecordedDeathsAreJust == SpecRecorded => []DeathsAreCalledFor
<1>1. IInv /\ WatchInv => DeathsAreCalledFor
  BY DEF IInv
<1> QED
  BY RecordedGameInvariant, <1>1, PTL

\* A watcher's line says "everybody" exactly of what the moderator sent to all
\* the living, and the living it counts are those the lines before it leave.
THEOREM LinesNameTheLiving == SpecRecorded => []EverybodyIsTheLiving
<1>1. IInv /\ WatchInv => EverybodyIsTheLiving
  BY DEF WatchInv, EverybodyIsTheLiving
<1> QED
  BY RecordedGameInvariant, <1>1, PTL
=============================================================================
