---------------------------- MODULE GameProofs ----------------------------
(***************************************************************************)
(* What the operators of Game and Moderator do, for every deal and timing. *)
(* Of a game: which the end of a phase leaves (Between), which a call      *)
(* leaves (InPlay), which a call passes through (Midway), whom a game      *)
(* tells (Telling), and whom the selections call for (Called).  Of a       *)
(* moderator: what its calls yield (Said), and what comes of that once it  *)
(* is carried out (CarriedOut).  Nothing here is a step;                   *)
(* ModeratedGameProofs and TableProofs compose these facts along theirs.   *)
(***************************************************************************)
EXTENDS Moderator, FiniteSetTheorems, SequenceTheorems, WellFoundedInduction, TLAPS

(***************************************************************************)
(* Types.                                                                  *)
(***************************************************************************)
Winners == {"undecided", "Village", "Werewolves", "nobody"}
Target  == Players \cup {Nobody}
Seats   == [stage : {"none", "open", "closed"}, members : SUBSET Players,
            selections : [Players -> Target], limit : Nat, lastChange : Nat]
Narrations ==
  [is : {"Assigned"}, role : Roles, pack : SUBSET Players]
  \cup [is : {"PhaseBegan"}, round : Nat, phase : Phases, living : SUBSET Players]
  \cup [is : {"Eliminated"}, who : Players, role : Roles, round : Nat, cause : {"Devoured", "Lynched"}]
  \cup [is : {"Investigated"}, target : Players, faction : {"Werewolves", "Village"}]
  \cup [is : {"Outcome"}, winner : Winners, rounds : Nat, living : SUBSET Players]
  \cup [is : {"NoDeath", "NoLynch"}]
Envelopes == [from : Players, kind : Kinds, target : Players]
Directives ==
  [say : {"narrate"}, to : SUBSET Players, narration : Narrations]
  \cup [say : {"forward"}, to : SUBSET Players, envelope : Envelopes]
  \cup [say : {"stop"}, who : Players]
GameType ==
  [living : SUBSET Players, round : Nat, phase : Phases, begun : BOOLEAN,
   sessions : [Kinds -> Seats], lastProtected : [Players -> Target],
   winner : Winners, says : Seq(Directives)]

\* x and y differ at most in what they have to say.
SameButSays(x, y) ==
  /\ y.living = x.living /\ y.round = x.round /\ y.phase = x.phase /\ y.begun = x.begun
  /\ y.sessions = x.sessions /\ y.lastProtected = x.lastProtected /\ y.winner = x.winner

\* Saying adds a directive, and changes nothing else.
LEMMA SayingFields ==
  ASSUME NEW x \in GameType, NEW d \in Directives
  PROVE  /\ Saying(x, d) \in GameType /\ SameButSays(x, Saying(x, d))
         /\ Saying(x, d).says = Append(x.says, d)
<1>1. Append(x.says, d) \in Seq(Directives)
  BY AppendProperties DEF GameType
<1> QED
  BY <1>1 DEF GameType, Saying, SameButSays

\* The narrations there are.
LEMMA NarrationTypes ==
  ASSUME NEW x \in GameType
  PROVE  /\ PhaseBegan(x) \in Narrations
         /\ \A w \in Winners : Outcome(x, w) \in Narrations
         /\ \A p \in Players, c \in {"Devoured", "Lynched"} : Eliminated(x, p, c) \in Narrations
         /\ \A p \in Players : Assigned(p) \in Narrations /\ Investigated(p) \in Narrations
         /\ Quietly("NoDeath") \in Narrations /\ Quietly("NoLynch") \in Narrations
<1>1. PhaseBegan(x) \in [is : {"PhaseBegan"}, round : Nat, phase : Phases, living : SUBSET Players]
  BY DEF PhaseBegan, GameType
<1>2. \A w \in Winners : Outcome(x, w) \in [is : {"Outcome"}, winner : Winners, rounds : Nat, living : SUBSET Players]
  BY DEF Outcome, GameType
<1>3. \A p \in Players, c \in {"Devoured", "Lynched"} : 
        Eliminated(x, p, c) \in [is : {"Eliminated"}, who : Players, role : Roles, round : Nat, cause : {"Devoured", "Lynched"}]
  BY DealAssumption DEF Eliminated, GameType
<1>4. \A p \in Players : Assigned(p) \in [is : {"Assigned"}, role : Roles, pack : SUBSET Players]
  BY DealAssumption DEF Assigned, Pack
<1>5. \A p \in Players : Investigated(p) \in [is : {"Investigated"}, target : Players, faction : {"Werewolves", "Village"}]
  BY DEF Investigated, Faction
<1>6. Quietly("NoDeath") \in [is : {"NoDeath", "NoLynch"}] /\ Quietly("NoLynch") \in [is : {"NoDeath", "NoLynch"}]
  BY DEF Quietly
<1> QED
  BY <1>1, <1>2, <1>3, <1>4, <1>5, <1>6 DEF Narrations

\* A narration is one more directive, and changes nothing else.
LEMMA NarrateFields ==
  ASSUME NEW x \in GameType, NEW to \in SUBSET Players, NEW n \in Narrations
  PROVE  /\ Narrate(x, to, n) \in GameType /\ SameButSays(x, Narrate(x, to, n))
         /\ Narrate(x, to, n).says = Append(x.says, Narration(to, n))
<1>1. Narration(to, n) \in Directives
  BY DEF Narration, Directives
<1> QED
  BY <1>1, SayingFields DEF Narrate

\* A session nobody has opened.
LEMMA UnopenedType == Unopened \in Seats /\ Unopened.stage = "none"
  BY DEF Unopened, Seats, Target

(***************************************************************************)
(* Phases.                                                                 *)
(***************************************************************************)
LEMMA BeginPhaseFields ==
  ASSUME NEW x \in GameType, NEW now \in Nat
  PROVE  LET y == BeginPhase(x, now)
         IN  /\ y \in GameType
             /\ y.living = x.living /\ y.round = x.round /\ y.phase = x.phase /\ y.begun = x.begun
             /\ y.lastProtected = x.lastProtected /\ y.winner = x.winner
             /\ y.says = Append(x.says, Narration(x.living, PhaseBegan(x)))
             /\ \A k \in Kinds :
                  /\ Members(x, k) = {} => y.sessions[k] = Unopened
                  /\ Members(x, k) # {} =>
                       y.sessions[k] = [Unopened EXCEPT !.stage = "open", !.members = Members(x, k),
                                          !.limit = now + Limit[k], !.lastChange = now]
<1> DEFINE z == NarrateLiving(x, PhaseBegan(x))
           s == [k \in Kinds |-> IF Members(x, k) = {} THEN Unopened
                     ELSE [Unopened EXCEPT !.stage = "open", !.members = Members(x, k),
                                           !.limit = now + Limit[k], !.lastChange = now]]
<1>1. z \in GameType /\ SameButSays(x, z) /\ z.says = Append(x.says, Narration(x.living, PhaseBegan(x)))
  <2>1. PhaseBegan(x) \in Narrations /\ x.living \in SUBSET Players
    BY NarrationTypes DEF GameType
  <2> QED
    BY <2>1, NarrateFields DEF NarrateLiving
<1>2. \A k \in Kinds : s[k] \in Seats
  <2> TAKE k \in Kinds
  <2>1. Members(x, k) \in SUBSET Players
    BY DEF Members, GameType
  <2>2. now + Limit[k] \in Nat
    BY TimingAssumption
  <2> QED
    BY <2>1, <2>2, UnopenedType DEF Seats
<1>3. s \in [Kinds -> Seats]
  BY <1>2
<1>4. BeginPhase(x, now) = [z EXCEPT !.sessions = s]
  BY DEF BeginPhase
<1> HIDE DEF z, s
<1>5. [z EXCEPT !.sessions = s] \in GameType
  BY <1>1, <1>3 DEF GameType
<1>6. /\ BeginPhase(x, now).sessions = s
      /\ BeginPhase(x, now).living = z.living /\ BeginPhase(x, now).round = z.round
      /\ BeginPhase(x, now).phase = z.phase /\ BeginPhase(x, now).begun = z.begun
      /\ BeginPhase(x, now).lastProtected = z.lastProtected /\ BeginPhase(x, now).winner = z.winner
      /\ BeginPhase(x, now).says = z.says
  BY <1>1, <1>4 DEF GameType
<1> QED
  BY <1>1, <1>4, <1>5, <1>6 DEF s, SameButSays

(***************************************************************************)
(* The rules.                                                              *)
(***************************************************************************)
LEMMA PlayersAreFinite ==
  ASSUME NEW S \in SUBSET Players
  PROVE  IsFiniteSet(S) /\ Cardinality(S) \in Nat
  BY FS_Subset, FS_CardinalityType, DealAssumption

\* While neither side has won there is a werewolf and somebody who is none.
LEMMA UndecidedMeans ==
  ASSUME NEW S \in SUBSET Players, Winner(S) = "undecided"
  PROVE  S \cap Pack # {} /\ S \ Pack # {}
<1>1. Cardinality(S \cap Pack) # 0
  BY DEF Winner
<1>2. Cardinality(S \ Pack) > Cardinality(S \cap Pack)
  BY PlayersAreFinite DEF Winner
<1>3. Cardinality(S \cap Pack) \in Nat /\ Cardinality(S \ Pack) \in Nat
  BY PlayersAreFinite
<1>4. Cardinality(S \ Pack) # 0
  BY <1>2, <1>3
<1> QED
  BY <1>1, <1>4, FS_EmptySet

\* Who has won is one of the winners there are.
LEMMA WinnerType == \A S : Winner(S) \in Winners
  BY DEF Winner, Winners

\* The deal is undecided.
LEMMA DealUndecided == Winner(Players) = "undecided"
<1>1. Pack \in SUBSET Players /\ Players \cap Pack = Pack
  BY DEF Pack
<1>2. IsFiniteSet(Pack) /\ IsFiniteSet(Players \ Pack) /\ Cardinality(Pack) \in Nat /\ Cardinality(Players \ Pack) \in Nat
  BY <1>1, PlayersAreFinite
<1>3. Cardinality(Players) = Cardinality(Pack) + Cardinality(Players \ Pack)
  <2>1. Pack \cap (Players \ Pack) = {} /\ Pack \cup (Players \ Pack) = Players
    BY <1>1
  <2>2. Cardinality(Pack \cup (Players \ Pack))
          = Cardinality(Pack) + Cardinality(Players \ Pack) - Cardinality(Pack \cap (Players \ Pack))
    BY <1>2, FS_Union
  <2>3. Cardinality(Pack \cap (Players \ Pack)) = 0
    BY <2>1, FS_EmptySet
  <2>4. Cardinality(Pack) + Cardinality(Players \ Pack) - 0 = Cardinality(Pack) + Cardinality(Players \ Pack)
    BY <1>2
  <2> QED
    BY <2>1, <2>2, <2>3, <2>4
<1>4. Cardinality(Pack) # 0 /\ ~(Cardinality(Pack) >= Cardinality(Players \ Pack))
  BY <1>2, <1>3, DealAssumption
<1> QED
  BY <1>1, <1>4 DEF Winner

\* What a role is asked in a phase is asked in a session of that phase.
LEMMA KindsAndPhases ==
  ASSUME NEW p \in Players, NEW ph \in Phases, NEW k \in Kinds, AskedIn(RoleOf[p], ph) = k
  PROVE  PhaseOf(k) = ph
<1>1. CASE ph = "Day"
  BY <1>1 DEF AskedIn, PhaseOf
<1>2. CASE ph = "Night"
  <2>1. AskedIn(RoleOf[p], ph) \in {"Devour", "Investigate", "Protect", "nothing"}
    BY <1>2, DealAssumption DEF AskedIn, Nothing, Roles
  <2> QED
    BY <1>2, <2>1 DEF PhaseOf
<1> QED
  BY <1>1, <1>2 DEF Phases

(***************************************************************************)
(* Between phases, and in one.                                             *)
(***************************************************************************)
\* A game as the end of a phase leaves it: no session is left.
Between(x) ==
  /\ x \in GameType /\ x.begun /\ ~Over(x) /\ x.round \in 1 .. DayCap
  /\ \A k \in Kinds : x.sessions[k] = Unopened

\* The members of a session live, and only members have selected, and
\* somebody who lives.
Seated(x) ==
  \A k \in Kinds :
    /\ x.sessions[k].members \subseteq x.living
    /\ \A p \in Players : x.sessions[k].selections[p] # Nobody =>
         p \in x.sessions[k].members /\ x.sessions[k].selections[p] \in x.living

\* A game as a call of the moderator leaves it: undecided, with a session
\* open, all of this phase, and no majority that has not been lynched; or over,
\* with the winner the living make, and no session.
InPlay(x) ==
  /\ x \in GameType /\ x.begun /\ x.round \in 1 .. DayCap
  /\ \A k \in Kinds : Over(x) \/ PhaseOf(k) # x.phase => x.sessions[k] = Unopened
  /\ ~Over(x) => /\ Winner(x.living) = "undecided" /\ Open(x) # {} /\ Seated(x)
                 /\ x.phase = "Day" => Majority(x) = {}
  /\ x.winner \in {"Village", "Werewolves"} => Winner(x.living) = x.winner
  /\ x.winner = "nobody" =>
       Winner(x.living) = "undecided" /\ x.round = DayCap /\ x.phase = "Day"

\* y is the phase after x's, begun now.
NewPhase(x, y, now) ==
  /\ ~Over(y)
  /\ IF x.phase = "Night" THEN y.phase = "Day" /\ y.round = x.round
                          ELSE y.phase = "Night" /\ y.round = x.round + 1
  /\ \A k \in Open(y) : y.sessions[k].limit = now + Limit[k] /\ y.sessions[k].lastChange = now
Finished(x, y) == Over(y) /\ y.round = x.round /\ y.phase = x.phase
MovedOn(x, y, now) ==
  InPlay(y) /\ y.living = x.living /\ (NewPhase(x, y, now) \/ Finished(x, y))

\* While neither side has won somebody is asked something in every phase: a
\* werewolf has somebody to devour, and anybody somebody to nominate.
LEMMA MembersFacts ==
  ASSUME NEW x \in GameType, Winner(x.living) = "undecided"
  PROVE  /\ \A k \in Kinds : Members(x, k) # {} => PhaseOf(k) = x.phase
         /\ \E k \in Kinds : Members(x, k) # {}
         /\ \A k \in Kinds : Members(x, k) \subseteq x.living
<1>1. x.living \in SUBSET Players /\ x.phase \in Phases
  BY DEF GameType
<1>2. PICK w \in x.living, v \in x.living : w \in Pack /\ v \notin Pack
  BY <1>1, UndecidedMeans
<1>3. w # v /\ RoleOf[w] = "Werewolf" /\ w \in Players
  BY <1>1, <1>2 DEF Pack
<1>4. CASE x.phase = "Day"
  <2>1. v \in SpaceFor(x, w, "Nominate")
    BY <1>2, <1>3 DEF SpaceFor, ActionSpace
  <2>2. AskedIn(RoleOf[w], x.phase) = "Nominate"
    BY <1>4 DEF AskedIn
  <2>3. w \in Members(x, "Nominate")
    BY <1>2, <2>1, <2>2 DEF Members
  <2> QED
    BY <1>1, <2>3, KindsAndPhases DEF Members, Kinds
<1>5. CASE x.phase = "Night"
  <2>1. v \in SpaceFor(x, w, "Devour")
    BY <1>2, <1>3 DEF SpaceFor, ActionSpace
  <2>2. AskedIn(RoleOf[w], x.phase) = "Devour"
    BY <1>3, <1>5 DEF AskedIn
  <2>3. w \in Members(x, "Devour")
    BY <1>2, <2>1, <2>2 DEF Members
  <2> QED
    BY <1>1, <2>3, KindsAndPhases DEF Members, Kinds
<1> QED
  BY <1>1, <1>4, <1>5 DEF Phases

\* With nobody's vote in there is no majority.
LEMMA NoVotes ==
  ASSUME NEW x \in GameType, \A p \in Players : x.sessions["Nominate"].selections[p] = Nobody
  PROVE  Majority(x) = {}
<1>1. ASSUME NEW p \in Players PROVE Votes(x.sessions["Nominate"], p) = 0
  <2>1. {q \in x.sessions["Nominate"].members : x.sessions["Nominate"].selections[q] = p} = {}
    <3>1. x.sessions["Nominate"].members \subseteq Players
      BY DEF GameType, Seats, Kinds
    <3> QED
      BY <3>1, DealAssumption
  <2> QED
    BY <2>1, FS_EmptySet DEF Votes
<1>2. Cardinality(x.living) \in Nat
  BY PlayersAreFinite DEF GameType
<1> QED
  BY <1>1, <1>2 DEF Majority

\* A phase that is begun can be played.
LEMMA BegunPhase ==
  ASSUME NEW x \in GameType, NEW now \in Nat, x.begun, ~Over(x), x.round \in 1 .. DayCap,
         Winner(x.living) = "undecided"
  PROVE  LET y == BeginPhase(x, now)
         IN  /\ InPlay(y)
             /\ \A k \in Open(y) : y.sessions[k].limit = now + Limit[k] /\ y.sessions[k].lastChange = now
<1> DEFINE y == BeginPhase(x, now)
<1>1. /\ y \in GameType
      /\ y.living = x.living /\ y.round = x.round /\ y.phase = x.phase /\ y.begun = x.begun
      /\ y.winner = x.winner
      /\ \A k \in Kinds : 
           /\ Members(x, k) = {} => y.sessions[k] = Unopened
           /\ Members(x, k) # {} =>
                y.sessions[k] = [Unopened EXCEPT !.stage = "open", !.members = Members(x, k),
                                          !.limit = now + Limit[k], !.lastChange = now]
  BY BeginPhaseFields
<1> HIDE DEF y
<1>2. \A k \in Kinds :
        /\ y.sessions[k].selections = [p \in Players |-> Nobody]
        /\ y.sessions[k].members = Members(x, k)
        /\ y.sessions[k].stage = "open" <=> Members(x, k) # {}
        /\ Members(x, k) # {} => y.sessions[k].limit = now + Limit[k] /\ y.sessions[k].lastChange = now
  <2> TAKE k \in Kinds
  <2>1. CASE Members(x, k) = {}
    <3>1. y.sessions[k] = Unopened
      BY <1>1, <2>1
    <3> QED
      BY <2>1, <3>1 DEF Unopened
  <2>2. CASE Members(x, k) # {}
    <3>1. y.sessions[k] = [Unopened EXCEPT !.stage = "open", !.members = Members(x, k),
                             !.limit = now + Limit[k], !.lastChange = now]
      BY <1>1, <2>2
    <3> QED
      BY <2>2, <3>1 DEF Unopened
  <2> QED
    BY <2>1, <2>2
<1>3. Open(y) = {k \in Kinds : Members(x, k) # {}}
  BY <1>2 DEF Open
<1>4. Seated(y)
  <2>1. \A k \in Kinds : y.sessions[k].members \subseteq y.living
    BY <1>1, <1>2 DEF Members
  <2>2. \A k \in Kinds, p \in Players : y.sessions[k].selections[p] = Nobody
    BY <1>2
  <2> QED
    BY <2>1, <2>2 DEF Seated
<1>5. Majority(y) = {}
  BY <1>1, <1>2, NoVotes DEF Kinds
<1>6. \A k \in Kinds : PhaseOf(k) # y.phase => y.sessions[k] = Unopened
  BY <1>1, MembersFacts
<1>7. Open(y) # {} /\ ~Over(y) /\ y.winner = "undecided"
  BY <1>1, <1>3, MembersFacts DEF Over
<1>8. InPlay(y)
  BY <1>1, <1>4, <1>5, <1>6, <1>7 DEF InPlay
<1> QED
  BY <1>2, <1>3, <1>8 DEF y

\* next_phase: the phase that follows can be played.
LEMMA NextPhasePlays ==
  ASSUME NEW x, Between(x), NEW now \in Nat, Winner(x.living) = "undecided",
         x.phase = "Day" => x.round < DayCap
  PROVE  MovedOn(x, NextPhase(x, now), now)
<1> DEFINE z == IF x.phase = "Night" THEN [x EXCEPT !.phase = "Day"]
                ELSE [x EXCEPT !.phase = "Night", !.round = @ + 1]
<1>1. x \in GameType /\ x.phase \in Phases /\ x.round \in 1 .. DayCap /\ DayCap \in Nat
  BY TimingAssumption DEF Between, GameType
<1>2. /\ z \in GameType /\ z.living = x.living /\ z.begun = x.begun /\ z.winner = x.winner
      /\ IF x.phase = "Night" THEN z.phase = "Day" /\ z.round = x.round
                              ELSE z.phase = "Night" /\ z.round = x.round + 1
  <2>1. CASE x.phase = "Night"
    <3>1. z = [x EXCEPT !.phase = "Day"]
      BY <2>1
    <3> QED
      BY <1>1, <2>1, <3>1 DEF GameType, Phases
  <2>2. CASE x.phase # "Night"
    <3>1. z = [x EXCEPT !.phase = "Night", !.round = @ + 1]
      BY <2>2
    <3>2. x.round + 1 \in Nat
      BY <1>1
    <3> QED
      BY <1>1, <2>2, <3>1, <3>2 DEF GameType, Phases
  <2> QED
    BY <2>1, <2>2
<1>3. z.round \in 1 .. DayCap
  BY <1>1, <1>2 DEF Phases
<1> HIDE DEF z
<1>4. InPlay(BeginPhase(z, now))
      /\ \A k \in Open(BeginPhase(z, now)) : BeginPhase(z, now).sessions[k].limit = now + Limit[k]
                                          /\ BeginPhase(z, now).sessions[k].lastChange = now
  <2>1. z.begun /\ ~Over(z) /\ z \in GameType /\ Winner(z.living) = "undecided"
    BY <1>2 DEF Between, Over
  <2> QED
    BY <1>3, <2>1, BegunPhase
<1>5. LET y == BeginPhase(z, now)
      IN  y.living = z.living /\ y.round = z.round /\ y.phase = z.phase /\ y.winner = z.winner
  BY <1>2, BeginPhaseFields
<1>6. NextPhase(x, now) = BeginPhase(z, now)
  BY DEF NextPhase, z
<1> QED
  BY <1>2, <1>4, <1>5, <1>6 DEF MovedOn, NewPhase, Between, Over

(***************************************************************************)
(* Who is told.                                                            *)
(***************************************************************************)
\* Whom the first n of some directives stop, whom a directive is for, and whom
\* it sends away.
Gone(q, n) == {p \in Players : \E j \in 1 .. n : q[j].say = "stop" /\ q[j].who = p}
Addressees(d) == IF d.say = "stop" THEN {d.who} ELSE d.to
Leaves(d) == IF d.say = "stop" THEN {d.who} ELSE {}

\* With the players in L running, the directives q are all for somebody who is
\* running still, and leave those in `left`.
Telling(L, q, left) ==
  /\ left = L \ Gone(q, Len(q))
  /\ \A i \in 1 .. Len(q) : Addressees(q[i]) \subseteq L \ Gone(q, i - 1)

\* What y has to say after x is for those who are left.
KeepsTelling(x, y) ==
  \A L \in SUBSET Players : Telling(L, x.says, x.living) => Telling(L, y.says, y.living)

\* One directive more, for somebody who is left.
LEMMA TellMore ==
  ASSUME NEW L \in SUBSET Players, NEW q \in Seq(Directives), NEW left, Telling(L, q, left),
         NEW d \in Directives, Addressees(d) \subseteq left
  PROVE  Telling(L, Append(q, d), left \ Leaves(d))
<1> DEFINE r == Append(q, d)
<1>1. /\ Len(q) \in Nat /\ Len(r) = Len(q) + 1
      /\ \A i \in 1 .. Len(q) : r[i] = q[i]
      /\ r[Len(q) + 1] = d
  BY AppendProperties, LenProperties
<1> HIDE DEF r
<1>2. \A n \in 0 .. Len(q) : Gone(r, n) = Gone(q, n)
  BY <1>1 DEF Gone
<1>3. Leaves(d) \subseteq Players
  BY DEF Leaves, Directives
<1>4. Gone(r, Len(r)) = Gone(q, Len(q)) \cup Leaves(d)
  <2>1. \A j \in 1 .. Len(r) : j \in 1 .. Len(q) \/ j = Len(q) + 1
    BY <1>1
  <2>2. ASSUME NEW p \in Gone(r, Len(r)) PROVE p \in Gone(q, Len(q)) \cup Leaves(d)
    <3>1. PICK j \in 1 .. Len(r) : r[j].say = "stop" /\ r[j].who = p
      BY DEF Gone
    <3>2. CASE j \in 1 .. Len(q)
      BY <1>1, <3>1, <3>2 DEF Gone
    <3>3. CASE j = Len(q) + 1
      BY <1>1, <3>1, <3>3 DEF Leaves
    <3> QED
      BY <2>1, <3>2, <3>3
  <2>3. Gone(q, Len(q)) \subseteq Gone(r, Len(r))
    BY <1>1 DEF Gone
  <2>4. Leaves(d) \subseteq Gone(r, Len(r))
    <3>1. Len(q) + 1 \in 1 .. Len(r)
      BY <1>1
    <3> QED
      BY <1>1, <1>3, <3>1 DEF Gone, Leaves
  <2> QED
    BY <2>2, <2>3, <2>4
<1>5. left = L \ Gone(q, Len(q))
  BY DEF Telling
<1>6. left \ Leaves(d) = L \ Gone(r, Len(r))
  BY <1>4, <1>5
<1>7. ASSUME NEW i \in 1 .. Len(r) PROVE Addressees(r[i]) \subseteq L \ Gone(r, i - 1)
  <2>1. CASE i \in 1 .. Len(q)
    <3>1. r[i] = q[i] /\ i - 1 \in 0 .. Len(q)
      BY <1>1, <2>1
    <3> QED
      BY <1>2, <2>1, <3>1 DEF Telling
  <2>2. CASE i = Len(q) + 1
    <3>1. r[i] = d /\ i - 1 = Len(q) /\ Len(q) \in 0 .. Len(q)
      BY <1>1, <2>2
    <3> QED
      BY <1>2, <1>5, <3>1
  <2> QED
    BY <1>1, <2>1, <2>2
<1> QED
  BY <1>6, <1>7 DEF Telling, r

\* Telling some of those who are left changes who is left not at all.
LEMMA NarrateTells ==
  ASSUME NEW x \in GameType, NEW y, NEW to \in SUBSET Players, to \subseteq x.living,
         NEW n \in Narrations,
         y.says = Append(x.says, Narration(to, n)), y.living = x.living
  PROVE  KeepsTelling(x, y)
<1> DEFINE d == Narration(to, n)
<1>1. d \in Directives /\ Addressees(d) = to /\ Leaves(d) = {}
  BY DEF Narration, Directives, Addressees, Leaves
<1>2. x.says \in Seq(Directives)
  BY DEF GameType
<1> HIDE DEF d
<1>3. ASSUME NEW L \in SUBSET Players, Telling(L, x.says, x.living)
      PROVE  Telling(L, Append(x.says, d), x.living \ {})
  BY <1>1, <1>2, <1>3, TellMore
<1> QED
  BY <1>3 DEF KeepsTelling, d

\* The phase is announced to those who are left.
LEMMA NextPhaseTells ==
  ASSUME NEW x, Between(x), NEW now \in Nat
  PROVE  KeepsTelling(x, NextPhase(x, now))
<1> DEFINE z == IF x.phase = "Night" THEN [x EXCEPT !.phase = "Day"]
                ELSE [x EXCEPT !.phase = "Night", !.round = @ + 1]
<1>1. x \in GameType /\ x.living \in SUBSET Players /\ x.round + 1 \in Nat
  BY DEF Between, GameType
<1>2. z \in GameType /\ z.living = x.living /\ z.says = x.says
  <2>1. CASE x.phase = "Night"
    <3>1. z = [x EXCEPT !.phase = "Day"]
      BY <2>1
    <3> QED
      BY <1>1, <3>1 DEF GameType, Phases
  <2>2. CASE x.phase # "Night"
    <3>1. z = [x EXCEPT !.phase = "Night", !.round = @ + 1]
      BY <2>2
    <3> QED
      BY <1>1, <3>1 DEF GameType, Phases
  <2> QED
    BY <2>1, <2>2
<1> HIDE DEF z
<1>3. NextPhase(x, now) = BeginPhase(z, now)
  BY DEF NextPhase, z
<1>4. /\ BeginPhase(z, now).says = Append(x.says, Narration(x.living, PhaseBegan(z)))
      /\ BeginPhase(z, now).living = x.living
  BY <1>2, BeginPhaseFields
<1>5. PhaseBegan(z) \in Narrations
  BY <1>2, NarrationTypes
<1> QED
  BY <1>1, <1>3, <1>4, <1>5, NarrateTells

(***************************************************************************)
(* The end of a phase.                                                     *)
(***************************************************************************)
\* A game that has ended, with the winner its living make.
LEMMA EndFields ==
  ASSUME NEW x, Between(x), NEW w \in Winners \ {"undecided"},
         w \in {"Village", "Werewolves"} => Winner(x.living) = w,
         w = "nobody" =>
           Winner(x.living) = "undecided" /\ x.round = DayCap /\ x.phase = "Day"
  PROVE  /\ InPlay(End(x, w)) /\ End(x, w).living = x.living /\ Finished(x, End(x, w))
         /\ KeepsTelling(x, End(x, w))
<1> DEFINE z == [x EXCEPT !.winner = w]
           n == Outcome(x, w)
<1>1. x \in GameType /\ x.living \in SUBSET Players
  BY DEF Between, GameType
<1>2. /\ z \in GameType /\ z.winner = w /\ z.living = x.living /\ z.round = x.round /\ z.phase = x.phase
      /\ z.begun = x.begun /\ z.sessions = x.sessions /\ z.says = x.says
  BY <1>1 DEF GameType
<1>3. n \in Narrations
  BY <1>1, NarrationTypes
<1> HIDE DEF z, n
<1>4. End(x, w) = Narrate(z, z.living, n)
  BY DEF End, NarrateLiving, z, n
<1>5. /\ End(x, w) \in GameType /\ SameButSays(z, End(x, w))
      /\ End(x, w).says = Append(z.says, Narration(z.living, n))
  <2>1. z.living \in SUBSET Players
    BY <1>1, <1>2
  <2> QED
    BY <1>2, <1>3, <1>4, <2>1, NarrateFields
<1>6. KeepsTelling(x, End(x, w))
  BY <1>1, <1>2, <1>3, <1>5, NarrateTells DEF SameButSays
<1>7. Over(End(x, w)) /\ End(x, w).winner = w
  BY <1>2, <1>5 DEF Over, SameButSays
<1>8. InPlay(End(x, w))
  BY <1>2, <1>5, <1>7 DEF InPlay, Between, SameButSays
<1> QED
  BY <1>2, <1>5, <1>6, <1>7, <1>8 DEF Finished, SameButSays

\* advance: the next phase, or the end, by who lives.
LEMMA AdvancePlays ==
  ASSUME NEW x, Between(x), NEW now \in Nat
  PROVE  MovedOn(x, Advance(x, now), now) /\ KeepsTelling(x, Advance(x, now))
<1>1. CASE Winner(x.living) # "undecided"
  <2>1. Advance(x, now) = End(x, Winner(x.living))
    BY <1>1 DEF Advance
  <2>2. Winner(x.living) \in {"Village", "Werewolves"}
    BY <1>1 DEF Winner
  <2> QED
    BY <2>1, <2>2, EndFields DEF MovedOn, Winners
<1>2. CASE Winner(x.living) = "undecided" /\ x.phase = "Day" /\ x.round >= DayCap
  <2>1. Advance(x, now) = End(x, "nobody")
    BY <1>2 DEF Advance
  <2>2. x.round = DayCap
    BY <1>2, TimingAssumption DEF Between
  <2> QED
    BY <1>2, <2>1, <2>2, EndFields DEF MovedOn, Winners
<1>3. CASE Winner(x.living) = "undecided" /\ ~(x.phase = "Day" /\ x.round >= DayCap)
  <2>1. Advance(x, now) = NextPhase(x, now)
    BY <1>3 DEF Advance
  <2>2. x.phase = "Day" => x.round < DayCap
    BY <1>3, TimingAssumption DEF Between
  <2> QED
    BY <1>3, <2>1, <2>2, NextPhasePlays, NextPhaseTells
<1> QED
  BY <1>1, <1>2, <1>3

\* eliminate: one player fewer, told to those left, and stopped.
LEMMA EliminateFields ==
  ASSUME NEW x, Between(x), NEW p \in x.living, NEW cause \in {"Devoured", "Lynched"}
  PROVE  LET y == Eliminate(x, p, cause)
         IN  /\ Between(y) /\ y.living = x.living \ {p} /\ y.round = x.round /\ y.phase = x.phase
             /\ KeepsTelling(x, y)
<1> DEFINE z == [x EXCEPT !.living = @ \ {p}]
           n == Eliminated(x, p, cause)
           told == Narrate(z, z.living, n)
           halt == [say |-> "stop", who |-> p]
           y == Saying(told, halt)
<1>1. x \in GameType /\ x.living \in SUBSET Players /\ p \in Players
  BY DEF Between, GameType
<1>2. /\ z \in GameType /\ z.living = x.living \ {p} /\ z.winner = x.winner /\ z.round = x.round
      /\ z.phase = x.phase /\ z.begun = x.begun /\ z.sessions = x.sessions /\ z.says = x.says
  BY <1>1 DEF GameType
<1>3. n \in Narrations
  BY <1>1, NarrationTypes
<1>4. Eliminate(x, p, cause) = y
  BY DEF Eliminate, Stop, NarrateLiving
<1>5. halt \in Directives /\ Addressees(halt) = {p} /\ Leaves(halt) = {p}
  BY <1>1 DEF Directives, Addressees, Leaves
<1> HIDE DEF z, n, halt
<1>6. z.living \in SUBSET Players
  BY <1>1, <1>2
<1>7. /\ told \in GameType /\ SameButSays(z, told)
      /\ told.says = Append(z.says, Narration(z.living, n))
  BY <1>2, <1>3, <1>6, NarrateFields
<1> HIDE DEF told
<1>8. y \in GameType /\ SameButSays(told, y) /\ y.says = Append(told.says, halt)
  BY <1>5, <1>7, SayingFields
<1> HIDE DEF y
<1>9. /\ y.living = x.living \ {p} /\ y.round = x.round /\ y.phase = x.phase /\ y.winner = x.winner
      /\ y.begun = x.begun /\ y.sessions = x.sessions
  BY <1>2, <1>7, <1>8 DEF SameButSays
<1>10. Between(y)
  BY <1>8, <1>9 DEF Between, Over
<1>11. KeepsTelling(x, y)
  <2>1. ASSUME NEW L \in SUBSET Players, Telling(L, x.says, x.living)
        PROVE  Telling(L, y.says, y.living)
    <3>1. Narration(z.living, n) \in Directives /\ Addressees(Narration(z.living, n)) = z.living
          /\ Leaves(Narration(z.living, n)) = {}
      BY <1>3, <1>6 DEF Narration, Directives, Addressees, Leaves
    <3>2. x.says \in Seq(Directives) /\ z.living \subseteq x.living /\ told.says = Append(x.says, Narration(z.living, n))
      BY <1>1, <1>2, <1>7 DEF GameType
    <3>3. Telling(L, told.says, x.living \ {})
      BY <2>1, <3>1, <3>2, TellMore
    <3>4. told.says \in Seq(Directives) /\ x.living \ {} = x.living
      BY <1>7 DEF GameType
    <3>5. Telling(L, Append(told.says, halt), x.living \ {p})
      BY <1>5, <3>3, <3>4, TellMore
    <3> QED
      BY <1>8, <1>9, <3>5
  <2> QED
    BY <2>1 DEF KeepsTelling
<1> QED
  BY <1>4, <1>9, <1>10, <1>11

\* What is told step by step is told.
LEMMA TellingOn ==
  ASSUME NEW x, NEW y, NEW z, KeepsTelling(x, y), KeepsTelling(y, z)
  PROVE  KeepsTelling(x, z)
  BY DEF KeepsTelling

\* y is what became of x when its phase was over, with `gone` dead.
PhaseOver(x, y, gone, now) ==
  /\ InPlay(y) /\ y.living = x.living \ gone
  /\ NewPhase(x, y, now) \/ Finished(x, y)

\* A phase that is over with somebody dead, and moved on from, is over.
LEMMA AfterADeath ==
  ASSUME NEW x, NEW z, NEW y, NEW gone, NEW now, MovedOn(z, y, now),
         z.living = x.living \ gone, z.round = x.round, z.phase = x.phase
  PROVE  PhaseOver(x, y, gone, now)
  BY DEF MovedOn, PhaseOver, NewPhase, Finished

\* A game in the middle of a phase, or of the call that ends it.
Midway(x) ==
  /\ x \in GameType /\ x.begun /\ ~Over(x) /\ x.round \in 1 .. DayCap
  /\ Winner(x.living) = "undecided" /\ Seated(x)
  /\ \A k \in Kinds : PhaseOf(k) # x.phase => x.sessions[k] = Unopened

\* A game that goes on is in the middle of a phase.
LEMMA InPlayMidway ==
  ASSUME NEW x, InPlay(x), ~Over(x)
  PROVE  Midway(x)
  BY DEF InPlay, Midway

\* The day closes: its session is gone, and whoever is lynched.
LEMMA CloseDayPlays ==
  ASSUME NEW x, Midway(x), x.phase = "Day", NEW now \in Nat,
         NEW lynched, lynched = {} \/ \E p \in x.living : lynched = {p}
  PROVE  PhaseOver(x, CloseDay(x, lynched, now), lynched, now)
         /\ KeepsTelling(x, CloseDay(x, lynched, now))
<1> DEFINE shut == [x EXCEPT !.sessions["Nominate"] = Unopened]
           z == IF lynched = {} THEN NarrateLiving(shut, Quietly("NoLynch"))
                ELSE Eliminate(shut, CHOOSE p \in lynched : TRUE, "Lynched")
<1>1. x \in GameType /\ x.living \in SUBSET Players /\ x.sessions \in [Kinds -> Seats]
  BY DEF Midway, GameType
<1>2. /\ shut \in GameType /\ shut.living = x.living /\ shut.winner = x.winner /\ shut.round = x.round
      /\ shut.phase = x.phase /\ shut.begun = x.begun /\ shut.says = x.says
      /\ \A k \in Kinds : shut.sessions[k] = IF k = "Nominate" THEN Unopened ELSE x.sessions[k]
  <2>1. [x.sessions EXCEPT !["Nominate"] = Unopened] \in [Kinds -> Seats]
    BY <1>1, UnopenedType
  <2>2. shut = [x EXCEPT !.sessions = [x.sessions EXCEPT !["Nominate"] = Unopened]]
    OBVIOUS
  <2> QED
    BY <1>1, <2>1, <2>2 DEF GameType, Kinds
<1> HIDE DEF shut
<1>3. Between(shut)
  <2>1. \A k \in Kinds : k # "Nominate" => PhaseOf(k) # "Day"
    BY DEF PhaseOf
  <2> QED
    BY <1>2, <2>1 DEF Between, Midway, Over
<1>4. KeepsTelling(x, shut)
  BY <1>2 DEF KeepsTelling
<1>5. CloseDay(x, lynched, now) = Advance(z, now)
  BY DEF CloseDay, shut
<1>6. Between(z) /\ KeepsTelling(shut, z) /\ z.living = x.living \ lynched /\ z.round = x.round /\ z.phase = x.phase
  <2>1. CASE lynched = {}
    <3> DEFINE w == Narrate(shut, shut.living, Quietly("NoLynch"))
    <3>1. Quietly("NoLynch") \in Narrations /\ shut.living \in SUBSET Players
      BY <1>1, <1>2, NarrationTypes
    <3>2. w \in GameType /\ SameButSays(shut, w) /\ w.says = Append(shut.says, Narration(shut.living, Quietly("NoLynch")))
      BY <1>2, <3>1, NarrateFields
    <3>3. z = w
      BY <2>1 DEF NarrateLiving
    <3> HIDE DEF w, z
    <3>4. KeepsTelling(shut, w)
      BY <1>2, <3>1, <3>2, NarrateTells DEF SameButSays
    <3>5. Between(w) /\ w.living = x.living \ lynched /\ w.round = x.round /\ w.phase = x.phase
      BY <1>2, <1>3, <2>1, <3>2 DEF SameButSays, Between, Over
    <3> QED
      BY <3>3, <3>4, <3>5
  <2>2. CASE lynched # {}
    <3>1. PICK p \in x.living : lynched = {p}
      BY <2>2
    <3>2. z = Eliminate(shut, p, "Lynched")
      BY <2>2, <3>1
    <3> QED
      BY <1>2, <1>3, <3>1, <3>2, EliminateFields
  <2> QED
    BY <2>1, <2>2
<1> HIDE DEF z
<1>7. MovedOn(z, Advance(z, now), now) /\ KeepsTelling(z, Advance(z, now))
  BY <1>6, AdvancePlays
<1>8. KeepsTelling(x, Advance(z, now))
  BY <1>4, <1>6, <1>7, TellingOn
<1> QED
  BY <1>5, <1>6, <1>7, <1>8, AfterADeath

\* What there was of sessions is taken when the night resolves.
LEMMA TakenFields ==
  ASSUME NEW x, Midway(x)
  PROVE  LET y == [x EXCEPT !.sessions = [k \in Kinds |-> Unopened]]
         IN  /\ Between(y) /\ y.living = x.living /\ y.round = x.round /\ y.phase = x.phase
             /\ y.says = x.says
<1> DEFINE s == [k \in Kinds |-> Unopened]
<1>1. s \in [Kinds -> Seats] /\ \A k \in Kinds : s[k] = Unopened
  BY UnopenedType
<1> HIDE DEF s
<1>2. [x EXCEPT !.sessions = s] \in GameType
  BY <1>1 DEF Midway, GameType
<1>3. LET y == [x EXCEPT !.sessions = s]
      IN  /\ y.living = x.living /\ y.round = x.round /\ y.phase = x.phase /\ y.says = x.says
          /\ y.begun = x.begun /\ y.winner = x.winner /\ y.sessions = s
  BY DEF Midway, GameType
<1>4. Between([x EXCEPT !.sessions = s])
  BY <1>1, <1>2, <1>3 DEF Between, Midway, Over
<1> QED
  BY <1>3, <1>4 DEF s

\* Whoever leads has been named, and lives.
LEMMA LeadersLive ==
  ASSUME NEW x, Midway(x), NEW k \in Kinds, NEW p \in Leaders(x.sessions[k])
  PROVE  p \in x.living
<1>1. p \in Players /\ Votes(x.sessions[k], p) > 0
  BY DEF Leaders
<1>2. x.sessions[k].members \subseteq Players
  BY DEF Midway, GameType, Seats
<1>3. {q \in x.sessions[k].members : x.sessions[k].selections[q] = p} # {}
  BY <1>1, FS_EmptySet DEF Votes
<1>4. PICK q \in Players : x.sessions[k].selections[q] = p
  BY <1>2, <1>3
<1>5. p # Nobody
  BY <1>1, DealAssumption
<1> QED
  BY <1>4, <1>5 DEF Midway, Seated

\* Who dies when the night resolves: the pack's choice, unless a doctor shields
\* it.
Victims(x, luck) ==
  LET leaders == Leaders(x.sessions["Devour"])
  IN  IF leaders # {} /\ Pick(luck, leaders) \notin Protected(x) THEN {Pick(luck, leaders)} ELSE {}

\* The night resolves: no session is left, and the victim, if any, is dead.
LEMMA ResolveNightPlays ==
  ASSUME NEW x, Midway(x), x.phase = "Night", NEW now \in Nat, NEW luck
  PROVE  PhaseOver(x, ResolveNight(x, now, luck), Victims(x, luck), now)
         /\ KeepsTelling(x, ResolveNight(x, now, luck))
<1> DEFINE leaders == Leaders(x.sessions["Devour"])
           victim == Pick(luck, leaders)
           taken == [x EXCEPT !.sessions = [k \in Kinds |-> Unopened]]
<1>1. /\ Between(taken) /\ taken.living = x.living /\ taken.round = x.round
      /\ taken.phase = x.phase /\ taken.says = x.says
  BY TakenFields
<1>2. KeepsTelling(x, taken)
  BY <1>1 DEF KeepsTelling
<1>3. Winner(x.living) = "undecided" /\ x.living \in SUBSET Players
  BY DEF Midway, GameType
<1>4. leaders # {} => victim \in x.living
  <2>1. leaders # {} => victim \in leaders
    BY DEF Pick
  <2> QED
    BY <2>1, LeadersLive DEF Kinds
<1>5. ResolveNight(x, now, luck) =
        IF leaders # {} /\ victim \notin Protected(x)
          THEN Advance(Eliminate(taken, victim, "Devoured"), now)
          ELSE NextPhase(NarrateLiving(taken, Quietly("NoDeath")), now)
  BY DEF ResolveNight
<1>6. Victims(x, luck) = IF leaders # {} /\ victim \notin Protected(x) THEN {victim} ELSE {}
  BY DEF Victims
<1> HIDE DEF leaders, victim, taken
<1>7. CASE leaders # {} /\ victim \notin Protected(x)
  <2> DEFINE z == Eliminate(taken, victim, "Devoured")
  <2>1. Between(z) /\ z.living = x.living \ {victim} /\ z.round = x.round /\ z.phase = x.phase /\ KeepsTelling(taken, z)
    BY <1>1, <1>4, <1>7, EliminateFields
  <2> HIDE DEF z
  <2>2. MovedOn(z, Advance(z, now), now) /\ KeepsTelling(z, Advance(z, now))
    BY <2>1, AdvancePlays
  <2>3. ResolveNight(x, now, luck) = Advance(z, now) /\ Victims(x, luck) = {victim}
    BY <1>5, <1>6, <1>7 DEF z
  <2> QED
    BY <1>2, <2>1, <2>2, <2>3, TellingOn, AfterADeath
<1>8. CASE ~(leaders # {} /\ victim \notin Protected(x))
  <2> DEFINE z == Narrate(taken, taken.living, Quietly("NoDeath"))
  <2>1. Quietly("NoDeath") \in Narrations /\ taken \in GameType /\ taken.living \in SUBSET Players
    BY <1>1, <1>3, NarrationTypes DEF Between
  <2>2. z \in GameType /\ SameButSays(taken, z) /\ z.says = Append(taken.says, Narration(taken.living, Quietly("NoDeath")))
    BY <2>1, NarrateFields
  <2> HIDE DEF z
  <2>3. KeepsTelling(taken, z)
    BY <2>1, <2>2, NarrateTells DEF SameButSays
  <2>4. Between(z) /\ z.living = x.living /\ z.round = x.round /\ z.phase = x.phase
    BY <1>1, <2>2 DEF SameButSays, Between, Over
  <2>5. MovedOn(z, NextPhase(z, now), now) /\ KeepsTelling(z, NextPhase(z, now))
    BY <1>3, <2>4, NextPhasePlays, NextPhaseTells
  <2>6. ResolveNight(x, now, luck) = NextPhase(z, now) /\ Victims(x, luck) = {}
    BY <1>5, <1>6, <1>8 DEF z, NarrateLiving
  <2>7. z.living = x.living \ {}
    BY <2>4
  <2> QED
    BY <1>2, <2>3, <2>4, <2>5, <2>6, <2>7, TellingOn, AfterADeath
<1> QED
  BY <1>7, <1>8

(***************************************************************************)
(* Whom the selections call for.                                           *)
(***************************************************************************)
\* The deaths that end a phase are those its selections call for.
Called(x, gone) ==
  /\ gone \subseteq Condemned(x) \ Shielded(x)
  /\ gone = {} /\ Condemned(x) \cap Shielded(x) = {} => Condemned(x) = {}

\* Called reads of a game who lives, the phase, and what is selected.
LEMMA CalledBySelections ==
  ASSUME NEW x, NEW y, NEW gone, y.living = x.living, y.phase = x.phase,
         \A k \in Kinds : y.sessions[k].selections = x.sessions[k].selections
  PROVE  Called(x, gone) <=> Called(y, gone)
<1>1. \A k \in Kinds : \A p : Wanted(y, k, p) = Wanted(x, k, p)
  BY DEF Wanted
<1>2. Condemned(y) = Condemned(x) /\ Shielded(y) = Shielded(x)
  BY <1>1 DEF Condemned, Shielded, Kinds
<1> QED
  BY <1>2 DEF Called

\* A member's vote is a living player's selection.
LEMMA VotesAreWants ==
  ASSUME NEW x, Midway(x), NEW k \in Kinds, NEW p \in Players
  PROVE  /\ Wanted(x, k, p) = Votes(x.sessions[k], p)
         /\ Wanted(x, k, p) \in Nat
         /\ Wanted(x, k, p) > 0 <=> \E q \in Players : x.sessions[k].selections[q] = p
<1> DEFINE A == {q \in x.living : x.sessions[k].selections[q] = p}
           B == {q \in x.sessions[k].members : x.sessions[k].selections[q] = p}
<1>1. x.living \in SUBSET Players /\ x.sessions[k].members \subseteq x.living /\ p # Nobody
  BY DealAssumption DEF Midway, GameType, Seated
<1>2. \A q \in Players : x.sessions[k].selections[q] = p => q \in x.sessions[k].members
  BY <1>1 DEF Midway, Seated
<1>3. A = B
  BY <1>1, <1>2
<1>4. IsFiniteSet(A) /\ Cardinality(A) \in Nat
  BY <1>1, PlayersAreFinite
<1>5. Cardinality(A) > 0 <=> A # {}
  BY <1>4, FS_EmptySet
<1>6. A # {} <=> \E q \in Players : x.sessions[k].selections[q] = p
  BY <1>1, <1>2
<1>7. Wanted(x, k, p) = Cardinality(A) /\ Votes(x.sessions[k], p) = Cardinality(B)
  BY DEF Wanted, Votes
<1> QED
  BY <1>3, <1>4, <1>5, <1>6, <1>7

\* By night the pack's leaders are called for, and whom a doctor shields is
\* protected.
LEMMA NightCalls ==
  ASSUME NEW x, Midway(x), x.phase = "Night", NEW luck
  PROVE  Called(x, Victims(x, luck))
<1> DEFINE leaders == Leaders(x.sessions["Devour"])
<1>1. "Devour" \in Kinds /\ "Protect" \in Kinds
  BY DEF Kinds
<1>2. Condemned(x) = leaders
  <2>1. Condemned(x) = {p \in Players : /\ Wanted(x, "Devour", p) > 0
                          /\ \A q \in Players : Wanted(x, "Devour", q) <= Wanted(x, "Devour", p)}
    BY DEF Condemned
  <2>2. \A p \in Players : Wanted(x, "Devour", p) = Votes(x.sessions["Devour"], p)
    BY <1>1, VotesAreWants
  <2> QED
    BY <2>1, <2>2 DEF Leaders
<1>3. Shielded(x) = Protected(x)
  <2>1. \A p \in Players : Wanted(x, "Protect", p) > 0 <=> \E q \in Players : x.sessions["Protect"].selections[q] = p
    BY <1>1, VotesAreWants
  <2>2. \A q \in Players : x.sessions["Protect"].selections[q] \in Players \cup {Nobody}
    BY <1>1 DEF Midway, GameType, Seats, Target
  <2> QED
    BY <2>1, <2>2, DealAssumption DEF Shielded, Protected
<1>4. leaders # {} => Pick(luck, leaders) \in leaders
  BY DEF Pick
<1>5. Victims(x, luck) = IF leaders # {} /\ Pick(luck, leaders) \notin Protected(x) THEN {Pick(luck, leaders)} ELSE {}
  BY DEF Victims
<1> HIDE DEF leaders
<1>6. CASE leaders # {} /\ Pick(luck, leaders) \notin Protected(x)
  BY <1>2, <1>3, <1>4, <1>5, <1>6 DEF Called
<1>7. CASE ~(leaders # {} /\ Pick(luck, leaders) \notin Protected(x))
  BY <1>2, <1>3, <1>4, <1>5, <1>7 DEF Called
<1> QED
  BY <1>6, <1>7

\* By day whoever has the majority is called for, and nobody is shielded.
LEMMA DayCalls ==
  ASSUME NEW x, Midway(x), x.phase = "Day"
  PROVE  Condemned(x) = Majority(x) /\ Shielded(x) = {}
<1>1. \A p \in Players : /\ Wanted(x, "Nominate", p) = Votes(x.sessions["Nominate"], p)
                         /\ Wanted(x, "Nominate", p) \in Nat
  BY VotesAreWants DEF Kinds
<1>2. Cardinality(x.living) \in Nat
  BY PlayersAreFinite DEF Midway, GameType
<1>3. Condemned(x) = {p \in Players : Wanted(x, "Nominate", p) > Cardinality(x.living) - Wanted(x, "Nominate", p)}
  BY DEF Condemned
<1>4. Condemned(x) = Majority(x)
  BY <1>1, <1>2, <1>3 DEF Majority
<1> QED
  BY <1>4 DEF Shielded

(***************************************************************************)
(* The clocks.                                                             *)
(***************************************************************************)
\* y is x later in the same phase: no session has been opened, and no limit
\* has moved.
Stayed(x, y) ==
  /\ InPlay(y) /\ ~Over(y)
  /\ y.living = x.living /\ y.round = x.round /\ y.phase = x.phase
  /\ \A k \in Open(y) : k \in Open(x) /\ y.sessions[k].limit = x.sessions[k].limit

\* What a call may make of a game: the same phase, or what follows it, the
\* deaths those the selections of `counted` call for.
Turns(x, counted, y, now) ==
  \/ Stayed(x, y)
  \/ \E gone \in SUBSET x.living : PhaseOver(x, y, gone, now) /\ Called(counted, gone)

\* Directives for some who are left, none of which sends anybody away.
LEMMA TellMany ==
  ASSUME NEW L \in SUBSET Players, NEW q \in Seq(Directives), NEW left, Telling(L, q, left),
         NEW f \in Seq(Directives),
         \A i \in 1 .. Len(f) : Leaves(f[i]) = {} /\ Addressees(f[i]) \subseteq left
  PROVE  Telling(L, q \o f, left)
<1> DEFINE r == q \o f
<1>1. /\ Len(q) \in Nat /\ Len(f) \in Nat /\ Len(r) = Len(q) + Len(f)
      /\ \A i \in 1 .. Len(q) : r[i] = q[i]
      /\ \A i \in Len(q) + 1 .. Len(r) : i - Len(q) \in 1 .. Len(f) /\ r[i] = f[i - Len(q)]
  BY ConcatProperties, LenProperties
<1> HIDE DEF r
<1>2. \A i \in Len(q) + 1 .. Len(r) : r[i].say # "stop"
  BY <1>1 DEF Leaves
<1>3. \A n \in 0 .. Len(q) : Gone(r, n) = Gone(q, n)
  BY <1>1 DEF Gone
<1>4. \A n \in Len(q) .. Len(r) : Gone(r, n) = Gone(q, Len(q))
  <2> TAKE n \in Len(q) .. Len(r)
  <2>1. \A j \in 1 .. n : j \in 1 .. Len(q) \/ j \in Len(q) + 1 .. Len(r)
    BY <1>1
  <2>2. \A j \in 1 .. Len(q) : j \in 1 .. n
    BY <1>1
  <2> QED
    BY <1>1, <1>2, <2>1, <2>2 DEF Gone
<1>5. left = L \ Gone(q, Len(q))
  BY DEF Telling
<1>6. left = L \ Gone(r, Len(r))
  <2>1. Len(r) \in Len(q) .. Len(r)
    BY <1>1
  <2> QED
    BY <1>4, <1>5, <2>1
<1>7. ASSUME NEW i \in 1 .. Len(r) PROVE Addressees(r[i]) \subseteq L \ Gone(r, i - 1)
  <2>1. CASE i \in 1 .. Len(q)
    <3>1. r[i] = q[i] /\ i - 1 \in 0 .. Len(q)
      BY <1>1, <2>1
    <3> QED
      BY <1>3, <2>1, <3>1 DEF Telling
  <2>2. CASE i \in Len(q) + 1 .. Len(r)
    <3>1. i - 1 \in Len(q) .. Len(r) /\ Addressees(r[i]) \subseteq left
      BY <1>1, <2>2
    <3> QED
      BY <1>4, <1>5, <3>1
  <2> QED
    BY <1>1, <2>1, <2>2
<1> QED
  BY <1>6, <1>7 DEF Telling, r

\* The elements of a finite set, in some order.
LEMMA SetToSeqType ==
  ASSUME NEW S \in SUBSET Players
  PROVE  SetToSeq(S) \in Seq(S) /\ Len(SetToSeq(S)) = Cardinality(S)
         /\ DOMAIN SetToSeq(S) = 1 .. Cardinality(S)
         /\ \A p \in S : \E i \in 1 .. Cardinality(S) : SetToSeq(S)[i] = p
<1>1. IsFiniteSet(S) /\ Cardinality(S) \in Nat
  BY PlayersAreFinite
<1>2. ExistsBijection(1 .. Cardinality(S), S)
  BY <1>1, FS_CardinalityType
<1>3. \E f \in [1 .. Cardinality(S) -> S] : IsInjective(f)
  BY <1>2 DEF ExistsBijection, Bijection, Injection
<1>4. SetToSeq(S) \in [1 .. Cardinality(S) -> S] /\ IsInjective(SetToSeq(S))
  BY <1>3 DEF SetToSeq
<1>5. \A p \in S : \E i \in 1 .. Cardinality(S) : SetToSeq(S)[i] = p
  <2> DEFINE n == Cardinality(S)
             f == SetToSeq(S)
  <2>1. Cardinality(1 .. n) = n
    BY <1>1, FS_Interval
  <2>2. f \in Injection(1 .. n, S)
    BY <1>4 DEF Injection
  <2> HIDE DEF f
  <2>3. f \in Surjection(1 .. n, S)
    BY <1>1, <2>1, <2>2, FS_Injection
  <2> QED
    BY <2>3 DEF Surjection, f
<1> QED
  BY <1>1, <1>4, <1>5

\* Findings are for members of the session, and send nobody away.
LEMMA FindingsType ==
  ASSUME NEW s \in Seats
  PROVE  /\ Findings(s) \in Seq(Directives)
         /\ \A i \in 1 .. Len(Findings(s)) : /\ Leaves(Findings(s)[i]) = {}
                                             /\ Addressees(Findings(s)[i]) \subseteq s.members
                                             /\ \E p, t \in Players : Findings(s)[i] = Narration({p}, Investigated(t))
<1> DEFINE T == {p \in s.members : s.selections[p] # Nobody}
           seers == SetToSeq(T)
<1>1. T \in SUBSET Players
  BY DEF Seats
<1>2. seers \in Seq(T) /\ Len(seers) \in Nat /\ DOMAIN seers = 1 .. Len(seers)
  BY <1>1, SetToSeqType
<1>3. Findings(s) = [i \in DOMAIN seers |-> Narration({seers[i]}, Investigated(s.selections[seers[i]]))]
  BY DEF Findings
<1>4. \A p \in T : s.selections[p] \in Players /\ p \in Players /\ p \in s.members
  BY <1>1 DEF Seats, Target
<1> HIDE DEF seers, T
<1>5. \A i \in 1 .. Len(seers) : seers[i] \in T
  BY <1>2, ElementOfSeq
<1> DEFINE d(i) == Narration({seers[i]}, Investigated(s.selections[seers[i]]))
<1>6. \A i \in 1 .. Len(seers) :
        /\ d(i) \in Directives /\ Leaves(d(i)) = {} /\ Addressees(d(i)) \subseteq s.members
        /\ \E p, t \in Players : d(i) = Narration({p}, Investigated(t))
  <2> TAKE i \in 1 .. Len(seers)
  <2>1. {seers[i]} \in SUBSET Players /\ s.selections[seers[i]] \in Players /\ {seers[i]} \subseteq s.members
    BY <1>4, <1>5
  <2>2. Investigated(s.selections[seers[i]]) \in Narrations
    BY <2>1 DEF Narrations, Investigated, Faction
  <2>3. \E p, t \in Players : d(i) = Narration({p}, Investigated(t))
    BY <1>4, <1>5
  <2> QED
    BY <2>1, <2>2, <2>3 DEF Narration, Directives, Leaves, Addressees
<1>7. Findings(s) = [i \in 1 .. Len(seers) |-> d(i)]
  BY <1>2, <1>3
<1> HIDE DEF d
<1>8. Findings(s) \in [1 .. Len(seers) -> Directives]
  BY <1>6, <1>7
<1>9. Findings(s) \in Seq(Directives) /\ Len(Findings(s)) = Len(seers)
  BY <1>2, <1>8
<1> QED
  BY <1>6, <1>7, <1>9

\* Closing sessions of the night leaves what was selected in them.
LEMMA CloseNightFields ==
  ASSUME NEW x, Midway(x), x.phase = "Night", NEW kinds \in SUBSET Open(x)
  PROVE  LET y == CloseNightSessions(x, kinds)
         IN  /\ Midway(y) /\ y.living = x.living /\ y.phase = x.phase /\ y.round = x.round
             /\ y.winner = x.winner
             /\ \A k \in Kinds : /\ y.sessions[k].selections = x.sessions[k].selections
                                 /\ y.sessions[k].members = x.sessions[k].members
                                 /\ y.sessions[k].limit = x.sessions[k].limit
             /\ y.says = IF "Investigate" \in kinds THEN x.says \o Findings(x.sessions["Investigate"]) ELSE x.says
             /\ Open(y) = Open(x) \ kinds
             /\ KeepsTelling(x, y)
<1> DEFINE s == [k \in Kinds |-> IF k \in kinds THEN [x.sessions[k] EXCEPT !.stage = "closed"] ELSE x.sessions[k]]
           l == [p \in Players |->
                  IF "Protect" \in kinds /\ x.sessions["Protect"].selections[p] # Nobody
                    THEN x.sessions["Protect"].selections[p] ELSE x.lastProtected[p]]
           w == IF "Investigate" \in kinds THEN x.says \o Findings(x.sessions["Investigate"]) ELSE x.says
           y == CloseNightSessions(x, kinds)
<1>1. /\ x \in GameType /\ x.sessions \in [Kinds -> Seats] /\ x.lastProtected \in [Players -> Target]
      /\ x.says \in Seq(Directives) /\ kinds \subseteq Kinds
  BY DEF Midway, GameType, Open
<1>2. \A k \in Kinds :
        /\ s[k] \in Seats
        /\ s[k].selections = x.sessions[k].selections /\ s[k].members = x.sessions[k].members
        /\ s[k].limit = x.sessions[k].limit
        /\ s[k].stage = IF k \in kinds THEN "closed" ELSE x.sessions[k].stage
        /\ k \notin kinds => s[k] = x.sessions[k]
  <2> TAKE k \in Kinds
  <2>1. x.sessions[k] \in Seats
    BY <1>1
  <2> QED
    BY <2>1 DEF Seats
<1>3. s \in [Kinds -> Seats]
  BY <1>2
<1>4. l \in [Players -> Target]
  BY <1>1 DEF Kinds, Seats
<1>5. w \in Seq(Directives)
  <2>1. Findings(x.sessions["Investigate"]) \in Seq(Directives)
    BY <1>1, FindingsType DEF Kinds
  <2> QED
    BY <1>1, <2>1, ConcatProperties
<1>6. y = [x EXCEPT !.sessions = s, !.lastProtected = l, !.says = w]
  BY DEF CloseNightSessions
<1> HIDE DEF s, l, w, y
<1>7. /\ y \in GameType /\ y.living = x.living /\ y.phase = x.phase /\ y.round = x.round /\ y.begun = x.begun
      /\ y.winner = x.winner /\ y.sessions = s /\ y.says = w
  BY <1>1, <1>3, <1>4, <1>5, <1>6 DEF GameType
<1>8. Open(y) = Open(x) \ kinds
  BY <1>2, <1>7 DEF Open
<1>9. Seated(y)
  BY <1>2, <1>7 DEF Midway, Seated
<1>10. \A k \in Kinds : PhaseOf(k) # x.phase => k \notin kinds
  BY UnopenedType DEF Midway, Open
<1>11. Midway(y)
  BY <1>2, <1>7, <1>9, <1>10 DEF Midway, Over
<1>12. KeepsTelling(x, y)
  <2>1. CASE "Investigate" \notin kinds
    BY <1>7, <2>1 DEF KeepsTelling, w
  <2>2. CASE "Investigate" \in kinds
    <3> DEFINE f == Findings(x.sessions["Investigate"])
    <3>1. x.sessions["Investigate"] \in Seats /\ x.sessions["Investigate"].members \subseteq x.living
      BY <1>1 DEF Kinds, Midway, Seated
    <3>2. f \in Seq(Directives) /\ \A i \in 1 .. Len(f) : Leaves(f[i]) = {} /\ Addressees(f[i]) \subseteq x.living
      BY <3>1, FindingsType
    <3>3. w = x.says \o f
      BY <2>2 DEF w
    <3> HIDE DEF f
    <3>4. ASSUME NEW L \in SUBSET Players, Telling(L, x.says, x.living) PROVE Telling(L, x.says \o f, x.living)
      BY <1>1, <3>2, <3>4, TellMany
    <3> QED
      BY <1>7, <3>3, <3>4 DEF KeepsTelling
  <2> QED
    BY <2>1, <2>2
<1> QED
  BY <1>2, <1>7, <1>8, <1>11, <1>12 DEF y, w

\* expire: the time that is up ends sessions, and with the last of them the
\* phase.
LEMMA ExpirePlays ==
  ASSUME NEW x, InPlay(x), ~Over(x), NEW now \in Nat, NEW luck
  PROVE  Turns(x, x, Expire(x, now, luck), now) /\ KeepsTelling(x, Expire(x, now, luck))
<1> DEFINE late == Expired(x, now)
           closed == CloseNightSessions(x, late)
<1>1. Midway(x) /\ x.phase \in Phases /\ late \in SUBSET Open(x)
  BY InPlayMidway DEF InPlay, GameType, Expired
<1>2. Expire(x, now, luck) =
        IF Over(x) \/ (x.phase = "Day" /\ late = {}) THEN x
        ELSE IF x.phase = "Day" THEN CloseDay(x, {}, now)
        ELSE IF Open(closed) = {} THEN ResolveNight(closed, now, luck)
        ELSE closed
  BY DEF Expire
<1> HIDE DEF late, closed
<1>3. CASE x.phase = "Day" /\ late = {}
  <2>1. Expire(x, now, luck) = x
    BY <1>2, <1>3
  <2> QED
    BY <2>1 DEF Turns, Stayed, KeepsTelling
<1>4. CASE x.phase = "Day" /\ late # {}
  <2>1. Expire(x, now, luck) = CloseDay(x, {}, now)
    BY <1>2, <1>4
  <2>2. PhaseOver(x, CloseDay(x, {}, now), {}, now) /\ KeepsTelling(x, CloseDay(x, {}, now))
    BY <1>1, <1>4, CloseDayPlays
  <2>3. Called(x, {})
    BY <1>1, <1>4, DayCalls DEF InPlay, Called
  <2> QED
    BY <2>1, <2>2, <2>3 DEF Turns
<1>5. CASE x.phase = "Night"
  <2>1. /\ Midway(closed) /\ closed.living = x.living /\ closed.phase = x.phase /\ closed.round = x.round
        /\ \A k \in Kinds : /\ closed.sessions[k].selections = x.sessions[k].selections
                            /\ closed.sessions[k].limit = x.sessions[k].limit
        /\ Open(closed) = Open(x) \ late
        /\ KeepsTelling(x, closed)
    BY <1>1, <1>5, CloseNightFields DEF closed
  <2>2. CASE Open(closed) = {}
    <3>1. Expire(x, now, luck) = ResolveNight(closed, now, luck)
      BY <1>2, <1>5, <2>2
    <3>2. /\ PhaseOver(closed, ResolveNight(closed, now, luck), Victims(closed, luck), now)
          /\ KeepsTelling(closed, ResolveNight(closed, now, luck))
      BY <1>5, <2>1, ResolveNightPlays
    <3>3. PhaseOver(x, ResolveNight(closed, now, luck), Victims(closed, luck), now)
      BY <2>1, <3>2 DEF PhaseOver, NewPhase, Finished
    <3>4. Called(x, Victims(closed, luck))
      BY <1>5, <2>1, NightCalls, CalledBySelections
    <3>5. Victims(closed, luck) \in SUBSET x.living
      <4>1. Pick(luck, Leaders(closed.sessions["Devour"])) \in Leaders(closed.sessions["Devour"])
              \/ Leaders(closed.sessions["Devour"]) = {}
        BY DEF Pick
      <4> QED
        BY <2>1, <4>1, LeadersLive DEF Victims, Kinds
    <3> QED
      BY <2>1, <3>1, <3>2, <3>3, <3>4, <3>5, TellingOn DEF Turns
  <2>3. CASE Open(closed) # {}
    <3>1. Expire(x, now, luck) = closed
      BY <1>2, <1>5, <2>3
    <3>2. InPlay(closed) /\ ~Over(closed)
      BY <1>5, <2>1, <2>3 DEF InPlay, Midway, Over
    <3>3. Stayed(x, closed)
      BY <2>1, <3>2 DEF Stayed, Open
    <3> QED
      BY <2>1, <3>1, <3>3 DEF Turns
  <2> QED
    BY <2>2, <2>3
<1> QED
  BY <1>1, <1>3, <1>4, <1>5 DEF Phases

\* A session's deadline is its limit, or by night the end of its quiet period.
LEMMA EitherDeadline ==
  ASSUME NEW k, NEW s
  PROVE  \/ Deadline(k, s) = s.limit
         \/ k # "Nominate" /\ Deadline(k, s) = s.lastChange + Quiet[k]
<1>1. CASE k # "Nominate" /\ Settled(s) /\ s.lastChange + Quiet[k] < s.limit
  BY <1>1 DEF Deadline
<1>2. CASE ~(k # "Nominate" /\ Settled(s) /\ s.lastChange + Quiet[k] < s.limit)
  BY <1>2 DEF Deadline
<1> QED
  BY <1>1, <1>2

\* In a phase that has just begun no time is up, and a game that is over has
\* none.
LEMMA ExpireFresh ==
  ASSUME NEW x, InPlay(x), NEW now \in Nat, NEW luck,
         Over(x) \/ \A k \in Open(x) : x.sessions[k].limit = now + Limit[k] /\ x.sessions[k].lastChange = now
  PROVE  Expire(x, now, luck) = x
<1>1. CASE Over(x)
  BY <1>1 DEF Expire
<1>2. CASE ~Over(x)
  <2>2. \A k \in Open(x) : ~(Deadline(k, x.sessions[k]) <= now)
    <3> TAKE k \in Open(x)
    <3>1. k \in Kinds /\ Limit[k] \in Nat \ {0} /\ (k # "Nominate" => Quiet[k] \in Nat \ {0})
      BY TimingAssumption DEF Open
    <3>2. x.sessions[k].limit = now + Limit[k] /\ x.sessions[k].lastChange = now
      BY <1>2
    <3>3. \/ Deadline(k, x.sessions[k]) = now + Limit[k]
          \/ k # "Nominate" /\ Deadline(k, x.sessions[k]) = now + Quiet[k]
      BY <3>2, EitherDeadline
    <3> QED
      BY <3>1, <3>3
  <2>3. Expired(x, now) = {}
    BY <2>2 DEF Expired
  <2>4. x \in GameType /\ Open(x) # {}
    BY <1>2 DEF InPlay
  <2>5. CloseNightSessions(x, {}) = x
    <3>1. [k \in Kinds |-> IF k \in {} THEN [x.sessions[k] EXCEPT !.stage = "closed"] ELSE x.sessions[k]] = x.sessions
      BY <2>4 DEF GameType
    <3>2. [p \in Players |->
             IF "Protect" \in {} /\ x.sessions["Protect"].selections[p] # Nobody
               THEN x.sessions["Protect"].selections[p] ELSE x.lastProtected[p]] = x.lastProtected
      BY <2>4 DEF GameType
    <3>3. CloseNightSessions(x, {}) = [x EXCEPT !.sessions = x.sessions, !.lastProtected = x.lastProtected, !.says = x.says]
      BY <3>1, <3>2 DEF CloseNightSessions
    <3> QED
      BY <2>4, <3>3 DEF GameType
  <2>6. Expire(x, now, luck) = IF x.phase = "Day" THEN x ELSE IF Open(x) = {} THEN ResolveNight(x, now, luck) ELSE x
    BY <1>2, <2>3, <2>5 DEF Expire
  <2> QED
    BY <2>4, <2>6
<1> QED
  BY <1>1, <1>2
(***************************************************************************)
(* Selections.                                                             *)
(***************************************************************************)
\* A selection is counted in the session it is for, and changes nothing else.
LEMMA RecordFields ==
  ASSUME NEW s \in Seats, NEW p \in Players, NEW t \in Players, NEW now \in Nat
  PROVE  LET r == Record(s, p, t, now)
         IN  /\ r \in Seats /\ r.stage = s.stage /\ r.members = s.members /\ r.limit = s.limit
             /\ r.selections = [s.selections EXCEPT ![p] = t]
<1> DEFINE c == IF s.selections[p] # t THEN now ELSE s.lastChange
           v == [s.selections EXCEPT ![p] = t]
<1>1. c \in Nat /\ v \in [Players -> Target]
  BY DEF Seats, Target
<1>2. Record(s, p, t, now) = [s EXCEPT !.selections = v, !.lastChange = c]
  BY DEF Record
<1> HIDE DEF c, v
<1>3. /\ [s EXCEPT !.selections = v, !.lastChange = c] \in Seats
      /\ LET r == [s EXCEPT !.selections = v, !.lastChange = c]
         IN  r.stage = s.stage /\ r.members = s.members /\ r.limit = s.limit /\ r.selections = v
  BY <1>1 DEF Seats
<1> QED
  BY <1>2, <1>3 DEF v

\* y is x once p's selection of t has been counted in the session of kind k.
Counted(x, k, p, t, y) ==
  /\ Midway(y) /\ y.living = x.living /\ y.round = x.round /\ y.phase = x.phase
  /\ y.says = x.says /\ Open(y) = Open(x)
  /\ \A j \in Kinds : y.sessions[j].limit = x.sessions[j].limit
  /\ \A j \in Kinds \ {k} : y.sessions[j].selections = x.sessions[j].selections
  /\ y.sessions[k].selections = [x.sessions[k].selections EXCEPT ![p] = t]
  /\ \A j \in Kinds : y.sessions[j].members = x.sessions[j].members

\* The session's record of it is all that changes.
LEMMA CountedFields ==
  ASSUME NEW x, Midway(x), NEW k \in Open(x), NEW p \in x.sessions[k].members,
         NEW t \in x.living, NEW now \in Nat
  PROVE  Counted(x, k, p, t, [x EXCEPT !.sessions = [x.sessions EXCEPT ![k] = Record(x.sessions[k], p, t, now)]])
<1> DEFINE r == Record(x.sessions[k], p, t, now)
           ss == [x.sessions EXCEPT ![k] = r]
           y == [x EXCEPT !.sessions = ss]
<1>1. /\ x \in GameType /\ x.sessions \in [Kinds -> Seats] /\ x.living \in SUBSET Players
      /\ k \in Kinds /\ t \in Players /\ x.sessions[k].stage = "open"
  BY DEF Midway, GameType, Open
<1>2. x.sessions[k] \in Seats /\ p \in Players
  BY <1>1 DEF Seats
<1>3. /\ r \in Seats /\ r.stage = x.sessions[k].stage /\ r.members = x.sessions[k].members
      /\ r.limit = x.sessions[k].limit
      /\ r.selections = [x.sessions[k].selections EXCEPT ![p] = t]
  BY <1>1, <1>2, RecordFields
<1> HIDE DEF r, y
<1>5. ss \in [Kinds -> Seats] /\ ss[k] = r /\ \A j \in Kinds \ {k} : ss[j] = x.sessions[j]
  BY <1>1, <1>3
<1> HIDE DEF ss
<1>6. /\ y \in GameType /\ y.living = x.living /\ y.round = x.round /\ y.phase = x.phase
      /\ y.says = x.says /\ y.begun = x.begun /\ y.winner = x.winner /\ y.sessions = ss
  BY <1>1, <1>5 DEF GameType, y
<1>7. Open(y) = Open(x)
  BY <1>1, <1>3, <1>5, <1>6 DEF Open
<1>8. Seated(y)
  <2>1. ASSUME NEW j \in Kinds
        PROVE  /\ y.sessions[j].members \subseteq y.living
               /\ \A q \in Players : y.sessions[j].selections[q] # Nobody =>
                    q \in y.sessions[j].members /\ y.sessions[j].selections[q] \in y.living
    <3>1. CASE j # k
      BY <1>5, <1>6, <2>1, <3>1 DEF Midway, Seated
    <3>2. CASE j = k
      <4>1. y.sessions[j].members = x.sessions[k].members /\ x.sessions[k].members \subseteq y.living
        BY <1>1, <1>3, <1>5, <1>6, <3>2 DEF Midway, Seated
      <4>2. \A q \in Players : y.sessions[j].selections[q] = IF q = p THEN t ELSE x.sessions[k].selections[q]
        BY <1>2, <1>3, <1>5, <1>6, <3>2 DEF Seats
      <4>3. \A q \in Players : x.sessions[k].selections[q] # Nobody =>
              q \in x.sessions[k].members /\ x.sessions[k].selections[q] \in x.living
        BY <1>1 DEF Midway, Seated
      <4> QED
        BY <1>6, <4>1, <4>2, <4>3
    <3> QED
      BY <3>1, <3>2
  <2> QED
    BY <2>1 DEF Seated
<1>9. PhaseOf(k) = x.phase
  BY <1>1, UnopenedType DEF Midway
<1>10. Midway(y)
  BY <1>5, <1>6, <1>8, <1>9 DEF Midway, Over
<1> QED
  BY <1>3, <1>5, <1>6, <1>7, <1>10 DEF Counted, y, ss, r

\* Where there was no majority, one more vote can only make one for its
\* target.
LEMMA MajorityByOne ==
  ASSUME NEW x \in GameType, NEW y \in GameType, NEW p \in Players, NEW t, Majority(x) = {},
         y.living = x.living,
         y.sessions["Nominate"].members = x.sessions["Nominate"].members,
         y.sessions["Nominate"].selections = [x.sessions["Nominate"].selections EXCEPT ![p] = t]
  PROVE  Majority(y) \subseteq {t}
<1> DEFINE M == x.sessions["Nominate"].members
           sx == x.sessions["Nominate"].selections
           sy == y.sessions["Nominate"].selections
<1>1. M \in SUBSET Players /\ sx \in [Players -> Target]
  BY DEF GameType, Seats, Kinds
<1>2. \A q \in Players : q # p => sy[q] = sx[q]
  BY <1>1
<1>3. sy[p] = t
  BY <1>1
<1> HIDE DEF M, sx, sy
<1>4. ASSUME NEW q \in Majority(y), q # t PROVE FALSE
  <2> DEFINE A == {v \in M : sx[v] = q}
             B == {v \in M : sy[v] = q}
  <2>1. B \subseteq A
    BY <1>1, <1>2, <1>3, <1>4
  <2>2. A \in SUBSET Players /\ B \in SUBSET Players
    BY <1>1
  <2>3. Cardinality(B) <= Cardinality(A) /\ Cardinality(A) \in Nat /\ Cardinality(B) \in Nat
    BY <2>1, <2>2, PlayersAreFinite, FS_Subset
  <2>4. Votes(x.sessions["Nominate"], q) = Cardinality(A) /\ Votes(y.sessions["Nominate"], q) = Cardinality(B)
    BY DEF Votes, M, sx, sy
  <2>5. Cardinality(x.living) \in Nat
    BY PlayersAreFinite DEF GameType
  <2> HIDE DEF A, B
  <2>6. q \in Players /\ 2 * Cardinality(B) > Cardinality(x.living)
    BY <1>4, <2>4 DEF Majority
  <2>7. 2 * Cardinality(A) > Cardinality(x.living)
    BY <2>3, <2>5, <2>6
  <2> QED
    BY <2>4, <2>6, <2>7 DEF Majority
<1> QED
  BY <1>4
\* A selection that can be counted in its session.
Counts(x, p, sel) ==
  InSession(x, p, sel) /\ sel.target \in SpaceFor(x, p, sel.kind) /\ sel.seenBy \in SUBSET x.living

\* c has the selections there are in x once this one has arrived.
Selected(x, p, sel, c) ==
  /\ c.living = x.living /\ c.phase = x.phase
  /\ \A k \in Kinds : c.sessions[k].selections =
       IF InSession(x, p, sel) /\ k = sel.kind
         THEN [x.sessions[k].selections EXCEPT ![p] = sel.target] ELSE x.sessions[k].selections

\* A relay changes nothing but what there is to say.
LEMMA ForwardFields ==
  ASSUME NEW x \in GameType, NEW to \in SUBSET Players, to \subseteq x.living, NEW e \in Envelopes
  PROVE  /\ Forward(x, to, e) \in GameType /\ SameButSays(x, Forward(x, to, e))
         /\ Forward(x, to, e).says = Append(x.says, [say |-> "forward", to |-> to, envelope |-> e])
         /\ KeepsTelling(x, Forward(x, to, e))
<1> DEFINE d == [say |-> "forward", to |-> to, envelope |-> e]
<1>1. d \in Directives /\ Addressees(d) = to /\ Leaves(d) = {}
  BY DEF Directives, Addressees, Leaves
<1>2. Forward(x, to, e) = Saying(x, d)
  BY DEF Forward
<1> HIDE DEF d
<1>3. /\ Saying(x, d) \in GameType /\ SameButSays(x, Saying(x, d))
      /\ Saying(x, d).says = Append(x.says, d)
  BY <1>1, SayingFields
<1>4. x.says \in Seq(Directives)
  BY DEF GameType
<1>5. ASSUME NEW L \in SUBSET Players, Telling(L, x.says, x.living)
      PROVE  Telling(L, Append(x.says, d), x.living \ {})
  BY <1>1, <1>4, <1>5, TellMore
<1>6. x.living \ {} = x.living
  OBVIOUS
<1>7. KeepsTelling(x, Saying(x, d))
  BY <1>3, <1>5, <1>6 DEF KeepsTelling, SameButSays
<1> QED
  BY <1>2, <1>3, <1>7 DEF d

\* select: counted and passed on, or, by day, the majority it makes is lynched.
LEMMA SelectPlays ==
  ASSUME NEW x, InPlay(x), ~Over(x), NEW p \in Players, NEW sel, Counts(x, p, sel), NEW now \in Nat,
         NEW c, Selected(x, p, sel, c)
  PROVE  LET y == Select(x, p, sel, now)
         IN  /\ KeepsTelling(x, y)
             /\ \/ Stayed(x, y) /\ \A k \in Kinds : y.sessions[k].selections = c.sessions[k].selections
                \/ \E gone \in SUBSET x.living : PhaseOver(x, y, gone, now) /\ Called(c, gone)
<1> DEFINE k == sel.kind
           t == sel.target
           counted == [x EXCEPT !.sessions[sel.kind] = Record(@, p, sel.target, now)]
           relayed == IF sel.seenBy = {} THEN counted ELSE Forward(counted, sel.seenBy, Envelope(p, sel))
           y == Select(x, p, sel, now)
<1>1. /\ Midway(x) /\ x \in GameType /\ x.living \in SUBSET Players
      /\ InSession(x, p, sel) /\ k \in Open(x) /\ p \in x.sessions[k].members
      /\ t \in x.living /\ sel.seenBy \in SUBSET Players /\ sel.seenBy \subseteq x.living
      /\ k \in Kinds /\ t \in Players
  BY InPlayMidway DEF Midway, GameType, Counts, InSession, SpaceFor, ActionSpace, Open
<1>2. Counted(x, k, p, t, counted)
  <2>1. counted = [x EXCEPT !.sessions = [x.sessions EXCEPT ![k] = Record(x.sessions[k], p, t, now)]]
    OBVIOUS
  <2> HIDE DEF counted, k, t
  <2> QED
    BY <1>1, <2>1, CountedFields
<1>3. y = IF k = "Nominate" /\ Majority(relayed) # {} THEN CloseDay(relayed, {t}, now) ELSE relayed
  BY <1>1 DEF Select
<1>4. Envelope(p, sel) \in Envelopes
  BY <1>1 DEF Envelope, Envelopes
<1> HIDE DEF counted
<1>5. relayed \in GameType /\ SameButSays(counted, relayed) /\ KeepsTelling(counted, relayed)
  <2>1. CASE sel.seenBy = {}
    <3>1. relayed = counted
      BY <2>1
    <3> QED
      BY <1>2, <3>1 DEF Counted, Midway, SameButSays, KeepsTelling
  <2>2. CASE sel.seenBy # {}
    <3>1. relayed = Forward(counted, sel.seenBy, Envelope(p, sel))
      BY <2>2
    <3>2. counted \in GameType
      BY <1>2 DEF Counted, Midway
    <3> HIDE DEF relayed
    <3> QED
      BY <1>1, <1>2, <1>4, <3>1, <3>2, ForwardFields DEF Counted
  <2> QED
    BY <2>1, <2>2
<1> HIDE DEF relayed, y
<1>6. Midway(relayed) /\ Open(relayed) = Open(x)
  BY <1>2, <1>5 DEF Counted, Midway, Over, Seated, SameButSays, Open
<1>7. KeepsTelling(x, relayed)
  BY <1>2, <1>5 DEF Counted, KeepsTelling
<1>8. \A j \in Kinds : relayed.sessions[j].selections = c.sessions[j].selections
  BY <1>1, <1>2, <1>5 DEF Counted, Selected, SameButSays
<1>9. relayed.living = x.living /\ relayed.phase = x.phase /\ relayed.round = x.round
  BY <1>2, <1>5 DEF Counted, SameButSays
<1>10. CASE k = "Nominate" /\ Majority(relayed) # {}
  <2>1. x.phase = "Day"
    BY <1>1, <1>10, UnopenedType DEF Midway, Open, PhaseOf
  <2>2. Majority(relayed) \subseteq {t}
    <3>1. Majority(x) = {}
      BY <2>1 DEF InPlay
    <3>2. /\ relayed.sessions["Nominate"].members = x.sessions["Nominate"].members
          /\ relayed.sessions["Nominate"].selections = [x.sessions["Nominate"].selections EXCEPT ![p] = t]
      BY <1>2, <1>5, <1>10 DEF Counted, SameButSays, Kinds
    <3> QED
      BY <1>1, <1>5, <1>9, <3>1, <3>2, MajorityByOne
  <2>3. PhaseOver(relayed, CloseDay(relayed, {t}, now), {t}, now) /\ KeepsTelling(relayed, CloseDay(relayed, {t}, now))
    BY <1>1, <1>6, <1>9, <2>1, CloseDayPlays
  <2>4. y = CloseDay(relayed, {t}, now)
    BY <1>3, <1>10
  <2>5. PhaseOver(x, y, {t}, now)
    BY <1>9, <2>3, <2>4 DEF PhaseOver, NewPhase, Finished
  <2>6. Condemned(relayed) = Majority(relayed) /\ Shielded(relayed) = {}
    BY <1>6, <1>9, <2>1, DayCalls
  <2>7. Called(relayed, {t})
    BY <1>10, <2>2, <2>6 DEF Called
  <2>8. Called(c, {t})
    BY <1>8, <1>9, <2>7, CalledBySelections DEF Selected
  <2>9. KeepsTelling(x, y)
    BY <1>7, <2>3, <2>4, TellingOn
  <2>10. {t} \in SUBSET x.living
    BY <1>1
  <2> QED
    BY <2>5, <2>8, <2>9, <2>10 DEF y
<1>11. CASE ~(k = "Nominate" /\ Majority(relayed) # {})
  <2>1. y = relayed
    BY <1>3, <1>11
  <2>2. x.phase = "Day" => k = "Nominate"
    BY <1>1, UnopenedType DEF Midway, Open, PhaseOf
  <2>3. InPlay(relayed) /\ ~Over(relayed)
    BY <1>1, <1>6, <1>9, <1>11, <2>2 DEF InPlay, Midway, Over
  <2>4. Stayed(x, relayed)
    BY <1>2, <1>5, <1>6, <1>9, <2>3 DEF Counted, Stayed, SameButSays, Open
  <2> QED
    BY <1>7, <1>8, <2>1, <2>4 DEF y
<1> QED
  BY <1>10, <1>11

\* A selection is counted, and then the clocks are looked at.
LEMMA SelectionPlays ==
  ASSUME NEW x, InPlay(x), ~Over(x), NEW p \in Players, NEW sel,
         InSession(x, p, sel) => Counts(x, p, sel), NEW now \in Nat, NEW luck,
         NEW c, Selected(x, p, sel, c)
  PROVE  LET y == Expire(Select(x, p, sel, now), now, luck)
         IN  Turns(x, c, y, now) /\ KeepsTelling(x, y)
<1> DEFINE z == Select(x, p, sel, now)
           y == Expire(z, now, luck)
<1>1. CASE \/ z = x /\ ~InSession(x, p, sel)
           \/ /\ Stayed(x, z) /\ KeepsTelling(x, z)
              /\ \A k \in Kinds : z.sessions[k].selections = c.sessions[k].selections
  <2>1. /\ Stayed(x, z) /\ KeepsTelling(x, z)
        /\ \A k \in Kinds : z.sessions[k].selections = c.sessions[k].selections
    BY <1>1 DEF Stayed, KeepsTelling, Selected
  <2>2. Turns(z, z, y, now) /\ KeepsTelling(z, y)
    BY <2>1, ExpirePlays DEF Stayed
  <2>3. KeepsTelling(x, y)
    BY <2>1, <2>2, TellingOn
  <2> HIDE DEF z, y
  <2>4. CASE Stayed(z, y)
    <3>1. Stayed(x, y)
      BY <2>1, <2>4 DEF Stayed, Open
    <3> QED
      BY <2>3, <3>1 DEF Turns, y, z
  <2>5. ASSUME NEW gone \in SUBSET z.living, PhaseOver(z, y, gone, now), Called(z, gone)
        PROVE  Turns(x, c, y, now)
    <3>1. z.living = x.living /\ z.phase = x.phase /\ z.round = x.round
      BY <2>1 DEF Stayed
    <3>2. PhaseOver(x, y, gone, now)
      BY <2>5, <3>1 DEF PhaseOver, NewPhase, Finished
    <3>3. Called(c, gone)
      BY <2>1, <2>5, <3>1, CalledBySelections DEF Selected
    <3> QED
      BY <2>5, <3>1, <3>2, <3>3 DEF Turns
  <2> QED
    BY <2>2, <2>3, <2>4, <2>5 DEF Turns, y, z
<1>2. ASSUME NEW gone \in SUBSET x.living, PhaseOver(x, z, gone, now), Called(c, gone), KeepsTelling(x, z)
      PROVE  Turns(x, c, y, now) /\ KeepsTelling(x, y)
  <2>1. InPlay(z) /\ (Over(z) \/ \A k \in Open(z) : z.sessions[k].limit = now + Limit[k] /\ z.sessions[k].lastChange = now)
    BY <1>2 DEF PhaseOver, NewPhase, Finished
  <2> HIDE DEF z
  <2>2. y = z
    BY <2>1, ExpireFresh
  <2> QED
    BY <1>2, <2>2 DEF Turns
<1>3. CASE InSession(x, p, sel)
  BY <1>1, <1>2, <1>3, SelectPlays
<1>4. CASE ~InSession(x, p, sel)
  <2>1. z = x
    BY <1>4 DEF Select
  <2> QED
    BY <1>1, <1>4, <2>1
<1> QED
  BY <1>3, <1>4

\* The game before it has begun.
LEMMA NewGameType == NewGame \in GameType
<1>1. /\ [k \in Kinds |-> Unopened] \in [Kinds -> Seats]
      /\ [q \in Players |-> Nobody] \in [Players -> Target]
      /\ << >> \in Seq(Directives)
  BY UnopenedType, EmptySeq DEF Target
<1> QED
  BY <1>1 DEF NewGame, GameType, Winners, Phases

\* begin: everybody is told a role, and the first night can be played.
LEMMA BeginPlays ==
  ASSUME NEW now \in Nat
  PROVE  LET y == Begin(now)
         IN  /\ InPlay(y) /\ ~Over(y) /\ y.living = Players /\ y.round = 1 /\ y.phase = "Night"
             /\ \A k \in Open(y) : y.sessions[k].limit = now + Limit[k]
             /\ Telling(Players, y.says, Players)
<1> DEFINE deal == SetToSeq(Players)
           says == [i \in DOMAIN deal |-> Narration({deal[i]}, Assigned(deal[i]))]
           z == [NewGame EXCEPT !.begun = TRUE, !.says = says]
           y == BeginPhase(z, now)
<1>1. deal \in Seq(Players) /\ Len(deal) \in Nat /\ DOMAIN deal = 1 .. Len(deal)
  BY SetToSeqType
<1>2. /\ NewGame.living = Players /\ NewGame.round = 1 /\ NewGame.phase = "Night"
      /\ NewGame.winner = "undecided" /\ << >> \in Seq(Directives)
  BY EmptySeq DEF NewGame
<1>3. NewGame \in GameType
  BY NewGameType
<1>4. /\ says \in Seq(Directives)
      /\ \A i \in 1 .. Len(says) : Leaves(says[i]) = {} /\ Addressees(says[i]) \subseteq Players
  <2> HIDE DEF deal
  <2>1. \A i \in 1 .. Len(deal) : deal[i] \in Players
    BY <1>1, ElementOfSeq
  <2> DEFINE d(i) == Narration({deal[i]}, Assigned(deal[i]))
  <2>2. \A i \in 1 .. Len(deal) : d(i) \in Directives /\ Leaves(d(i)) = {} /\ Addressees(d(i)) \subseteq Players
    <3> TAKE i \in 1 .. Len(deal)
    <3>1. Assigned(deal[i]) \in Narrations
      BY <1>3, <2>1, NarrationTypes
    <3> QED
      BY <2>1, <3>1 DEF Narration, Directives, Leaves, Addressees
  <2>3. says = [i \in 1 .. Len(deal) |-> d(i)]
    BY <1>1
  <2> HIDE DEF d, says
  <2>4. says \in [1 .. Len(deal) -> Directives]
    BY <2>2, <2>3
  <2>5. says \in Seq(Directives) /\ Len(says) = Len(deal)
    BY <1>1, <2>4
  <2> QED
    BY <2>2, <2>3, <2>5
<1> HIDE DEF says
<1>5. /\ z \in GameType /\ z.begun /\ z.living = Players /\ z.round = 1 /\ z.phase = "Night"
      /\ z.winner = "undecided" /\ z.says = says
  BY <1>2, <1>3, <1>4 DEF GameType
<1>6. Telling(Players, << >> \o says, Players)
  <2>1. Telling(Players, << >>, Players)
    BY DEF Telling, Gone
  <2> QED
    BY <1>2, <1>4, <2>1, TellMany
<1>7. << >> \o says = says
  BY <1>4
<1> HIDE DEF z
<1>8. /\ InPlay(y) /\ \A k \in Open(y) : y.sessions[k].limit = now + Limit[k]
      /\ y.living = z.living /\ y.round = z.round /\ y.phase = z.phase /\ y.winner = z.winner
      /\ y.says = Append(z.says, Narration(z.living, PhaseBegan(z)))
  <2>1. 1 \in 1 .. DayCap
    BY TimingAssumption
  <2>2. z.begun /\ ~Over(z) /\ z \in GameType /\ Winner(z.living) = "undecided" /\ z.round \in 1 .. DayCap
    BY <1>5, <2>1, DealUndecided DEF Over
  <2>3. InPlay(y) /\ \A k \in Open(y) : y.sessions[k].limit = now + Limit[k]
    BY <2>2, BegunPhase
  <2>4. /\ y.living = z.living /\ y.round = z.round /\ y.phase = z.phase /\ y.winner = z.winner
        /\ y.says = Append(z.says, Narration(z.living, PhaseBegan(z)))
    BY <2>2, BeginPhaseFields
  <2> QED
    BY <2>3, <2>4
<1>9. KeepsTelling(z, y)
  <2>1. PhaseBegan(z) \in Narrations /\ z.living \in SUBSET Players
    BY <1>5, NarrationTypes
  <2> QED
    BY <1>5, <1>8, <2>1, NarrateTells
<1>10. Begin(now) = y
  BY DEF Begin, y, z, says
<1>11. Telling(Players, y.says, Players)
  BY <1>5, <1>6, <1>7, <1>8, <1>9 DEF KeepsTelling
<1> QED
  BY <1>5, <1>8, <1>10, <1>11 DEF Over

(***************************************************************************)
(* The effects of a call.                                                  *)
(***************************************************************************)
Relays  == [is : {"Relayed"}, envelope : Envelopes]
Looks   == [is : {"look"}, deadline : Nat]
Effects ==
  [do : {"tell"}, to : SUBSET Players, message : Narrations \cup Relays]
  \cup [do : {"command"}, to : SUBSET Players, control : {"start", "stop"}]
  \cup [do : {"remind"}, look : Looks]
  \cup [do : {"pay"}, rewards : [Players -> {"won", "lost"}]]
  \cup [do : {"farewell"}, wait : Nat]

\* The effect stops some players.
Halts(e) == e.do = "command" /\ e.control = "stop"

\* What carries a directive is for whom the directive is for, and stops whom
\* it sends away.
LEMMA SentFields ==
  ASSUME NEW d \in Directives
  PROVE  /\ Sent(d) \in Effects /\ Sent(d).do \in {"tell", "command"}
         /\ Sent(d).to = Addressees(d)
         /\ Halts(Sent(d)) <=> d.say = "stop"
         /\ Sent(d).do = "command" => Sent(d).control = "stop"
<1>1. CASE d \in [say : {"narrate"}, to : SUBSET Players, narration : Narrations]
  <2>1. Sent(d) = [do |-> "tell", to |-> d.to, message |-> d.narration]
    BY <1>1 DEF Sent, Tell
  <2>2. Sent(d) \in [do : {"tell"}, to : SUBSET Players, message : Narrations \cup Relays]
    BY <1>1, <2>1
  <2> QED
    BY <1>1, <2>1, <2>2 DEF Effects, Halts, Addressees
<1>2. CASE d \in [say : {"forward"}, to : SUBSET Players, envelope : Envelopes]
  <2>1. Sent(d) = [do |-> "tell", to |-> d.to, message |-> Relayed(d.envelope)]
    BY <1>2 DEF Sent, Tell
  <2>2. Relayed(d.envelope) \in Relays
    BY <1>2 DEF Relayed, Relays
  <2>3. Sent(d) \in [do : {"tell"}, to : SUBSET Players, message : Narrations \cup Relays]
    BY <1>2, <2>1, <2>2
  <2> QED
    BY <1>2, <2>1, <2>3 DEF Effects, Halts, Addressees
<1>3. CASE d \in [say : {"stop"}, who : Players]
  <2>1. Sent(d) = [do |-> "command", to |-> {d.who}, control |-> "stop"]
    BY <1>3 DEF Sent, Command
  <2> QED
    BY <1>3, <2>1 DEF Effects, Halts, Addressees
<1> QED
  BY <1>1, <1>2, <1>3 DEF Directives

\* Whom the first effects stop.
LEMMA StopsMeans ==
  ASSUME NEW e \in Seq(Effects), NEW n \in 0 .. Len(e)
  PROVE  \A p : p \in Stops(e, n) <=> \E i \in 1 .. n : Halts(e[i]) /\ p \in e[i].to
<1>1. /\ Len(SubSeq(e, 1, n)) = n /\ DOMAIN SubSeq(e, 1, n) = 1 .. n
      /\ \A i \in 1 .. n : SubSeq(e, 1, n)[i] = e[i]
  <2>1. n \in Nat /\ Len(e) \in Nat
    OBVIOUS
  <2> QED
    BY <2>1, SubSeqProperties
<1> DEFINE s == SubSeq(e, 1, n)
<1>2. Stops(e, n) = UNION {s[i].to : i \in {j \in 1 .. n : s[j].do = "command" /\ s[j].control = "stop"}}
  BY <1>1 DEF Stops, Commanded
<1> HIDE DEF s
<1> QED
  BY <1>1, <1>2 DEF Halts, s

\* e carries the directives q, one after the other, and after them effects of
\* the moderator's own.
Carries(e, q) ==
  /\ e \in Seq(Effects) /\ Len(q) <= Len(e)
  /\ \A i \in 1 .. Len(q) : e[i] = Sent(q[i])
  /\ \A i \in Len(q) + 1 .. Len(e) : e[i].do \in {"remind", "pay", "farewell"}

\* Effects that carry directives for those running still are refused by
\* nobody, and leave running whom the directives leave.
LEMMA CarriedOut ==
  ASSUME NEW q \in Seq(Directives), NEW e, Carries(e, q), NEW L \in SUBSET Players, NEW left,
         Telling(L, q, left)
  PROVE  /\ Starts(e) = {} /\ L \ Stops(e, Len(e)) = left
         /\ \A i \in 1 .. Len(e) : e[i].do \in {"tell", "command"} => e[i].to \subseteq L \ Stops(e, i - 1)
<1>1. Len(q) \in Nat /\ Len(e) \in Nat /\ Len(q) <= Len(e) /\ e \in Seq(Effects) /\ DOMAIN e = 1 .. Len(e)
  BY DEF Carries
<1>2. \A i \in 1 .. Len(q) : q[i] \in Directives
  BY ElementOfSeq
<1>3. \A i \in 1 .. Len(q) :
        /\ e[i].to = Addressees(q[i]) /\ (Halts(e[i]) <=> q[i].say = "stop")
        /\ (e[i].do = "command" => e[i].control = "stop")
  BY <1>2, SentFields DEF Carries
<1>4. \A i \in Len(q) + 1 .. Len(e) : e[i].do \notin {"tell", "command"} /\ ~Halts(e[i])
  BY DEF Carries, Halts
<1>5. \A i \in 1 .. Len(e) : i \in 1 .. Len(q) \/ i \in Len(q) + 1 .. Len(e)
  BY <1>1
<1>6. ASSUME NEW n \in 0 .. Len(q) PROVE Stops(e, n) = Gone(q, n)
  <2>1. n \in 0 .. Len(e) /\ \A i \in 1 .. n : i \in 1 .. Len(q)
    BY <1>1
  <2>2. \A p : p \in Stops(e, n) <=> \E i \in 1 .. n : Halts(e[i]) /\ p \in e[i].to
    BY <1>1, <2>1, StopsMeans
  <2>3. \A i \in 1 .. n : Halts(e[i]) => e[i].to = {q[i].who} /\ q[i].who \in Players
    BY <1>2, <1>3, <2>1 DEF Addressees, Directives
  <2> QED
    BY <1>3, <2>1, <2>2, <2>3 DEF Gone
<1>7. Stops(e, Len(e)) = Stops(e, Len(q))
  <2>1. Len(e) \in 0 .. Len(e) /\ Len(q) \in 0 .. Len(e) /\ 1 .. Len(q) \subseteq 1 .. Len(e)
    BY <1>1
  <2>2. /\ \A p : p \in Stops(e, Len(e)) <=> \E i \in 1 .. Len(e) : Halts(e[i]) /\ p \in e[i].to
        /\ \A p : p \in Stops(e, Len(q)) <=> \E i \in 1 .. Len(q) : Halts(e[i]) /\ p \in e[i].to
    BY <1>1, <2>1, StopsMeans
  <2> QED
    BY <1>4, <1>5, <2>1, <2>2
<1>8. Starts(e) = {}
  <2>1. \A i \in 1 .. Len(e) : ~(e[i].do = "command" /\ e[i].control = "start")
    BY <1>3, <1>4, <1>5
  <2> QED
    BY <1>1, <2>1 DEF Starts, Commanded
<1>9. L \ Stops(e, Len(e)) = left
  <2>1. Len(q) \in 0 .. Len(q)
    BY <1>1
  <2> QED
    BY <1>6, <1>7, <2>1 DEF Telling
<1>10. ASSUME NEW i \in 1 .. Len(e), e[i].do \in {"tell", "command"}
       PROVE  e[i].to \subseteq L \ Stops(e, i - 1)
  <2>1. i \in 1 .. Len(q) /\ i - 1 \in 0 .. Len(q)
    BY <1>1, <1>4, <1>5, <1>10
  <2> QED
    BY <1>3, <1>6, <2>1 DEF Telling
<1> QED
  BY <1>8, <1>9, <1>10
(***************************************************************************)
(* Deadlines.                                                              *)
(***************************************************************************)
\* Any nonempty set of instants has an earliest one.
LEMMA EarliestOfSome ==
  ASSUME NEW T \in SUBSET Nat, T # {}
  PROVE  Min(T) \in T /\ \A t \in T : Min(T) <= t
<1> DEFINE R == {ss \in Nat \X Nat : ss[1] < ss[2]}
<1>1. IsWellFoundedOn(R, Nat)
  BY NatLessThanWellFounded DEF OpToRel
<1> HIDE DEF R
<1>2. PICK t \in T : \A u \in T : ~(<<u, t>> \in R)
  BY <1>1, WFMin
<1>3. \A u \in T : ~(u < t)
  BY <1>2 DEF R
<1>4. \A u \in T : t <= u
  BY <1>3
<1> QED
  BY <1>4 DEF Min

\* While a game goes on the earliest deadline of its sessions is an instant no
\* later than the limit of any.
LEMMA EarliestDeadline ==
  ASSUME NEW x, InPlay(x), ~Over(x)
  PROVE  /\ Deadlines(x) # {} /\ Min(Deadlines(x)) \in Nat
         /\ \A k \in Open(x) : Min(Deadlines(x)) <= x.sessions[k].limit
<1>1. \A k \in Open(x) : k \in Kinds /\ x.sessions[k] \in Seats
  BY DEF InPlay, GameType, Open
<1>2. \A k \in Open(x) : Deadline(k, x.sessions[k]) \in Nat /\ Deadline(k, x.sessions[k]) <= x.sessions[k].limit
  <2> TAKE k \in Open(x)
  <2> DEFINE s == x.sessions[k]
  <2>1. /\ s.limit \in Nat /\ s.lastChange \in Nat
        /\ k # "Nominate" => Quiet[k] \in Nat
    BY <1>1, TimingAssumption DEF Seats
  <2>2. \/ Deadline(k, s) = s.limit
        \/ /\ k # "Nominate" /\ s.lastChange + Quiet[k] < s.limit
           /\ Deadline(k, s) = s.lastChange + Quiet[k]
    <3> HIDE DEF s
    <3>1. CASE k # "Nominate" /\ Settled(s) /\ s.lastChange + Quiet[k] < s.limit
      BY <3>1 DEF Deadline
    <3>2. CASE ~(k # "Nominate" /\ Settled(s) /\ s.lastChange + Quiet[k] < s.limit)
      BY <3>2 DEF Deadline
    <3> QED
      BY <3>1, <3>2
  <2> HIDE DEF s
  <2>3. Deadline(k, s) \in Nat /\ Deadline(k, s) <= s.limit
    BY <2>1, <2>2
  <2> QED
    BY <2>3 DEF s
<1>3. Deadlines(x) = {Deadline(k, x.sessions[k]) : k \in Open(x)}
  BY DEF Deadlines
<1>4. Deadlines(x) # {} /\ Deadlines(x) \in SUBSET Nat
  BY <1>2, <1>3 DEF InPlay
<1>5. Min(Deadlines(x)) \in Nat /\ \A t \in Deadlines(x) : Min(Deadlines(x)) <= t
  BY <1>4, EarliestOfSome
<1>6. ASSUME NEW k \in Open(x) PROVE Min(Deadlines(x)) <= x.sessions[k].limit
  <2>1. Min(Deadlines(x)) <= Deadline(k, x.sessions[k]) /\ x.sessions[k].limit \in Nat
    BY <1>1, <1>3, <1>5 DEF Seats
  <2> QED
    BY <1>2, <1>5, <2>1
<1> QED
  BY <1>4, <1>5, <1>6

\* The farewell is some time.
LEMMA FarewellType == Farewell \in Nat
<1> DEFINE Q == {Quiet[k] : k \in DOMAIN Quiet}
<1>1. Q \in SUBSET Nat /\ Quiet["Devour"] \in Q
  BY TimingAssumption DEF Kinds
<1> HIDE DEF Q
<1>2. Min(Q) \in Nat
  BY <1>1, EarliestOfSome
<1>3. ShortestQuiet \in Nat
  BY <1>2 DEF ShortestQuiet, Q
<1>4. \E t \in {FarewellFloor, ShortestQuiet} : \A u \in {FarewellFloor, ShortestQuiet} : t >= u
  BY <1>3, FloorAssumption
<1> QED
  BY <1>3, <1>4, FloorAssumption DEF Farewell, Max

(***************************************************************************)
(* What a call yields.                                                     *)
(***************************************************************************)
ModType == [game : GameType, reminded : SUBSET Nat, farewell : BOOLEAN, stopped : BOOLEAN,
            effects : Seq(Effects)]

\* n is what the moderator m yields, having said what its game has to say, with
\* some looks and farewells of its own.
Said(m, n) ==
  /\ m \in ModType /\ n \in ModType /\ n.game = [m.game EXCEPT !.says = << >>] /\ n.stopped = m.stopped
  /\ Carries(n.effects, m.game.says)

\* Its directives are sent, each in its turn, and nothing else yet.
LEMMA SaidDirectives ==
  ASSUME NEW m \in ModType
  PROVE  LET n == [m EXCEPT !.effects = [i \in DOMAIN m.game.says |-> Sent(m.game.says[i])],
                            !.game.says = << >>]
         IN  /\ Said(m, n) /\ Len(n.effects) = Len(m.game.says)
             /\ n.reminded = m.reminded /\ n.farewell = m.farewell
<1> DEFINE q == m.game.says
           e == [i \in DOMAIN q |-> Sent(q[i])]
           h == [m.game EXCEPT !.says = << >>]
           n == [m EXCEPT !.effects = e, !.game = h]
<1>1. q \in Seq(Directives) /\ m.game \in GameType
  BY DEF ModType, GameType
<1>2. Len(q) \in Nat /\ DOMAIN q = 1 .. Len(q) /\ \A i \in 1 .. Len(q) : q[i] \in Directives
  BY <1>1, ElementOfSeq
<1> HIDE DEF q
<1>3. e \in Seq(Effects) /\ Len(e) = Len(q) /\ \A i \in 1 .. Len(q) : e[i] = Sent(q[i])
  <2>1. e \in [1 .. Len(q) -> Effects]
    BY <1>2, SentFields
  <2> QED
    BY <1>2, <2>1
<1>4. << >> \in Seq(Directives)
  OBVIOUS
<1>5. h \in GameType
  BY <1>1, <1>4 DEF GameType
<1> HIDE DEF e, h
<1>6. /\ n \in ModType /\ n.game = h /\ n.stopped = m.stopped /\ n.effects = e
      /\ n.reminded = m.reminded /\ n.farewell = m.farewell
  BY <1>3, <1>5 DEF ModType
<1>7. Carries(e, q)
  BY <1>2, <1>3 DEF Carries
<1>8. n = [m EXCEPT !.effects = [i \in DOMAIN m.game.says |-> Sent(m.game.says[i])],
                            !.game.says = << >>]
  BY DEF e, h, q
<1> HIDE DEF n
<1> QED
  BY <1>3, <1>6, <1>7, <1>8 DEF Said, h, q

\* An effect of the moderator's own comes after those there are.
LEMMA YieldFields ==
  ASSUME NEW m, NEW n, Said(m, n), NEW d \in Effects, d.do \in {"remind", "pay", "farewell"}
  PROVE  /\ Said(m, Yield(n, d))
         /\ Yield(n, d).effects = Append(n.effects, d)
         /\ Len(Yield(n, d).effects) = Len(n.effects) + 1
         /\ \A i \in 1 .. Len(n.effects) : Yield(n, d).effects[i] = n.effects[i]
         /\ Yield(n, d).effects[Len(n.effects) + 1] = d
         /\ Yield(n, d).reminded = n.reminded /\ Yield(n, d).farewell = n.farewell
<1> DEFINE e == n.effects
           r == Append(e, d)
           q == m.game.says
<1>1. n \in ModType /\ e \in Seq(Effects) /\ Carries(e, q)
  BY DEF Said, ModType
<1>2. /\ r \in Seq(Effects) /\ Len(e) \in Nat /\ Len(r) = Len(e) + 1
      /\ \A i \in 1 .. Len(e) : r[i] = e[i]
      /\ r[Len(e) + 1] = d
  BY <1>1, AppendProperties, LenProperties
<1>3. Yield(n, d) = [n EXCEPT !.effects = r]
  BY DEF Yield
<1> HIDE DEF e, r, q
<1>4. /\ Yield(n, d) \in ModType /\ Yield(n, d).effects = r /\ Yield(n, d).game = n.game
      /\ Yield(n, d).stopped = n.stopped /\ Yield(n, d).reminded = n.reminded
      /\ Yield(n, d).farewell = n.farewell
  BY <1>1, <1>2, <1>3 DEF ModType
<1>5. Carries(r, q)
  <2>1. /\ Len(q) <= Len(e)
        /\ \A i \in 1 .. Len(q) : e[i] = Sent(q[i])
        /\ \A i \in Len(q) + 1 .. Len(e) : e[i].do \in {"remind", "pay", "farewell"}
    BY <1>1 DEF Carries
  <2>2. Len(q) \in Nat
    BY DEF Said, ModType, GameType, q
  <2> QED
    BY <1>2, <2>1 DEF Carries
<1> QED
  BY <1>2, <1>4, <1>5 DEF Said, e, q, r

\* r is e with the effect d at its end.
OneMore(e, d, r) ==
  /\ e \in Seq(Effects) /\ r \in Seq(Effects) /\ Len(r) = Len(e) + 1
  /\ \A i \in 1 .. Len(e) : r[i] = e[i]
  /\ r[Len(e) + 1] = d

\* It sets the reminder d sets, if any, and pays if d does.
LEMMA OneMoreEffect ==
  ASSUME NEW e, NEW r, NEW d, NEW now, OneMore(e, d, r)
  PROVE  /\ RemindersSet(r, now) = RemindersSet(e, now)
              \cup (IF d.do = "remind" THEN {d.look} ELSE {})
              \cup (IF d.do = "farewell" THEN {Goodbye(now + d.wait)} ELSE {})
         /\ Pays(r) <=> Pays(e) \/ d.do = "pay"
<1> DEFINE rem(s) == {s[i].look : i \in {j \in DOMAIN s : s[j].do = "remind"}}
           bye(s) == {Goodbye(now + s[i].wait) : i \in {j \in DOMAIN s : s[j].do = "farewell"}}
<1>1. /\ DOMAIN e = 1 .. Len(e) /\ DOMAIN r = 1 .. Len(r) /\ Len(e) \in Nat
      /\ Len(e) + 1 \in DOMAIN r
      /\ \A i \in DOMAIN e : i \in DOMAIN r /\ r[i] = e[i]
      /\ \A i \in DOMAIN r : i \in DOMAIN e \/ i = Len(e) + 1
      /\ r[Len(e) + 1] = d
  BY DEF OneMore
<1>2. rem(r) = rem(e) \cup (IF d.do = "remind" THEN {d.look} ELSE {})
  BY <1>1
<1>3. bye(r) = bye(e) \cup (IF d.do = "farewell" THEN {Goodbye(now + d.wait)} ELSE {})
  BY <1>1
<1>4. Pays(r) <=> Pays(e) \/ d.do = "pay"
  BY <1>1 DEF Pays
<1>5. RemindersSet(r, now) = rem(r) \cup bye(r) /\ RemindersSet(e, now) = rem(e) \cup bye(e)
  BY DEF RemindersSet
<1> HIDE DEF rem, bye
<1> QED
  BY <1>2, <1>3, <1>4, <1>5

\* What only carries directives sets no reminder and pays nobody.
LEMMA OnlyDirectives ==
  ASSUME NEW m, NEW n, Said(m, n), Len(n.effects) = Len(m.game.says), NEW now
  PROVE  RemindersSet(n.effects, now) = {} /\ ~Pays(n.effects)
<1>1. m.game.says \in Seq(Directives) /\ n.effects \in Seq(Effects)
  BY DEF Said, ModType, GameType
<1>2. \A i \in 1 .. Len(m.game.says) : m.game.says[i] \in Directives
  BY <1>1, ElementOfSeq
<1>3. \A i \in 1 .. Len(m.game.says) : n.effects[i].do \in {"tell", "command"}
  BY <1>2, SentFields DEF Said, Carries
<1>4. DOMAIN n.effects = 1 .. Len(m.game.says)
  BY <1>1
<1> QED
  BY <1>3, <1>4 DEF RemindersSet, Pays

\* say, while the game goes on: a look is set at the earliest deadline, unless
\* it is set already.
LEMMA SayGoing ==
  ASSUME NEW m \in ModType, InPlay(m.game), ~Over(m.game), NEW now
  PROVE  LET n == Say(m)
             d == Min(Deadlines(m.game))
         IN  /\ Said(m, n) /\ n.farewell = m.farewell /\ n.reminded = m.reminded \cup {d}
             /\ RemindersSet(n.effects, now) = IF d \in m.reminded THEN {} ELSE {Look(d)}
             /\ ~Pays(n.effects)
<1> DEFINE d == Min(Deadlines(m.game))
           said == [m EXCEPT !.effects = [i \in DOMAIN m.game.says |-> Sent(m.game.says[i])],
                             !.game.says = << >>]
           n == Say(m)
<1>1. Deadlines(m.game) # {} /\ d \in Nat
  BY EarliestDeadline
<1>2. /\ Said(m, said) /\ Len(said.effects) = Len(m.game.says)
      /\ said.reminded = m.reminded /\ said.farewell = m.farewell
  BY SaidDirectives
<1>3. n = IF ~Over(said.game) THEN Remind(said) ELSE IF said.farewell THEN said ELSE SayGoodbye(said)
  BY DEF Say
<1> HIDE DEF said
<1>4. m.game \in GameType /\ said.game = [m.game EXCEPT !.says = << >>]
  BY <1>2 DEF Said, ModType
<1>5. ~Over(said.game) /\ Deadlines(said.game) = Deadlines(m.game)
  <2>1. said.game.winner = m.game.winner /\ said.game.sessions = m.game.sessions
    BY <1>4 DEF GameType
  <2> QED
    BY <2>1 DEF Over, Deadlines, Open
<1>6. RemindersSet(said.effects, now) = {} /\ ~Pays(said.effects)
  BY <1>2, OnlyDirectives
<1>7. CASE d \in m.reminded
  <2>1. n = said
    BY <1>2, <1>3, <1>5, <1>7 DEF Remind
  <2> QED
    BY <1>2, <1>6, <1>7, <2>1
<1>8. CASE d \notin m.reminded
  <2> DEFINE f == [do |-> "remind", look |-> Look(d)]
             w == [said EXCEPT !.reminded = @ \cup {d}]
  <2>1. n = Yield(w, f)
    BY <1>1, <1>2, <1>3, <1>5, <1>8 DEF Remind
  <2>2. f \in Effects /\ f.do = "remind" /\ f.look = Look(d)
    BY <1>1 DEF Effects, Look, Looks
  <2>3. /\ Said(m, w) /\ w.effects = said.effects /\ w.reminded = m.reminded \cup {d}
        /\ w.farewell = m.farewell
    <3>1. said \in ModType /\ m.reminded \cup {d} \in SUBSET Nat
      BY <1>1, <1>2 DEF Said, ModType
    <3> QED
      BY <1>2, <3>1 DEF Said, ModType
  <2> HIDE DEF f, w
  <2>4. /\ Said(m, Yield(w, f))
        /\ Len(Yield(w, f).effects) = Len(w.effects) + 1
        /\ \A i \in 1 .. Len(w.effects) : Yield(w, f).effects[i] = w.effects[i]
        /\ Yield(w, f).effects[Len(w.effects) + 1] = f
        /\ Yield(w, f).reminded = w.reminded /\ Yield(w, f).farewell = w.farewell
    BY <2>2, <2>3, YieldFields
  <2>5. OneMore(w.effects, f, Yield(w, f).effects)
    BY <2>3, <2>4 DEF Said, ModType, OneMore
  <2>6. /\ RemindersSet(Yield(w, f).effects, now) = RemindersSet(w.effects, now)
              \cup (IF f.do = "remind" THEN {f.look} ELSE {})
              \cup (IF f.do = "farewell" THEN {Goodbye(now + f.wait)} ELSE {})
        /\ Pays(Yield(w, f).effects) <=> Pays(w.effects) \/ f.do = "pay"
    BY <2>5, OneMoreEffect
  <2> HIDE DEF n
  <2> QED
    BY <1>6, <1>8, <2>1, <2>2, <2>3, <2>4, <2>6 DEF n
<1> QED
  BY <1>7, <1>8

\* say, the game over: everybody is paid, and the farewell set.
LEMMA SayOver ==
  ASSUME NEW m \in ModType, Over(m.game), ~m.farewell, NEW now
  PROVE  LET n == Say(m)
         IN  /\ Said(m, n) /\ n.farewell /\ n.reminded = m.reminded
             /\ RemindersSet(n.effects, now) = {Goodbye(now + Farewell)}
             /\ Pays(n.effects)
<1> DEFINE said == [m EXCEPT !.effects = [i \in DOMAIN m.game.says |-> Sent(m.game.says[i])],
                             !.game.says = << >>]
           pay == [do |-> "pay", rewards |-> Rewards(said.game)]
           bye == [do |-> "farewell", wait |-> Farewell]
           w == [said EXCEPT !.farewell = TRUE]
           n == Say(m)
<1>1. /\ Said(m, said) /\ Len(said.effects) = Len(m.game.says)
      /\ said.reminded = m.reminded /\ said.farewell = m.farewell
  BY SaidDirectives
<1>2. n = IF ~Over(said.game) THEN Remind(said) ELSE IF said.farewell THEN said ELSE SayGoodbye(said)
  BY DEF Say
<1> HIDE DEF said
<1>3. Over(said.game)
  <2>1. m.game \in GameType /\ said.game = [m.game EXCEPT !.says = << >>]
    BY <1>1 DEF Said, ModType
  <2> QED
    BY <2>1 DEF Over, GameType
<1>4. n = Yield(Yield(w, pay), bye)
  BY <1>1, <1>2, <1>3 DEF SayGoodbye
<1>5. pay \in Effects /\ pay.do = "pay"
  BY DEF Effects, Rewards
<1>6. bye \in Effects /\ bye.do = "farewell" /\ bye.wait = Farewell
  BY FarewellType DEF Effects
<1>7. Said(m, w) /\ w.effects = said.effects /\ w.reminded = m.reminded /\ w.farewell = TRUE
  <2>1. said \in ModType
    BY <1>1 DEF Said
  <2> QED
    BY <1>1, <2>1 DEF Said, ModType
<1>8. RemindersSet(w.effects, now) = {} /\ ~Pays(w.effects)
  BY <1>1, <1>7, OnlyDirectives
<1> HIDE DEF pay, bye, w, n
<1> DEFINE v == Yield(w, pay)
           u == Yield(v, bye)
<1>9. /\ Said(m, v)
      /\ Len(v.effects) = Len(w.effects) + 1
      /\ \A i \in 1 .. Len(w.effects) : v.effects[i] = w.effects[i]
      /\ v.effects[Len(w.effects) + 1] = pay
      /\ v.reminded = w.reminded /\ v.farewell = w.farewell
  BY <1>5, <1>7, YieldFields
<1> HIDE DEF v
<1>10. /\ Said(m, u)
       /\ Len(u.effects) = Len(v.effects) + 1
       /\ \A i \in 1 .. Len(v.effects) : u.effects[i] = v.effects[i]
       /\ u.effects[Len(v.effects) + 1] = bye
       /\ u.reminded = v.reminded /\ u.farewell = v.farewell
  BY <1>6, <1>9, YieldFields
<1> HIDE DEF u
<1>11. OneMore(w.effects, pay, v.effects) /\ OneMore(v.effects, bye, u.effects)
  BY <1>7, <1>9, <1>10 DEF Said, ModType, OneMore
<1>12. RemindersSet(v.effects, now) = {} /\ Pays(v.effects)
  <2>1. /\ RemindersSet(v.effects, now) = RemindersSet(w.effects, now)
              \cup (IF pay.do = "remind" THEN {pay.look} ELSE {})
              \cup (IF pay.do = "farewell" THEN {Goodbye(now + pay.wait)} ELSE {})
        /\ Pays(v.effects) <=> Pays(w.effects) \/ pay.do = "pay"
    BY <1>11, OneMoreEffect
  <2> QED
    BY <1>5, <1>8, <2>1
<1>13. RemindersSet(u.effects, now) = {Goodbye(now + Farewell)} /\ Pays(u.effects)
  <2>1. /\ RemindersSet(u.effects, now) = RemindersSet(v.effects, now)
              \cup (IF bye.do = "remind" THEN {bye.look} ELSE {})
              \cup (IF bye.do = "farewell" THEN {Goodbye(now + bye.wait)} ELSE {})
        /\ Pays(u.effects) <=> Pays(v.effects) \/ bye.do = "pay"
    BY <1>11, OneMoreEffect
  <2> QED
    BY <1>6, <1>12, <2>1
<1>14. n = u
  BY <1>4 DEF u, v
<1> QED
  BY <1>7, <1>9, <1>10, <1>13, <1>14 DEF n

\* A game that has been listened to is the same game.
LEMMA HeardOut ==
  ASSUME NEW x, InPlay(x), NEW y, y = [x EXCEPT !.says = << >>]
  PROVE  /\ InPlay(y) /\ y.says = << >> /\ (Over(y) <=> Over(x)) /\ Open(y) = Open(x)
         /\ Deadlines(y) = Deadlines(x)
         /\ y.living = x.living /\ y.round = x.round /\ y.phase = x.phase /\ y.begun = x.begun
         /\ y.sessions = x.sessions /\ y.winner = x.winner
<1>1. x \in GameType /\ << >> \in Seq(Directives)
  BY DEF InPlay
<1>2. /\ y \in GameType /\ y.says = << >>
      /\ y.living = x.living /\ y.round = x.round /\ y.phase = x.phase /\ y.begun = x.begun
      /\ y.sessions = x.sessions /\ y.winner = x.winner
  BY <1>1 DEF GameType
<1>3. (Over(y) <=> Over(x)) /\ Open(y) = Open(x) /\ Deadlines(y) = Deadlines(x)
  BY <1>2 DEF Over, Open, Deadlines
<1>4. (Seated(y) <=> Seated(x)) /\ Majority(y) = Majority(x)
  BY <1>2 DEF Seated, Majority
<1>5. InPlay(y)
  BY <1>2, <1>3, <1>4 DEF InPlay
<1> QED
  BY <1>2, <1>3, <1>5

\* The control that stops the living, carried out on them.
LEMMA StopsTheLiving ==
  ASSUME NEW e, NEW L \in SUBSET Players, e = <<Command(L, "stop")>>
  PROVE  /\ (L \cup Starts(e)) \ Stops(e, Len(e)) = {} /\ ~Refuses(e, L)
         /\ \A now : RemindersSet(e, now) = {}
<1>1. Command(L, "stop") = [do |-> "command", to |-> L, control |-> "stop"]
  BY DEF Command
<1>2. e \in Seq(Effects) /\ Len(e) = 1 /\ DOMAIN e = {1} /\ e[1] = Command(L, "stop")
  BY <1>1 DEF Effects
<1>3. Starts(e) = {}
  BY <1>1, <1>2 DEF Starts, Commanded
<1>4. /\ \A p : p \in Stops(e, 1) <=> \E i \in 1 .. 1 : Halts(e[i]) /\ p \in e[i].to
      /\ \A p : p \in Stops(e, 0) <=> \E i \in 1 .. 0 : Halts(e[i]) /\ p \in e[i].to
  BY <1>2, StopsMeans
<1>5. Halts(e[1]) /\ e[1].to = L
  BY <1>1, <1>2 DEF Halts
<1>6. Stops(e, 1) = L /\ Stops(e, 0) = {}
  BY <1>4, <1>5
<1>7. ~Refuses(e, L)
  <2>1. 1 - 1 = 0
    OBVIOUS
  <2> QED
    BY <1>2, <1>3, <1>5, <1>6, <2>1 DEF Refuses
<1>8. \A now : RemindersSet(e, now) = {}
  BY <1>1, <1>2 DEF RemindersSet
<1> QED
  BY <1>2, <1>3, <1>6, <1>7, <1>8

\* A call that does nothing.
LEMMA NothingIsDone ==
  ASSUME NEW e, e = << >>, NEW L
  PROVE  /\ (L \cup Starts(e)) \ Stops(e, Len(e)) = L /\ ~Refuses(e, L)
         /\ \A now : RemindersSet(e, now) = {}
<1>1. DOMAIN e = {} /\ Len(e) = 0 /\ 0 \in 0 .. Len(e) /\ e \in Seq(Effects)
  OBVIOUS
<1>2. Starts(e) = {} /\ ~Refuses(e, L) /\ \A now : RemindersSet(e, now) = {}
  BY <1>1 DEF Starts, Commanded, Refuses, RemindersSet
<1>3. \A p : p \in Stops(e, 0) <=> \E i \in 1 .. 0 : Halts(e[i]) /\ p \in e[i].to
  BY <1>1, StopsMeans
<1>4. Stops(e, 0) = {}
  BY <1>3
<1> QED
  BY <1>1, <1>2, <1>4

\* r starts everybody, leaves running those who are `left`, is refused by
\* nobody, and sets the reminders e sets and pays what e pays.
StartsThem(r, e, left) ==
  /\ r \in Seq(Effects) /\ ({} \cup Starts(r)) \ Stops(r, Len(r)) = left /\ ~Refuses(r, {})
  /\ \A now : RemindersSet(r, now) = RemindersSet(e, now)
  /\ Pays(r) <=> Pays(e)

\* The control that starts everybody goes before what carries the directives.
LEMMA StartedOut ==
  ASSUME NEW q \in Seq(Directives), NEW e, Carries(e, q), NEW left, Telling(Players, q, left)
  PROVE  StartsThem(<<Command(Players, "start")>> \o e, e, left)
<1> DEFINE c == Command(Players, "start")
           r == <<c>> \o e
<1>1. c \in Effects /\ c.do = "command" /\ c.control = "start" /\ c.to = Players /\ ~Halts(c)
  BY DEF Command, Effects, Halts
<1> HIDE DEF c
<1>2. <<c>> \in Seq(Effects) /\ Len(<<c>>) = 1 /\ <<c>>[1] = c
  BY <1>1
<1> HIDE DEF r
<1>3. e \in Seq(Effects) /\ Len(e) \in Nat /\ DOMAIN e = 1 .. Len(e)
  BY DEF Carries
<1>4. /\ r \in Seq(Effects) /\ Len(r) = Len(e) + 1 /\ DOMAIN r = 1 .. Len(e) + 1
      /\ r[1] = c
      /\ \A i \in 1 .. Len(e) : i + 1 \in DOMAIN r /\ r[i + 1] = e[i]
      /\ \A i \in DOMAIN r : i = 1 \/ (i - 1 \in DOMAIN e /\ r[i] = e[i - 1])
  <2>1. r = <<c>> \o e
    BY DEF r
  <2>2. /\ r \in Seq(Effects) /\ Len(r) = 1 + Len(e)
        /\ \A i \in 1 .. 1 + Len(e) : r[i] = IF i <= 1 THEN <<c>>[i] ELSE e[i - 1]
    BY <1>2, <1>3, <2>1, ConcatProperties
  <2>3. DOMAIN r = 1 .. Len(e) + 1 /\ Len(r) = Len(e) + 1
    BY <1>3, <2>2
  <2>4. \A i \in 1 .. Len(e) : i + 1 \in 1 .. 1 + Len(e) /\ ~(i + 1 <= 1) /\ (i + 1) - 1 = i
    BY <1>3
  <2>5. \A i \in DOMAIN r : i = 1 \/ (i - 1 \in DOMAIN e /\ ~(i <= 1))
    <3> TAKE i \in DOMAIN r
    <3>1. i \in 1 .. Len(e) + 1 /\ DOMAIN e = 1 .. Len(e) /\ Len(e) \in Nat
      BY <1>3, <2>3
    <3> HIDE DEF c
    <3>2. i = 1 \/ (i - 1 \in 1 .. Len(e) /\ ~(i <= 1))
      BY <3>1
    <3> QED
      BY <3>1, <3>2
  <2>6. 1 \in 1 .. 1 + Len(e)
    BY <1>3
  <2> QED
    BY <1>2, <2>2, <2>3, <2>4, <2>5, <2>6
<1>5. /\ Starts(e) = {} /\ Players \ Stops(e, Len(e)) = left
      /\ \A i \in 1 .. Len(e) : e[i].do \in {"tell", "command"} => e[i].to \subseteq Players \ Stops(e, i - 1)
  BY CarriedOut
<1>6. Starts(r) = Players
  <2>1. \A i \in DOMAIN r : r[i] \in Effects
    BY <1>3, <1>4
  <2>2. \A i \in DOMAIN r : r[i].do = "command" => r[i].to \subseteq Players
    BY <2>1 DEF Effects
  <2>3. 1 \in DOMAIN r /\ r[1].do = "command" /\ r[1].control = "start" /\ r[1].to = Players
    BY <1>1, <1>3, <1>4
  <2> QED
    BY <2>2, <2>3 DEF Starts, Commanded
<1>7. ASSUME NEW n \in 0 .. Len(e) PROVE Stops(r, n + 1) = Stops(e, n)
  <2>1. n + 1 \in 0 .. Len(r)
    BY <1>3, <1>4
  <2>2. /\ \A p : p \in Stops(r, n + 1) <=> \E i \in 1 .. n + 1 : Halts(r[i]) /\ p \in r[i].to
        /\ \A p : p \in Stops(e, n) <=> \E i \in 1 .. n : Halts(e[i]) /\ p \in e[i].to
    BY <1>3, <1>4, <2>1, StopsMeans
  <2>3. ASSUME NEW p, NEW i \in 1 .. n + 1, Halts(r[i]), p \in r[i].to
        PROVE  p \in Stops(e, n)
    <3>1. i \in DOMAIN r /\ i # 1
      BY <1>1, <1>3, <1>4, <2>3
    <3>2. i - 1 \in 1 .. n /\ r[i] = e[i - 1]
      BY <1>3, <1>4, <3>1
    <3> QED
      BY <2>2, <2>3, <3>2
  <2>4. ASSUME NEW p, NEW i \in 1 .. n, Halts(e[i]), p \in e[i].to
        PROVE  p \in Stops(r, n + 1)
    <3>1. i + 1 \in 1 .. n + 1 /\ r[i + 1] = e[i]
      BY <1>3, <1>4
    <3> QED
      BY <2>2, <2>4, <3>1
  <2> QED
    BY <2>2, <2>3, <2>4
<1>8. ({} \cup Starts(r)) \ Stops(r, Len(r)) = left
  <2>1. Len(e) \in 0 .. Len(e)
    BY <1>3
  <2> QED
    BY <1>4, <1>5, <1>6, <1>7, <2>1
<1>9. ~Refuses(r, {})
  <2>1. ASSUME NEW i \in DOMAIN r, r[i].do \in {"tell", "command"}
        PROVE  r[i].to \subseteq Players \ Stops(r, i - 1)
    <3>1. CASE i = 1
      <4>1. 0 \in 0 .. Len(r) /\ i - 1 = 0
        BY <1>3, <1>4, <3>1
      <4>2. \A p : p \in Stops(r, 0) <=> \E j \in 1 .. 0 : Halts(r[j]) /\ p \in r[j].to
        BY <1>4, <4>1, StopsMeans
      <4>3. Stops(r, i - 1) = {}
        BY <4>1, <4>2
      <4> QED
        BY <1>1, <1>4, <3>1, <4>3
    <3>2. CASE i # 1
      <4>1. i - 1 \in 1 .. Len(e) /\ r[i] = e[i - 1]
        BY <1>3, <1>4, <3>2
      <4>2. (i - 1) - 1 \in 0 .. Len(e) /\ ((i - 1) - 1) + 1 = i - 1
        BY <1>3, <4>1
      <4>3. Stops(r, i - 1) = Stops(e, (i - 1) - 1)
        BY <1>7, <4>2
      <4> QED
        BY <1>5, <2>1, <4>1, <4>3
    <3> QED
      BY <3>1, <3>2
  <2> QED
    BY <1>6, <2>1 DEF Refuses
<1>10. ASSUME NEW now PROVE RemindersSet(r, now) = RemindersSet(e, now)
  <2>1. \A i \in DOMAIN e : i + 1 \in DOMAIN r /\ r[i + 1] = e[i]
    BY <1>3, <1>4
  <2>2. \A i \in DOMAIN r : r[i].do \in {"remind", "farewell"} => i - 1 \in DOMAIN e /\ r[i] = e[i - 1]
    BY <1>1, <1>4
  <2> DEFINE rem(s) == {s[i].look : i \in {j \in DOMAIN s : s[j].do = "remind"}}
             bye(s) == {Goodbye(now + s[i].wait) : i \in {j \in DOMAIN s : s[j].do = "farewell"}}
  <2>3. rem(r) \subseteq rem(e) /\ bye(r) \subseteq bye(e)
    BY <2>2
  <2>4. rem(e) \subseteq rem(r) /\ bye(e) \subseteq bye(r)
    BY <2>1
  <2>5. RemindersSet(r, now) = rem(r) \cup bye(r) /\ RemindersSet(e, now) = rem(e) \cup bye(e)
    BY DEF RemindersSet
  <2> HIDE DEF rem, bye
  <2> QED
    BY <2>3, <2>4, <2>5
<1>11. Pays(r) <=> Pays(e)
  <2>1. \A i \in DOMAIN e : i + 1 \in DOMAIN r /\ r[i + 1] = e[i]
    BY <1>3, <1>4
  <2>2. \A i \in DOMAIN r : r[i].do = "pay" => i - 1 \in DOMAIN e /\ r[i] = e[i - 1]
    BY <1>1, <1>4
  <2> QED
    BY <2>1, <2>2 DEF Pays
<1> QED
  BY <1>4, <1>8, <1>9, <1>10, <1>11 DEF StartsThem, r, c

\* The moderator before it is started.
LEMMA NewModeratorFields ==
  /\ NewModerator \in ModType /\ NewModerator.game = NewGame /\ NewModerator.reminded = {}
  /\ ~NewModerator.farewell /\ ~NewModerator.stopped /\ NewModerator.effects = << >>
  /\ NewGame \in GameType /\ ~NewGame.begun /\ ~Over(NewGame) /\ NewGame.says = << >>
  /\ NewGame.living = Players /\ NewGame.round = 1 /\ NewGame.phase = "Night"
<1>1. NewGame \in GameType
  BY NewGameType
<1>2. << >> \in Seq(Effects)
  OBVIOUS
<1> QED
  BY <1>1, <1>2 DEF NewModerator, ModType, NewGame, Over

(***************************************************************************)
(* What a call has to say.                                                 *)
(***************************************************************************)
\* A directive that tells of no death and of no phase: a selection, for some of
\* the others who live, or a finding, for its seer.
Aside(d, L) ==
  \/ d.say = "forward" /\ d.envelope.from \in L /\ d.to \subseteq L \ {d.envelope.from}
  \/ \E p, t \in Players : d = Narration({p}, Investigated(t))
Asides(q, L) == \A i \in 1 .. Len(q) : Aside(q[i], L)

\* The living are told what is next: a phase, or the outcome.
Ending(d, L) ==
  d.say = "narrate" /\ d.to = L /\ d.narration.is \in {"PhaseBegan", "Outcome"} /\ d.narration.living = L

\* The directives q of a call that leaves of the living L those in M: asides,
\* and then, if the phase is over, who died of it, if anybody, and what is next.
Script(q, L, M) ==
  \E n \in 0 .. Len(q) :
    /\ \A i \in 1 .. n : Aside(q[i], L)
    /\ \/ Len(q) = n /\ M = L
       \/ /\ Len(q) = n + 2 /\ M = L /\ Ending(q[n + 2], M)
          /\ \E name \in {"NoDeath", "NoLynch"} : q[n + 1] = Narration(L, Quietly(name))
       \/ /\ Len(q) = n + 3 /\ Ending(q[n + 3], M) /\ q[n + 2].say = "stop"
          /\ q[n + 1].say = "narrate" /\ q[n + 1].to = M /\ q[n + 1].narration.is = "Eliminated"
          /\ q[n + 1].narration.who \in L /\ M = L \ {q[n + 1].narration.who}

\* One directive more.
LEMMA Appending ==
  ASSUME NEW S, NEW q \in Seq(S), NEW d \in S
  PROVE  /\ Append(q, d) \in Seq(S) /\ Len(Append(q, d)) = Len(q) + 1 /\ Len(q) \in Nat
         /\ Append(q, d)[Len(q) + 1] = d
         /\ \A i \in 1 .. Len(q) : Append(q, d)[i] = q[i]
  BY AppendProperties

\* next_phase and end each tell the living one thing more.
LEMMA AdvanceSays ==
  ASSUME NEW x, Between(x), NEW now \in Nat
  PROVE  /\ \E d \in Directives : Ending(d, x.living) /\ Advance(x, now).says = Append(x.says, d)
         /\ Winner(x.living) = "undecided" =>
              \E d \in Directives : Ending(d, x.living) /\ NextPhase(x, now).says = Append(x.says, d)
<1>0. x \in GameType /\ x.living \in SUBSET Players /\ x.round + 1 \in Nat
  BY DEF Between, GameType
<1>1. \E d \in Directives : Ending(d, x.living) /\ NextPhase(x, now).says = Append(x.says, d)
  <2> DEFINE z == IF x.phase = "Night" THEN [x EXCEPT !.phase = "Day"]
                  ELSE [x EXCEPT !.phase = "Night", !.round = @ + 1]
  <2>1. z \in GameType /\ z.living = x.living /\ z.says = x.says
    <3>1. CASE x.phase = "Night"
      <4>1. z = [x EXCEPT !.phase = "Day"]
        BY <3>1
      <4> QED
        BY <1>0, <4>1 DEF GameType, Phases
    <3>2. CASE x.phase # "Night"
      <4>1. z = [x EXCEPT !.phase = "Night", !.round = @ + 1]
        BY <3>2
      <4> QED
        BY <1>0, <4>1 DEF GameType, Phases
    <3> QED
      BY <3>1, <3>2
  <2> HIDE DEF z
  <2>2. NextPhase(x, now) = BeginPhase(z, now)
    BY DEF NextPhase, z
  <2>3. BeginPhase(z, now).says = Append(x.says, Narration(x.living, PhaseBegan(z)))
    BY <2>1, BeginPhaseFields
  <2>4. PhaseBegan(z) \in Narrations
    BY <2>1, NarrationTypes
  <2>5. PhaseBegan(z).is = "PhaseBegan" /\ PhaseBegan(z).living = x.living
    BY <2>1 DEF PhaseBegan
  <2> DEFINE n == PhaseBegan(z)
             d == Narration(x.living, n)
  <2>6. d \in Directives /\ Ending(d, x.living)
    <3> HIDE DEF n
    <3> QED
      BY <1>0, <2>4, <2>5 DEF n, Narration, Directives, Ending
  <2> QED
    BY <2>2, <2>3, <2>6
<1>2. ASSUME NEW w \in Winners
      PROVE  \E d \in Directives : Ending(d, x.living) /\ End(x, w).says = Append(x.says, d)
  <2> DEFINE z == [x EXCEPT !.winner = w]
             n == Outcome(x, w)
             d == Narration(x.living, n)
  <2>1. z \in GameType /\ z.living = x.living /\ z.says = x.says
    BY <1>0 DEF GameType
  <2>2. n \in Narrations /\ n.is = "Outcome" /\ n.living = x.living
    <3>1. n \in Narrations
      BY <1>0, NarrationTypes
    <3> QED
      BY <3>1 DEF Outcome
  <2> HIDE DEF z, n
  <2>3. End(x, w) = Narrate(z, z.living, n)
    BY DEF End, NarrateLiving, z, n
  <2>4. End(x, w).says = Append(x.says, d)
    BY <1>0, <2>1, <2>2, <2>3, NarrateFields
  <2>5. d \in Directives /\ Ending(d, x.living)
    BY <1>0, <2>2 DEF Narration, Directives, Ending
  <2> QED
    BY <2>4, <2>5
<1>3. Winner(x.living) \in Winners /\ "nobody" \in Winners
  BY WinnerType DEF Winners
<1> QED
  BY <1>1, <1>2, <1>3 DEF Advance

\* eliminate tells those left, and stops the player.
LEMMA EliminateSays ==
  ASSUME NEW x, Between(x), NEW p \in x.living, NEW cause \in {"Devoured", "Lynched"}
  PROVE  \E d, e \in Directives :
           /\ Eliminate(x, p, cause).says = Append(Append(x.says, d), e)
           /\ d.say = "narrate" /\ d.to = x.living \ {p}
           /\ d.narration.is = "Eliminated" /\ d.narration.who = p
           /\ e.say = "stop"
<1> DEFINE z == [x EXCEPT !.living = @ \ {p}]
           n == Eliminated(x, p, cause)
           told == Narrate(z, z.living, n)
           d == Narration(x.living \ {p}, n)
           halt == [say |-> "stop", who |-> p]
           y == Saying(told, halt)
<1>1. x \in GameType /\ x.living \in SUBSET Players /\ p \in Players
  BY DEF Between, GameType
<1>2. z \in GameType /\ z.living = x.living \ {p} /\ z.says = x.says
  BY <1>1 DEF GameType
<1>3. n \in Narrations /\ n.is = "Eliminated" /\ n.who = p
  <2>1. n \in Narrations
    BY <1>1, NarrationTypes
  <2> QED
    BY <2>1 DEF Eliminated
<1>4. Eliminate(x, p, cause) = y
  BY DEF Eliminate, Stop, NarrateLiving
<1>5. halt \in Directives /\ halt.say = "stop"
  BY <1>1 DEF Directives
<1> HIDE DEF z, n, halt
<1>6. d \in Directives /\ d.say = "narrate" /\ d.to = x.living \ {p} /\ d.narration = n
  BY <1>1, <1>3 DEF Narration, Directives
<1>7. told \in GameType /\ told.says = Append(x.says, d)
  <2>1. z.living \in SUBSET Players
    BY <1>1, <1>2
  <2> QED
    BY <1>2, <1>3, <2>1, NarrateFields
<1> HIDE DEF told, d
<1>8. y.says = Append(told.says, halt)
  BY <1>5, <1>7, SayingFields
<1> HIDE DEF y
<1> QED
  BY <1>3, <1>4, <1>5, <1>6, <1>7, <1>8

\* The end of a phase with a death in it.
LEMMA DeathSays ==
  ASSUME NEW x, Between(x), Asides(x.says, x.living), NEW p \in x.living,
         NEW cause \in {"Devoured", "Lynched"}, NEW now \in Nat
  PROVE  LET y == Advance(Eliminate(x, p, cause), now)
         IN  Script(y.says, x.living, y.living)
<1> DEFINE z == Eliminate(x, p, cause)
           y == Advance(z, now)
           q == x.says
           n == Len(x.says)
<1>1. Between(z) /\ z.living = x.living \ {p}
  BY EliminateFields
<1>2. PICK d \in Directives, e \in Directives :
        /\ z.says = Append(Append(q, d), e)
        /\ d.say = "narrate" /\ d.to = x.living \ {p}
        /\ d.narration.is = "Eliminated" /\ d.narration.who = p
        /\ e.say = "stop"
  BY EliminateSays
<1> HIDE DEF z
<1>3. PICK f \in Directives : Ending(f, z.living) /\ y.says = Append(z.says, f)
  BY <1>1, AdvanceSays
<1>4. y.living = z.living
  BY <1>1, AdvancePlays DEF MovedOn
<1>5. q \in Seq(Directives) /\ n \in Nat
  BY DEF Between, GameType
<1> DEFINE q1 == Append(q, d)
           q2 == Append(q1, e)
           q3 == Append(q2, f)
<1> HIDE DEF y, q
<1>6. q1 \in Seq(Directives) /\ Len(q1) = n + 1 /\ q1[n + 1] = d /\ \A i \in 1 .. n : q1[i] = q[i]
  BY <1>5, Appending DEF q
<1> HIDE DEF q1
<1>7. q2 \in Seq(Directives) /\ Len(q2) = n + 2 /\ q2[n + 2] = e /\ \A i \in 1 .. n + 1 : q2[i] = q1[i]
  BY <1>5, <1>6, Appending
<1> HIDE DEF q2
<1>8. q3 \in Seq(Directives) /\ Len(q3) = n + 3 /\ q3[n + 3] = f /\ \A i \in 1 .. n + 2 : q3[i] = q2[i]
  BY <1>5, <1>7, Appending
<1> HIDE DEF q3
<1>9. /\ y.says = q3 /\ q3[n + 1] = d /\ q3[n + 2] = e /\ \A i \in 1 .. n : q3[i] = q[i]
  BY <1>2, <1>3, <1>5, <1>6, <1>7, <1>8 DEF q3, q2, q1
<1>10. \A i \in 1 .. n : Aside(q3[i], x.living)
  BY <1>9 DEF Asides, q
<1> QED
  <2>1. n \in 0 .. Len(q3)
    BY <1>5, <1>8
  <2>2. Script(q3, x.living, y.living)
    BY <1>1, <1>2, <1>3, <1>4, <1>8, <1>9, <1>10, <2>1 DEF Script
  <2> QED
    BY <1>9, <2>2 DEF y, z

\* The end of a phase with none.
LEMMA NoDeathSays ==
  ASSUME NEW x \in GameType, x.says \in Seq(Directives), Asides(x.says, x.living),
         NEW name \in {"NoDeath", "NoLynch"}, NEW f \in Directives, NEW y,
         Ending(f, x.living), y.living = x.living,
         y.says = Append(NarrateLiving(x, Quietly(name)).says, f)
  PROVE  Script(y.says, x.living, y.living)
<1> DEFINE q == x.says
           n == Len(x.says)
           d == Narration(x.living, Quietly(name))
<1>1. Quietly(name) \in Narrations /\ x.living \in SUBSET Players
  BY NarrationTypes DEF GameType
<1>2. d \in Directives
  BY <1>1 DEF Narration, Directives
<1>3. NarrateLiving(x, Quietly(name)).says = Append(q, d)
  BY <1>1, NarrateFields DEF NarrateLiving
<1> HIDE DEF d
<1> DEFINE q1 == Append(q, d)
           q2 == Append(q1, f)
<1>4. q1 \in Seq(Directives) /\ Len(q1) = n + 1 /\ q1[n + 1] = d /\ n \in Nat /\ \A i \in 1 .. n : q1[i] = q[i]
  BY <1>2, Appending
<1> HIDE DEF q1
<1>5. q2 \in Seq(Directives) /\ Len(q2) = n + 2 /\ q2[n + 2] = f /\ \A i \in 1 .. n + 1 : q2[i] = q1[i]
  BY <1>4, Appending
<1> HIDE DEF q2
<1>6. y.says = q2
  BY <1>3 DEF q1, q2
<1>7. q2[n + 1] = d /\ \A i \in 1 .. n : Aside(q2[i], x.living)
  BY <1>4, <1>5 DEF Asides
<1>8. n \in 0 .. Len(q2)
  BY <1>4, <1>5
<1> QED
  BY <1>4, <1>5, <1>6, <1>7, <1>8 DEF Script, d

\* What the day's close says.
LEMMA CloseDaySays ==
  ASSUME NEW x, Midway(x), x.phase = "Day", Asides(x.says, x.living), NEW now \in Nat,
         NEW lynched, lynched = {} \/ \E p \in x.living : lynched = {p}
  PROVE  LET y == CloseDay(x, lynched, now)
         IN  Script(y.says, x.living, y.living)
<1> DEFINE shut == [x EXCEPT !.sessions["Nominate"] = Unopened]
           z == IF lynched = {} THEN NarrateLiving(shut, Quietly("NoLynch"))
                ELSE Eliminate(shut, CHOOSE p \in lynched : TRUE, "Lynched")
           y == CloseDay(x, lynched, now)
<1>1. x \in GameType /\ x.living \in SUBSET Players /\ x.sessions \in [Kinds -> Seats]
  BY DEF Midway, GameType
<1>2. /\ shut \in GameType /\ shut.living = x.living /\ shut.winner = x.winner /\ shut.round = x.round
      /\ shut.phase = x.phase /\ shut.begun = x.begun /\ shut.says = x.says
      /\ \A k \in Kinds : shut.sessions[k] = IF k = "Nominate" THEN Unopened ELSE x.sessions[k]
  <2>1. [x.sessions EXCEPT !["Nominate"] = Unopened] \in [Kinds -> Seats]
    BY <1>1, UnopenedType
  <2>2. shut = [x EXCEPT !.sessions = [x.sessions EXCEPT !["Nominate"] = Unopened]]
    OBVIOUS
  <2> QED
    BY <1>1, <2>1, <2>2 DEF GameType, Kinds
<1> HIDE DEF shut
<1>3. Between(shut)
  <2>1. \A k \in Kinds : k # "Nominate" => PhaseOf(k) # "Day"
    BY DEF PhaseOf
  <2> QED
    BY <1>2, <2>1 DEF Between, Midway, Over
<1>4. y = Advance(z, now) /\ y.living = x.living \ lynched
  <2>1. y = Advance(z, now)
    BY DEF CloseDay, shut
  <2>2. y.living = x.living \ lynched
    BY CloseDayPlays DEF PhaseOver
  <2> QED
    BY <2>1, <2>2
<1> HIDE DEF y
<1>5. CASE lynched = {}
  <2> DEFINE w == Narrate(shut, shut.living, Quietly("NoLynch"))
  <2>1. Quietly("NoLynch") \in Narrations /\ shut.living \in SUBSET Players
    BY <1>1, <1>2, NarrationTypes
  <2>2. w \in GameType /\ SameButSays(shut, w)
    BY <1>2, <2>1, NarrateFields
  <2>3. z = w /\ w = NarrateLiving(shut, Quietly("NoLynch"))
    BY <1>5 DEF NarrateLiving
  <2> HIDE DEF w, z
  <2>4. Between(w) /\ w.living = x.living
    BY <1>2, <1>3, <2>2 DEF SameButSays, Between, Over
  <2>5. PICK d \in Directives : Ending(d, x.living) /\ y.says = Append(w.says, d)
    BY <1>4, <2>3, <2>4, AdvanceSays
  <2>6. shut.says \in Seq(Directives) /\ Asides(shut.says, shut.living)
    BY <1>2 DEF GameType
  <2>7. "NoLynch" \in {"NoDeath", "NoLynch"} /\ y.living = shut.living
    BY <1>2, <1>4, <1>5
  <2> QED
    BY <1>2, <2>3, <2>5, <2>6, <2>7, NoDeathSays DEF y
<1>6. CASE lynched # {}
  <2>1. PICK p \in x.living : lynched = {p}
    BY <1>6
  <2>2. z = Eliminate(shut, p, "Lynched")
    BY <1>6, <2>1
  <2> HIDE DEF z
  <2> QED
    BY <1>2, <1>3, <1>4, <2>1, <2>2, DeathSays DEF y
<1> QED
  BY <1>5, <1>6

\* What the night's end says.
LEMMA ResolveNightSays ==
  ASSUME NEW x, Midway(x), x.phase = "Night", Asides(x.says, x.living), NEW now \in Nat, NEW luck
  PROVE  LET y == ResolveNight(x, now, luck)
         IN  Script(y.says, x.living, y.living)
<1> DEFINE leaders == Leaders(x.sessions["Devour"])
           victim == Pick(luck, leaders)
           taken == [x EXCEPT !.sessions = [k \in Kinds |-> Unopened]]
           y == ResolveNight(x, now, luck)
<1>1. /\ Between(taken) /\ taken.living = x.living /\ taken.says = x.says
  BY TakenFields
<1>2. Winner(x.living) = "undecided" /\ x.living \in SUBSET Players
  BY DEF Midway, GameType
<1>3. leaders # {} => victim \in x.living
  <2>1. leaders # {} => victim \in leaders
    BY DEF Pick
  <2> QED
    BY <2>1, LeadersLive DEF Kinds
<1>4. y = IF leaders # {} /\ victim \notin Protected(x)
            THEN Advance(Eliminate(taken, victim, "Devoured"), now)
            ELSE NextPhase(NarrateLiving(taken, Quietly("NoDeath")), now)
  BY DEF ResolveNight
<1> HIDE DEF leaders, victim, taken, y
<1>5. CASE leaders # {} /\ victim \notin Protected(x)
  BY <1>1, <1>3, <1>4, <1>5, DeathSays DEF y
<1>6. CASE ~(leaders # {} /\ victim \notin Protected(x))
  <2> DEFINE z == Narrate(taken, taken.living, Quietly("NoDeath"))
  <2>1. Quietly("NoDeath") \in Narrations /\ taken \in GameType /\ taken.living \in SUBSET Players
    BY <1>1, <1>2, NarrationTypes DEF Between
  <2>2. z \in GameType /\ SameButSays(taken, z) /\ z = NarrateLiving(taken, Quietly("NoDeath"))
    BY <2>1, NarrateFields DEF NarrateLiving
  <2> HIDE DEF z
  <2>3. Between(z) /\ z.living = x.living
    BY <1>1, <2>2 DEF SameButSays, Between, Over
  <2>4. PICK d \in Directives : Ending(d, x.living) /\ NextPhase(z, now).says = Append(z.says, d)
    BY <1>2, <2>3, AdvanceSays
  <2>5. y = NextPhase(z, now)
    BY <1>4, <1>6, <2>2
  <2>6. y.living = x.living
    <3>1. Victims(x, luck) = {}
      BY <1>6 DEF Victims, leaders, victim
    <3> QED
      BY <3>1, ResolveNightPlays DEF PhaseOver, y
  <2>7. taken.says \in Seq(Directives) /\ Asides(taken.says, taken.living) /\ "NoDeath" \in {"NoDeath", "NoLynch"}
    BY <1>1, <2>1 DEF GameType
  <2> QED
    BY <1>1, <2>1, <2>2, <2>4, <2>5, <2>6, <2>7, NoDeathSays DEF y
<1> QED
  BY <1>5, <1>6

\* What the closing of sessions at night says: findings.
LEMMA CloseNightSays ==
  ASSUME NEW x, Midway(x), x.phase = "Night", Asides(x.says, x.living), NEW kinds \in SUBSET Open(x)
  PROVE  Asides(CloseNightSessions(x, kinds).says, x.living)
<1> DEFINE y == CloseNightSessions(x, kinds)
           f == Findings(x.sessions["Investigate"])
<1>1. y.says = IF "Investigate" \in kinds THEN x.says \o f ELSE x.says
  BY CloseNightFields
<1>2. x.says \in Seq(Directives) /\ x.sessions["Investigate"] \in Seats
  BY DEF Midway, GameType, Kinds
<1>3. f \in Seq(Directives) /\ \A i \in 1 .. Len(f) : Aside(f[i], x.living)
  BY <1>2, FindingsType DEF Aside
<1> HIDE DEF f, y
<1>4. Asides(x.says \o f, x.living)
  <2> SUFFICES ASSUME NEW i \in 1 .. Len(x.says \o f) PROVE Aside((x.says \o f)[i], x.living)
    BY DEF Asides
  <2>1. Len(x.says \o f) = Len(x.says) + Len(f) /\ Len(x.says) \in Nat /\ Len(f) \in Nat
    BY <1>2, <1>3, ConcatProperties
  <2>2. CASE i <= Len(x.says)
    <3>1. (x.says \o f)[i] = x.says[i]
      BY <1>2, <1>3, <2>1, <2>2, ConcatProperties
    <3> QED
      BY <2>1, <2>2, <3>1 DEF Asides
  <2>3. CASE i > Len(x.says)
    <3>1. (x.says \o f)[i] = f[i - Len(x.says)] /\ i - Len(x.says) \in 1 .. Len(f)
      BY <1>2, <1>3, <2>1, <2>3, ConcatProperties
    <3> QED
      BY <1>3, <3>1
  <2> QED
    BY <2>1, <2>2, <2>3
<1> QED
  BY <1>1, <1>4 DEF y

\* Asides alone are the script of a call that leaves everybody.
LEMMA AsidesAreAScript ==
  ASSUME NEW q, Len(q) \in Nat, NEW L, Asides(q, L)
  PROVE  Script(q, L, L)
<1>1. Len(q) \in 0 .. Len(q)
  OBVIOUS
<1> QED
  BY <1>1 DEF Asides, Script

\* What the passing of time says.
LEMMA ExpireSays ==
  ASSUME NEW x, InPlay(x), ~Over(x), Asides(x.says, x.living), NEW now \in Nat, NEW luck
  PROVE  LET y == Expire(x, now, luck)
         IN  Script(y.says, x.living, y.living)
<1> DEFINE late == Expired(x, now)
           closed == CloseNightSessions(x, late)
           y == Expire(x, now, luck)
<1>1. Midway(x) /\ x.phase \in Phases /\ late \in SUBSET Open(x) /\ Len(x.says) \in Nat
  BY InPlayMidway DEF InPlay, GameType, Expired
<1>2. y = IF Over(x) \/ (x.phase = "Day" /\ late = {}) THEN x
          ELSE IF x.phase = "Day" THEN CloseDay(x, {}, now)
          ELSE IF Open(closed) = {} THEN ResolveNight(closed, now, luck)
          ELSE closed
  BY DEF Expire
<1> HIDE DEF late, closed, y
<1>3. CASE x.phase = "Day" /\ late = {}
  BY <1>1, <1>2, <1>3, AsidesAreAScript DEF y
<1>4. CASE x.phase = "Day" /\ late # {}
  <2>1. y = CloseDay(x, {}, now)
    BY <1>2, <1>4
  <2> QED
    BY <1>1, <1>4, <2>1, CloseDaySays DEF y
<1>5. CASE x.phase = "Night"
  <2>1. Midway(closed) /\ closed.living = x.living /\ closed.phase = "Night" /\ Asides(closed.says, x.living)
    BY <1>1, <1>5, CloseNightFields, CloseNightSays DEF closed
  <2>2. CASE Open(closed) = {}
    <3>1. y = ResolveNight(closed, now, luck)
      BY <1>2, <1>5, <2>2
    <3> QED
      BY <2>1, <3>1, ResolveNightSays DEF y
  <2>3. CASE Open(closed) # {}
    <3>1. y = closed /\ Len(closed.says) \in Nat
      BY <1>2, <1>5, <2>1, <2>3 DEF Midway, GameType
    <3> QED
      BY <2>1, <3>1, AsidesAreAScript DEF y
  <2> QED
    BY <2>2, <2>3
<1> QED
  BY <1>1, <1>3, <1>4, <1>5 DEF Phases

\* What a selection says that is counted: who sees it is told, and, by day, the
\* lynching of the majority it makes.
LEMMA SelectSays ==
  ASSUME NEW x, InPlay(x), ~Over(x), Asides(x.says, x.living), NEW p \in Players, NEW sel,
         Counts(x, p, sel), p \notin sel.seenBy, NEW now \in Nat
  PROVE  LET y == Select(x, p, sel, now)
         IN  \/ InPlay(y) /\ ~Over(y) /\ y.living = x.living /\ Asides(y.says, y.living)
             \/ /\ InPlay(y) /\ Script(y.says, x.living, y.living)
                /\ \A luck : Expire(y, now, luck) = y
<1> DEFINE k == sel.kind
           t == sel.target
           counted == [x EXCEPT !.sessions[sel.kind] = Record(@, p, sel.target, now)]
           relayed == IF sel.seenBy = {} THEN counted ELSE Forward(counted, sel.seenBy, Envelope(p, sel))
           y == Select(x, p, sel, now)
<1>1. /\ Midway(x) /\ x \in GameType /\ x.living \in SUBSET Players
      /\ InSession(x, p, sel) /\ k \in Open(x) /\ p \in x.sessions[k].members
      /\ t \in x.living /\ sel.seenBy \in SUBSET Players /\ sel.seenBy \subseteq x.living
      /\ k \in Kinds /\ t \in Players
  BY InPlayMidway DEF Midway, GameType, Counts, InSession, SpaceFor, ActionSpace, Open
<1>2. Counted(x, k, p, t, counted)
  <2>1. counted = [x EXCEPT !.sessions = [x.sessions EXCEPT ![k] = Record(x.sessions[k], p, t, now)]]
    OBVIOUS
  <2> HIDE DEF counted, k, t
  <2> QED
    BY <1>1, <2>1, CountedFields
<1>3. y = IF k = "Nominate" /\ Majority(relayed) # {} THEN CloseDay(relayed, {t}, now) ELSE relayed
  BY <1>1 DEF Select
<1>4. Envelope(p, sel) \in Envelopes /\ Envelope(p, sel).from = p /\ p \in x.living
  BY <1>1 DEF Envelope, Envelopes, Midway, Seated
<1> HIDE DEF counted
<1>5. relayed \in GameType /\ SameButSays(counted, relayed) /\ Asides(relayed.says, x.living)
  <2>1. counted \in GameType /\ counted.says = x.says /\ counted.living = x.living
    BY <1>2 DEF Counted, Midway
  <2>2. CASE sel.seenBy = {}
    <3>1. relayed = counted
      BY <2>2
    <3> QED
      BY <2>1, <3>1 DEF SameButSays
  <2>3. CASE sel.seenBy # {}
    <3> DEFINE d == [say |-> "forward", to |-> sel.seenBy, envelope |-> Envelope(p, sel)]
    <3>1. relayed = Forward(counted, sel.seenBy, Envelope(p, sel))
      BY <2>3
    <3> HIDE DEF relayed
    <3>2. relayed \in GameType /\ SameButSays(counted, relayed) /\ relayed.says = Append(x.says, d)
      BY <1>1, <1>4, <2>1, <3>1, ForwardFields
    <3>3. d \in Directives
      BY <1>1, <1>4 DEF Directives
    <3>4. Aside(d, x.living)
      BY <1>1, <1>4 DEF Aside
    <3> HIDE DEF d
    <3>5. x.says \in Seq(Directives)
      BY <1>1 DEF GameType
    <3>6. /\ Len(relayed.says) = Len(x.says) + 1 /\ Len(x.says) \in Nat
          /\ relayed.says[Len(x.says) + 1] = d
          /\ \A i \in 1 .. Len(x.says) : relayed.says[i] = x.says[i]
      BY <3>2, <3>3, <3>5, Appending
    <3>7. Asides(relayed.says, x.living)
      <4> SUFFICES ASSUME NEW i \in 1 .. Len(relayed.says) PROVE Aside(relayed.says[i], x.living)
        BY DEF Asides
      <4>1. i = Len(x.says) + 1 \/ i \in 1 .. Len(x.says)
        BY <3>6
      <4> QED
        BY <3>4, <3>6, <4>1 DEF Asides
    <3> QED
      BY <3>2, <3>7
  <2> QED
    BY <2>2, <2>3
<1> HIDE DEF relayed, y
<1>6. Midway(relayed) /\ Open(relayed) = Open(x)
  BY <1>2, <1>5 DEF Counted, Midway, Over, Seated, SameButSays, Open
<1>7. relayed.living = x.living /\ relayed.phase = x.phase /\ relayed.round = x.round
  BY <1>2, <1>5 DEF Counted, SameButSays
<1>8. CASE k = "Nominate" /\ Majority(relayed) # {}
  <2>1. relayed.phase = "Day"
    BY <1>1, <1>7, <1>8, UnopenedType DEF Midway, Open, PhaseOf
  <2>2. PhaseOver(relayed, y, {t}, now) /\ Script(y.says, x.living, y.living)
    <3>1. y = CloseDay(relayed, {t}, now)
      BY <1>3, <1>8
    <3> QED
      BY <1>1, <1>5, <1>6, <1>7, <2>1, <3>1, CloseDayPlays, CloseDaySays
  <2>3. InPlay(y) /\ (Over(y) \/ \A j \in Open(y) : y.sessions[j].limit = now + Limit[j] /\ y.sessions[j].lastChange = now)
    BY <2>2 DEF PhaseOver, NewPhase, Finished
  <2>4. \A luck : Expire(y, now, luck) = y
    BY <2>3, ExpireFresh
  <2> QED
    BY <2>2, <2>3, <2>4 DEF y
<1>9. CASE ~(k = "Nominate" /\ Majority(relayed) # {})
  <2>1. y = relayed
    BY <1>3, <1>9
  <2>2. x.phase = "Day" => k = "Nominate"
    BY <1>1, UnopenedType DEF Midway, Open, PhaseOf
  <2>3. InPlay(relayed) /\ ~Over(relayed)
    BY <1>1, <1>6, <1>7, <1>9, <2>2 DEF InPlay, Midway, Over
  <2> QED
    BY <1>5, <1>7, <2>1, <2>3 DEF y
<1> QED
  BY <1>8, <1>9

\* What a selection says, and the look at the clocks after it.
LEMMA SelectionSays ==
  ASSUME NEW x, InPlay(x), ~Over(x), Asides(x.says, x.living), NEW p \in Players, NEW sel,
         InSession(x, p, sel) => Counts(x, p, sel) /\ p \notin sel.seenBy, NEW now \in Nat, NEW luck
  PROVE  LET y == Expire(Select(x, p, sel, now), now, luck)
         IN  Script(y.says, x.living, y.living)
<1> DEFINE z == Select(x, p, sel, now)
           y == Expire(z, now, luck)
<1>1. \/ InPlay(z) /\ ~Over(z) /\ z.living = x.living /\ Asides(z.says, z.living)
      \/ Script(z.says, x.living, z.living) /\ y = z
  <2>1. CASE InSession(x, p, sel)
    BY <2>1, SelectSays
  <2>2. CASE ~InSession(x, p, sel)
    <3>1. z = x
      BY <2>2 DEF Select
    <3> QED
      BY <3>1
  <2> QED
    BY <2>1, <2>2
<1> HIDE DEF z
<1> QED
  BY <1>1, ExpireSays DEF z

\* What the game says when it begins: to each player its role, and then to
\* everybody that the first night has begun.
LEMMA BeginSays ==
  ASSUME NEW now \in Nat
  PROVE  LET q == Begin(now).says
         IN  \E n \in Nat :
               /\ q \in Seq(Directives) /\ Len(q) = n + 1
               /\ \A i \in 1 .. n : \E p \in Players : q[i] = Narration({p}, Assigned(p))
               /\ Ending(q[n + 1], Players) /\ q[n + 1].narration.is = "PhaseBegan"
<1> DEFINE deal == SetToSeq(Players)
           says == [i \in DOMAIN deal |-> Narration({deal[i]}, Assigned(deal[i]))]
           z == [NewGame EXCEPT !.begun = TRUE, !.says = says]
           b == PhaseBegan(z)
           d == Narration(Players, b)
           n == Len(deal)
           q == Begin(now).says
<1>1. deal \in Seq(Players) /\ n \in Nat /\ DOMAIN deal = 1 .. n
  BY SetToSeqType
<1>2. NewGame \in GameType /\ NewGame.living = Players
  BY NewGameType DEF NewGame
<1>3. /\ says \in Seq(Directives) /\ Len(says) = n
      /\ \A i \in 1 .. n : \E p \in Players : says[i] = Narration({p}, Assigned(p))
  <2>1. \A i \in 1 .. n : deal[i] \in Players
    BY <1>1, ElementOfSeq
  <2> HIDE DEF deal
  <2> DEFINE a(i) == Narration({deal[i]}, Assigned(deal[i]))
  <2>2. \A i \in 1 .. n : a(i) \in Directives /\ \E p \in Players : a(i) = Narration({p}, Assigned(p))
    <3> TAKE i \in 1 .. n
    <3>1. Assigned(deal[i]) \in Narrations
      BY <1>2, <2>1, NarrationTypes
    <3> QED
      BY <2>1, <3>1 DEF Narration, Directives
  <2>3. says = [i \in 1 .. n |-> a(i)]
    BY <1>1
  <2> HIDE DEF a, says, n
  <2>4. says \in [1 .. n -> Directives]
    BY <2>2, <2>3
  <2>5. says \in Seq(Directives) /\ Len(says) = n
    BY <1>1, <2>4
  <2>6. \A i \in 1 .. n : says[i] = a(i)
    BY <2>3
  <2> QED
    BY <2>2, <2>5, <2>6
<1> HIDE DEF says, n
<1>4. z \in GameType /\ z.living = Players /\ z.says = says
  BY <1>2, <1>3 DEF GameType
<1>5. Begin(now) = BeginPhase(z, now)
  BY DEF Begin, z, says
<1> HIDE DEF z
<1>6. q = Append(says, d)
  BY <1>4, <1>5, BeginPhaseFields
<1>7. b \in Narrations /\ b.is = "PhaseBegan" /\ b.living = Players
  BY <1>4, NarrationTypes DEF PhaseBegan
<1> HIDE DEF b
<1>8. d \in Directives /\ Ending(d, Players) /\ d.narration.is = "PhaseBegan"
  BY <1>7 DEF Narration, Directives, Ending
<1> HIDE DEF d, q
<1>9. q \in Seq(Directives) /\ Len(q) = n + 1 /\ q[n + 1] = d /\ \A i \in 1 .. n : q[i] = says[i]
  BY <1>3, <1>6, <1>8, Appending
<1> QED
  BY <1>1, <1>3, <1>8, <1>9 DEF q
=============================================================================
