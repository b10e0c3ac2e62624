------------------------- MODULE CommandLineProofs -------------------------
(***************************************************************************)
(* The commands, for any configurations, seeds and logs and any number of  *)
(* plays: what is accepted can be played, what is written back plays the   *)
(* same game, and the log a play left is replayed as the game it was.      *)
(***************************************************************************)
EXTENDS CommandLine, FiniteSetTheorems, SequenceTheorems, TLAPS

\* Seating a roster folds Add over the ids.
Seating == INSTANCE Folding WITH Op <- Add

(***************************************************************************)
(* Validation.                                                             *)
(***************************************************************************)
Errors ==
  {"NoWerewolves", "WerewolfParity", "TooManyRoles", "TooManyDoctors", "DuplicatePlayer",
   "PlayerIsModerator", "ReservedPlayer", "TimingNotPositive", "QuietExceedsLimit", "DayCapTooSmall"}
Checks == [fails : BOOLEAN, error : Errors]

\* Any nonempty set of indices has a first.
LEMMA FirstOfSome ==
  ASSUME NEW T \in SUBSET Nat, T # {}
  PROVE  Min(T) \in T
<1>1. PICK t \in T : \A u \in T : t <= u
  <2>1. SUFFICES ASSUME \A t \in T : \E u \in T : u < t PROVE FALSE
    OBVIOUS
  <2> DEFINE Above == {n \in Nat : \A t \in T : n < t}
  <2>2. 0 \in Above
    BY <2>1
  <2>3. \A n \in Nat : n \in Above => n + 1 \in Above
    <3> SUFFICES ASSUME NEW n \in Nat, n \in Above, NEW t \in T PROVE n + 1 < t
      OBVIOUS
    <3>1. PICK u \in T : u < t
      BY <2>1
    <3> QED
      BY <3>1
  <2>4. Nat \subseteq Above
    <3> HIDE DEF Above
    <3> QED
      BY <2>2, <2>3, Seating!Induction
  <2>5. PICK t \in T : TRUE
    OBVIOUS
  <2>6. t \in Above
    BY <2>4
  <2> QED
    BY <2>6
<1> QED
  BY <1>1 DEF Min

\* None of the checks fails where there is no first that does.
LEMMA FirstErrorNone ==
  ASSUME NEW checks \in Seq(Checks), FirstError(checks) = "none"
  PROVE  \A i \in DOMAIN checks : ~checks[i].fails
<1> DEFINE failed == {i \in DOMAIN checks : checks[i].fails}
<1>1. failed \in SUBSET Nat
  OBVIOUS
<1>2. ASSUME failed # {} PROVE FALSE
  <2> DEFINE m == Min(failed)
  <2>1. m \in failed
    <3> HIDE DEF failed
    <3> QED
      BY <1>1, <1>2, FirstOfSome
  <2>3. FirstError(checks) = checks[m].error
    BY <1>2 DEF FirstError
  <2> HIDE DEF m
  <2>2. checks[m].error \in Errors
    <3>1. m \in DOMAIN checks
      BY <2>1
    <3>2. checks[m] \in Checks
      BY <3>1
    <3> QED
      BY <3>2 DEF Checks
  <2> QED
    BY <2>2, <2>3 DEF Errors
<1> QED
  BY <1>2

\* What is flattened is all there, and nothing else.
LEMMA Flattened ==
  ASSUME NEW S, NEW ss \in Seq(Seq(S))
  PROVE  /\ FlattenSeq(ss) \in Seq(S)
         /\ \A i \in DOMAIN ss : \A j \in DOMAIN ss[i] :
              \E k \in DOMAIN FlattenSeq(ss) : FlattenSeq(ss)[k] = ss[i][j]
<1>1. FlattenSeq(ss) = Seating!FlattenSeq(ss)
  BY Zenon DEF FlattenSeq, Seating!FlattenSeq
<1>2. /\ Seating!FlattenSeq(ss) \in Seq(S)
      /\ \A i \in DOMAIN ss : \A j \in DOMAIN ss[i] :
           \E k \in DOMAIN Seating!FlattenSeq(ss) : Seating!FlattenSeq(ss)[k] = ss[i][j]
  BY Seating!Flattened
<1> QED
  BY <1>1, <1>2

\* The checks of a configuration.
LEMMA RoleChecksType ==
  ASSUME NEW c \in Schema
  PROVE  RoleChecks(c) \in Seq(Checks)
<1>1. /\ c.roles.werewolves \in Nat /\ c.roles.seers \in Nat /\ c.roles.doctors \in Nat
      /\ Len(c.players) \in Nat
  BY DEF Schema
<1> QED
  BY <1>1 DEF RoleChecks, Checks, Errors

PlayerCheck(c, i) ==
  << [fails |-> c.players[i] \in Range(SubSeq(c.players, 1, i - 1)), error |-> "DuplicatePlayer"],
     [fails |-> c.players[i] = c.moderator, error |-> "PlayerIsModerator"],
     [fails |-> c.players[i] \in Reserved, error |-> "ReservedPlayer"] >>
LEMMA PlayerChecksType ==
  ASSUME NEW c \in Schema
  PROVE  /\ PlayerChecks(c) \in Seq(Checks)
         /\ \A i \in DOMAIN c.players : \A j \in 1 .. 3 :
              \E k \in DOMAIN PlayerChecks(c) : PlayerChecks(c)[k] = PlayerCheck(c, i)[j]
<1> DEFINE ss == [i \in DOMAIN c.players |-> PlayerCheck(c, i)]
<1>1. PlayerChecks(c) = FlattenSeq(ss)
  BY DEF PlayerChecks, PlayerCheck
<1>2. \A i \in DOMAIN c.players : PlayerCheck(c, i) \in Seq(Checks) /\ DOMAIN PlayerCheck(c, i) = 1 .. 3
  BY DEF PlayerCheck, Checks, Errors
<1>3. DOMAIN c.players = 1 .. Len(c.players) /\ Len(c.players) \in Nat
  BY DEF Schema
<1>4. ss \in Seq(Seq(Checks)) /\ DOMAIN ss = DOMAIN c.players
  <2> DEFINE f(i) == PlayerCheck(c, i)
  <2>1. \A i \in 1 .. Len(c.players) : f(i) \in Seq(Checks)
    BY <1>2, <1>3
  <2> HIDE DEF f
  <2>2. [i \in 1 .. Len(c.players) |-> f(i)] \in Seq(Seq(Checks))
    BY <1>3, <2>1
  <2> QED
    BY <1>3, <2>2 DEF f
<1> HIDE DEF ss
<1>5. /\ FlattenSeq(ss) \in Seq(Checks)
      /\ \A i \in DOMAIN ss : \A j \in DOMAIN ss[i] :
           \E k \in DOMAIN FlattenSeq(ss) : FlattenSeq(ss)[k] = ss[i][j]
  <2> DEFINE S == Checks
  <2> HIDE DEF S
  <2>1. ss \in Seq(Seq(S))
    BY <1>4 DEF S
  <2>2. /\ FlattenSeq(ss) \in Seq(S)
        /\ \A i \in DOMAIN ss : \A j \in DOMAIN ss[i] :
             \E k \in DOMAIN FlattenSeq(ss) : FlattenSeq(ss)[k] = ss[i][j]
    BY <2>1, Flattened
  <2> QED
    BY <2>2 DEF S
<1>6. \A i \in DOMAIN c.players : ss[i] = PlayerCheck(c, i)
  BY DEF ss
<1> QED
  BY <1>1, <1>2, <1>4, <1>5, <1>6

SessionCheck(timing, i) ==
  << [fails |-> timing[NightSessions[i]].limit = 0, error |-> "TimingNotPositive"],
     [fails |-> timing[NightSessions[i]].quiet = 0, error |-> "TimingNotPositive"],
     [fails |-> timing[NightSessions[i]].quiet > timing[NightSessions[i]].limit,
      error |-> "QuietExceedsLimit"] >>
DayCheck(timing) ==
  << [fails |-> timing.day.limit = 0, error |-> "TimingNotPositive"],
     [fails |-> timing.dayCap = 0, error |-> "DayCapTooSmall"] >>
LEMMA TimingChecksType ==
  ASSUME NEW c \in Schema
  PROVE  /\ TimingChecks(c.timing) \in Seq(Checks)
         /\ \A i \in DOMAIN NightSessions : \A j \in 1 .. 3 :
              \E k \in DOMAIN TimingChecks(c.timing) :
                TimingChecks(c.timing)[k] = SessionCheck(c.timing, i)[j]
         /\ \A j \in 1 .. 2 : \E k \in DOMAIN TimingChecks(c.timing) :
              TimingChecks(c.timing)[k] = DayCheck(c.timing)[j]
<1> DEFINE t == c.timing
           ss == [i \in DOMAIN NightSessions |-> SessionCheck(t, i)]
           flat == FlattenSeq(ss)
           day == DayCheck(t)
<1>1. TimingChecks(t) = flat \o day
  BY Zenon DEF TimingChecks, SessionCheck, DayCheck
<1>2. DOMAIN NightSessions = 1 .. 3
  BY DEF NightSessions
<1>3. \A i \in 1 .. 3 : t[NightSessions[i]] \in [quiet : Int, limit : Int]
  <2>1. t.pack \in [quiet : Int, limit : Int] /\ t.seer \in [quiet : Int, limit : Int]
        /\ t.doctor \in [quiet : Int, limit : Int]
    BY DEF Schema
  <2> HIDE DEF t
  <2> QED
    BY <2>1 DEF NightSessions
<1> HIDE DEF t
<1>4. \A i \in 1 .. 3 : SessionCheck(t, i) \in Seq(Checks) /\ DOMAIN SessionCheck(t, i) = 1 .. 3
  BY <1>3 DEF SessionCheck, Checks, Errors
<1>5. day \in Seq(Checks) /\ DOMAIN day = 1 .. 2
  BY DEF DayCheck, Checks, Errors
<1>6. ss \in Seq(Seq(Checks)) /\ DOMAIN ss = 1 .. 3
  <2> DEFINE f(i) == SessionCheck(t, i)
  <2>1. \A i \in 1 .. 3 : f(i) \in Seq(Checks)
    BY <1>4
  <2> HIDE DEF f
  <2>2. [i \in 1 .. 3 |-> f(i)] \in Seq(Seq(Checks))
    BY <2>1
  <2> QED
    BY <1>2, <2>2 DEF f
<1>7. /\ flat \in Seq(Checks)
      /\ \A i \in 1 .. 3 : \A j \in 1 .. 3 : \E k \in DOMAIN flat : flat[k] = SessionCheck(t, i)[j]
  <2>1. \A i \in 1 .. 3 : ss[i] = SessionCheck(t, i)
    BY <1>2
  <2> HIDE DEF ss
  <2> QED
    BY <1>4, <1>6, <2>1, Flattened
<1> DEFINE all == flat \o day
<1> HIDE DEF flat, day
<1>8. /\ all \in Seq(Checks)
      /\ \A k \in DOMAIN flat : k \in DOMAIN all /\ all[k] = flat[k]
      /\ \A k \in DOMAIN day : Len(flat) + k \in DOMAIN all /\ all[Len(flat) + k] = day[k]
  <2> DEFINE S == Checks
  <2>1. flat \in Seq(S) /\ day \in Seq(S)
    BY <1>5, <1>7
  <2> HIDE DEF S
  <2>2. /\ all \in Seq(S)
        /\ \A k \in DOMAIN flat : k \in DOMAIN all /\ all[k] = flat[k]
        /\ \A k \in DOMAIN day : Len(flat) + k \in DOMAIN all /\ all[Len(flat) + k] = day[k]
    BY <2>1
  <2> QED
    BY <2>2 DEF S
<1> HIDE DEF all
<1>9. \A i \in 1 .. 3 : \A j \in 1 .. 3 : \E k \in DOMAIN all : all[k] = SessionCheck(t, i)[j]
  BY <1>7, <1>8
<1>10. \A j \in 1 .. 2 : \E k \in DOMAIN all : all[k] = day[j]
  BY <1>5, <1>8
<1>11. TimingChecks(c.timing) = all /\ t = c.timing /\ day = DayCheck(c.timing)
  BY <1>1 DEF t, all, day
<1> QED
  BY <1>2, <1>8, <1>9, <1>10, <1>11

(***************************************************************************)
(* What a configuration that is let through is.                            *)
(***************************************************************************)
Sound(c) ==
  /\ c \in Schema /\ Validate(c) = "none"
  /\ \A seconds \in Durations(c.timing) : IsDuration(seconds)

SoundRoles(c) ==
  /\ c.roles.werewolves # 0 /\ Len(c.players) > 2 * c.roles.werewolves
  /\ Special(c.roles) <= Len(c.players)
SoundPlayers(c) ==
  /\ \A i, j \in DOMAIN c.players : c.players[i] = c.players[j] => i = j
  /\ c.moderator \notin Ids(c) /\ Ids(c) \cap Reserved = {}
SoundTiming(c) ==
  /\ \A session \in Range(NightSessions) :
       /\ c.timing[session].quiet \in 1 .. c.timing[session].limit
       /\ c.timing[session].limit \in 0 .. MaxDuration
  /\ c.timing.day.limit \in 1 .. MaxDuration
  /\ c.timing.dayCap # 0

\* No check fails.
LEMMA NoCheckFails ==
  ASSUME NEW c, Sound(c)
  PROVE  /\ \A k \in DOMAIN RoleChecks(c) : ~RoleChecks(c)[k].fails
         /\ \A k \in DOMAIN PlayerChecks(c) : ~PlayerChecks(c)[k].fails
         /\ \A k \in DOMAIN TimingChecks(c.timing) : ~TimingChecks(c.timing)[k].fails
<1> DEFINE r == RoleChecks(c)
           p == PlayerChecks(c)
           t == TimingChecks(c.timing)
           all == r \o p \o t
<1>1. r \in Seq(Checks) /\ p \in Seq(Checks) /\ t \in Seq(Checks)
  BY RoleChecksType, PlayerChecksType, TimingChecksType DEF Sound
<1>2. FirstError(all) = "none"
  BY DEF Sound, Validate
<1> HIDE DEF r, p, t
<1>3. all \in Seq(Checks)
  BY <1>1
<1>4. \A k \in DOMAIN all : ~all[k].fails
  <2> HIDE DEF all
  <2> QED
    BY <1>2, <1>3, FirstErrorNone
<1>5. \A k \in DOMAIN r : k \in DOMAIN all /\ all[k] = r[k]
  BY <1>1
<1>6. \A k \in DOMAIN p : Len(r) + k \in DOMAIN all /\ all[Len(r) + k] = p[k]
  BY <1>1
<1>7. \A k \in DOMAIN t : Len(r) + Len(p) + k \in DOMAIN all /\ all[Len(r) + Len(p) + k] = t[k]
  BY <1>1
<1> HIDE DEF all
<1>8. \A k \in DOMAIN r : ~r[k].fails
  BY <1>4, <1>5
<1>9. \A k \in DOMAIN p : ~p[k].fails
  BY <1>4, <1>6
<1>10. \A k \in DOMAIN t : ~t[k].fails
  BY <1>4, <1>7
<1> QED
  BY <1>8, <1>9, <1>10 DEF r, p, t

\* And so everything they check holds.
LEMMA SoundMeans ==
  ASSUME NEW c, Sound(c)
  PROVE  SoundRoles(c) /\ SoundPlayers(c) /\ SoundTiming(c)
<1>1. c \in Schema
  BY DEF Sound
<1>2. SoundRoles(c)
  <2>1. \A k \in 1 .. 4 : ~RoleChecks(c)[k].fails
    <3>1. DOMAIN RoleChecks(c) = 1 .. 4
      BY DEF RoleChecks
    <3> QED
      BY <3>1, NoCheckFails
  <2>2. /\ c.roles.werewolves \in Nat /\ c.roles.seers \in Nat /\ c.roles.doctors \in Nat
        /\ Len(c.players) \in Nat
    BY <1>1 DEF Schema
  <2>3. ~RoleChecks(c)[1].fails /\ ~RoleChecks(c)[2].fails /\ ~RoleChecks(c)[3].fails
    BY <2>1
  <2>4. /\ ~(c.roles.werewolves = 0) /\ ~(Len(c.players) <= 2 * c.roles.werewolves)
        /\ ~(Special(c.roles) > Len(c.players))
    BY <2>3 DEF RoleChecks
  <2> QED
    BY <2>2, <2>4 DEF SoundRoles, Special
<1>3. SoundPlayers(c)
  <2> DEFINE s == c.players
  <2>1. s \in Seq(Names)
    BY <1>1 DEF Schema
  <2>2. \A i \in DOMAIN s : \A j \in 1 .. 3 : ~PlayerCheck(c, i)[j].fails
    BY <1>1, NoCheckFails, PlayerChecksType
  <2>3. \A i \in DOMAIN s : /\ s[i] \notin Range(SubSeq(s, 1, i - 1))
                            /\ s[i] # c.moderator /\ s[i] \notin Reserved
    <3> SUFFICES ASSUME NEW i \in DOMAIN s
                 PROVE  /\ s[i] \notin Range(SubSeq(s, 1, i - 1))
                        /\ s[i] # c.moderator /\ s[i] \notin Reserved
      OBVIOUS
    <3>1. ~PlayerCheck(c, i)[1].fails /\ ~PlayerCheck(c, i)[2].fails /\ ~PlayerCheck(c, i)[3].fails
      BY <2>2
    <3> QED
      BY <3>1 DEF PlayerCheck
  <2> HIDE DEF s
  <2>4. \A i, j \in DOMAIN s : i < j => s[i] # s[j]
    <3> SUFFICES ASSUME NEW i \in DOMAIN s, NEW j \in DOMAIN s, i < j PROVE s[i] # s[j]
      OBVIOUS
    <3>1. i \in Nat /\ j \in Nat /\ i >= 1 /\ j <= Len(s) /\ j - 1 \in Nat /\ DOMAIN s = 1 .. Len(s)
      BY <2>1
    <3>2. i \in DOMAIN SubSeq(s, 1, j - 1) /\ SubSeq(s, 1, j - 1)[i] = s[i]
      BY <2>1, <3>1
    <3>3. s[i] \in Range(SubSeq(s, 1, j - 1))
      BY <3>2 DEF Range
    <3> QED
      BY <2>3, <3>3
  <2>5. \A i, j \in DOMAIN s : s[i] = s[j] => i = j
    BY <2>1, <2>4
  <2>6. c.moderator \notin Range(s) /\ Range(s) \cap Reserved = {}
    BY <2>3 DEF Range
  <2> QED
    BY <2>5, <2>6 DEF SoundPlayers, Ids, s
<1>4. SoundTiming(c)
  <2> DEFINE t == c.timing
             all == TimingChecks(t)
  <2>1. /\ \A i \in DOMAIN NightSessions : \A j \in 1 .. 3 : ~SessionCheck(t, i)[j].fails
        /\ \A j \in 1 .. 2 : ~DayCheck(t)[j].fails
    <3>1. \A k \in DOMAIN all : ~all[k].fails
      BY NoCheckFails
    <3>2. /\ \A i \in DOMAIN NightSessions : \A j \in 1 .. 3 :
               \E k \in DOMAIN all : all[k] = SessionCheck(t, i)[j]
          /\ \A j \in 1 .. 2 : \E k \in DOMAIN all : all[k] = DayCheck(t)[j]
      BY <1>1, TimingChecksType
    <3> HIDE DEF all, t
    <3>3. ASSUME NEW i \in DOMAIN NightSessions, NEW j \in 1 .. 3 PROVE ~SessionCheck(t, i)[j].fails
      <4>1. PICK k \in DOMAIN all : all[k] = SessionCheck(t, i)[j]
        BY <3>2
      <4> QED
        BY <3>1, <4>1
    <3>4. ASSUME NEW j \in 1 .. 2 PROVE ~DayCheck(t)[j].fails
      <4>1. PICK k \in DOMAIN all : all[k] = DayCheck(t)[j]
        BY <3>2
      <4> QED
        BY <3>1, <4>1
    <3> QED
      BY <3>3, <3>4
  <2>2. \A seconds \in Durations(t) : seconds \in 0 .. MaxDuration
    BY DEF Sound, IsDuration
  <2> HIDE DEF t
  <2>3. t.day.limit \in 0 .. MaxDuration /\ t.day.limit # 0 /\ t.dayCap # 0
    <3>1. ~DayCheck(t)[1].fails /\ ~DayCheck(t)[2].fails
      BY <2>1
    <3> QED
      BY <2>2, <3>1 DEF Durations, DayCheck
  <2>4. ASSUME NEW session \in Range(NightSessions)
        PROVE  t[session].quiet \in 1 .. t[session].limit /\ t[session].limit \in 0 .. MaxDuration
    <3>1. PICK i \in DOMAIN NightSessions : session = NightSessions[i]
      BY DEF Range
    <3>2. ~SessionCheck(t, i)[1].fails /\ ~SessionCheck(t, i)[2].fails /\ ~SessionCheck(t, i)[3].fails
      BY <2>1
    <3>3. t[session].limit # 0 /\ t[session].quiet # 0 /\ ~(t[session].quiet > t[session].limit)
      BY <3>1, <3>2 DEF SessionCheck
    <3>4. t[session].quiet \in Durations(t) /\ t[session].limit \in Durations(t)
      BY DEF Durations
    <3>5. t[session].quiet \in 0 .. MaxDuration /\ t[session].limit \in 0 .. MaxDuration
      BY <2>2, <3>4
    <3> QED
      BY <3>3, <3>5, DurationsAssumption
  <2>5. t.day.limit \in 1 .. MaxDuration
    BY <2>3, DurationsAssumption
  <2> QED
    BY <2>3, <2>4, <2>5 DEF SoundTiming, t
<1> QED
  BY <1>2, <1>3, <1>4

(***************************************************************************)
(* Counting.                                                               *)
(***************************************************************************)

\* Of a sequence in which nothing is twice, a stretch holds as many as it is long.
Stretch(s, a, b) == {s[i] : i \in a .. b}
LEMMA EachOnce ==
  ASSUME NEW S, NEW s \in Seq(S), IsInjective(s), NEW a \in Int, NEW b \in Int,
         1 <= a, b <= Len(s), a <= b + 1
  PROVE  IsFiniteSet(Stretch(s, a, b)) /\ Cardinality(Stretch(s, a, b)) = (b + 1) - a
<1> DEFINE I == a .. b
           T == Stretch(s, a, b)
           f == [i \in I |-> s[i]]
<1>1. I \subseteq DOMAIN s
  OBVIOUS
<1>2. IsFiniteSet(I) /\ Cardinality(I) = (b + 1) - a
  <2>1. IsFiniteSet(I) /\ Cardinality(I) = IF a > b THEN 0 ELSE b - a + 1
    BY FS_Interval
  <2> HIDE DEF I
  <2> QED
    BY <2>1
<1>3. T = {s[i] : i \in I}
  BY DEF Stretch
<1> HIDE DEF I, T
<1>4. f \in Bijection(I, T)
  BY <1>1, <1>3 DEF Bijection, Injection, Surjection, IsInjective
<1>5. ExistsBijection(I, T)
  BY <1>4 DEF ExistsBijection
<1>6. IsFiniteSet(T) /\ Cardinality(T) = Cardinality(I)
  BY <1>2, <1>5, FS_Bijection
<1> QED
  BY <1>2, <1>6 DEF T

LEMMA EachOnceOfAll ==
  ASSUME NEW S, NEW s \in Seq(S), IsInjective(s)
  PROVE  IsFiniteSet(Range(s)) /\ Cardinality(Range(s)) = Len(s)
<1> DEFINE n == Len(s)
<1>1. Range(s) = Stretch(s, 1, n) /\ n \in Nat
  BY DEF Range, Stretch
<1>2. 1 \in Int /\ n \in Int /\ 1 <= 1 /\ n <= Len(s) /\ 1 <= n + 1
  BY <1>1
<1> HIDE DEF n
<1>3. IsFiniteSet(Stretch(s, 1, n)) /\ Cardinality(Stretch(s, 1, n)) = (n + 1) - 1
  BY <1>2, EachOnce
<1> QED
  BY <1>1, <1>3 DEF n

\* A finite set in some order: each once, and all of it.
LEMMA InSomeOrder ==
  ASSUME NEW S, IsFiniteSet(S)
  PROVE  /\ SetToSeq(S) \in Seq(S) /\ IsInjective(SetToSeq(S)) /\ Range(SetToSeq(S)) = S
         /\ Len(SetToSeq(S)) = Cardinality(S)
<1> DEFINE n == Cardinality(S)
           s == SetToSeq(S)
<1>1. n \in Nat /\ ExistsBijection(1 .. n, S)
  BY FS_CardinalityType
<1>2. PICK f : f \in Bijection(1 .. n, S)
  BY <1>1 DEF ExistsBijection
<1>3. f \in [1 .. n -> S] /\ IsInjective(f)
  BY <1>2 DEF Bijection, Injection
<1>4. s \in [1 .. n -> S] /\ IsInjective(s)
  BY <1>3 DEF SetToSeq
<1> HIDE DEF s
<1>5. s \in Seq(S) /\ Len(s) = n
  BY <1>1, <1>4
<1>6. Range(s) \subseteq S
  BY <1>4 DEF Range
<1>7. Cardinality(Range(s)) = n
  BY <1>4, <1>5, EachOnceOfAll
<1> HIDE DEF n
<1>8. Cardinality(S) = Cardinality(Range(s))
  BY <1>7 DEF n
<1>9. S = Range(s)
  BY <1>6, <1>8, FS_Subset
<1> QED
  BY <1>4, <1>5, <1>9 DEF s, n

(***************************************************************************)
(* A configuration that is let through can be played.                      *)
(***************************************************************************)

\* The players are as many as they were listed.
LEMMA PlayersCounted ==
  ASSUME NEW c, Sound(c)
  PROVE  /\ c.players \in Seq(Names) /\ IsInjective(c.players) /\ Len(c.players) \in Nat
         /\ IsFiniteSet(Ids(c)) /\ Cardinality(Ids(c)) = Len(c.players)
<1>1. c.players \in Seq(Names)
  BY DEF Sound, Schema
<1>2. IsInjective(c.players)
  BY SoundMeans DEF SoundPlayers, IsInjective
<1> DEFINE s == c.players
<1> HIDE DEF s
<1>3. s \in Seq(Names) /\ IsInjective(s)
  BY <1>1, <1>2 DEF s
<1>4. IsFiniteSet(Range(s)) /\ Cardinality(Range(s)) = Len(s) /\ Len(s) \in Nat
  BY <1>3, EachOnceOfAll
<1> QED
  BY <1>3, <1>4 DEF s, Ids

\* It can be dealt.
LEMMA CanBeDealt ==
  ASSUME NEW c, Sound(c)
  PROVE  Deals(c) # {}
<1> DEFINE s == c.players
           n == Len(c.players)
           w == c.roles.werewolves
           e == c.roles.seers
           m == c.roles.doctors
           Role(i) == IF i <= w THEN "Werewolf" ELSE IF i <= w + e THEN "Seer"
                      ELSE IF i <= w + e + m THEN "Doctor" ELSE "Villager"
           At(p) == CHOOSE i \in 1 .. n : s[i] = p
           d == [p \in Ids(c) |-> Role(At(p))]
<1>1. /\ s \in Seq(Names) /\ IsInjective(s) /\ n \in Nat /\ n = Len(s)
      /\ w \in Nat /\ e \in Nat /\ m \in Nat /\ w + e + m <= n
      /\ Ids(c) = {s[i] : i \in 1 .. n}
  <2>1. w \in Nat /\ e \in Nat /\ m \in Nat
    BY DEF Sound, Schema
  <2>2. w + e + m <= n
    BY SoundMeans DEF SoundRoles, Special
  <2>3. s \in Seq(Names) /\ IsInjective(s) /\ n \in Nat
    BY PlayersCounted
  <2>4. Ids(c) = {s[i] : i \in 1 .. n}
    BY <2>3 DEF Ids, Range
  <2> QED
    BY <2>1, <2>2, <2>3, <2>4
<1> HIDE DEF s, n, w, e, m
<1>2. \A i \in 1 .. n : At(s[i]) = i
  BY <1>1 DEF IsInjective
<1> HIDE DEF At
<1>3. \A i \in 1 .. n : d[s[i]] = Role(i)
  BY <1>1, <1>2
<1>4. d \in [Ids(c) -> {"Werewolf", "Seer", "Doctor", "Villager"}]
  OBVIOUS
<1> HIDE DEF d
<1> DEFINE Held(role) == {p \in Ids(c) : d[p] = role}
<1> DEFINE ww == w + e
           www == w + e + m
<1>5. ww \in Nat /\ www \in Nat /\ w <= ww /\ ww <= www /\ www <= n
  BY <1>1
<1>6. ASSUME NEW a \in Nat, NEW b \in Nat, a <= b, b <= n, NEW role,
             \A i \in 1 .. n : (Role(i) = role) <=> (i > a /\ i <= b)
      PROVE  Cardinality(Held(role)) = b - a
  <2>1. Held(role) = Stretch(s, a + 1, b)
    <3>1. Held(role) = {s[i] : i \in {j \in 1 .. n : Role(j) = role}}
      BY <1>1, <1>3
    <3>2. {j \in 1 .. n : Role(j) = role} = a + 1 .. b
      BY <1>1, <1>6
    <3> HIDE DEF Held, Role
    <3> QED
      BY <3>1, <3>2 DEF Stretch
  <2>2. a + 1 \in Int /\ b \in Int /\ 1 <= a + 1 /\ b <= Len(s) /\ a + 1 <= b + 1
    BY <1>1, <1>6
  <2> DEFINE aa == a + 1
  <2> HIDE DEF aa
  <2>3. Cardinality(Stretch(s, aa, b)) = (b + 1) - aa
    BY <1>1, <2>2, EachOnce DEF aa
  <2>4. (b + 1) - aa = b - a
    BY DEF aa
  <2>5. Held(role) = Stretch(s, aa, b)
    BY <2>1 DEF aa
  <2> HIDE DEF Held
  <2> QED
    BY <2>3, <2>4, <2>5
<1>7. /\ Cardinality(Held("Werewolf")) = w /\ Cardinality(Held("Seer")) = e
      /\ Cardinality(Held("Doctor")) = m /\ Cardinality(Held("Villager")) = n - www
  <2>1. /\ \A i \in 1 .. n : (Role(i) = "Werewolf") <=> (i > 0 /\ i <= w)
        /\ \A i \in 1 .. n : (Role(i) = "Seer") <=> (i > w /\ i <= ww)
        /\ \A i \in 1 .. n : (Role(i) = "Doctor") <=> (i > ww /\ i <= www)
        /\ \A i \in 1 .. n : (Role(i) = "Villager") <=> (i > www /\ i <= n)
    BY <1>1
  <2> HIDE DEF Held, Role, ww, www
  <2>2. /\ Cardinality(Held("Werewolf")) = w - 0 /\ Cardinality(Held("Seer")) = ww - w
        /\ Cardinality(Held("Doctor")) = www - ww /\ Cardinality(Held("Villager")) = n - www
    <3>1. Cardinality(Held("Werewolf")) = w - 0
      <4>1. 0 \in Nat /\ 0 <= w /\ w <= n
        BY <1>1, <1>5
      <4> QED
        BY <1>1, <1>6, <2>1, <4>1
    <3>2. Cardinality(Held("Seer")) = ww - w
      <4>1. ww <= n
        BY <1>1, <1>5
      <4> QED
        BY <1>1, <1>5, <1>6, <2>1, <4>1
    <3>3. Cardinality(Held("Doctor")) = www - ww
      BY <1>5, <1>6, <2>1
    <3>4. Cardinality(Held("Villager")) = n - www
      BY <1>1, <1>5, <1>6, <2>1
    <3> QED
      BY <3>1, <3>2, <3>3, <3>4
  <2>3. w - 0 = w /\ ww - w = e /\ www - ww = m
    BY <1>1 DEF ww, www
  <2> QED
    BY <2>2, <2>3
<1>8. n - (w + e + m) = n - Special(c.roles)
  BY DEF Special, w, e, m
<1>9. d \in Deals(c)
  BY <1>4, <1>7, <1>8 DEF Deals, n, w, e, m
<1> QED
  BY <1>9

\* No deal of it is over before it begins.
LEMMA NotOverYet ==
  ASSUME NEW c, Sound(c), NEW d \in Deals(c)
  PROVE  Dealt(Ids(c), d)!Winner(Ids(c)) = "undecided"
<1> DEFINE P == Ids(c)
           W == {p \in P : d[p] = "Werewolf"}
           w == c.roles.werewolves
           n == Len(c.players)
<1>1. Cardinality(W) = w
  BY DEF Deals
<1>2. IsFiniteSet(P) /\ Cardinality(P) = n /\ n \in Nat
  BY PlayersCounted
<1>3. w \in Nat /\ w # 0 /\ n > 2 * w
  <2>1. w \in Nat
    BY DEF Sound, Schema
  <2> QED
    BY <2>1, SoundMeans DEF SoundRoles
<1>4. P \cap W = W /\ IsFiniteSet(W)
  BY <1>2, FS_Subset
<1>5. Cardinality(P \ W) = n - w
  <2>1. Cardinality(P \cap W) = w
    BY <1>1, <1>4
  <2> HIDE DEF P, W, n, w
  <2> QED
    BY <1>2, <2>1, FS_Difference
<1>6. Dealt(Ids(c), d)!Pack = W
  BY DEF Dealt!Pack
<1> HIDE DEF W, P, n, w
<1>7. ~(w = 0) /\ ~(w >= n - w)
  BY <1>2, <1>3
<1>8. /\ Cardinality(P \cap Dealt(Ids(c), d)!Pack) = w
      /\ Cardinality(P \ Dealt(Ids(c), d)!Pack) = n - w
  BY <1>1, <1>4, <1>5, <1>6
<1> HIDE DEF P
<1>9. /\ Dealt(Ids(c), d)!Cardinality(P \cap Dealt(Ids(c), d)!Pack) = w
      /\ Dealt(Ids(c), d)!Cardinality(P \ Dealt(Ids(c), d)!Pack) = n - w
  <2>1. \A S : Dealt(Ids(c), d)!Cardinality(S) = Cardinality(S)
    BY Zenon DEF Dealt!Cardinality, Cardinality
  <2> QED
    BY <1>8, <2>1
<1>10. Dealt(Ids(c), d)!Winner(P) = "undecided"
  BY <1>7, <1>9 DEF Dealt!Winner
<1> QED
  BY <1>10 DEF P

\* A roster of ids, each once and none of them the environment's, is seated
\* with none refused.
SeatedAll(e, environment, limit, s, n) ==
  e = [environment |-> environment, limit |-> limit, roster |-> {s[i] : i \in 1 .. n},
       refused |-> {}]
LEMMA NoneRefused ==
  ASSUME NEW S, NEW s \in Seq(S), IsInjective(s), NEW environment, environment \notin Range(s),
         NEW limit
  PROVE  SeatedAll(FoldLeft(Add, NewEpisode(environment, limit), s), environment, limit, s, Len(s))
<1> DEFINE base == NewEpisode(environment, limit)
           none == << >>
           At(n) == Seating!Fold(base, SubSeq(s, 1, n))
           T == {n \in Nat : n <= Len(s) => SeatedAll(At(n), environment, limit, s, n)}
<1>0. Len(s) \in Nat /\ DOMAIN s = 1 .. Len(s)
  OBVIOUS
<1>1. 0 \in T
  <2>1. SubSeq(s, 1, 0) = << >>
    OBVIOUS
  <2>2. Seating!Fold(base, << >>) = base
    <3> HIDE DEF base
    <3> QED
      BY Seating!FoldNothing
  <2>3. At(0) = base
    BY <2>1, <2>2
  <2> HIDE DEF At
  <2>4. {s[i] : i \in 1 .. 0} = {}
    OBVIOUS
  <2> QED
    BY <2>3, <2>4 DEF SeatedAll, NewEpisode
<1>2. ASSUME NEW n \in Nat, n \in T PROVE n + 1 \in T
  <2>1. SUFFICES ASSUME n + 1 <= Len(s) PROVE SeatedAll(At(n + 1), environment, limit, s, n + 1)
    OBVIOUS
  <2> DEFINE t == SubSeq(s, 1, n)
             id == s[n + 1]
             e == At(n)
  <2>2. SubSeq(s, 1, n + 1) = Append(t, id) /\ t \in Seq(S) /\ id \in S
    BY <2>1
  <2>3. Seating!Fold(base, Append(t, id)) = Add(Seating!Fold(base, t), id)
    <3> HIDE DEF base, t, id
    <3> QED
      BY <2>2, Seating!FoldOneMore
  <2>4. At(n + 1) = Add(e, id)
    BY <2>2, <2>3
  <2>5. SeatedAll(e, environment, limit, s, n)
    BY <1>2, <2>1
  <2> HIDE DEF At, e, id
  <2>6. id # environment /\ id \notin {s[i] : i \in 1 .. n}
    BY <1>0, <2>1 DEF Range, IsInjective, id
  <2>7. e.roster \cup {id} = {s[i] : i \in 1 .. n + 1}
    BY <1>0, <2>1, <2>5 DEF SeatedAll, id
  <2>8. At(n + 1) = [e EXCEPT !.roster = @ \cup {id}]
    BY <2>4, <2>5, <2>6 DEF Add, SeatedAll
  <2> QED
    BY <2>5, <2>7, <2>8 DEF SeatedAll
<1>3. Nat \subseteq T
  <2> HIDE DEF T
  <2> QED
    BY <1>1, <1>2, Seating!Induction
<1>4. SeatedAll(At(Len(s)), environment, limit, s, Len(s))
  BY <1>0, <1>3
<1>5. SubSeq(s, 1, Len(s)) = s
  OBVIOUS
<1>6. Seating!Fold(base, s) = FoldLeft(Add, base, s)
  BY Zenon DEF Seating!Fold, Seating!FoldLeft, FoldLeft, Seating!MapThenFoldSet, MapThenFoldSet,
               Seating!Max, Max
<1> QED
  BY <1>4, <1>5, <1>6

LEMMA AllSeated ==
  ASSUME NEW c, Sound(c)
  PROVE  Seated(c).refused = {} /\ Cardinality(Seated(c).roster) = Len(c.players)
<1> DEFINE s == SetToSeq(Ids(c))
           limit == TimeLimit(c)
<1>1. s \in Seq(Ids(c)) /\ IsInjective(s) /\ Range(s) = Ids(c)
  BY PlayersCounted, InSomeOrder
<1>2. c.moderator \notin Range(s)
  BY <1>1, SoundMeans DEF SoundPlayers
<1> HIDE DEF s, limit
<1>3. SeatedAll(FoldLeft(Add, NewEpisode(c.moderator, limit), s), c.moderator, limit, s, Len(s))
  BY <1>1, <1>2, NoneRefused
<1>4. Seated(c) = FoldLeft(Add, NewEpisode(c.moderator, limit), s)
  BY DEF Seated, s, limit
<1>5. {s[i] : i \in 1 .. Len(s)} = Range(s)
  BY <1>1 DEF Range
<1>6. Seated(c).refused = {} /\ Seated(c).roster = Ids(c)
  BY <1>1, <1>3, <1>4, <1>5 DEF SeatedAll
<1> QED
  BY <1>6, PlayersCounted

\* No two generators have a stream.
LEMMA StreamsDiffer ==
  ASSUME NEW c, Sound(c)
  PROVE  Cardinality(Range(Streams(c))) = Len(Streams(c))
<1> DEFINE s == c.players
           t == SetToSeq(Reserved)
           all == s \o t
           U == Names \cup Reserved
<1>1. s \in Seq(Names) /\ IsInjective(s)
  BY PlayersCounted
<1>2. t \in Seq(Reserved) /\ IsInjective(t)
  BY InSomeOrder, ReservedAssumption
<1>3. \A i \in DOMAIN s : s[i] \notin Reserved
  BY SoundMeans DEF SoundPlayers, Ids, Range
<1> HIDE DEF s, t
<1>4. s \in Seq(U) /\ t \in Seq(U)
  BY <1>1, <1>2
<1> HIDE DEF U
<1>5. /\ all \in Seq(U) /\ DOMAIN all = 1 .. Len(s) + Len(t)
      /\ Len(s) \in Nat /\ Len(t) \in Nat
      /\ \A i \in 1 .. Len(s) + Len(t) :
           all[i] = IF i <= Len(s) THEN s[i] ELSE t[i - Len(s)]
  BY <1>4
<1> HIDE DEF all
<1>6. IsInjective(all)
  <2> SUFFICES ASSUME NEW a \in DOMAIN all, NEW b \in DOMAIN all, all[a] = all[b] PROVE a = b
    BY DEF IsInjective
  <2>1. CASE a <= Len(s) /\ b <= Len(s)
    <3>1. a \in DOMAIN s /\ b \in DOMAIN s /\ s[a] = s[b]
      BY <1>1, <1>5, <2>1
    <3> QED
      BY <1>1, <3>1 DEF IsInjective
  <2>2. CASE a > Len(s) /\ b > Len(s)
    <3>1. /\ a - Len(s) \in DOMAIN t /\ b - Len(s) \in DOMAIN t
          /\ t[a - Len(s)] = t[b - Len(s)]
      BY <1>2, <1>5, <2>2
    <3>2. a - Len(s) = b - Len(s)
      BY <1>2, <3>1 DEF IsInjective
    <3> QED
      BY <1>5, <3>2
  <2>3. CASE a <= Len(s) /\ b > Len(s)
    <3>1. a \in DOMAIN s /\ b - Len(s) \in DOMAIN t /\ s[a] = t[b - Len(s)]
      BY <1>1, <1>2, <1>5, <2>3
    <3>2. t[b - Len(s)] \in Reserved
      BY <1>2, <3>1
    <3> QED
      BY <1>3, <3>1, <3>2
  <2>4. CASE a > Len(s) /\ b <= Len(s)
    <3>1. b \in DOMAIN s /\ a - Len(s) \in DOMAIN t /\ s[b] = t[a - Len(s)]
      BY <1>1, <1>2, <1>5, <2>4
    <3>2. t[a - Len(s)] \in Reserved
      BY <1>2, <3>1
    <3> QED
      BY <1>3, <3>1, <3>2
  <2> QED
    BY <1>5, <2>1, <2>2, <2>3, <2>4
<1>7. Cardinality(Range(all)) = Len(all)
  BY <1>5, <1>6, EachOnceOfAll
<1> QED
  BY <1>7 DEF Streams, all, s, t

\* The lesser and the greater of two.
LEMMA OfTwo ==
  ASSUME NEW a \in Int, NEW b \in Int
  PROVE  /\ Min({a, b}) = (IF a <= b THEN a ELSE b)
         /\ Max({a, b}) = (IF a >= b THEN a ELSE b)
  BY DEF Min, Max

\* The longest of the nights is one of them.
LEMMA LongestNight ==
  ASSUME NEW c, Sound(c)
  PROVE  RoundOf(c) \in Nat
<1> DEFINE limits == {c.timing[NightSessions[i]].limit : i \in DOMAIN NightSessions}
           p == c.timing.pack.limit
           s == c.timing.seer.limit
           d == c.timing.doctor.limit
<1>1. limits = {p, s, d}
  BY DEF NightSessions
<1>2. p \in Nat /\ s \in Nat /\ d \in Nat /\ c.timing.day.limit \in Nat
  <2>1. /\ p \in 0 .. MaxDuration /\ s \in 0 .. MaxDuration /\ d \in 0 .. MaxDuration
        /\ c.timing.day.limit \in 1 .. MaxDuration
    BY SoundMeans DEF SoundTiming, NightSessions, Range
  <2> QED
    BY <2>1, DurationsAssumption
<1> HIDE DEF p, s, d
<1>3. Max({p, s, d}) \in Nat
  BY <1>2 DEF Max
<1> QED
  BY <1>1, <1>2, <1>3 DEF RoundOf

\* The cap on the days is set, or is how many play.
LEMMA DaysToPlay ==
  ASSUME NEW c, Sound(c)
  PROVE  DayCapOf(c) \in Nat /\ DayCapOf(c) > 0
<1>1. c.timing.dayCap \in Nat \cup {Unset}
  BY DEF Sound, Schema
<1>2. c.timing.dayCap # 0
  BY SoundMeans DEF SoundTiming
<1>3. Len(c.players) \in Nat /\ Len(c.players) > 0
  <2>1. c.roles.werewolves \in Nat
    BY DEF Sound, Schema
  <2>2. Len(c.players) \in Nat
    BY PlayersCounted
  <2>3. Len(c.players) > 2 * c.roles.werewolves
    BY SoundMeans DEF SoundRoles
  <2> QED
    BY <2>1, <2>2, <2>3
<1> QED
  BY <1>1, <1>2, <1>3 DEF DayCapOf

\* The time limit, a round for every day with time to spare, is never less
\* than the rounds are, as far as a duration goes.
LEMMA TimeEnough ==
  ASSUME NEW c, Sound(c)
  PROVE  TimeLimit(c) \in Nat /\ TimeLimit(c) >= Saturating(DayCapOf(c) * RoundOf(c))
<1> DEFINE r == RoundOf(c)
           n == DayCapOf(c)
           whole == r * n
           x == Saturating(whole)
           y == x * Slack
<1>1. r \in Nat /\ n \in Nat
  BY LongestNight, DaysToPlay
<1> HIDE DEF r, n
<1>2. whole \in Nat /\ n * r = whole
  BY <1>1
<1> HIDE DEF whole
<1>3. x \in Nat /\ x <= MaxDuration
  <2>1. x = IF whole <= MaxDuration THEN whole ELSE MaxDuration
    <3>1. whole \in Int /\ MaxDuration \in Int
      BY <1>2, DurationsAssumption
    <3>2. Min({whole, MaxDuration}) = IF whole <= MaxDuration THEN whole ELSE MaxDuration
      BY <3>1, OfTwo
    <3> QED
      BY <3>2 DEF Saturating
  <2> QED
    BY <1>2, <2>1, DurationsAssumption
<1> HIDE DEF x
<1>4. y \in Nat /\ y >= x
  <2>1. Slack \in Nat /\ Slack >= 1
    BY DurationsAssumption
  <2> QED
    BY <1>3, <2>1
<1> HIDE DEF y
<1>5. Saturating(y) \in Nat /\ Saturating(y) >= x
  <2>1. Saturating(y) = IF y <= MaxDuration THEN y ELSE MaxDuration
    BY <1>4, OfTwo, DurationsAssumption DEF Saturating
  <2> QED
    BY <1>3, <1>4, <2>1, DurationsAssumption
<1>6. Max({Saturating(y), Floor}) \in Nat /\ Max({Saturating(y), Floor}) >= x
  <2> DEFINE z == Saturating(y)
  <2> HIDE DEF z
  <2>1. z \in Nat /\ z >= x /\ Floor \in Nat
    BY <1>5, DurationsAssumption DEF z
  <2>2. Max({z, Floor}) = IF z >= Floor THEN z ELSE Floor
    BY <2>1, OfTwo
  <2>3. Max({z, Floor}) \in Nat /\ Max({z, Floor}) >= x
    BY <1>3, <2>1, <2>2
  <2> QED
    BY <2>3 DEF z
<1>7. TimeLimit(c) = Max({Saturating(y), Floor}) /\ Saturating(DayCapOf(c) * RoundOf(c)) = x
  BY <1>2 DEF TimeLimit, r, n, whole, x, y
<1> QED
  BY <1>6, <1>7

\* A limit that can be waited for was never cut short, and is not less than
\* the rounds are.
LEMMA TimeForAll ==
  ASSUME NEW c, Sound(c), Reckoned(c)
  PROVE  TimeLimit(c) >= DayCapOf(c) * RoundOf(c)
<1> DEFINE whole == DayCapOf(c) * RoundOf(c)
           l == TimeLimit(c)
           x == Saturating(whole)
<1>1. whole \in Nat
  <2>1. DayCapOf(c) \in Nat /\ RoundOf(c) \in Nat
    BY LongestNight, DaysToPlay
  <2> QED
    BY <2>1
<1>2. l >= x /\ ~(l > MaxInstant) /\ l \in Nat
  <2>1. l >= x
    BY TimeEnough
  <2>2. ~(l > MaxInstant)
    BY DEF Reckoned, WaitPanics
  <2>3. l \in Nat
    BY TimeEnough
  <2> QED
    BY <2>1, <2>2, <2>3
<1>3. x = IF whole <= MaxDuration THEN whole ELSE MaxDuration
  <2> HIDE DEF whole
  <2> QED
    BY <1>1, OfTwo, DurationsAssumption DEF Saturating
<1> HIDE DEF whole, l, x
<1>4. l >= whole
  BY <1>1, <1>2, <1>3, DurationsAssumption
<1> QED
  BY <1>4 DEF whole, l

\* What is sound, and can be reckoned, can be played.
LEMMA SoundIsPlayable ==
  ASSUME NEW c, Sound(c), Reckoned(c)
  PROVE  Playable(c)
<1>1. /\ \A session \in Range(NightSessions) :
           c.timing[session].quiet \in 1 .. c.timing[session].limit
      /\ c.timing.day.limit > 0
  BY SoundMeans DEF SoundTiming
<1>2. Deals(c) # {} /\ \A d \in Deals(c) : Dealt(Ids(c), d)!Winner(Ids(c)) = "undecided"
  BY CanBeDealt, NotOverYet
<1>3. /\ Seated(c).refused = {} /\ Cardinality(Seated(c).roster) = Len(c.players)
      /\ Cardinality(Range(Streams(c))) = Len(Streams(c))
  BY AllSeated, StreamsDiffer
<1>4. DayCapOf(c) > 0 /\ TimeLimit(c) >= DayCapOf(c) * RoundOf(c)
  BY DaysToPlay, TimeForAll
<1> QED
  BY <1>1, <1>2, <1>3, <1>4 DEF Playable

(***************************************************************************)
(* What is written back plays the same game.                               *)
(***************************************************************************)

\* The effective configuration but for the log, which is of no consequence.
Reproduction(c, log) == [Effective(c) EXCEPT !.trajectory = log]

LEMMA ReproductionFields ==
  ASSUME NEW c, Sound(c), NEW log \in Logs \cup {NoPath}
  PROVE  LET d == Reproduction(c, log)
         IN  /\ d \in Schema /\ d.trajectory = log
             /\ d.seed = c.seed /\ d.players = c.players /\ d.roles = c.roles
             /\ d.moderator = c.moderator /\ d.timing = [c.timing EXCEPT !.dayCap = DayCapOf(c)]
             /\ \A session \in Range(NightSessions) : d.timing[session] = c.timing[session]
             /\ d.timing.day = c.timing.day /\ d.timing.dayCap = DayCapOf(c)
<1> DEFINE night == [quiet : Int, limit : Int]
           Timings == [pack : night, seer : night, doctor : night, day : [limit : Int],
                       dayCap : Nat \cup {Unset}]
           t == [c.timing EXCEPT !.dayCap = DayCapOf(c)]
           d == Reproduction(c, log)
<1>1. c \in Schema /\ c.timing \in Timings /\ DayCapOf(c) \in Nat
  BY DaysToPlay DEF Sound, Schema
<1>2. /\ t \in Timings /\ t.dayCap = DayCapOf(c) /\ t.day = c.timing.day
      /\ t.pack = c.timing.pack /\ t.seer = c.timing.seer /\ t.doctor = c.timing.doctor
  BY <1>1
<1>3. Range(NightSessions) = {"pack", "seer", "doctor"}
  BY DEF NightSessions, Range
<1>4. d = [c EXCEPT !.trajectory = log, !.timing = t]
  BY <1>1 DEF Reproduction, Effective, Resolved, Schema
<1> HIDE DEF d, t
<1>5. /\ d.trajectory = log /\ d.timing = t /\ d.seed = c.seed /\ d.players = c.players
      /\ d.roles = c.roles /\ d.moderator = c.moderator
  BY <1>1, <1>4 DEF Schema
<1>6. d \in Schema
  BY <1>1, <1>2, <1>4 DEF Schema
<1>7. \A session \in Range(NightSessions) : d.timing[session] = c.timing[session]
  BY <1>2, <1>3, <1>5
<1> QED
  BY <1>2, <1>5, <1>6, <1>7 DEF d, t

\* It is let through as the one it was made of was.
LEMMA ReproductionIsSound ==
  ASSUME NEW c, Sound(c), NEW log \in Logs \cup {NoPath}
  PROVE  Sound(Reproduction(c, log))
<1> DEFINE d == Reproduction(c, log)
<1>1. /\ d \in Schema /\ d.players = c.players /\ d.roles = c.roles /\ d.moderator = c.moderator
      /\ \A session \in Range(NightSessions) : d.timing[session] = c.timing[session]
      /\ d.timing.day = c.timing.day /\ d.timing.dayCap = DayCapOf(c)
  BY ReproductionFields
<1> HIDE DEF d
<1>2. RoleChecks(d) = RoleChecks(c)
  BY <1>1 DEF RoleChecks
<1>3. PlayerChecks(d) = PlayerChecks(c)
  BY <1>1, Zenon DEF PlayerChecks
<1>4. TimingChecks(d.timing) = TimingChecks(c.timing)
  <2> DEFINE a == [i \in DOMAIN NightSessions |-> SessionCheck(d.timing, i)]
             b == [i \in DOMAIN NightSessions |-> SessionCheck(c.timing, i)]
  <2>1. a = b
    <3>1. \A i \in DOMAIN NightSessions : d.timing[NightSessions[i]] = c.timing[NightSessions[i]]
      BY <1>1 DEF Range
    <3> QED
      BY <3>1 DEF SessionCheck
  <2>2. DayCheck(d.timing) = DayCheck(c.timing)
    <3>1. (d.timing.dayCap = 0) = (c.timing.dayCap = 0)
      BY <1>1, DaysToPlay, SoundMeans DEF SoundTiming
    <3> QED
      BY <1>1, <3>1 DEF DayCheck
  <2>3. /\ TimingChecks(d.timing) = FlattenSeq(a) \o DayCheck(d.timing)
        /\ TimingChecks(c.timing) = FlattenSeq(b) \o DayCheck(c.timing)
    BY Zenon DEF TimingChecks, SessionCheck, DayCheck
  <2> QED
    BY <2>1, <2>2, <2>3
<1>5. Validate(d) = Validate(c)
  BY <1>2, <1>3, <1>4 DEF Validate
<1>6. Durations(d.timing) = Durations(c.timing)
  BY <1>1 DEF Durations
<1> QED
  BY <1>1, <1>5, <1>6 DEF Sound, d

\* And its game is the game.
LEMMA ReproductionIsTheSame ==
  ASSUME NEW c, Sound(c), NEW log \in Logs \cup {NoPath}
  PROVE  /\ Reckoned(Reproduction(c, log)) = Reckoned(c)
         /\ GameOf(Reproduction(c, log)) = GameOf(c)
<1> DEFINE d == Reproduction(c, log)
<1>1. /\ d.seed = c.seed /\ d.players = c.players /\ d.roles = c.roles
      /\ d.moderator = c.moderator /\ d.timing = [c.timing EXCEPT !.dayCap = DayCapOf(c)]
      /\ \A session \in Range(NightSessions) : d.timing[session] = c.timing[session]
      /\ d.timing.day = c.timing.day /\ d.timing.dayCap = DayCapOf(c)
  BY ReproductionFields
<1> HIDE DEF d
<1>2. DealtBy(d) = DealtBy(c) /\ Ids(d) = Ids(c)
  BY <1>1 DEF DealtBy, Ids
<1>3. DayCapOf(d) = DayCapOf(c)
  BY <1>1, DaysToPlay, UnsetAssumption DEF DayCapOf
<1>4. Resolved(d) = Resolved(c)
  BY <1>1, <1>3 DEF Resolved
<1>5. RoundOf(d) = RoundOf(c)
  <2>1. {d.timing[NightSessions[i]].limit : i \in DOMAIN NightSessions}
          = {c.timing[NightSessions[i]].limit : i \in DOMAIN NightSessions}
    BY <1>1 DEF Range
  <2> QED
    BY <1>1, <2>1 DEF RoundOf
<1>6. TimeLimit(d) = TimeLimit(c)
  BY <1>3, <1>5 DEF TimeLimit
<1>7. Seated(d) = Seated(c)
  BY <1>1, <1>2, <1>6, Zenon DEF Seated
<1>8. GameOf(d) = GameOf(c)
  BY <1>2, <1>4, <1>7, Zenon DEF GameOf
<1>9. Reckoned(d) = Reckoned(c)
  BY <1>5, <1>6 DEF Reckoned, LimitPanics, WaitPanics
<1> QED
  BY <1>8, <1>9 DEF d

\* The effective configuration itself names no log.
LEMMA EffectiveIsReproduction ==
  ASSUME NEW c, Sound(c)
  PROVE  Effective(c) = Reproduction(c, NoPath)
  BY DEF Sound, Schema, Effective, Reproduction
LEMMA EffectiveIs ==
  ASSUME NEW c, Sound(c)
  PROVE  /\ Sound(Effective(c)) /\ Effective(c) \in Schema /\ Effective(c).trajectory = NoPath
         /\ Effective(c).moderator = c.moderator /\ Effective(c).seed = c.seed
<1> DEFINE log == NoPath
           d == Reproduction(c, log)
<1>1. log \in Logs \cup {NoPath} /\ log = NoPath
  OBVIOUS
<1>2. Effective(c) = d
  BY EffectiveIsReproduction
<1> HIDE DEF log
<1>3. Sound(d)
  BY <1>1, ReproductionIsSound
<1>4. d \in Schema /\ d.trajectory = log /\ d.moderator = c.moderator /\ d.seed = c.seed
  BY <1>1, ReproductionFields
<1> HIDE DEF d
<1> QED
  BY <1>1, <1>2, <1>3, <1>4

(***************************************************************************)
(* A play that is started has been let through.                            *)
(***************************************************************************)
LEMMA AcceptedIsSound ==
  ASSUME NEW c \in Schema, NEW seed \in Seeds \cup {0}, NEW log \in Logs \cup {NoPath},
         \A seconds \in Durations(c.timing) : IsDuration(seconds),
         Validate(Overridden(c, seed, log)) = "none"
  PROVE  /\ Sound(Overridden(c, seed, log))
         /\ Overridden(c, seed, log).trajectory = IF log = NoPath THEN c.trajectory ELSE log
         /\ seed = 0 => Overridden(c, seed, log)
                          = [c EXCEPT !.trajectory = Overridden(c, seed, log).trajectory]
<1> DEFINE d == Overridden(c, seed, log)
<1>1. c.seed \in Nat /\ c.trajectory \in Logs \cup {NoPath} /\ Seeds \subseteq Nat
  BY SeedsAssumption DEF Schema
<1>2. d \in Schema /\ d.timing = c.timing
  BY <1>1 DEF Overridden, Schema
<1>3. d.trajectory = IF log = NoPath THEN c.trajectory ELSE log
  BY DEF Overridden, Schema
<1>4. seed = 0 => d = [c EXCEPT !.trajectory = d.trajectory]
  BY <1>3 DEF Overridden, Schema
<1> HIDE DEF d
<1>5. Sound(d)
  BY <1>2 DEF Sound, d
<1> QED
  BY <1>3, <1>4, <1>5 DEF d

(***************************************************************************)
(* What holds of the files, the play under way and the pair it may have    *)
(* left, between any two steps.                                            *)
(***************************************************************************)
File ==
  {Missing, Empty}
  \cup [is : {"config"}, config : Schema, from : Schema \cup {NoConfig}]
  \cup [is : {"log"}, config : Schema, whole : BOOLEAN]
UnderWay ==
  [stage : {"loaded", "writing", "written", "playing"}, config : Schema, named : BOOLEAN,
   from : Schema \cup {NoConfig}]

\* A file that is the effective configuration of one is what was made of one
\* that had been let through.
FilesAre ==
  /\ disk \in [Paths -> File]
  /\ \A p \in Paths : (disk[p].is = "config" /\ disk[p].from # NoConfig) =>
       Sound(disk[p].from) /\ disk[p].config = Effective(disk[p].from)

\* A play has been let through.  Of an effective configuration only the log can
\* have been changed, and where nobody named one there is none.
PlayIs ==
  play # Idle =>
    /\ play \in UnderWay /\ Sound(play.config)
    /\ play.from # NoConfig =>
         /\ Sound(play.from)
         /\ play.config = [Effective(play.from) EXCEPT !.trajectory = play.config.trajectory]
    /\ play.stage # "playing" => play.config.trajectory \in Logs
    /\ ~play.named => play.stage = "playing" /\ play.config.trajectory = NoPath

\* What is beside a log is written before it.
BesideTheLog(log, c) == disk[EffectivePath(log)] = Configuration(Effective(c), c)
Writing == play.stage \in {"writing", "written", "playing"} /\ play.config.trajectory # NoPath
WrittenIs ==
  play # Idle /\ Writing =>
    /\ pair = NoPair
    /\ play.stage # "writing" => BesideTheLog(play.config.trajectory, play.config)

\* And stays as it is until another play writes.
PairIs ==
  pair # NoPair =>
    /\ pair.log \in Logs /\ Sound(pair.config)
    /\ disk[pair.log] = LogOf(pair.config, TRUE) /\ BesideTheLog(pair.log, pair.config)

CommandsInv == FilesAre /\ PlayIs /\ WrittenIs /\ PairIs

LEMMA FilesDiffer ==
  ASSUME NEW log \in Logs
  PROVE  EffectivePath(log) \in Paths /\ log \in Paths /\ EffectivePath(log) # log
<1>1. log \in [name : {log.name}, toml : Nat]
  BY PathsAssumption
<1>2. log.toml + 1 # log.toml
  BY <1>1
<1>3. EffectivePath(log).toml = log.toml + 1
  BY <1>1 DEF EffectivePath
<1> QED
  BY <1>2, <1>3, PathsAssumption

LEMMA InitCommandsInv == InitCommands => CommandsInv
<1> SUFFICES ASSUME InitCommands PROVE CommandsInv
  OBVIOUS
<1>1. PICK c \in Texts :
        disk = [p \in Paths |-> IF p = Configured THEN Configuration(c, NoConfig) ELSE Missing]
  BY DEF InitCommands
<1>2. Configuration(c, NoConfig) \in File /\ Missing \in File
  BY TextsAssumption DEF Configuration, File
<1>3. FilesAre
  <2>1. disk \in [Paths -> File]
    BY <1>1, <1>2
  <2>2. \A p \in Paths : disk[p].is = "config" => disk[p].from = NoConfig
    BY <1>1 DEF Configuration, Missing
  <2> QED
    BY <2>1, <2>2 DEF FilesAre
<1>4. play = Idle /\ pair = NoPair
  BY DEF InitCommands
<1> QED
  BY <1>3, <1>4 DEF CommandsInv, PlayIs, WrittenIs, PairIs

\* A play is started of what has been let through, and writes nothing yet.
LEMMA PlayStarts ==
  ASSUME CommandsInv, NEW path \in Paths, NEW seed \in Seeds \cup {0},
         NEW log \in Logs \cup {NoPath}, Play(path, seed, log)
  PROVE  CommandsInv'
<1> DEFINE read == disk[path]
           c == Overridden(read.config, seed, log)
<1>1. play = Idle /\ UNCHANGED <<disk, pair>>
  BY DEF Play
<1>2. FilesAre' /\ PairIs'
  BY <1>1 DEF CommandsInv, FilesAre, PairIs, BesideTheLog
<1>3. CASE ~Accepted(path, seed, log)
  <2>1. play' = Idle
    BY <1>3 DEF Play
  <2> QED
    BY <1>2, <2>1 DEF CommandsInv, PlayIs, WrittenIs
<1>4. CASE Accepted(path, seed, log)
  <2>1. play' = [stage  |-> IF c.trajectory = NoPath THEN "playing" ELSE "loaded",
                 config |-> c,
                 named  |-> log # NoPath \/ read.from = NoConfig,
                 from   |-> IF seed = 0 THEN read.from ELSE NoConfig]
    BY <1>4 DEF Play
  <2>2. /\ read.is = "config" /\ read \in File
        /\ \A seconds \in Durations(read.config.timing) : IsDuration(seconds)
        /\ Validate(c) = "none"
        /\ read.from # NoConfig => Sound(read.from) /\ read.config = Effective(read.from)
    BY <1>4 DEF Accepted, Loads, CommandsInv, FilesAre
  <2>3. read.config \in Schema /\ read.from \in Schema \cup {NoConfig}
    BY <2>2 DEF File, Missing, Empty
  <2> HIDE DEF read
  <2>4. /\ Sound(c) /\ c.trajectory = IF log = NoPath THEN read.config.trajectory ELSE log
        /\ seed = 0 => c = [read.config EXCEPT !.trajectory = c.trajectory]
    BY <2>2, <2>3, AcceptedIsSound
  <2>5. c \in Schema /\ c.trajectory \in Logs \cup {NoPath}
    BY <2>4 DEF Sound, Schema
  <2>6. read.from # NoConfig => read.config.trajectory = NoPath
    BY <2>2, EffectiveIs
  <2> HIDE DEF c
  <2>7. play' \in UnderWay
    BY <2>1, <2>3, <2>5 DEF UnderWay
  <2>8. play'.from # NoConfig =>
          /\ Sound(play'.from)
          /\ play'.config = [Effective(play'.from) EXCEPT !.trajectory = play'.config.trajectory]
    BY <2>1, <2>2, <2>4
  <2>9. play'.stage # "playing" => play'.config.trajectory \in Logs
    BY <2>1, <2>5
  <2>10. ~play'.named => play'.stage = "playing" /\ play'.config.trajectory = NoPath
    BY <2>1, <2>4, <2>6
  <2>11. PlayIs'
    BY <2>1, <2>4, <2>7, <2>8, <2>9, <2>10 DEF PlayIs
  <2>12. WrittenIs'
    BY <2>1 DEF WrittenIs, Writing
  <2> QED
    BY <1>2, <2>11, <2>12 DEF CommandsInv
<1> QED
  BY <1>3, <1>4

\* A step of a play that only moves it on.
LEMMA PlayMovesOn ==
  ASSUME CommandsInv, play # Idle, NEW stage \in {"loaded", "writing", "written", "playing"},
         play' = [play EXCEPT !.stage = stage],
         stage # "playing" => play.config.trajectory \in Logs,
         play.named
  PROVE  PlayIs' /\ play'.config = play.config /\ play'.stage = stage
  BY DEF CommandsInv, PlayIs, UnderWay

LEMMA CommandsStep == CommandsInv /\ [NextCommand]_cliVars => CommandsInv'
<1> SUFFICES ASSUME CommandsInv, [NextCommand]_cliVars PROVE CommandsInv'
  OBVIOUS
<1> DEFINE log == play.config.trajectory
           c == play.config
<1>1. CASE ClearEffective
  <2>1. /\ play.stage = "loaded" /\ pair' = NoPair /\ play' = [play EXCEPT !.stage = "writing"]
        /\ disk' = [disk EXCEPT ![EffectivePath(log)] = Empty]
    BY <1>1 DEF ClearEffective
  <2>2. play # Idle /\ log \in Logs /\ play.named
    BY <2>1 DEF CommandsInv, PlayIs, Idle
  <2>3. PlayIs' /\ play'.config = c /\ play'.stage = "writing"
    BY <2>1, <2>2, PlayMovesOn
  <2>4. FilesAre'
    BY <2>1, <2>2, FilesDiffer DEF CommandsInv, FilesAre, File, Empty
  <2>5. WrittenIs' /\ PairIs'
    BY <2>1, <2>3 DEF WrittenIs, PairIs
  <2> QED
    BY <2>3, <2>4, <2>5 DEF CommandsInv
<1>2. CASE WriteEffective
  <2>1. /\ play.stage = "writing" /\ pair' = pair /\ play' = [play EXCEPT !.stage = "written"]
        /\ disk' = [disk EXCEPT ![EffectivePath(log)] = Configuration(Effective(c), c)]
    BY <1>2 DEF WriteEffective
  <2>2. play # Idle /\ log \in Logs /\ play.named /\ Sound(c)
    BY <2>1 DEF CommandsInv, PlayIs, Idle
  <2>3. PlayIs' /\ play'.config = c /\ play'.stage = "written"
    BY <2>1, <2>2, PlayMovesOn
  <2>4. Configuration(Effective(c), c) \in File
    <3>1. c \in Schema
      BY <2>2 DEF Sound
    <3>2. Effective(c) \in Schema
      BY <2>2, EffectiveIs
    <3> QED
      BY <3>1, <3>2 DEF Configuration, File
  <2> DEFINE e == EffectivePath(log)
             f == Configuration(Effective(c), c)
  <2>5. f.from = c /\ f.config = Effective(c)
    BY DEF Configuration
  <2>6. e \in Paths
    BY <2>2, FilesDiffer
  <2>7. FilesAre'
    <3>1. disk' = [disk EXCEPT ![e] = f] /\ f \in File
      BY <2>1, <2>4
    <3> HIDE DEF e, f, c
    <3> QED
      BY <2>2, <2>5, <2>6, <3>1 DEF CommandsInv, FilesAre
  <2>8. pair = NoPair
    <3>1. log # NoPath
      BY <2>2, SeedsAssumption
    <3> QED
      BY <2>1, <2>2, <3>1 DEF CommandsInv, WrittenIs, Writing
  <2>9. disk'[e] = f
    BY <2>1, <2>6 DEF CommandsInv, FilesAre
  <2>10. WrittenIs' /\ PairIs'
    BY <2>1, <2>3, <2>8, <2>9 DEF WrittenIs, PairIs, BesideTheLog
  <2> QED
    BY <2>3, <2>7, <2>10 DEF CommandsInv
<1>3. CASE CreateLog
  <2>1. /\ play.stage = "written" /\ pair' = pair /\ play' = [play EXCEPT !.stage = "playing"]
        /\ disk' = [disk EXCEPT ![log] = LogOf(c, FALSE)]
    BY <1>3 DEF CreateLog
  <2>2. play # Idle /\ log \in Logs /\ play.named /\ Sound(c) /\ log # NoPath
    BY <2>1, SeedsAssumption DEF CommandsInv, PlayIs, Idle
  <2>3. PlayIs' /\ play'.config = c /\ play'.stage = "playing"
    BY <2>1, <2>2, PlayMovesOn
  <2>4. FilesAre'
    <3>1. LogOf(c, FALSE) \in File /\ LogOf(c, FALSE).is # "config"
      BY <2>2 DEF LogOf, File, Sound
    <3> QED
      BY <2>1, <2>2, <3>1, FilesDiffer DEF CommandsInv, FilesAre
  <2>5. pair = NoPair /\ BesideTheLog(log, c)
    BY <2>1, <2>2 DEF CommandsInv, WrittenIs, Writing
  <2>6. disk'[EffectivePath(log)] = disk[EffectivePath(log)]
    BY <2>1, <2>2, FilesDiffer DEF CommandsInv, FilesAre
  <2>7. WrittenIs' /\ PairIs'
    BY <2>1, <2>3, <2>5, <2>6 DEF WrittenIs, PairIs, BesideTheLog
  <2> QED
    BY <2>3, <2>4, <2>7 DEF CommandsInv
<1>4. CASE Finished
  <2>1. play.stage = "playing" /\ play' = Idle
    BY <1>4 DEF Finished
  <2>2. play # Idle /\ Sound(c) /\ c \in Schema
    BY <2>1 DEF CommandsInv, PlayIs, Idle, Sound
  <2>3. PlayIs' /\ WrittenIs'
    BY <2>1 DEF PlayIs, WrittenIs
  <2>4. CASE log = NoPath
    <3>1. UNCHANGED <<disk, pair>>
      BY <1>4, <2>4 DEF Finished
    <3> QED
      BY <2>3, <3>1 DEF CommandsInv, FilesAre, PairIs, BesideTheLog
  <2>5. CASE log # NoPath
    <3>1. /\ disk' = [disk EXCEPT ![log] = LogOf(c, TRUE)] /\ pair' = [log |-> log, config |-> c]
      BY <1>4, <2>5 DEF Finished
    <3>2. log \in Logs
      BY <2>2, <2>5 DEF Schema
    <3>3. LogOf(c, TRUE) \in File /\ LogOf(c, TRUE).is # "config"
      BY <2>2 DEF LogOf, File
    <3>4. FilesAre'
      BY <3>1, <3>2, <3>3, FilesDiffer DEF CommandsInv, FilesAre
    <3>5. BesideTheLog(log, c)
      BY <2>1, <2>2, <2>5 DEF CommandsInv, WrittenIs, Writing
    <3>6. /\ disk'[EffectivePath(log)] = disk[EffectivePath(log)]
          /\ disk'[log] = LogOf(c, TRUE)
      BY <3>1, <3>2, FilesDiffer DEF CommandsInv, FilesAre
    <3>7. PairIs'
      BY <2>2, <3>1, <3>2, <3>5, <3>6 DEF PairIs, BesideTheLog
    <3> QED
      BY <2>3, <3>4, <3>7 DEF CommandsInv
  <2> QED
    BY <2>4, <2>5
<1>5. CASE GivenUp
  BY <1>5 DEF GivenUp, CommandsInv, FilesAre, PlayIs, WrittenIs, PairIs, BesideTheLog
<1>6. CASE UNCHANGED cliVars
  BY <1>6 DEF cliVars, CommandsInv, FilesAre, PlayIs, WrittenIs, Writing, PairIs, BesideTheLog
<1>7. ASSUME NEW path \in Paths, NEW seed \in Seeds \cup {0}, NEW t \in Logs \cup {NoPath},
             Play(path, seed, t)
      PROVE  CommandsInv'
  BY <1>7, PlayStarts
<1> QED
  BY <1>1, <1>2, <1>3, <1>4, <1>5, <1>6, <1>7 DEF NextCommand, Quit

LEMMA CommandsHold == SpecCommands => []CommandsInv
  BY InitCommandsInv, CommandsStep, PTL DEF SpecCommands

(***************************************************************************)
(* The theorems.                                                           *)
(***************************************************************************)

\* Whatever files there are and whatever --seed and --trajectory are given, a
\* configuration that reaches a game is one that can be played, unless its
\* clocks cannot be reckoned with.
THEOREM WhatIsAcceptedIsPlayable == SpecCommands => []AcceptedIsPlayable
<1>1. CommandsInv => AcceptedIsPlayable
  BY SoundIsPlayable DEF CommandsInv, PlayIs, AcceptedIsPlayable
<1> QED
  BY <1>1, CommandsHold, PTL

\* The log a play left is replayed as the game it was, under its own seed and
\* by its own moderator.
THEOREM APairIsReplayed == SpecCommands => []PairIsReplayed
<1>1. CommandsInv => PairIsReplayed
  <2> SUFFICES ASSUME CommandsInv, pair # NoPair, NEW given
               PROVE  Replay(pair.log, given)
                        = [is |-> "shown", seed |-> <<pair.config.seed>>,
                           moderator |-> pair.config.moderator, game |-> pair.config]
    BY DEF PairIsReplayed
  <2> DEFINE c == pair.config
             beside == disk[EffectivePath(pair.log)]
  <2>1. Sound(c) /\ disk[pair.log] = LogOf(c, TRUE) /\ beside = Configuration(Effective(c), c)
    BY DEF CommandsInv, PairIs, BesideTheLog
  <2>3. Sound(Effective(c)) /\ Effective(c).moderator = c.moderator /\ Effective(c).seed = c.seed
    BY <2>1, EffectiveIs
  <2>4. Loads(beside)
    BY <2>1, <2>3 DEF Loads, Configuration, Sound
  <2>5. beside.config = Effective(c)
    BY <2>1 DEF Configuration
  <2>6. Reads(disk[pair.log], c.moderator) /\ disk[pair.log].config = c
    BY <2>1 DEF Reads, LogOf
  <2> HIDE DEF c, beside
  <2> QED
    BY <2>3, <2>4, <2>5, <2>6 DEF Replay, c, beside
<1> QED
  BY <1>1, CommandsHold, PTL

\* Played again, the effective configuration of a run is the game of the run,
\* and it is never refused.
THEOREM AReproductionIsTheGame == SpecCommands => []ReproductionIsTheGame
<1>1. CommandsInv => ReproductionIsTheGame
  <2> SUFFICES ASSUME CommandsInv PROVE ReproductionIsTheGame
    OBVIOUS
  <2>1. ASSUME play # Idle, play.from # NoConfig
        PROVE  /\ Reckoned(play.config) = Reckoned(play.from)
               /\ GameOf(play.config) = GameOf(play.from)
    <3>1. /\ Sound(play.from) /\ play.config.trajectory \in Logs \cup {NoPath}
          /\ play.config = Reproduction(play.from, play.config.trajectory)
      BY <2>1 DEF CommandsInv, PlayIs, Reproduction, Sound, Schema
    <3> DEFINE log == play.config.trajectory
    <3> HIDE DEF log
    <3>2. /\ Reckoned(Reproduction(play.from, log)) = Reckoned(play.from)
          /\ GameOf(Reproduction(play.from, log)) = GameOf(play.from)
      BY <3>1, ReproductionIsTheSame DEF log
    <3> QED
      BY <3>1, <3>2 DEF log
  <2>2. ASSUME NEW p \in Paths, disk[p].is = "config", disk[p].from # NoConfig
        PROVE  Validate(disk[p].config) = "none"
    <3>1. Sound(disk[p].from) /\ disk[p].config = Effective(disk[p].from)
      BY <2>2 DEF CommandsInv, FilesAre
    <3>2. Sound(disk[p].config)
      BY <3>1, EffectiveIs
    <3> QED
      BY <3>2 DEF Sound
  <2> QED
    BY <2>1, <2>2 DEF ReproductionIsTheGame
<1> QED
  BY <1>1, CommandsHold, PTL

\* No play whose user named no log writes anything.
THEOREM AReproductionSparesTheLog == SpecCommands => ReproductionSparesTheLog
<1>1. CommandsInv /\ [NextCommand]_cliVars => [disk' # disk => play.named]_cliVars
  <2> SUFFICES ASSUME CommandsInv, NextCommand, disk' # disk PROVE play.named
    BY DEF cliVars
  <2>1. ClearEffective \/ WriteEffective \/ CreateLog \/ Finished
    BY DEF NextCommand, GivenUp, Quit, Play, cliVars
  <2>2. play # Idle /\ (play.stage # "playing" \/ play.config.trajectory # NoPath)
    <3>1. CASE ClearEffective \/ WriteEffective \/ CreateLog
      <4>1. play.stage \in {"loaded", "writing", "written"}
        BY <3>1 DEF ClearEffective, WriteEffective, CreateLog
      <4> QED
        BY <4>1 DEF Idle
    <3>2. CASE Finished
      <4>1. play.stage = "playing" /\ (play.config.trajectory = NoPath => disk' = disk)
        BY <3>2 DEF Finished
      <4> QED
        BY <4>1 DEF Idle
    <3> QED
      BY <2>1, <3>1, <3>2
  <2> QED
    BY <2>2 DEF CommandsInv, PlayIs
<1> QED
  BY <1>1, CommandsHold, PTL DEF SpecCommands, ReproductionSparesTheLog
=============================================================================
