----------------------------- MODULE TableProofs -----------------------------
(***************************************************************************)
(* What Table promises of its players, proved for every deal, every timing *)
(* and every delay: what a player knows, with what it has still to read,   *)
(* is the game; the selections it has seen are those that count; and no    *)
(* relay is ever for somebody who is gone.                                 *)
(*                                                                         *)
(* What a call of the moderator's has to say is followed from one game to  *)
(* the next (Informs): whoever knew the game the call found knows the game *)
(* it leaves once it has heard it all.  The mail in between is so many     *)
(* messages the fold has yet to take in (Folding).                         *)
(***************************************************************************)
EXTENDS Table, GameProofs

Learning == INSTANCE Folding WITH Op <- Observed

(***************************************************************************)
(* Types.                                                                  *)
(***************************************************************************)
Mail == Narrations \cup Relays
Burials == [round : Nat, cause : {"Devoured", "Lynched", Nothing}, role : Roles \cup {Nothing}]
Knowledges ==
  [round : Nat, phase : Phases, living : SUBSET Players, pack : SUBSET Players,
   lastProtected : Target, selections : [Players -> Target], dead : [Players -> Burials],
   investigations : [Players -> {"Werewolves", "Village", Nothing}], over : BOOLEAN]
Ballots == [is : {"select"}, from : Players, at : Nat,
            selection : [round : Nat, kind : Kinds, target : Players, seenBy : SUBSET Players]]
Threads == {"waiting", "running", "stopped", "panicked"}
Conditions == {"waiting", "running", "told", "stopped"}

(***************************************************************************)
(* What there is to know of a game.                                        *)
(***************************************************************************)
\* p knows who is dead and what they were, its pack, and whether it is over, and
\* nothing it has found is false.
IsAbreast(x, p, k) ==
  /\ k.pack = IF p \in Pack THEN Pack \cap x.living ELSE {}
  /\ k.over = Over(x)
  /\ \A q \in Players : /\ k.dead[q].role = IF q \in x.living THEN Nothing ELSE RoleOf[q]
                        /\ k.dead[q].round <= x.round
                        /\ k.investigations[q] \in {Nothing, Faction(RoleOf[q])}
Abreast(x) == [p \in Players |-> {k \in Knowledges : IsAbreast(x, p, k)}]

\* And the moment, and who lives.
IsAware(x, p, k) ==
  IsAbreast(x, p, k) /\ k.round = x.round /\ k.phase = x.phase /\ k.living = x.living
Aware(x) == [p \in Players |-> {k \in Knowledges : IsAware(x, p, k)}]

\* The selection of q's that p has seen: the one there is, if they share a
\* session.
Seen(x, p, q) ==
  LET shared == {k \in {"Devour", "Nominate"} : {p, q} \subseteq x.sessions[k].members}
  IN  IF shared = {} THEN Nobody ELSE x.sessions[CHOOSE k \in shared : TRUE].selections[q]

\* And, while the game goes on, what is being selected.
IsKnown(x, p, k) ==
  IsAware(x, p, k) /\ (~Over(x) => \A q \in Players \ {p} : k.selections[q] = Seen(x, p, q))
Known(x) == [p \in Players |-> {k \in Knowledges : IsKnown(x, p, k)}]

\* The sessions the pack and the day meet in have all who are asked.
Convened(x) ==
  ~Over(x) => \A k \in {"Devour", "Nominate"} : PhaseOf(k) = x.phase =>
    x.sessions[k].members = {p \in x.living : AskedIn(RoleOf[p], x.phase) = k}

(***************************************************************************)
(* What has been said of a game.                                           *)
(***************************************************************************)
\* A phase before that of x, and the same.
Past(x, round, phase) ==
  round < x.round \/ (round = x.round /\ phase = "Night" /\ x.phase = "Day")
Present(x, round, phase) == round = x.round /\ phase = x.phase

\* A message p may have to read yet: of no phase to come, of this one as it is,
\* and of the dead only.
Fits(x, p, m) ==
  /\ m \in Mail
  /\ m.is = "Assigned" => m = Assigned(p)
  /\ m.is = "Eliminated" => m.who \notin x.living
  /\ m.is = "PhaseBegan" =>
       \/ Past(x, m.round, m.phase)
       \/ Present(x, m.round, m.phase) /\ (~Over(x) => m.living = x.living)

\* What a call that makes the game x may say.
News(x) ==
  {m \in Mail :
    /\ m.is # "Assigned"
    /\ m.is = "Eliminated" => m.who \notin x.living
    /\ m.is = "PhaseBegan" => Present(x, m.round, m.phase) /\ m.living = x.living}

\* The others who should see a selection of p's.
Witnesses(x, p, kind) ==
  CASE kind = "Devour" -> (Pack \cap x.living) \ {p}
    [] kind = "Nominate" -> x.living \ {p}
    [] OTHER -> {}

\* A selection on its way: of no phase to come, and, if it counts, for those
\* who should see it.
Made(x, o) ==
  LET sel == o.selection
  IN  \/ Past(x, sel.round, PhaseOf(sel.kind))
      \/ /\ Present(x, sel.round, PhaseOf(sel.kind))
         /\ ~Over(x) /\ o.from \in x.living => sel.seenBy = Witnesses(x, o.from, sel.kind)

(***************************************************************************)
(* The invariant.                                                          *)
(***************************************************************************)
Typed ==
  /\ mod \in ModType /\ mod.effects = << >> /\ g.says = << >>
  /\ moderating \in Threads /\ clock \in Nat
  /\ timer \subseteq [is : {"look", "farewell"}, deadline : Nat]
  /\ heard \in Seq(Ballots)
  /\ lively \subseteq Players /\ mail \in [lively -> Seq(Mail)] /\ knows \in [lively -> Knowledges]
  /\ status \in [Players -> Conditions]

\* Nobody is started yet; or the game can be played, the living run, and the
\* farewell is set once it is over.
Played ==
  IF moderating = "waiting"
    THEN /\ mod = NewModerator /\ heard = << >>
         /\ \A p \in Players : status[p] = "waiting"
         /\ \A p \in lively : mail[p] = << >> /\ knows[p] = NewKnowledge
    ELSE /\ InPlay(g) /\ Convened(g) /\ (mod.farewell => Over(g)) /\ (mod.stopped => Over(g))
         /\ moderating = "running" => ~mod.stopped
         /\ {p \in Players : status[p] = "running"} = IF mod.stopped THEN {} ELSE g.living

\* What there is to read, and what there is to count.
MailFits == \A p \in lively : \A i \in DOMAIN mail[p] : Fits(g, p, mail[p][i])
ChoicesFit == \A i \in DOMAIN heard : Made(g, heard[i])

\* A werewolf knows its pack, or reads of it before it reads anything else.
PackIsKnown ==
  \A p \in lively :
    /\ knows[p].pack \subseteq Pack
    /\ p \in Pack /\ status[p] = "running" =>
         \/ mail[p] # << >> /\ Head(mail[p]) = Assigned(p)
         \/ Pack \cap g.living \subseteq knows[p].pack

\* Whoever runs knows the game, once it has read its mail.
GameIsKnown == \A p \in Running : CaughtUp(p) \in Known(g)[p]

TInv == Typed /\ Played /\ MailFits /\ ChoicesFit /\ PackIsKnown /\ GameIsKnown

(***************************************************************************)
(* What a message makes of what is known.                                  *)
(***************************************************************************)
LEMMA NewKnowledgeType ==
  /\ NewKnowledge \in Knowledges /\ NewKnowledge.pack = {}
<1>1. Unseen \in [Players -> Target] /\ [p \in Players |-> Alive] \in [Players -> Burials]
      /\ [p \in Players |-> Nothing] \in [Players -> {"Werewolves", "Village", Nothing}]
  BY DEF Unseen, Alive, Target, Burials
<1> QED
  BY <1>1 DEF NewKnowledge, Knowledges, Phases, Target

\* Of what is known, the moment, the dead, and the findings: the same in n as in k.
SameMoment(k, n) == n.round = k.round /\ n.phase = k.phase /\ n.living = k.living
SameDead(k, n) == n.dead = k.dead /\ n.pack = k.pack
SameRest(k, n) == n.investigations = k.investigations /\ n.over = k.over

\* What is observed is one field's, or a phase's, or of somebody dead.
LEMMA ObservedFields ==
  ASSUME NEW k \in Knowledges, NEW m \in Mail
  PROVE  LET n == Observed(k, m)
         IN  /\ n \in Knowledges
             /\ m.is = "Assigned" =>
                  /\ n.pack = m.pack /\ n.dead = k.dead /\ n.selections = k.selections
                  /\ SameMoment(k, n) /\ SameRest(k, n)
             /\ m.is = "PhaseBegan" =>
                  /\ n.round = m.round /\ n.phase = m.phase /\ n.living = m.living /\ n.selections = Unseen
                  /\ SameDead(k, n) /\ SameRest(k, n)
             /\ m.is = "Eliminated" =>
                  /\ m.who \in Players
                  /\ n.living = k.living \ {m.who} /\ n.pack = k.pack \ {m.who}
                  /\ n.dead = [k.dead EXCEPT ![m.who] = [round |-> m.round, cause |-> m.cause, role |-> m.role]]
                  /\ n.round = k.round /\ n.phase = k.phase /\ n.selections = k.selections
                  /\ SameRest(k, n)
             /\ m.is = "Investigated" =>
                  /\ m.target \in Players
                  /\ n.investigations = [k.investigations EXCEPT ![m.target] = m.faction]
                  /\ SameMoment(k, n) /\ SameDead(k, n) /\ n.over = k.over /\ n.selections = k.selections
             /\ m.is = "Relayed" =>
                  /\ m.envelope.from \in Players
                  /\ n.selections = [k.selections EXCEPT ![m.envelope.from] = m.envelope.target]
                  /\ SameMoment(k, n) /\ SameDead(k, n) /\ SameRest(k, n)
             /\ m.is = "Outcome" =>
                  /\ n.over = TRUE /\ n.investigations = k.investigations /\ n.selections = k.selections
                  /\ SameMoment(k, n) /\ SameDead(k, n)
             /\ m.is \in {"NoDeath", "NoLynch"} => n = k
<1> USE DEF SameMoment, SameDead, SameRest
<1>1. CASE m \in [is : {"Assigned"}, role : Roles, pack : SUBSET Players]
  BY <1>1 DEF Observed, Knowledges
<1>2. CASE m \in [is : {"PhaseBegan"}, round : Nat, phase : Phases, living : SUBSET Players]
  <2>1. Unseen \in [Players -> Target]
    BY DEF Unseen, Target
  <2> QED
    BY <1>2, <2>1 DEF Observed, Knowledges
<1>3. CASE m \in [is : {"Eliminated"}, who : Players, role : Roles, round : Nat, cause : {"Devoured", "Lynched"}]
  <2> DEFINE b == [round |-> m.round, cause |-> m.cause, role |-> m.role]
             dead == [k.dead EXCEPT ![m.who] = b]
  <2>1. b \in Burials
    BY <1>3 DEF Burials
  <2>2. dead \in [Players -> Burials]
    BY <1>3, <2>1 DEF Knowledges
  <2>3. Observed(k, m) = Buried(k, m) /\ m.who \in Players /\ m.is = "Eliminated"
    BY <1>3 DEF Observed
  <2>4. Buried(k, m) = [k EXCEPT !.living = k.living \ {m.who}, !.pack = k.pack \ {m.who}, !.dead = dead]
    BY DEF Buried
  <2> HIDE DEF dead
  <2> DEFINE n == Observed(k, m)
  <2>5. /\ n \in Knowledges /\ n.living = k.living \ {m.who} /\ n.pack = k.pack \ {m.who} /\ n.dead = dead
        /\ n.round = k.round /\ n.phase = k.phase /\ n.selections = k.selections
        /\ n.investigations = k.investigations /\ n.over = k.over
    BY <2>2, <2>3, <2>4 DEF Knowledges
  <2> HIDE DEF n
  <2> QED
    BY <2>3, <2>5 DEF dead, n
<1>4. CASE m \in [is : {"Investigated"}, target : Players, faction : {"Werewolves", "Village"}]
  <2> DEFINE found == [k.investigations EXCEPT ![m.target] = m.faction]
             n == Observed(k, m)
  <2>1. found \in [Players -> {"Werewolves", "Village", Nothing}] /\ m.is = "Investigated" /\ m.target \in Players
    BY <1>4 DEF Knowledges
  <2>2. n = [k EXCEPT !.investigations = found]
    BY <1>4 DEF Observed
  <2> HIDE DEF found, n
  <2>3. /\ n \in Knowledges /\ n.investigations = found /\ SameMoment(k, n) /\ SameDead(k, n)
        /\ n.over = k.over /\ n.selections = k.selections
    BY <2>1, <2>2 DEF Knowledges
  <2> QED
    BY <2>1, <2>3 DEF found, n
<1>5. CASE m \in Relays
  <2> DEFINE chosen == [k.selections EXCEPT ![m.envelope.from] = m.envelope.target]
             n == Observed(k, m)
  <2>1. chosen \in [Players -> Target] /\ m.envelope.from \in Players
    BY <1>5 DEF Knowledges, Relays, Envelopes, Target
  <2>2. n = [k EXCEPT !.selections = chosen] /\ m.is = "Relayed"
    BY <1>5 DEF Observed, Relays
  <2> HIDE DEF chosen, n
  <2>3. /\ n \in Knowledges /\ n.selections = chosen /\ SameMoment(k, n) /\ SameDead(k, n) /\ SameRest(k, n)
    BY <2>1, <2>2 DEF Knowledges
  <2> QED
    BY <2>1, <2>2, <2>3 DEF chosen, n
<1>6. CASE m \in [is : {"Outcome"}, winner : Winners, rounds : Nat, living : SUBSET Players]
  BY <1>6 DEF Observed, Knowledges
<1>7. CASE m \in [is : {"NoDeath", "NoLynch"}]
  BY <1>7 DEF Observed
<1> QED
  BY <1>1, <1>2, <1>3, <1>4, <1>5, <1>6, <1>7, Zenon DEF Mail, Narrations

(***************************************************************************)
(* Reading.                                                                *)
(***************************************************************************)
\* What is known once these messages are read.
Reads(k, s) == FoldLeft(Observed, k, s)

LEMMA ReadsIsFold == \A k, s : Reads(k, s) = Learning!Fold(k, s)
  BY Zenon DEF Reads, Learning!Fold, Learning!FoldLeft, FoldLeft, Learning!MapThenFoldSet, MapThenFoldSet,
               Learning!Max, Max

\* The next is read first, the rest after it; two batches one after the other.
LEMMA ReadsFacts ==
  /\ \A k : Reads(k, << >>) = k
  /\ \A k, s : s \in Seq(Mail) /\ s # << >> => Reads(k, s) = Reads(Observed(k, Head(s)), Tail(s))
  /\ \A k, s, t : s \in Seq(Mail) /\ t \in Seq(Mail) => Reads(k, s \o t) = Reads(Reads(k, s), t)
<1>1. ASSUME NEW k PROVE Reads(k, << >>) = k
  BY ReadsIsFold, Learning!FoldNothing
<1>2. ASSUME NEW k, NEW s, s \in Seq(Mail), s # << >>
      PROVE  Reads(k, s) = Reads(Observed(k, Head(s)), Tail(s))
  <2>1. Learning!Fold(k, s) = Learning!Fold(Observed(k, Head(s)), Tail(s))
    BY <1>2, Learning!FoldFirst
  <2> QED
    BY <2>1, ReadsIsFold
<1>3. ASSUME NEW k, NEW s, NEW t, s \in Seq(Mail), t \in Seq(Mail)
      PROVE  Reads(k, s \o t) = Reads(Reads(k, s), t)
  <2>1. Learning!Fold(k, s \o t) = Learning!Fold(Learning!Fold(k, s), t)
    BY <1>3, Learning!FoldInTwo
  <2> QED
    BY <2>1, ReadsIsFold
<1> QED
  BY <1>1, <1>2, <1>3

\* One message.
LEMMA ReadsOne ==
  ASSUME NEW k, NEW m \in Mail
  PROVE  Reads(k, <<m>>) = Observed(k, m)
<1> DEFINE one == <<m>>
           none == << >>
<1>1. one \in Seq(Mail) /\ one # << >> /\ Head(one) = m /\ Tail(one) = none
  OBVIOUS
<1>2. \A v : Reads(v, none) = v
  BY ReadsFacts
<1> HIDE DEF one, none
<1>3. Reads(k, one) = Reads(Observed(k, Head(one)), Tail(one))
  BY <1>1, ReadsFacts
<1> QED
  BY <1>1, <1>2, <1>3 DEF one

\* What every message leaves known is known.
LEMMA ReadsKeeps ==
  ASSUME NEW I, NEW k \in I, NEW S, NEW s \in Seq(S), \A v \in I, m \in S : Observed(v, m) \in I
  PROVE  Reads(k, s) \in I
<1>1. Learning!Fold(k, s) \in I
  BY Learning!FoldKeeps
<1> QED
  BY <1>1, ReadsIsFold

\* A mail read leaves knowledge.
LEMMA ReadsType ==
  ASSUME NEW k \in Knowledges, NEW s \in Seq(Mail)
  PROVE  Reads(k, s) \in Knowledges
<1>1. \A v \in Knowledges, m \in Mail : Observed(v, m) \in Knowledges
  BY ObservedFields
<1> QED
  BY <1>1, ReadsKeeps

(***************************************************************************)
(* What a player is told.                                                  *)
(***************************************************************************)
\* What it hears of a directive, and of some, one after the other.
Word(d, p) == IF d.say # "stop" /\ p \in d.to THEN <<Sent(d).message>> ELSE << >>
Words(w, p) == FlattenSeq([i \in DOMAIN w |-> Word(w[i], p)])

LEMMA FlattenIsIt == \A ss : FlattenSeq(ss) = Learning!FlattenSeq(ss)
  BY Zenon DEF FlattenSeq, Learning!FlattenSeq

LEMMA WordType ==
  ASSUME NEW d \in Directives, NEW p
  PROVE  /\ Word(d, p) \in Seq(Mail)
         /\ d.say # "stop" => Sent(d).message \in Mail
<1>1. CASE d \in [say : {"narrate"}, to : SUBSET Players, narration : Narrations]
  <2>1. Sent(d) = Tell(d.to, d.narration) /\ d.narration \in Narrations
    BY <1>1 DEF Sent
  <2>2. Sent(d).message \in Mail
    BY <2>1 DEF Tell, Mail
  <2> QED
    BY <2>2 DEF Word
<1>2. CASE d \in [say : {"forward"}, to : SUBSET Players, envelope : Envelopes]
  <2>1. Sent(d) = Tell(d.to, Relayed(d.envelope)) /\ d.envelope \in Envelopes
    BY <1>2 DEF Sent
  <2>2. Sent(d).message \in Mail
    BY <2>1 DEF Tell, Mail, Relayed, Relays
  <2> QED
    BY <2>2 DEF Word
<1>3. CASE d \in [say : {"stop"}, who : Players]
  BY <1>3 DEF Word
<1> QED
  BY <1>1, <1>2, <1>3 DEF Directives

\* What is heard of some directives is heard of them one by one.
LEMMA WordsMore ==
  ASSUME NEW w \in Seq(Directives), NEW d \in Directives, NEW p
  PROVE  /\ Words(<< >>, p) = << >>
         /\ Words(Append(w, d), p) = Words(w, p) \o Word(d, p)
<1> DEFINE e == Append(w, d)
           ss == [i \in DOMAIN w |-> Word(w[i], p)]
           tt == [i \in DOMAIN e |-> Word(e[i], p)]
           t == Word(d, p)
           n == Len(w)
<1>1. /\ n \in Nat /\ DOMAIN w = 1 .. n /\ DOMAIN e = 1 .. n + 1 /\ e[n + 1] = d
      /\ \A i \in 1 .. n : e[i] = w[i] /\ w[i] \in Directives
  OBVIOUS
<1>2. t \in Seq(Mail) /\ \A i \in 1 .. n : Word(w[i], p) \in Seq(Mail)
  BY <1>1, WordType
<1>3. Words(e, p) = FlattenSeq(tt) /\ Words(w, p) = FlattenSeq(ss)
  BY DEF Words
<1>4. ss \in Seq(Seq(Mail)) /\ Len(ss) = n
  <2>1. ss \in [1 .. n -> Seq(Mail)]
    BY <1>1, <1>2
  <2> HIDE DEF ss, n
  <2> QED
    BY <1>1, <2>1
<1>5. tt = Append(ss, t)
  <2>1. tt = [i \in 1 .. n + 1 |-> IF i <= n THEN Word(w[i], p) ELSE t]
    <3>1. \A i \in 1 .. n + 1 : Word(e[i], p) = IF i <= n THEN Word(w[i], p) ELSE t
      BY <1>1
    <3> HIDE DEF e
    <3> QED
      BY <1>1, <3>1
  <2>2. Append(ss, t) = [i \in 1 .. n + 1 |-> IF i <= n THEN ss[i] ELSE t]
    <3> DEFINE a == Append(ss, t)
               S == Seq(Mail)
    <3> HIDE DEF ss, t, S, n
    <3>1. a \in Seq(S) /\ Len(a) = n + 1 /\ a[n + 1] = t /\ \A i \in 1 .. n : a[i] = ss[i]
      BY <1>2, <1>4, AppendProperties DEF S
    <3>2. a = [i \in 1 .. n + 1 |-> a[i]]
      <4> HIDE DEF a
      <4> QED
        BY <3>1
    <3>3. \A i \in 1 .. n + 1 : a[i] = IF i <= n THEN ss[i] ELSE t
      BY <1>1, <3>1
    <3> HIDE DEF a
    <3> QED
      BY <3>2, <3>3 DEF a
  <2>3. \A i \in 1 .. n : ss[i] = Word(w[i], p)
    BY <1>1
  <2> HIDE DEF ss, tt, t
  <2> QED
    BY <1>1, <2>1, <2>2, <2>3
<1> HIDE DEF ss, tt, t, e
<1>6. FlattenSeq(Append(ss, t)) = FlattenSeq(ss) \o t
  BY <1>2, <1>4, FlattenIsIt, Learning!FlattenMore
<1>7. Words(<< >>, p) = << >>
  <2>1. [i \in DOMAIN << >> |-> Word(<< >>[i], p)] = << >>
    OBVIOUS
  <2> QED
    BY <2>1 DEF Words, FlattenSeq
<1> QED
  BY <1>3, <1>5, <1>6, <1>7 DEF e, t

\* What is heard is a sequence of what there is to hear, none of it left out.
LEMMA WordsType ==
  ASSUME NEW w, NEW p, NEW S, DOMAIN w = 1 .. Len(w), Len(w) \in Nat,
         \A i \in 1 .. Len(w) : Word(w[i], p) \in Seq(S)
  PROVE  /\ Words(w, p) \in Seq(S)
         /\ \A i \in 1 .. Len(w) : Word(w[i], p) # << >> => Words(w, p) # << >>
<1> DEFINE n == Len(w)
           ss == [i \in DOMAIN w |-> Word(w[i], p)]
<1>1. Words(w, p) = FlattenSeq(ss) /\ DOMAIN ss = 1 .. n
      /\ \A i \in 1 .. n : ss[i] = Word(w[i], p) /\ ss[i] \in Seq(S)
  BY DEF Words
<1>2. ss \in Seq(Seq(S))
  <2>1. ss \in [1 .. n -> Seq(S)]
    OBVIOUS
  <2> HIDE DEF ss, n
  <2> QED
    BY <2>1 DEF n
<1> HIDE DEF ss, n
<1>3. /\ FlattenSeq(ss) \in Seq(S)
      /\ \A j \in DOMAIN ss : \A i \in DOMAIN ss[j] :
           \E k \in DOMAIN FlattenSeq(ss) : FlattenSeq(ss)[k] = ss[j][i]
  BY <1>2, FlattenIsIt, Learning!Flattened
<1>4. ASSUME NEW i \in 1 .. n, ss[i] # << >> PROVE FlattenSeq(ss) # << >>
  <2>1. ss[i] \in Seq(S) /\ 1 \in DOMAIN ss[i]
    <3> DEFINE e == ss[i]
    <3>1. e \in Seq(S) /\ e # << >>
      BY <1>1, <1>4
    <3> HIDE DEF e
    <3>2. 1 \in DOMAIN e
      BY <3>1
    <3> QED
      BY <3>1, <3>2 DEF e
  <2>2. DOMAIN FlattenSeq(ss) # {}
    BY <1>1, <1>3, <2>1
  <2> QED
    BY <2>2
<1> QED
  BY <1>1, <1>3, <1>4 DEF n

\* What is heard can be cut in two where the directives are.
LEMMA WordsInTwo ==
  ASSUME NEW v \in Seq(Directives), NEW w \in Seq(Directives), NEW p
  PROVE  Words(v \o w, p) = Words(v, p) \o Words(w, p)
<1> DEFINE e == v \o w
           m == Len(v)
           n == Len(w)
           ss == [i \in DOMAIN v |-> Word(v[i], p)]
           tt == [i \in DOMAIN w |-> Word(w[i], p)]
           S == Seq(Mail)
<1>1. /\ m \in Nat /\ n \in Nat /\ DOMAIN v = 1 .. m /\ DOMAIN w = 1 .. n /\ DOMAIN e = 1 .. m + n
      /\ \A i \in 1 .. m + n : e[i] = IF i <= m THEN v[i] ELSE w[i - m]
  OBVIOUS
<1>2. ss \in Seq(S) /\ tt \in Seq(S) /\ Len(ss) = m /\ Len(tt) = n
  <2>1. (\A i \in 1 .. m : v[i] \in Directives) /\ (\A i \in 1 .. n : w[i] \in Directives)
    OBVIOUS
  <2>2. ss \in [1 .. m -> S] /\ tt \in [1 .. n -> S]
    BY <1>1, <2>1, WordType
  <2> HIDE DEF ss, tt, m, n, S
  <2> QED
    BY <1>1, <2>2
<1>3. [i \in DOMAIN e |-> Word(e[i], p)] = ss \o tt
  <2> DEFINE a == ss \o tt
             f(i) == IF i <= m THEN Word(v[i], p) ELSE Word(w[i - m], p)
  <2>1. /\ \A i \in 1 .. m : ss[i] = Word(v[i], p)
        /\ \A i \in 1 .. n : tt[i] = Word(w[i], p)
    BY <1>1
  <2>2. \A i \in 1 .. m + n : Word(e[i], p) = f(i)
    BY <1>1
  <2> HIDE DEF ss, tt, m, n, S, e
  <2>3. a \in Seq(S) /\ Len(a) = m + n /\ \A i \in 1 .. m + n : a[i] = IF i <= m THEN ss[i] ELSE tt[i - m]
    BY <1>1, <1>2
  <2>4. a = [i \in 1 .. m + n |-> a[i]]
    <3> HIDE DEF a
    <3> QED
      BY <2>3
  <2>5. \A i \in 1 .. m + n : a[i] = f(i)
    <3> HIDE DEF a
    <3> TAKE i \in 1 .. m + n
    <3>1. CASE i <= m
      BY <1>1, <2>1, <2>3, <3>1
    <3>2. CASE ~(i <= m)
      <4>1. i - m \in 1 .. n
        BY <1>1, <3>2
      <4> QED
        BY <2>1, <2>3, <3>2, <4>1
    <3> QED
      BY <3>1, <3>2
  <2> HIDE DEF a, f
  <2> QED
    BY <1>1, <2>2, <2>4, <2>5 DEF a
<1>4. Words(e, p) = FlattenSeq(ss \o tt) /\ Words(v, p) = FlattenSeq(ss) /\ Words(w, p) = FlattenSeq(tt)
  BY <1>3 DEF Words
<1> HIDE DEF ss, tt, e
<1>5. FlattenSeq(ss \o tt) = FlattenSeq(ss) \o FlattenSeq(tt)
  BY <1>2, FlattenIsIt, Learning!FlattenInTwo
<1> QED
  BY <1>4, <1>5 DEF e

(***************************************************************************)
(* What a game says of itself.                                             *)
(***************************************************************************)
\* What y has to say after x, all of it in N, makes who knew A of x, and lives,
\* know B of y.
Informs(A, x, y, B, N) ==
  \E w \in Seq(Directives) :
    /\ y.says = x.says \o w
    /\ \A i \in 1 .. Len(w) : w[i].say # "stop" => Sent(w[i]).message \in N
    /\ \A p \in y.living : \A k \in A[p] : Reads(k, Words(w, p)) \in B[p]

\* Nothing is said.
LEMMA InformsNothing ==
  ASSUME NEW x \in GameType, NEW y, NEW A, NEW B, NEW N, y.says = x.says,
         \A p \in y.living : A[p] \subseteq B[p]
  PROVE  Informs(A, x, y, B, N)
<1> DEFINE w == << >>
<1>1. x.says \in Seq(Directives)
  BY DEF GameType
<1>2. w \in Seq(Directives) /\ y.says = x.says \o w /\ 1 .. Len(w) = {}
  BY <1>1
<1>3. \A p : Words(w, p) = << >>
  BY DEF Words, FlattenSeq
<1>4. \A k : Reads(k, << >>) = k
  BY ReadsFacts
<1> HIDE DEF w
<1>5. \A p \in y.living : \A k \in A[p] : Reads(k, Words(w, p)) \in B[p]
  BY <1>3, <1>4
<1> QED
  BY <1>2, <1>5 DEF Informs

\* One directive is said.
LEMMA InformsOnce ==
  ASSUME NEW x \in GameType, NEW y, NEW A, NEW B, NEW N, NEW d \in Directives,
         y.says = Append(x.says, d),
         d.say # "stop" => Sent(d).message \in N,
         \A p \in y.living : \A k \in A[p] :
           IF d.say # "stop" /\ p \in d.to THEN Observed(k, Sent(d).message) \in B[p] ELSE k \in B[p]
  PROVE  Informs(A, x, y, B, N)
<1> DEFINE w == <<d>>
<1>1. x.says \in Seq(Directives)
  BY DEF GameType
<1>2. w \in Seq(Directives) /\ y.says = x.says \o w /\ 1 .. Len(w) = {1} /\ w[1] = d
  BY <1>1
<1>3. ASSUME NEW p PROVE Words(w, p) = Word(d, p)
  <2> DEFINE none == << >>
             v == Word(d, p)
  <2>1. none \in Seq(Directives) /\ Append(none, d) = w
    OBVIOUS
  <2>2. Words(none, p) = << >>
    BY <2>1, WordsMore
  <2> HIDE DEF none, w
  <2>3. Words(Append(none, d), p) = Words(none, p) \o v
    BY <2>1, WordsMore
  <2>4. v \in Seq(Mail)
    BY WordType
  <2> HIDE DEF v
  <2>5. << >> \o v = v
    BY <2>4
  <2> QED
    BY <2>1, <2>2, <2>3, <2>5 DEF v
<1>4. ASSUME NEW p \in y.living, NEW k \in A[p] PROVE Reads(k, Word(d, p)) \in B[p]
  <2>1. CASE d.say # "stop" /\ p \in d.to
    <3>1. Sent(d).message \in Mail /\ Word(d, p) = <<Sent(d).message>>
      BY <2>1, WordType DEF Word
    <3>2. Reads(k, Word(d, p)) = Observed(k, Sent(d).message)
      BY <3>1, ReadsOne
    <3> QED
      BY <2>1, <3>2
  <2>2. CASE ~(d.say # "stop" /\ p \in d.to)
    BY <2>2, ReadsFacts DEF Word
  <2> QED
    BY <2>1, <2>2
<1> HIDE DEF w
<1>5. \A p \in y.living : \A k \in A[p] : Reads(k, Words(w, p)) \in B[p]
  BY <1>3, <1>4
<1> QED
  BY <1>2, <1>5 DEF Informs

\* What is said step by step is said.
LEMMA InformsOn ==
  ASSUME NEW x \in GameType, NEW y, NEW z, NEW A, NEW B, NEW C, NEW N, NEW O,
         Informs(A, x, y, B, N), Informs(B, y, z, C, O), z.living \subseteq y.living
  PROVE  Informs(A, x, z, C, N \cup O)
<1>1. PICK v \in Seq(Directives) :
        /\ y.says = x.says \o v
        /\ \A i \in 1 .. Len(v) : v[i].say # "stop" => Sent(v[i]).message \in N
        /\ \A p \in y.living : \A k \in A[p] : Reads(k, Words(v, p)) \in B[p]
  BY DEF Informs
<1>2. PICK w \in Seq(Directives) :
        /\ z.says = y.says \o w
        /\ \A i \in 1 .. Len(w) : w[i].say # "stop" => Sent(w[i]).message \in O
        /\ \A p \in z.living : \A k \in B[p] : Reads(k, Words(w, p)) \in C[p]
  BY DEF Informs
<1> DEFINE e == v \o w
<1>3. e \in Seq(Directives) /\ z.says = x.says \o e
  <2> DEFINE a == x.says
  <2>1. a \in Seq(Directives)
    BY DEF GameType
  <2>2. z.says = (a \o v) \o w
    BY <1>1, <1>2
  <2> HIDE DEF a
  <2>3. (a \o v) \o w = a \o (v \o w) /\ v \o w \in Seq(Directives)
    BY <2>1
  <2> QED
    BY <2>2, <2>3 DEF a
<1>4. ASSUME NEW i \in 1 .. Len(e), e[i].say # "stop" PROVE Sent(e[i]).message \in N \cup O
  <2>1. CASE i <= Len(v)
    <3>1. i \in 1 .. Len(v) /\ e[i] = v[i]
      BY <2>1
    <3> QED
      BY <1>1, <1>4, <3>1
  <2>2. CASE ~(i <= Len(v))
    <3>1. i - Len(v) \in 1 .. Len(w) /\ e[i] = w[i - Len(v)]
      BY <2>2
    <3> QED
      BY <1>2, <1>4, <3>1
  <2> QED
    BY <2>1, <2>2
<1>5. ASSUME NEW p \in z.living, NEW k \in A[p] PROVE Reads(k, Words(e, p)) \in C[p]
  <2> DEFINE a == Words(v, p)
             b == Words(w, p)
  <2>1. Words(e, p) = a \o b
    BY WordsInTwo
  <2>2. a \in Seq(Mail) /\ b \in Seq(Mail)
    BY WordsType, WordType
  <2>3. Reads(k, a) \in B[p]
    BY <1>1, <1>5
  <2>4. Reads(Reads(k, a), b) \in C[p]
    BY <1>2, <2>3
  <2> HIDE DEF a, b, e
  <2>5. Reads(k, a \o b) = Reads(Reads(k, a), b)
    BY <2>2, ReadsFacts
  <2> QED
    BY <2>1, <2>4, <2>5
<1> HIDE DEF e
<1> QED
  BY <1>3, <1>4, <1>5 DEF Informs

\* And by less known of more that is said, after a game that has said as much.
LEMMA InformsLess ==
  ASSUME NEW x, NEW y, NEW A, NEW B, NEW N, NEW z, NEW C, NEW O, Informs(A, x, y, B, N),
         z.says = x.says, \A p \in y.living : C[p] \subseteq A[p], N \subseteq O
  PROVE  Informs(C, z, y, B, O)
BY DEF Informs

(***************************************************************************)
(* The end of a phase.                                                     *)
(***************************************************************************)
\* While neither side has won nobody lives alone.
LEMMA SomebodyElse ==
  ASSUME NEW S \in SUBSET Players, Winner(S) = "undecided", NEW p
  PROVE  S \ {p} # {}
<1>1. S \cap Pack # {} /\ S \ Pack # {}
  BY UndecidedMeans
<1> QED
  BY <1>1

\* A phase begins: everybody asked meets, and whoever was abreast of the game
\* knows it.
LEMMA PhaseBegins ==
  ASSUME NEW x \in GameType, ~Over(x), Winner(x.living) = "undecided", NEW now \in Nat
  PROVE  LET y == BeginPhase(x, now)
         IN  Convened(y) /\ Informs(Abreast(x), x, y, Known(y), {PhaseBegan(y)})
<1> DEFINE y == BeginPhase(x, now)
           m == PhaseBegan(x)
           d == Narration(x.living, m)
<1>1. /\ y \in GameType
      /\ y.living = x.living /\ y.round = x.round /\ y.phase = x.phase /\ y.begun = x.begun
      /\ y.lastProtected = x.lastProtected /\ y.winner = x.winner
      /\ y.says = Append(x.says, d)
      /\ \A k \in Kinds :
           /\ Members(x, k) = {} => y.sessions[k] = Unopened
           /\ Members(x, k) # {} =>
                y.sessions[k] = [Unopened EXCEPT !.stage = "open", !.members = Members(x, k),
                                   !.limit = now + Limit[k], !.lastChange = now]
  BY BeginPhaseFields
<1> HIDE DEF y
<1>2. x.living \in SUBSET Players /\ x.round \in Nat /\ x.phase \in Phases /\ {"Devour", "Nominate"} \subseteq Kinds
  BY DEF GameType, Kinds
<1>3. \A k \in Kinds : /\ y.sessions[k].members = Members(x, k)
                       /\ y.sessions[k].selections = Unopened.selections
  <2>1. ASSUME NEW k \in Kinds, Members(x, k) = {}
        PROVE  y.sessions[k].members = Members(x, k) /\ y.sessions[k].selections = Unopened.selections
    <3>1. y.sessions[k] = Unopened
      BY <1>1, <2>1
    <3> QED
      BY <2>1, <3>1 DEF Unopened
  <2>2. ASSUME NEW k \in Kinds, Members(x, k) # {}
        PROVE  y.sessions[k].members = Members(x, k) /\ y.sessions[k].selections = Unopened.selections
    <3>1. y.sessions[k] = [Unopened EXCEPT !.stage = "open", !.members = Members(x, k),
                                           !.limit = now + Limit[k], !.lastChange = now]
      BY <1>1, <2>2
    <3> QED
      BY <3>1 DEF Unopened
  <2> QED
    BY <2>1, <2>2
<1>4. \A p \in Players : Unopened.selections[p] = Nobody
  BY DEF Unopened
<1>5. Convened(y)
  <2>1. ASSUME NEW k \in {"Devour", "Nominate"}
        PROVE  Members(x, k) = {p \in x.living : AskedIn(RoleOf[p], x.phase) = k}
    <3>1. \A p : x.living \ {p} # {}
      BY <1>2, SomebodyElse
    <3>2. \A p : SpaceFor(x, p, k) = x.living \ {p}
      BY DEF SpaceFor, ActionSpace
    <3> QED
      BY <3>1, <3>2 DEF Members
  <2>2. \A k \in {"Devour", "Nominate"} : y.sessions[k].members = {p \in y.living : AskedIn(RoleOf[p], y.phase) = k}
    <3> TAKE k \in {"Devour", "Nominate"}
    <3>1. k \in Kinds /\ y.sessions[k].members = Members(x, k)
      BY <1>2, <1>3
    <3>2. {p \in y.living : AskedIn(RoleOf[p], y.phase) = k} = {p \in x.living : AskedIn(RoleOf[p], x.phase) = k}
      BY <1>1
    <3> QED
      BY <2>1, <3>1, <3>2
  <2> QED
    BY <2>2 DEF Convened
<1>6. \A p \in Players, q \in Players : Seen(y, p, q) = Nobody
  <2> TAKE p \in Players, q \in Players
  <2> DEFINE shared == {k \in {"Devour", "Nominate"} : {p, q} \subseteq y.sessions[k].members}
             c == CHOOSE k \in shared : TRUE
  <2>1. Seen(y, p, q) = IF shared = {} THEN Nobody ELSE y.sessions[c].selections[q]
    BY DEF Seen
  <2>2. shared # {} => c \in Kinds
    BY <1>2
  <2> HIDE DEF c, shared
  <2> QED
    BY <1>3, <1>4, <2>1, <2>2
<1>7. m \in Narrations /\ m = PhaseBegan(y) /\ m.is = "PhaseBegan" /\ m.round = x.round /\ m.phase = x.phase
      /\ m.living = x.living
  BY <1>1, NarrationTypes DEF PhaseBegan
<1> HIDE DEF m
<1>8. d \in Directives /\ d.say # "stop" /\ d.to = x.living /\ Sent(d).message = m
  BY <1>2, <1>7 DEF Narration, Directives, Sent, Tell
<1>9. ASSUME NEW p \in y.living, NEW k \in Abreast(x)[p] PROVE Observed(k, m) \in Known(y)[p]
  <2> DEFINE n == Observed(k, m)
  <2>1. p \in Players /\ k \in Knowledges /\ IsAbreast(x, p, k)
    BY <1>1, <1>2 DEF Abreast
  <2>2. /\ n \in Knowledges /\ n.round = x.round /\ n.phase = x.phase /\ n.living = x.living
        /\ n.selections = Unseen /\ n.pack = k.pack /\ n.dead = k.dead
        /\ n.investigations = k.investigations /\ n.over = k.over
    <3>1. m \in Mail
      BY <1>7 DEF Mail
    <3> QED
      BY <1>7, <2>1, <3>1, ObservedFields DEF SameDead, SameRest
  <2>3. n \in Knowledges /\ p \in Players
    BY <2>1, <2>2
  <2> HIDE DEF n
  <2>4. IsAbreast(y, p, n)
    BY <1>1, <2>1, <2>2 DEF IsAbreast, Over
  <2>5. IsAware(y, p, n)
    BY <1>1, <2>2, <2>4 DEF IsAware
  <2>6. \A q \in Players : n.selections[q] = Seen(y, p, q)
    BY <1>6, <2>2, <2>3 DEF Unseen
  <2>7. n \in Known(y)[p]
    BY <2>3, <2>5, <2>6 DEF Known, IsKnown
  <2> QED
    BY <2>7 DEF n
<1>10. Informs(Abreast(x), x, y, Known(y), {PhaseBegan(y)})
  <2>1. \A p \in y.living : p \in d.to
    BY <1>1, <1>8
  <2> DEFINE A == Abreast(x)
             B == Known(y)
             N == {PhaseBegan(y)}
  <2>2. Sent(d).message \in N
    BY <1>7, <1>8
  <2>3. \A p \in y.living : \A k \in A[p] :
          IF d.say # "stop" /\ p \in d.to THEN Observed(k, Sent(d).message) \in B[p] ELSE k \in B[p]
    BY <1>8, <1>9, <2>1
  <2> HIDE DEF A, B, N, d
  <2> QED
    BY <1>1, <1>8, <2>2, <2>3, InformsOnce DEF A, B, N
<1> QED
  BY <1>5, <1>10 DEF y

\* Whoever was aware of x is told what becomes of it, by the news of y.
Follows(x, y) == Convened(y) /\ Informs(Aware(x), x, y, Known(y), News(y))

\* next_phase: whoever was aware of the game knows the phase that follows.
LEMMA NextPhaseFollows ==
  ASSUME NEW x, Between(x), NEW now \in Nat, Winner(x.living) = "undecided"
  PROVE  Follows(x, NextPhase(x, now))
<1> DEFINE z == IF x.phase = "Night" THEN [x EXCEPT !.phase = "Day"]
                ELSE [x EXCEPT !.phase = "Night", !.round = @ + 1]
           y == BeginPhase(z, now)
<1>1. x \in GameType /\ x.phase \in Phases /\ x.round \in Nat
  BY DEF Between, GameType
<1>2. /\ z \in GameType /\ z.living = x.living /\ z.winner = x.winner /\ z.says = x.says
      /\ z.round >= x.round
  <2>1. CASE x.phase = "Night"
    <3>1. z = [x EXCEPT !.phase = "Day"]
      BY <2>1
    <3> QED
      BY <1>1, <3>1 DEF GameType, Phases
  <2>2. CASE x.phase # "Night"
    <3>1. z = [x EXCEPT !.phase = "Night", !.round = @ + 1]
      BY <2>2
    <3> DEFINE r == x.round + 1
    <3>2. r \in Nat /\ r >= x.round
      BY <1>1
    <3>3. z = [x EXCEPT !.phase = "Night", !.round = r]
      BY <3>1
    <3> HIDE DEF r
    <3>4. /\ z \in GameType /\ z.living = x.living /\ z.winner = x.winner /\ z.says = x.says
          /\ z.round = r
      BY <1>1, <3>2, <3>3 DEF GameType, Phases
    <3> QED
      BY <3>2, <3>4
  <2> QED
    BY <2>1, <2>2
<1>3. NextPhase(x, now) = y
  BY DEF NextPhase
<1> HIDE DEF z
<1>4. Convened(y) /\ Informs(Abreast(z), z, y, Known(y), {PhaseBegan(y)})
  <2>1. ~Over(z) /\ Winner(z.living) = "undecided"
    BY <1>2 DEF Between, Over
  <2> QED
    BY <1>2, <2>1, PhaseBegins
<1>5. y \in GameType /\ y.living = z.living
  BY <1>2, BeginPhaseFields
<1> HIDE DEF y
<1>6. \A p \in y.living : Aware(x)[p] \subseteq Abreast(z)[p]
  <2> SUFFICES ASSUME NEW p \in y.living, NEW k \in Aware(x)[p] PROVE k \in Abreast(z)[p]
    OBVIOUS
  <2>1. p \in Players /\ k \in Knowledges /\ IsAbreast(x, p, k)
    BY <1>5 DEF GameType, Aware, IsAware
  <2>2. \A q \in Players : k.dead[q].round <= z.round
    <3>1. \A q \in Players : k.dead[q].round \in Nat
      BY <2>1 DEF Knowledges, Burials
    <3>2. z.round \in Nat
      BY <1>2 DEF GameType
    <3> QED
      BY <1>1, <1>2, <2>1, <3>1, <3>2 DEF IsAbreast
  <2>3. IsAbreast(z, p, k)
    BY <1>2, <2>1, <2>2 DEF IsAbreast, Over
  <2> QED
    BY <2>1, <2>3 DEF Abreast
<1>7. {PhaseBegan(y)} \subseteq News(y)
  <2>1. PhaseBegan(y) \in Mail
    BY <1>5, NarrationTypes DEF Mail
  <2> QED
    BY <2>1 DEF PhaseBegan, News, Present
<1>8. Informs(Aware(x), x, y, Known(y), News(y))
  BY <1>2, <1>4, <1>6, <1>7, InformsLess
<1> QED
  BY <1>3, <1>4, <1>8 DEF Follows

\* end: they know that it is over.
LEMMA EndFollows ==
  ASSUME NEW x, Between(x), NEW w \in Winners \ {"undecided"}
  PROVE  Follows(x, End(x, w))
<1> DEFINE z == [x EXCEPT !.winner = w]
           m == Outcome(x, w)
           y == End(x, w)
           d == Narration(x.living, m)
<1>1. x \in GameType /\ x.living \in SUBSET Players
  BY DEF Between, GameType
<1>2. /\ z \in GameType /\ z.winner = w /\ z.living = x.living /\ z.round = x.round /\ z.phase = x.phase
      /\ z.says = x.says
  BY <1>1 DEF GameType
<1>3. m \in Narrations /\ m.is = "Outcome"
  BY <1>1, NarrationTypes DEF Outcome
<1> HIDE DEF z, m
<1>4. y = Narrate(z, z.living, m)
  BY DEF End, NarrateLiving, z, m
<1> HIDE DEF y
<1>5. SameButSays(z, y) /\ y.says = Append(x.says, d)
  BY <1>1, <1>2, <1>3, <1>4, NarrateFields
<1>6. /\ y.living = x.living /\ y.round = x.round /\ y.phase = x.phase /\ Over(y) /\ ~Over(x)
  BY <1>2, <1>5 DEF SameButSays, Over, Between
<1>7. d \in Directives /\ d.say # "stop" /\ d.to = x.living /\ Sent(d).message = m
  BY <1>1, <1>3 DEF Narration, Directives, Sent, Tell
<1>8. ASSUME NEW p \in y.living, NEW k \in Aware(x)[p] PROVE Observed(k, m) \in Known(y)[p]
  <2> DEFINE n == Observed(k, m)
  <2>1. p \in Players /\ k \in Knowledges /\ IsAware(x, p, k)
    BY <1>1, <1>6 DEF Aware
  <2>2. /\ n \in Knowledges /\ n.over = TRUE /\ n.investigations = k.investigations
        /\ SameMoment(k, n) /\ SameDead(k, n)
    <3>1. m \in Mail
      BY <1>3 DEF Mail
    <3> QED
      BY <1>3, <2>1, <3>1, ObservedFields
  <2> HIDE DEF n
  <2>3. IsAbreast(y, p, n)
    BY <1>6, <2>1, <2>2 DEF IsAware, IsAbreast, SameDead
  <2>4. IsKnown(y, p, n)
    BY <1>6, <2>1, <2>2, <2>3 DEF IsKnown, IsAware, SameMoment
  <2> QED
    BY <2>1, <2>2, <2>4 DEF Known, n
<1>9. Sent(d).message \in News(y)
  BY <1>3, <1>7 DEF News, Mail
<1> DEFINE A == Aware(x)
           B == Known(y)
           N == News(y)
<1>10. \A p \in y.living : \A k \in A[p] :
         IF d.say # "stop" /\ p \in d.to THEN Observed(k, Sent(d).message) \in B[p] ELSE k \in B[p]
  BY <1>6, <1>7, <1>8
<1>11. Sent(d).message \in N
  BY <1>9
<1> HIDE DEF A, B, N, d
<1>12. Informs(A, x, y, B, N)
  BY <1>1, <1>5, <1>7, <1>10, <1>11, InformsOnce
<1> QED
  BY <1>6, <1>12 DEF Follows, Convened, A, B, N, y

\* advance: the next phase, or the end.
LEMMA AdvanceFollows ==
  ASSUME NEW x, Between(x), NEW now \in Nat
  PROVE  Follows(x, Advance(x, now))
<1>1. CASE Winner(x.living) # "undecided"
  BY <1>1, WinnerType, EndFollows DEF Advance
<1>2. CASE Winner(x.living) = "undecided" /\ x.phase = "Day" /\ x.round >= DayCap
  BY <1>2, EndFollows DEF Advance, Winners
<1>3. CASE Winner(x.living) = "undecided" /\ ~(x.phase = "Day" /\ x.round >= DayCap)
  BY <1>3, NextPhaseFollows DEF Advance
<1> QED
  BY <1>1, <1>2, <1>3

(***************************************************************************)
(* The end of the day, and of the night.                                   *)
(***************************************************************************)
\* The moment, and who lives, are the same.
SameTimes(x, y) ==
  y.living = x.living /\ y.round = x.round /\ y.phase = x.phase /\ y.winner = x.winner

\* There is as much to be aware of.
LEMMA AwareAlike ==
  ASSUME NEW x, NEW y, SameTimes(x, y)
  PROVE  Aware(y) = Aware(x)
BY DEF SameTimes, Aware, IsAware, IsAbreast, Over

\* That nobody died is nothing to know.
LEMMA QuietInforms ==
  ASSUME NEW x \in GameType, NEW name \in {"NoDeath", "NoLynch"}
  PROVE  LET y == NarrateLiving(x, Quietly(name))
         IN  Informs(Aware(x), x, y, Aware(y), {Quietly(name)})
<1> DEFINE m == Quietly(name)
           d == Narration(x.living, m)
           y == NarrateLiving(x, m)
           A == Aware(x)
           N == {m}
<1>1. m \in Narrations /\ m.is = name /\ x.living \in SUBSET Players
  BY NarrationTypes DEF Quietly, GameType
<1> HIDE DEF m
<1>2. SameButSays(x, y) /\ y.says = Append(x.says, d)
  BY <1>1, NarrateFields DEF NarrateLiving
<1>3. d \in Directives /\ d.say # "stop" /\ Sent(d).message = m
  BY <1>1 DEF Narration, Directives, Sent, Tell
<1> HIDE DEF y, d
<1>4. Aware(y) = A
  BY <1>2, AwareAlike DEF SameButSays, SameTimes
<1>5. \A p \in y.living : \A k \in A[p] : Observed(k, m) \in A[p]
  <2> TAKE p \in y.living
  <2>1. p \in Players
    BY <1>1, <1>2 DEF SameButSays
  <2>2. \A k \in A[p] : k \in Knowledges
    BY <2>1 DEF Aware
  <2>3. m \in Mail
    BY <1>1 DEF Mail
  <2>4. \A k \in Knowledges : Observed(k, m) = k
    BY <1>1, <2>3, ObservedFields
  <2> HIDE DEF A
  <2> QED
    BY <2>2, <2>4
<1>6. Sent(d).message \in N
  BY <1>3
<1>7. \A p \in y.living : \A k \in A[p] :
        IF d.say # "stop" /\ p \in d.to THEN Observed(k, Sent(d).message) \in A[p] ELSE k \in A[p]
  BY <1>3, <1>5
<1> HIDE DEF A, N
<1>8. Informs(A, x, y, A, N)
  BY <1>2, <1>3, <1>6, <1>7, InformsOnce
<1> QED
  BY <1>4, <1>8 DEF A, N, m, y

\* eliminate: those who live hear who died and what it was.
LEMMA EliminateInforms ==
  ASSUME NEW x, Between(x), NEW p \in x.living, NEW cause \in {"Devoured", "Lynched"}
  PROVE  LET y == Eliminate(x, p, cause)
         IN  Informs(Aware(x), x, y, Aware(y), {Eliminated(x, p, cause)})
<1> DEFINE z == [x EXCEPT !.living = @ \ {p}]
           m == Eliminated(x, p, cause)
           d == Narration(z.living, m)
           told == Narrate(z, z.living, m)
           halt == [say |-> "stop", who |-> p]
           y == Saying(told, halt)
           A == Aware(x)
           B == Aware(y)
           N == {m}
<1>1. x \in GameType /\ x.living \in SUBSET Players /\ p \in Players /\ x.round \in Nat
  BY DEF Between, GameType
<1>2. /\ z \in GameType /\ z.living = x.living \ {p} /\ z.winner = x.winner /\ z.round = x.round
      /\ z.phase = x.phase /\ z.says = x.says
  BY <1>1 DEF GameType
<1>3. m \in Narrations /\ m.is = "Eliminated" /\ m.who = p /\ m.role = RoleOf[p] /\ m.round = x.round
  BY <1>1, NarrationTypes DEF Eliminated
<1>4. Eliminate(x, p, cause) = y
  BY DEF Eliminate, Stop, NarrateLiving
<1>5. halt \in Directives /\ halt.say = "stop"
  BY <1>1 DEF Directives
<1> HIDE DEF z, m, halt
<1>6. z.living \in SUBSET Players
  BY <1>1, <1>2
<1>7. told \in GameType /\ SameButSays(z, told) /\ told.says = Append(z.says, d)
  BY <1>2, <1>3, <1>6, NarrateFields
<1>8. d \in Directives /\ d.say # "stop" /\ d.to = z.living /\ Sent(d).message = m
  BY <1>3, <1>6 DEF Narration, Directives, Sent, Tell
<1> HIDE DEF told, d
<1>9. y \in GameType /\ SameButSays(told, y) /\ y.says = Append(told.says, halt)
  BY <1>5, <1>7, SayingFields
<1> HIDE DEF y
<1>10. /\ y.living = x.living \ {p} /\ y.round = x.round /\ y.phase = x.phase /\ y.winner = x.winner
       /\ told.living = y.living /\ told.says = Append(x.says, d)
  BY <1>2, <1>7, <1>9 DEF SameButSays
<1>11. ASSUME NEW q \in y.living, NEW k \in Aware(x)[q] PROVE Observed(k, m) \in Aware(y)[q]
  <2> DEFINE n == Observed(k, m)
  <2>1. q \in Players /\ k \in Knowledges /\ IsAware(x, q, k)
    BY <1>1, <1>10 DEF Aware
  <2> DEFINE b == [round |-> m.round, cause |-> m.cause, role |-> m.role]
  <2>2. /\ n \in Knowledges /\ n.living = k.living \ {p} /\ n.pack = k.pack \ {p}
        /\ n.dead = [k.dead EXCEPT ![p] = b]
        /\ n.round = k.round /\ n.phase = k.phase /\ n.investigations = k.investigations /\ n.over = k.over
    <3>1. m \in Mail
      BY <1>3 DEF Mail
    <3> QED
      BY <1>3, <2>1, <3>1, ObservedFields DEF SameRest
  <2>3. b.round = x.round /\ b.role = RoleOf[p]
    BY <1>3
  <2>4. k.dead \in [Players -> Burials]
    BY <2>1 DEF Knowledges
  <2> HIDE DEF n, b
  <2>5. ASSUME NEW r \in Players
        PROVE  /\ n.dead[r].role = IF r \in y.living THEN Nothing ELSE RoleOf[r]
               /\ n.dead[r].round <= y.round
               /\ n.investigations[r] \in {Nothing, Faction(RoleOf[r])}
    <3>1. CASE r = p
      <4>1. n.dead[r] = b
        BY <2>2, <2>4, <3>1
      <4> QED
        BY <1>1, <1>10, <2>1, <2>2, <2>3, <3>1, <4>1 DEF IsAware, IsAbreast
    <3>2. CASE r # p
      <4>1. n.dead[r] = k.dead[r]
        BY <2>2, <2>4, <3>2
      <4> QED
        BY <1>10, <2>1, <2>2, <3>2, <4>1 DEF IsAware, IsAbreast
    <3> QED
      BY <3>1, <3>2
  <2>6. n.pack = (IF q \in Pack THEN Pack \cap y.living ELSE {}) /\ n.over = Over(y)
    BY <1>10, <2>1, <2>2 DEF IsAware, IsAbreast, Over
  <2>7. n.round = y.round /\ n.phase = y.phase /\ n.living = y.living
    BY <1>10, <2>1, <2>2 DEF IsAware
  <2>8. IsAware(y, q, n)
    BY <2>5, <2>6, <2>7 DEF IsAware, IsAbreast
  <2> QED
    BY <2>1, <2>2, <2>8 DEF Aware, n
<1>12. \A q \in told.living : \A k \in A[q] :
         IF d.say # "stop" /\ q \in d.to THEN Observed(k, Sent(d).message) \in B[q] ELSE k \in B[q]
  BY <1>2, <1>8, <1>10, <1>11
<1>13. Sent(d).message \in N
  BY <1>8
<1>14. \A q \in y.living : \A k \in B[q] :
         IF halt.say # "stop" /\ q \in halt.to THEN Observed(k, Sent(halt).message) \in B[q] ELSE k \in B[q]
  BY <1>5
<1> HIDE DEF A, B, N
<1>15. Informs(A, x, told, B, N)
  BY <1>1, <1>8, <1>10, <1>12, <1>13, InformsOnce
<1>16. Informs(B, told, y, B, N)
  BY <1>5, <1>7, <1>9, <1>14, InformsOnce
<1>17. Informs(A, x, y, B, N \cup N)
  BY <1>1, <1>7, <1>10, <1>15, <1>16, InformsOn
<1>18. N \cup N = N
  OBVIOUS
<1> QED
  BY <1>4, <1>17, <1>18 DEF A, B, N, m

\* A phase ends in s, its sessions gone, goes on to z, what happened said, and
\* is followed by y.
LEMMA PhaseEnds ==
  ASSUME NEW x \in GameType, NEW s \in GameType, SameTimes(x, s), s.says = x.says,
         NEW z \in GameType, NEW N, Informs(Aware(s), s, z, Aware(z), N),
         NEW y, Follows(z, y), y.living \subseteq z.living, N \subseteq News(y)
  PROVE  Follows(x, y)
<1> DEFINE A == Aware(x)
           B == Aware(z)
           C == Known(y)
           O == News(y)
<1>1. Aware(s) = A
  BY AwareAlike
<1> HIDE DEF A, B, C, O
<1>2. Informs(A, s, z, B, N) /\ Informs(B, z, y, C, O) /\ Convened(y)
  BY <1>1 DEF Follows, B, C, O
<1>3. Informs(A, s, y, C, N \cup O)
  BY <1>2, InformsOn
<1>4. N \cup O \subseteq O
  BY DEF O
<1>5. Informs(A, x, y, C, O)
  BY <1>3, <1>4, InformsLess
<1> QED
  BY <1>2, <1>5 DEF Follows, A, C, O

\* What is said of a death, or of none, is news.
LEMMA DeathsAreNews ==
  ASSUME NEW x \in GameType, NEW y
  PROVE  /\ {Quietly("NoDeath")} \subseteq News(y) /\ {Quietly("NoLynch")} \subseteq News(y)
         /\ \A p \in Players \ y.living, c \in {"Devoured", "Lynched"} : {Eliminated(x, p, c)} \subseteq News(y)
<1>1. {Quietly("NoDeath")} \subseteq News(y) /\ {Quietly("NoLynch")} \subseteq News(y)
  BY NarrationTypes DEF News, Mail, Quietly
<1>2. \A p \in Players \ y.living, c \in {"Devoured", "Lynched"} : {Eliminated(x, p, c)} \subseteq News(y)
  <2> TAKE p \in Players \ y.living, c \in {"Devoured", "Lynched"}
  <2>1. Eliminated(x, p, c) \in Mail
    BY NarrationTypes DEF Mail
  <2>2. Eliminated(x, p, c).is = "Eliminated" /\ Eliminated(x, p, c).who = p
    BY DEF Eliminated
  <2> QED
    BY <2>1, <2>2 DEF News
<1> QED
  BY <1>1, <1>2

\* close_day.
LEMMA CloseDayFollows ==
  ASSUME NEW x, Midway(x), x.phase = "Day", NEW now \in Nat,
         NEW lynched, lynched = {} \/ \E p \in x.living : lynched = {p}
  PROVE  Follows(x, CloseDay(x, lynched, now))
<1> DEFINE shut == [x EXCEPT !.sessions["Nominate"] = Unopened]
           z == IF lynched = {} THEN NarrateLiving(shut, Quietly("NoLynch"))
                ELSE Eliminate(shut, CHOOSE p \in lynched : TRUE, "Lynched")
           y == Advance(z, now)
<1>1. x \in GameType /\ x.living \in SUBSET Players /\ x.sessions \in [Kinds -> Seats]
  BY DEF Midway, GameType
<1>2. /\ shut \in GameType /\ shut.living = x.living /\ shut.winner = x.winner /\ shut.round = x.round
      /\ shut.phase = x.phase /\ shut.begun = x.begun /\ shut.says = x.says
      /\ \A k \in Kinds : shut.sessions[k] = IF k = "Nominate" THEN Unopened ELSE x.sessions[k]
  <2>1. [x.sessions EXCEPT !["Nominate"] = Unopened] \in [Kinds -> Seats]
    BY <1>1, UnopenedType
  <2>2. shut = [x EXCEPT !.sessions = [x.sessions EXCEPT !["Nominate"] = Unopened]]
    OBVIOUS
  <2> QED
    BY <1>1, <2>1, <2>2 DEF GameType, Kinds
<1> HIDE DEF shut
<1>3. Between(shut) /\ SameTimes(x, shut)
  <2>1. \A k \in Kinds : k # "Nominate" => PhaseOf(k) # "Day"
    BY DEF PhaseOf
  <2> QED
    BY <1>2, <2>1 DEF Between, Midway, Over, SameTimes
<1>4. CloseDay(x, lynched, now) = y
  BY DEF CloseDay, shut
<1>5. CASE lynched = {}
  <2> DEFINE w == Narrate(shut, shut.living, Quietly("NoLynch"))
  <2>1. Quietly("NoLynch") \in Narrations /\ shut.living \in SUBSET Players
    BY <1>1, <1>2, NarrationTypes
  <2>2. w \in GameType /\ SameButSays(shut, w)
    BY <1>2, <2>1, NarrateFields
  <2>3. Informs(Aware(shut), shut, w, Aware(w), {Quietly("NoLynch")})
    BY <1>2, QuietInforms DEF NarrateLiving
  <2>4. z = w
    BY <1>5 DEF NarrateLiving
  <2> HIDE DEF w, z
  <2>5. Between(w)
    BY <1>3, <2>2 DEF SameButSays, Between, Over
  <2> HIDE DEF y
  <2>6. MovedOn(w, y, now) /\ Follows(w, y)
    BY <2>4, <2>5, AdvancePlays, AdvanceFollows DEF y
  <2>7. y.living \subseteq w.living
    BY <2>6 DEF MovedOn
  <2>8. Follows(x, y)
    BY <1>1, <1>2, <1>3, <2>2, <2>3, <2>6, <2>7, DeathsAreNews, PhaseEnds
  <2> QED
    BY <1>4, <2>8
<1>6. CASE lynched # {}
  <2>1. PICK p \in x.living : lynched = {p}
    BY <1>6
  <2>2. z = Eliminate(shut, p, "Lynched")
    BY <1>6, <2>1
  <2> HIDE DEF z, y
  <2>3. Between(z) /\ z.living = shut.living \ {p} /\ p \in shut.living
    BY <1>2, <1>3, <2>2, EliminateFields
  <2>4. Informs(Aware(shut), shut, z, Aware(z), {Eliminated(shut, p, "Lynched")})
    BY <1>2, <1>3, <2>2, EliminateInforms
  <2>5. MovedOn(z, y, now) /\ Follows(z, y)
    BY <2>3, AdvancePlays, AdvanceFollows DEF y
  <2>6. y.living = z.living
    BY <2>5 DEF MovedOn
  <2>7. p \in Players \ y.living /\ z \in GameType
    BY <1>1, <2>1, <2>3, <2>6 DEF Between
  <2>8. {Eliminated(shut, p, "Lynched")} \subseteq News(y)
    BY <1>2, <2>7, DeathsAreNews
  <2>9. Follows(x, y)
    BY <1>1, <1>2, <1>3, <2>4, <2>5, <2>6, <2>7, <2>8, PhaseEnds
  <2> QED
    BY <1>4, <2>9
<1> QED
  BY <1>5, <1>6

\* resolve_night.
LEMMA ResolveNightFollows ==
  ASSUME NEW x, Midway(x), x.phase = "Night", NEW now \in Nat, NEW luck
  PROVE  Follows(x, ResolveNight(x, now, luck))
<1> DEFINE leaders == Leaders(x.sessions["Devour"])
           victim == Pick(luck, leaders)
           taken == [x EXCEPT !.sessions = [k \in Kinds |-> Unopened]]
<1>1. /\ Between(taken) /\ taken.living = x.living /\ taken.round = x.round
      /\ taken.phase = x.phase /\ taken.says = x.says
  BY TakenFields
<1>2. /\ Winner(x.living) = "undecided" /\ x.living \in SUBSET Players /\ x \in GameType
      /\ taken \in GameType /\ SameTimes(x, taken)
  BY <1>1 DEF Midway, GameType, Between, Over, SameTimes
<1>3. leaders # {} => victim \in x.living
  <2>1. leaders # {} => victim \in leaders
    BY DEF Pick
  <2> QED
    BY <2>1, LeadersLive DEF Kinds
<1>4. ResolveNight(x, now, luck) =
        IF leaders # {} /\ victim \notin Protected(x)
          THEN Advance(Eliminate(taken, victim, "Devoured"), now)
          ELSE NextPhase(NarrateLiving(taken, Quietly("NoDeath")), now)
  BY DEF ResolveNight
<1> HIDE DEF leaders, victim, taken
<1>5. CASE leaders # {} /\ victim \notin Protected(x)
  <2> DEFINE z == Eliminate(taken, victim, "Devoured")
             y == Advance(z, now)
  <2>1. ResolveNight(x, now, luck) = y
    BY <1>4, <1>5
  <2>2. Between(z) /\ z.living = taken.living \ {victim} /\ victim \in taken.living
    BY <1>1, <1>3, <1>5, EliminateFields
  <2>3. Informs(Aware(taken), taken, z, Aware(z), {Eliminated(taken, victim, "Devoured")})
    BY <1>1, <2>2, EliminateInforms
  <2> HIDE DEF z, y
  <2>4. MovedOn(z, y, now) /\ Follows(z, y)
    BY <2>2, AdvancePlays, AdvanceFollows DEF y
  <2>5. y.living = z.living
    BY <2>4 DEF MovedOn
  <2>6. victim \in Players \ y.living /\ z \in GameType
    BY <1>1, <1>2, <2>2, <2>5 DEF Between
  <2>7. {Eliminated(taken, victim, "Devoured")} \subseteq News(y)
    BY <1>2, <2>6, DeathsAreNews
  <2>8. Follows(x, y)
    BY <1>1, <1>2, <2>3, <2>4, <2>5, <2>6, <2>7, PhaseEnds
  <2> QED
    BY <2>1, <2>8
<1>6. CASE ~(leaders # {} /\ victim \notin Protected(x))
  <2> DEFINE z == NarrateLiving(taken, Quietly("NoDeath"))
             y == NextPhase(z, now)
  <2>1. ResolveNight(x, now, luck) = y
    BY <1>4, <1>6
  <2>2. Quietly("NoDeath") \in Narrations /\ taken.living \in SUBSET Players
    BY <1>1, <1>2, NarrationTypes
  <2>3. z \in GameType /\ SameButSays(taken, z)
    BY <1>2, <2>2, NarrateFields DEF NarrateLiving
  <2>4. Informs(Aware(taken), taken, z, Aware(z), {Quietly("NoDeath")})
    BY <1>2, QuietInforms
  <2> HIDE DEF z, y
  <2>5. Between(z) /\ Winner(z.living) = "undecided" /\ z.phase = "Night"
    BY <1>1, <1>2, <2>3 DEF SameButSays, Between, Over
  <2>6. MovedOn(z, y, now) /\ Follows(z, y)
    BY <2>5, NextPhasePlays, NextPhaseFollows DEF y
  <2>7. y.living \subseteq z.living
    BY <2>6 DEF MovedOn
  <2>8. Follows(x, y)
    BY <1>1, <1>2, <2>3, <2>4, <2>6, <2>7, DeathsAreNews, PhaseEnds
  <2> QED
    BY <2>1, <2>8
<1> QED
  BY <1>5, <1>6

\* As much is known of two games whose sessions are the same to their members.
SameSessions(x, y) ==
  \A k \in {"Devour", "Nominate"} :
    /\ y.sessions[k].members = x.sessions[k].members
    /\ y.sessions[k].selections = x.sessions[k].selections

LEMMA KnownAlike ==
  ASSUME NEW x, NEW y, SameTimes(x, y), SameSessions(x, y)
  PROVE  Known(y) = Known(x) /\ (Convened(x) => Convened(y))
<1>1. \A p, k : IsAware(y, p, k) <=> IsAware(x, p, k)
  BY DEF SameTimes, IsAware, IsAbreast, Over
<1>2. ASSUME NEW p, NEW q PROVE Seen(y, p, q) = Seen(x, p, q)
  <2> DEFINE s == {k \in {"Devour", "Nominate"} : {p, q} \subseteq x.sessions[k].members}
             t == {k \in {"Devour", "Nominate"} : {p, q} \subseteq y.sessions[k].members}
             c == CHOOSE k \in s : TRUE
             e == CHOOSE k \in t : TRUE
  <2>1. t = s
    BY DEF SameSessions
  <2>2. e = c /\ (s # {} => c \in {"Devour", "Nominate"})
    BY <2>1
  <2>3. /\ Seen(x, p, q) = IF s = {} THEN Nobody ELSE x.sessions[c].selections[q]
        /\ Seen(y, p, q) = IF t = {} THEN Nobody ELSE y.sessions[e].selections[q]
    BY DEF Seen
  <2> HIDE DEF s, t, c, e
  <2> QED
    BY <2>1, <2>2, <2>3 DEF SameSessions
<1>3. \A p, k : IsKnown(y, p, k) <=> IsKnown(x, p, k)
  BY <1>1, <1>2 DEF IsKnown, SameTimes, Over
<1>4. Convened(x) => Convened(y)
  BY DEF Convened, SameTimes, SameSessions, Over
<1> QED
  BY <1>3, <1>4 DEF Known

\* What a seer has found is so, and the rest of what it knows is left.
LEMMA FoundIsKnown ==
  ASSUME NEW x, NEW p \in Players, NEW k \in Known(x)[p], NEW t \in Players
  PROVE  Observed(k, Investigated(t)) \in Known(x)[p]
<1> DEFINE m == Investigated(t)
           n == Observed(k, m)
<1>1. k \in Knowledges /\ IsKnown(x, p, k)
  BY DEF Known
<1>2. m \in Mail /\ m.is = "Investigated" /\ m.target = t /\ m.faction = Faction(RoleOf[t])
  BY DEF Mail, Narrations, Investigated, Faction
<1> HIDE DEF m
<1>3. /\ n \in Knowledges /\ n.investigations = [k.investigations EXCEPT ![t] = m.faction]
      /\ SameMoment(k, n) /\ SameDead(k, n) /\ n.over = k.over /\ n.selections = k.selections
  BY <1>1, <1>2, ObservedFields
<1>4. k.investigations \in [Players -> {"Werewolves", "Village", Nothing}]
  BY <1>1 DEF Knowledges
<1> HIDE DEF n
<1>5. \A q \in Players : n.investigations[q] \in {Nothing, Faction(RoleOf[q])}
  BY <1>1, <1>2, <1>3, <1>4 DEF IsKnown, IsAware, IsAbreast
<1>6. IsAware(x, p, n)
  BY <1>1, <1>3, <1>5 DEF IsKnown, IsAware, IsAbreast, SameMoment, SameDead
<1>7. IsKnown(x, p, n)
  BY <1>1, <1>3, <1>6 DEF IsKnown
<1> QED
  BY <1>3, <1>7 DEF Known, n, m

\* Findings are news of every game.
Finds == {Investigated(t) : t \in Players}

LEMMA FindsAreNews == \A y : Finds \subseteq News(y)
<1>1. \A t \in Players : Investigated(t) \in Mail
  BY DEF Mail, Narrations, Investigated, Faction
<1>2. \A t \in Players : Investigated(t).is = "Investigated"
  BY DEF Investigated
<1>3. \A y : \A t \in Players : Investigated(t) \in News(y)
  BY <1>1, <1>2 DEF News
<1> QED
  BY <1>3 DEF Finds

\* close_night_session: what there is to know is what there was, and a seer
\* hears what it has found.
LEMMA CloseNightFollows ==
  ASSUME NEW x, Midway(x), x.phase = "Night", NEW kinds \in SUBSET Open(x)
  PROVE  LET y == CloseNightSessions(x, kinds)
         IN  /\ SameTimes(x, y) /\ SameSessions(x, y)
             /\ Informs(Known(x), x, y, Known(y), Finds)
<1> DEFINE y == CloseNightSessions(x, kinds)
           A == Known(x)
           N == Finds
<1>1. /\ y.living = x.living /\ y.phase = x.phase /\ y.round = x.round /\ y.winner = x.winner
      /\ \A k \in Kinds : /\ y.sessions[k].selections = x.sessions[k].selections
                          /\ y.sessions[k].members = x.sessions[k].members
      /\ y.says = IF "Investigate" \in kinds THEN x.says \o Findings(x.sessions["Investigate"]) ELSE x.says
  BY CloseNightFields
<1> HIDE DEF y
<1>2. SameTimes(x, y) /\ SameSessions(x, y)
  BY <1>1 DEF SameTimes, SameSessions, Kinds
<1>3. Known(y) = A
  BY <1>2, KnownAlike
<1>4. x \in GameType /\ x.living \in SUBSET Players /\ x.sessions["Investigate"] \in Seats
  BY DEF Midway, GameType, Kinds
<1>5. CASE "Investigate" \notin kinds
  <2>1. y.says = x.says /\ \A p \in y.living : A[p] \subseteq A[p]
    BY <1>1, <1>5
  <2> HIDE DEF A, N
  <2>2. Informs(A, x, y, A, N)
    BY <1>4, <2>1, InformsNothing
  <2> QED
    BY <1>2, <1>3, <2>2 DEF A, N, y
<1>6. CASE "Investigate" \in kinds
  <2> DEFINE w == Findings(x.sessions["Investigate"])
             S == {Investigated(t) : t \in Players}
  <2>1. y.says = x.says \o w
    BY <1>1, <1>6
  <2>2. w \in Seq(Directives) /\ \A i \in 1 .. Len(w) : \E p, t \in Players : w[i] = Narration({p}, Investigated(t))
    BY <1>4, FindingsType
  <2>3. S \subseteq N
    BY DEF Finds
  <2>4. \A i \in 1 .. Len(w) : w[i].say = "narrate" /\ Sent(w[i]).message \in S
    <3> TAKE i \in 1 .. Len(w)
    <3>1. PICK p \in Players, t \in Players : w[i] = Narration({p}, Investigated(t))
      BY <2>2
    <3>2. w[i].say = "narrate" /\ w[i].narration = Investigated(t)
      BY <3>1 DEF Narration
    <3> QED
      BY <3>2 DEF Sent, Tell
  <2>5. ASSUME NEW p \in Players PROVE Words(w, p) \in Seq(S)
    <3> HIDE DEF w, S
    <3>1. \A i \in 1 .. Len(w) : Word(w[i], p) \in Seq(S)
      BY <2>4 DEF Word
    <3>2. DOMAIN w = 1 .. Len(w) /\ Len(w) \in Nat
      BY <2>2
    <3> QED
      BY <3>1, <3>2, WordsType
  <2>6. \A p \in Players : \A k \in A[p], m \in S : Observed(k, m) \in A[p]
    BY FoundIsKnown
  <2>7. \A p \in y.living : \A k \in A[p] : Reads(k, Words(w, p)) \in A[p]
    <3> TAKE p \in y.living
    <3> TAKE k \in A[p]
    <3>1. p \in Players
      BY <1>1, <1>4
    <3> DEFINE I == A[p]
               s == Words(w, p)
    <3>2. k \in I /\ s \in Seq(S) /\ \A v \in I, m \in S : Observed(v, m) \in I
      BY <2>5, <2>6, <3>1
    <3> HIDE DEF I, s, S, A, w
    <3>3. Reads(k, s) \in I
      BY <3>2, ReadsKeeps
    <3> QED
      BY <3>3 DEF I, s
  <2>8. \A i \in 1 .. Len(w) : w[i].say # "stop" => Sent(w[i]).message \in N
    BY <2>3, <2>4
  <2> HIDE DEF w, S, A, N
  <2>9. Informs(A, x, y, A, N)
    BY <2>1, <2>2, <2>7, <2>8 DEF Informs
  <2> QED
    BY <1>2, <1>3, <2>9 DEF A, N, y
<1> QED
  BY <1>5, <1>6

(***************************************************************************)
(* The calls.                                                              *)
(***************************************************************************)
\* Whoever knew x knows what becomes of it, by the news of y.
Heeds(x, y) == Convened(y) /\ Informs(Known(x), x, y, Known(y), News(y))

\* What is known of a game is more than who is aware of it needs.
LEMMA KnownIsAware ==
  ASSUME NEW x
  PROVE  \A p \in Players : Known(x)[p] \subseteq Aware(x)[p]
BY DEF Known, Aware, IsKnown

LEMMA FollowsHeeds ==
  ASSUME NEW x \in GameType, NEW y, y.living \in SUBSET Players, Follows(x, y)
  PROVE  Heeds(x, y)
<1> DEFINE A == Aware(x)
           B == Known(y)
           C == Known(x)
           N == News(y)
<1>1. \A p \in y.living : C[p] \subseteq A[p]
  BY KnownIsAware
<1> HIDE DEF A, B, C, N
<1>2. Informs(A, x, y, B, N)
  BY DEF Follows, A, B, N
<1>3. Informs(C, x, y, B, N)
  BY <1>1, <1>2, InformsLess
<1> QED
  BY <1>3 DEF Follows, Heeds, B, C, N

\* What was said before of y, all of it news of z, and what z has to say of
\* what became of it.
LEMMA HeedsOn ==
  ASSUME NEW x \in GameType, NEW y, NEW z, NEW N, Informs(Known(x), x, y, Known(y), N),
         Heeds(y, z), z.living \subseteq y.living, N \subseteq News(z)
  PROVE  Heeds(x, z)
<1> DEFINE A == Known(x)
           B == Known(y)
           C == Known(z)
           O == News(z)
<1> HIDE DEF A, B, C, O
<1>1. Informs(A, x, y, B, N) /\ Informs(B, y, z, C, O) /\ Convened(z)
  BY DEF Heeds, A, B, C, O
<1>2. Informs(A, x, z, C, N \cup O)
  BY <1>1, InformsOn
<1>3. N \cup O \subseteq O
  BY DEF O
<1>4. Informs(A, x, z, C, O)
  BY <1>2, <1>3, InformsLess
<1> QED
  BY <1>1, <1>4 DEF Heeds, A, C, O

\* expire.
LEMMA ExpireHeeds ==
  ASSUME NEW x, InPlay(x), ~Over(x), Convened(x), NEW now \in Nat, NEW luck
  PROVE  Heeds(x, Expire(x, now, luck))
<1> DEFINE late == Expired(x, now)
           closed == CloseNightSessions(x, late)
           y == Expire(x, now, luck)
<1>1. /\ Midway(x) /\ x \in GameType /\ x.phase \in Phases /\ x.living \in SUBSET Players
      /\ late \in SUBSET Open(x)
  BY InPlayMidway DEF InPlay, GameType, Expired
<1>2. Expire(x, now, luck) =
        IF Over(x) \/ (x.phase = "Day" /\ late = {}) THEN x
        ELSE IF x.phase = "Day" THEN CloseDay(x, {}, now)
        ELSE IF Open(closed) = {} THEN ResolveNight(closed, now, luck)
        ELSE closed
  BY DEF Expire
<1>3. y.living \in SUBSET Players
  BY <1>1, ExpirePlays DEF Turns, Stayed, PhaseOver
<1> HIDE DEF late, closed
<1>4. CASE x.phase = "Day" /\ late = {}
  <2> DEFINE A == Known(x)
             N == News(x)
  <2>1. y = x
    BY <1>2, <1>4
  <2> HIDE DEF A, N
  <2>2. Informs(A, x, x, A, N)
    BY <1>1, InformsNothing
  <2> QED
    BY <2>1, <2>2 DEF Heeds, A, N
<1>5. CASE x.phase = "Day" /\ late # {}
  <2>1. y = CloseDay(x, {}, now)
    BY <1>2, <1>5
  <2>2. Follows(x, y)
    BY <1>1, <1>5, <2>1, CloseDayFollows
  <2> HIDE DEF y
  <2> QED
    BY <1>1, <1>3, <2>2, FollowsHeeds DEF y
<1>6. CASE x.phase = "Night"
  <2>1. Midway(closed) /\ closed.phase = x.phase
    BY <1>1, <1>6, CloseNightFields DEF closed
  <2>2. SameTimes(x, closed) /\ SameSessions(x, closed) /\ Informs(Known(x), x, closed, Known(closed), Finds)
    BY <1>1, <1>6, CloseNightFollows DEF closed
  <2>3. Convened(closed)
    BY <2>2, KnownAlike
  <2>4. CASE Open(closed) = {}
    <3>1. y = ResolveNight(closed, now, luck)
      BY <1>2, <1>6, <2>4
    <3>2. Follows(closed, y) /\ closed \in GameType
      BY <1>6, <2>1, <3>1, ResolveNightFollows DEF Midway
    <3>3. y.living \subseteq closed.living
      BY <1>6, <2>1, <3>1, ResolveNightPlays DEF PhaseOver
    <3> HIDE DEF y
    <3>4. Heeds(closed, y)
      BY <1>3, <3>2, FollowsHeeds
    <3>5. Finds \subseteq News(y)
      BY FindsAreNews
    <3> QED
      BY <1>1, <2>2, <3>3, <3>4, <3>5, HeedsOn DEF y
  <2>5. CASE Open(closed) # {}
    <3>1. y = closed
      BY <1>2, <1>6, <2>5
    <3> DEFINE A == Known(x)
               B == Known(closed)
               N == News(closed)
    <3> HIDE DEF A, B, N
    <3>2. Informs(A, x, closed, B, Finds) /\ Finds \subseteq N
      BY <2>2, FindsAreNews DEF A, B, N
    <3>3. Informs(A, x, closed, B, N)
      BY <3>2, InformsLess
    <3> QED
      BY <2>3, <3>1, <3>3 DEF Heeds, A, B, N
  <2> QED
    BY <2>4, <2>5
<1> QED
  BY <1>1, <1>4, <1>5, <1>6 DEF Phases

\* Whom a selection is shared with are the others of its session, if it is one
\* of those that are; nobody shares the other of these.
LEMMA WitnessesShare ==
  ASSUME NEW x, Midway(x), Convened(x), NEW k \in Open(x), NEW p \in x.sessions[k].members,
         NEW q \in x.living, q # p
  PROVE  /\ q \in Witnesses(x, p, k) <=> k \in {"Devour", "Nominate"} /\ q \in x.sessions[k].members
         /\ k \in {"Devour", "Nominate"} =>
              \A j \in {"Devour", "Nominate"} \ {k} : x.sessions[j].members = {}
<1>1. /\ k \in Kinds /\ x.phase = PhaseOf(k) /\ x.phase \in Phases /\ x.living \in SUBSET Players /\ ~Over(x)
      /\ q \in Players
  BY UnopenedType DEF Midway, Open, GameType
<1>2. \A j \in Kinds : PhaseOf(j) # x.phase => x.sessions[j].members = {}
  BY DEF Midway, Unopened
<1>3. ASSUME k \in {"Devour", "Nominate"}
      PROVE  \A j \in {"Devour", "Nominate"} \ {k} : x.sessions[j].members = {}
  <2>1. CASE k = "Nominate"
    <3>1. PhaseOf("Devour") # x.phase
      BY <1>1, <2>1 DEF PhaseOf
    <3> QED
      BY <1>2, <2>1, <3>1 DEF Kinds
  <2>2. CASE k = "Devour"
    <3>1. PhaseOf("Nominate") # x.phase
      BY <1>1, <2>2 DEF PhaseOf
    <3> QED
      BY <1>2, <2>2, <3>1 DEF Kinds
  <2> QED
    BY <1>3, <2>1, <2>2
<1>4. CASE k = "Devour"
  <2>1. x.sessions[k].members = {r \in x.living : AskedIn(RoleOf[r], x.phase) = k} /\ x.phase = "Night"
    BY <1>1, <1>4 DEF Convened, PhaseOf
  <2>2. q \in Pack <=> AskedIn(RoleOf[q], x.phase) = k
    BY <1>1, <1>4, <2>1, DealAssumption DEF Pack, AskedIn, Roles, Nothing
  <2> QED
    BY <1>3, <1>4, <2>1, <2>2 DEF Witnesses
<1>5. CASE k = "Nominate"
  <2>1. x.sessions[k].members = {r \in x.living : AskedIn(RoleOf[r], x.phase) = k} /\ x.phase = "Day"
    BY <1>1, <1>5 DEF Convened, PhaseOf
  <2>2. AskedIn(RoleOf[q], x.phase) = k
    BY <1>5, <2>1 DEF AskedIn
  <2> QED
    BY <1>3, <1>5, <2>1, <2>2 DEF Witnesses
<1>6. CASE k \notin {"Devour", "Nominate"}
  BY <1>6 DEF Witnesses
<1> QED
  BY <1>4, <1>5, <1>6

\* Once a selection is counted there is that one to be seen, by those who share
\* its session.
LEMMA SeenCounted ==
  ASSUME NEW x, Midway(x), Convened(x), NEW k \in Open(x), NEW p \in x.sessions[k].members,
         NEW t \in x.living, NEW y, Counted(x, k, p, t, y),
         NEW q \in x.living, NEW r \in Players, r # q
  PROVE  Seen(y, q, r) = IF r = p /\ q \in Witnesses(x, p, k) THEN t ELSE Seen(x, q, r)
<1> DEFINE s == {j \in {"Devour", "Nominate"} : {q, r} \subseteq x.sessions[j].members}
           u == {j \in {"Devour", "Nominate"} : {q, r} \subseteq y.sessions[j].members}
           c == CHOOSE j \in s : TRUE
           e == CHOOSE j \in u : TRUE
<1>1. \A j \in {"Devour", "Nominate"} : y.sessions[j].members = x.sessions[j].members
  BY DEF Counted, Kinds
<1>2. u = s
  BY <1>1
<1>3. e = c /\ (s # {} => c \in s)
  BY <1>2
<1>4. /\ Seen(x, q, r) = IF s = {} THEN Nobody ELSE x.sessions[c].selections[r]
      /\ Seen(y, q, r) = IF s = {} THEN Nobody ELSE y.sessions[c].selections[r]
  <2>1. /\ Seen(x, q, r) = IF s = {} THEN Nobody ELSE x.sessions[c].selections[r]
        /\ Seen(y, q, r) = IF u = {} THEN Nobody ELSE y.sessions[e].selections[r]
    BY DEF Seen
  <2> HIDE DEF s, u, c, e
  <2> QED
    BY <1>2, <1>3, <2>1
<1>5. k \in Kinds /\ p \in Players /\ x.sessions[k].selections \in [Players -> Target]
  BY DEF Midway, GameType, Seats, Open
<1>6. \A j \in {"Devour", "Nominate"} \ {k} : y.sessions[j].selections = x.sessions[j].selections
  BY DEF Counted, Kinds
<1>7. y.sessions[k].selections = [x.sessions[k].selections EXCEPT ![p] = t]
  BY DEF Counted
<1>8. CASE r # p
  <2>1. \A j \in {"Devour", "Nominate"} : y.sessions[j].selections[r] = x.sessions[j].selections[r]
    BY <1>5, <1>6, <1>7, <1>8
  <2>2. s # {} => c \in {"Devour", "Nominate"}
    BY <1>3
  <2> HIDE DEF s, c
  <2> QED
    BY <1>4, <1>8, <2>1, <2>2
<1>9. CASE r = p /\ q \in Witnesses(x, p, k)
  <2>1. /\ k \in {"Devour", "Nominate"} /\ q \in x.sessions[k].members
        /\ \A j \in {"Devour", "Nominate"} \ {k} : x.sessions[j].members = {}
    BY <1>9, WitnessesShare
  <2>2. k \in s
    BY <1>9, <2>1
  <2>3. \A j \in s : j = k
    BY <2>1
  <2>4. s # {} /\ c = k
    BY <1>3, <2>2, <2>3
  <2> HIDE DEF s, c
  <2> QED
    BY <1>4, <1>5, <1>7, <1>9, <2>4
<1>10. CASE r = p /\ q \notin Witnesses(x, p, k)
  <2>1. ~(k \in {"Devour", "Nominate"} /\ q \in x.sessions[k].members)
    BY <1>10, WitnessesShare
  <2>2. s # {} => c \in {"Devour", "Nominate"} \ {k}
    BY <1>3, <2>1
  <2> HIDE DEF s, c
  <2> QED
    BY <1>4, <1>6, <1>10, <2>2
<1> QED
  BY <1>8, <1>9, <1>10

\* A selection counted and passed on to those who should see it is what there is
\* to see.
LEMMA RelayInforms ==
  ASSUME NEW x, Midway(x), Convened(x), NEW k \in Open(x), NEW p \in x.sessions[k].members,
         NEW t \in x.living, NEW c, Counted(x, k, p, t, c), NEW y, SameButSays(c, y),
         NEW e \in Envelopes, e.from = p, e.target = t,
         y.says = IF Witnesses(x, p, k) = {} THEN x.says
                  ELSE Append(x.says, [say |-> "forward", to |-> Witnesses(x, p, k), envelope |-> e])
  PROVE  Convened(y) /\ Informs(Known(x), x, y, Known(y), Relays)
<1> DEFINE W == Witnesses(x, p, k)
           A == Known(x)
           B == Known(y)
<1>1. x \in GameType /\ x.living \in SUBSET Players /\ ~Over(x) /\ p \in Players /\ t \in Players /\ t # Nobody
  BY DealAssumption DEF Midway, GameType, Seated, Open
<1>2. SameTimes(x, y)
  BY DEF Counted, Midway, Over, SameButSays, SameTimes
<1>3. SameTimes(c, y) /\ SameSessions(c, y)
  BY DEF SameButSays, SameTimes, SameSessions
<1>4. Convened(y)
  <2>1. Convened(c)
    BY DEF Counted, Midway, Convened, Kinds
  <2> QED
    BY <1>3, <2>1, KnownAlike
<1>5. \A q, r : Seen(y, q, r) = Seen(c, q, r)
  BY DEF SameButSays, Seen
<1>6. ASSUME NEW q \in x.living, NEW r \in Players, r # q
      PROVE  Seen(y, q, r) = IF r = p /\ q \in W THEN t ELSE Seen(x, q, r)
  BY <1>5, <1>6, SeenCounted
<1>7. \A q, n : IsAware(y, q, n) <=> IsAware(x, q, n)
  BY <1>2 DEF SameTimes, IsAware, IsAbreast, Over
<1>8. W \in SUBSET x.living /\ p \notin W
  BY DEF Witnesses
<1>9. y.living = x.living
  BY <1>2 DEF SameTimes
<1>10. ASSUME NEW q \in x.living, NEW n \in A[q], q \notin W PROVE n \in B[q]
  <2>1. q \in Players /\ n \in Knowledges /\ IsKnown(x, q, n)
    BY <1>1, <1>10 DEF Known
  <2>2. \A r \in Players \ {q} : n.selections[r] = Seen(y, q, r)
    BY <1>1, <1>6, <1>10, <2>1 DEF IsKnown
  <2> QED
    BY <1>7, <2>1, <2>2 DEF Known, IsKnown
<1>11. CASE W = {}
  <2>1. \A q \in y.living : A[q] \subseteq B[q]
    BY <1>9, <1>10, <1>11
  <2>2. y.says = x.says
    BY <1>11
  <2> HIDE DEF A, B
  <2>3. Informs(A, x, y, B, Relays)
    BY <1>1, <2>1, <2>2, InformsNothing
  <2> QED
    BY <1>4, <2>3 DEF A, B
<1>12. CASE W # {}
  <2> DEFINE d == [say |-> "forward", to |-> W, envelope |-> e]
             m == Relayed(e)
  <2>1. d \in Directives /\ d.say # "stop" /\ d.to = W /\ Sent(d).message = m
    BY <1>1, <1>8 DEF Directives, Sent, Tell
  <2>2. m \in Relays /\ m \in Mail /\ m.is = "Relayed" /\ m.envelope = e
    BY DEF Relayed, Relays, Mail
  <2>3. y.says = Append(x.says, d)
    BY <1>12
  <2> HIDE DEF d, m
  <2>4. ASSUME NEW q \in x.living, NEW n \in A[q], q \in W PROVE Observed(n, m) \in B[q]
    <3> DEFINE o == Observed(n, m)
    <3>1. q \in Players /\ n \in Knowledges /\ IsKnown(x, q, n)
      BY <1>1, <2>4 DEF Known
    <3>2. /\ o \in Knowledges /\ o.selections = [n.selections EXCEPT ![p] = t]
          /\ SameMoment(n, o) /\ SameDead(n, o) /\ SameRest(n, o)
      BY <2>2, <3>1, ObservedFields
    <3>3. n.selections \in [Players -> Target]
      BY <3>1 DEF Knowledges
    <3> HIDE DEF o
    <3>4. IsAware(x, q, o)
      BY <3>1, <3>2 DEF IsKnown, IsAware, IsAbreast, SameMoment, SameDead, SameRest
    <3>5. \A r \in Players \ {q} : o.selections[r] = Seen(y, q, r)
      <4> TAKE r \in Players \ {q}
      <4>1. n.selections[r] = Seen(x, q, r)
        BY <1>1, <3>1 DEF IsKnown
      <4>2. o.selections[r] = IF r = p THEN t ELSE n.selections[r]
        BY <3>2, <3>3
      <4> QED
        BY <1>6, <2>4, <4>1, <4>2
    <3>6. IsKnown(y, q, o)
      BY <1>7, <3>4, <3>5 DEF IsKnown
    <3> QED
      BY <3>1, <3>2, <3>6 DEF Known, o
  <2>5. \A q \in y.living : \A n \in A[q] :
          IF d.say # "stop" /\ q \in d.to THEN Observed(n, Sent(d).message) \in B[q] ELSE n \in B[q]
    BY <1>9, <1>10, <2>1, <2>4
  <2>6. Sent(d).message \in Relays
    BY <2>1, <2>2
  <2> HIDE DEF A, B
  <2>7. Informs(A, x, y, B, Relays)
    BY <1>1, <2>1, <2>3, <2>5, <2>6, InformsOnce
  <2> QED
    BY <1>4, <2>7 DEF A, B
<1> QED
  BY <1>11, <1>12

\* A relay is news of every game.
LEMMA RelaysAreNews == \A y : Relays \subseteq News(y)
<1>1. ASSUME NEW m \in Relays PROVE m \in Mail /\ m.is = "Relayed"
  BY DEF Mail, Relays
<1> QED
  BY <1>1 DEF News

\* A selection that counts names those who should see it.
Shared(x, p, sel) ==
  InSession(x, p, sel) => Counts(x, p, sel) /\ sel.seenBy = Witnesses(x, p, sel.kind)

\* What a selection makes of x: it is passed on, or the day is over.
PassedOn(x, y) ==
  InPlay(y) /\ ~Over(y) /\ y.living = x.living /\ Convened(y) /\ Informs(Known(x), x, y, Known(y), Relays)
DayIsOver(x, y, now) ==
  /\ Heeds(x, y) /\ InPlay(y)
  /\ Over(y) \/ \A k \in Open(y) : y.sessions[k].limit = now + Limit[k] /\ y.sessions[k].lastChange = now

\* select.
LEMMA SelectHeeds ==
  ASSUME NEW x, InPlay(x), ~Over(x), Convened(x), NEW p \in Players, NEW sel,
         InSession(x, p, sel), Shared(x, p, sel), NEW now \in Nat
  PROVE  LET y == Select(x, p, sel, now)
         IN  PassedOn(x, y) \/ DayIsOver(x, y, now)
<1> DEFINE k == sel.kind
           t == sel.target
           counted == [x EXCEPT !.sessions[sel.kind] = Record(@, p, sel.target, now)]
           relayed == IF sel.seenBy = {} THEN counted ELSE Forward(counted, sel.seenBy, Envelope(p, sel))
           y == Select(x, p, sel, now)
           W == Witnesses(x, p, k)
<1>1. /\ Midway(x) /\ x \in GameType /\ x.living \in SUBSET Players
      /\ k \in Open(x) /\ p \in x.sessions[k].members
      /\ t \in x.living /\ sel.seenBy = W /\ W \in SUBSET Players /\ W \subseteq x.living
      /\ k \in Kinds /\ t \in Players
  BY InPlayMidway DEF Midway, GameType, Shared, Counts, InSession, SpaceFor, ActionSpace, Open
<1>2. Counted(x, k, p, t, counted)
  <2>1. counted = [x EXCEPT !.sessions = [x.sessions EXCEPT ![k] = Record(x.sessions[k], p, t, now)]]
    OBVIOUS
  <2> HIDE DEF counted, k, t
  <2> QED
    BY <1>1, <2>1, CountedFields
<1>3. y = IF k = "Nominate" /\ Majority(relayed) # {} THEN CloseDay(relayed, {t}, now) ELSE relayed
  BY <1>1 DEF Select
<1> DEFINE e == Envelope(p, sel)
<1>4. e \in Envelopes /\ e.from = p /\ e.target = t
  BY <1>1 DEF Envelope, Envelopes
<1> HIDE DEF counted
<1>5. /\ relayed \in GameType /\ SameButSays(counted, relayed)
      /\ relayed.says = IF W = {} THEN x.says
                        ELSE Append(x.says, [say |-> "forward", to |-> W, envelope |-> e])
  <2>1. counted \in GameType /\ counted.says = x.says /\ counted.living = x.living
    BY <1>2 DEF Counted, Midway
  <2>2. CASE W = {}
    BY <1>1, <2>1, <2>2 DEF SameButSays
  <2>3. CASE W # {}
    <3>1. relayed = Forward(counted, W, e)
      BY <1>1, <2>3
    <3> HIDE DEF relayed, W, e
    <3> QED
      BY <1>1, <1>4, <2>1, <2>3, <3>1, ForwardFields
  <2> QED
    BY <2>2, <2>3
<1> HIDE DEF relayed, y, e, W
<1>6. Convened(relayed) /\ Informs(Known(x), x, relayed, Known(relayed), Relays)
  BY <1>1, <1>2, <1>4, <1>5, RelayInforms DEF W
<1>7. Midway(relayed) /\ Open(relayed) = Open(x) /\ relayed.living = x.living /\ relayed.phase = x.phase
  BY <1>2, <1>5 DEF Counted, Midway, Over, Seated, SameButSays, Open
<1>8. CASE k = "Nominate" /\ Majority(relayed) # {}
  <2>1. relayed.phase = "Day"
    BY <1>1, <1>7, <1>8, UnopenedType DEF Midway, Open, PhaseOf
  <2>2. y = CloseDay(relayed, {t}, now)
    BY <1>3, <1>8
  <2>3. PhaseOver(relayed, y, {t}, now) /\ Follows(relayed, y)
    BY <1>1, <1>7, <2>1, <2>2, CloseDayPlays, CloseDayFollows
  <2>4. /\ InPlay(y) /\ y.living \subseteq relayed.living /\ y.living \subseteq x.living
        /\ (Over(y) \/ \A j \in Open(y) : y.sessions[j].limit = now + Limit[j] /\ y.sessions[j].lastChange = now)
    BY <1>7, <2>3 DEF PhaseOver, NewPhase, Finished
  <2>5. Heeds(relayed, y)
    BY <1>1, <1>5, <2>3, <2>4, FollowsHeeds
  <2>6. Heeds(x, y)
    BY <1>1, <1>6, <2>4, <2>5, RelaysAreNews, HeedsOn
  <2> QED
    BY <2>4, <2>6 DEF y, DayIsOver
<1>9. CASE ~(k = "Nominate" /\ Majority(relayed) # {})
  <2>1. y = relayed
    BY <1>3, <1>9
  <2>2. x.phase = "Day" => k = "Nominate"
    BY <1>1, UnopenedType DEF Midway, Open, PhaseOf
  <2>3. InPlay(relayed) /\ ~Over(relayed)
    BY <1>1, <1>7, <1>9, <2>2 DEF InPlay, Midway, Over
  <2> QED
    BY <1>6, <1>7, <2>1, <2>3 DEF y, PassedOn
<1> QED
  BY <1>8, <1>9

\* A selection, and then the clocks.
LEMMA ChoiceHeeds ==
  ASSUME NEW x, InPlay(x), ~Over(x), Convened(x), NEW p \in Players, NEW sel,
         Shared(x, p, sel), NEW now \in Nat, NEW luck
  PROVE  Heeds(x, Expire(Select(x, p, sel, now), now, luck))
<1> DEFINE z == Select(x, p, sel, now)
           y == Expire(z, now, luck)
<1>1. x \in GameType
  BY DEF InPlay
<1>2. CASE ~InSession(x, p, sel)
  <2>1. z = x
    BY <1>2 DEF Select
  <2> HIDE DEF z
  <2> QED
    BY <2>1, ExpireHeeds DEF z
<1>3. CASE InSession(x, p, sel)
  <2>1. CASE PassedOn(x, z)
    <3> HIDE DEF z
    <3>1. Heeds(z, y)
      BY <2>1, ExpireHeeds DEF PassedOn
    <3>2. y.living \subseteq z.living
      BY <2>1, ExpirePlays DEF PassedOn, Turns, Stayed, PhaseOver
    <3> HIDE DEF y
    <3> QED
      BY <1>1, <2>1, <3>1, <3>2, RelaysAreNews, HeedsOn DEF PassedOn, y, z
  <2>2. CASE DayIsOver(x, z, now)
    <3> HIDE DEF z
    <3>1. y = z
      BY <2>2, ExpireFresh DEF DayIsOver
    <3> QED
      BY <2>2, <3>1 DEF DayIsOver, z
  <2>3. PassedOn(x, z) \/ DayIsOver(x, z, now)
    BY <1>3, SelectHeeds
  <2> QED
    BY <2>1, <2>2, <2>3
<1> QED
  BY <1>2, <1>3

(***************************************************************************)
(* Carrying out.                                                           *)
(***************************************************************************)
\* What p is told by one effect.
Line(f, p) == IF f.do = "tell" /\ p \in f.to THEN <<f.message>> ELSE << >>

LEMMA LineType ==
  ASSUME NEW f \in Effects, NEW p
  PROVE  Line(f, p) \in Seq(Mail)
<1>1. f.do = "tell" => f.message \in Mail
  BY DEF Effects, Mail
<1> QED
  BY <1>1 DEF Line

\* What is told by some effects is told by them one by one.
LEMMA ToldInTwo ==
  ASSUME NEW v \in Seq(Effects), NEW w \in Seq(Effects), NEW p
  PROVE  Told(v \o w, p) = Told(v, p) \o Told(w, p)
<1> DEFINE e == v \o w
           m == Len(v)
           n == Len(w)
           ss == [i \in DOMAIN v |-> Line(v[i], p)]
           tt == [i \in DOMAIN w |-> Line(w[i], p)]
           S == Seq(Mail)
<1>1. /\ m \in Nat /\ n \in Nat /\ DOMAIN v = 1 .. m /\ DOMAIN w = 1 .. n /\ DOMAIN e = 1 .. m + n
      /\ \A i \in 1 .. m + n : e[i] = IF i <= m THEN v[i] ELSE w[i - m]
  OBVIOUS
<1>2. ss \in Seq(S) /\ tt \in Seq(S) /\ Len(ss) = m /\ Len(tt) = n
  <2>1. (\A i \in 1 .. m : v[i] \in Effects) /\ (\A i \in 1 .. n : w[i] \in Effects)
    OBVIOUS
  <2>2. ss \in [1 .. m -> S] /\ tt \in [1 .. n -> S]
    BY <1>1, <2>1, LineType
  <2> HIDE DEF ss, tt, m, n, S
  <2> QED
    BY <1>1, <2>2
<1>3. [i \in DOMAIN e |-> Line(e[i], p)] = ss \o tt
  <2> DEFINE a == ss \o tt
             f(i) == IF i <= m THEN Line(v[i], p) ELSE Line(w[i - m], p)
  <2>1. /\ \A i \in 1 .. m : ss[i] = Line(v[i], p)
        /\ \A i \in 1 .. n : tt[i] = Line(w[i], p)
    BY <1>1
  <2>2. \A i \in 1 .. m + n : Line(e[i], p) = f(i)
    BY <1>1
  <2> HIDE DEF ss, tt, m, n, S, e
  <2>3. a \in Seq(S) /\ Len(a) = m + n /\ \A i \in 1 .. m + n : a[i] = IF i <= m THEN ss[i] ELSE tt[i - m]
    BY <1>1, <1>2
  <2>4. a = [i \in 1 .. m + n |-> a[i]]
    <3> HIDE DEF a
    <3> QED
      BY <2>3
  <2>5. \A i \in 1 .. m + n : a[i] = f(i)
    <3> HIDE DEF a
    <3> TAKE i \in 1 .. m + n
    <3>1. CASE i <= m
      BY <1>1, <2>1, <2>3, <3>1
    <3>2. CASE ~(i <= m)
      <4>1. i - m \in 1 .. n
        BY <1>1, <3>2
      <4> QED
        BY <2>1, <2>3, <3>2, <4>1
    <3> QED
      BY <3>1, <3>2
  <2> HIDE DEF a, f
  <2> QED
    BY <1>1, <2>2, <2>4, <2>5 DEF a
<1>4. Told(e, p) = FlattenSeq(ss \o tt) /\ Told(v, p) = FlattenSeq(ss) /\ Told(w, p) = FlattenSeq(tt)
  BY <1>3 DEF Told, Line
<1> HIDE DEF ss, tt, e
<1>5. FlattenSeq(ss \o tt) = FlattenSeq(ss) \o FlattenSeq(tt)
  BY <1>2, FlattenIsIt, Learning!FlattenInTwo
<1> QED
  BY <1>4, <1>5 DEF e

\* What tells nothing tells nobody anything.
LEMMA ToldNothing ==
  ASSUME NEW w \in Seq(Effects), NEW p, \A i \in 1 .. Len(w) : w[i].do # "tell"
  PROVE  Told(w, p) = << >>
<1> DEFINE n == Len(w)
           ss == [i \in DOMAIN w |-> Line(w[i], p)]
           none == {}
<1>1. n \in Nat /\ DOMAIN w = 1 .. n /\ \A i \in 1 .. n : Line(w[i], p) = << >>
  BY DEF Line
<1>2. << >> \in Seq(none)
  OBVIOUS
<1>3. Told(w, p) = FlattenSeq(ss)
  BY DEF Told, Line
<1> HIDE DEF none
<1>4. ss \in Seq(Seq(none))
  <2>1. ss \in [1 .. n -> Seq(none)]
    BY <1>1, <1>2
  <2> HIDE DEF ss, n
  <2> QED
    BY <1>1, <2>1
<1> HIDE DEF ss
<1>5. FlattenSeq(ss) \in Seq(none)
  BY <1>4, FlattenIsIt, Learning!Flattened
<1> DEFINE f == FlattenSeq(ss)
<1> HIDE DEF f
<1>6. f \in Seq(none) => f = << >>
  <2> SUFFICES ASSUME f \in Seq(none) PROVE f = << >>
    OBVIOUS
  <2>1. Len(f) \in Nat /\ \A i \in 1 .. Len(f) : f[i] \in none
    OBVIOUS
  <2>2. Len(f) = 0
    BY <2>1 DEF none
  <2> QED
    BY <2>2
<1> QED
  BY <1>3, <1>5, <1>6 DEF f

\* What carries some directives tells what is heard of them.
LEMMA ToldWords ==
  ASSUME NEW q \in Seq(Directives), NEW e, Carries(e, q), NEW p
  PROVE  Told(e, p) = Words(q, p)
<1> DEFINE m == Len(q)
           n == Len(e)
           v == SubSeq(e, 1, m)
           w == SubSeq(e, m + 1, n)
<1>1. e \in Seq(Effects) /\ m \in Nat /\ n \in Nat /\ m <= n /\ DOMAIN q = 1 .. m
  BY DEF Carries
<1>2. /\ v \in Seq(Effects) /\ w \in Seq(Effects) /\ e = v \o w
      /\ Len(v) = m /\ DOMAIN v = 1 .. m /\ \A i \in 1 .. m : v[i] = e[i]
      /\ Len(w) = n - m /\ \A i \in 1 .. Len(w) : w[i] = e[i + m]
  <2> HIDE DEF m, n
  <2>1. /\ v \in Seq(Effects) /\ Len(v) = m /\ DOMAIN v = 1 .. m /\ \A i \in 1 .. m : v[i] = e[i]
    BY <1>1 DEF n
  <2>2. /\ w \in Seq(Effects) /\ Len(w) = n - m /\ \A i \in 1 .. n - m : w[i] = e[i + m]
    BY <1>1 DEF n
  <2>3. e = v \o w
    <3> DEFINE a == v \o w
    <3>1. n - m \in Nat
      BY <1>1
    <3> HIDE DEF v, w
    <3> DEFINE l == n - m
    <3>3. m + l = n /\ l \in Nat
      BY <1>1, <3>1
    <3>6. Len(v) = m /\ Len(w) = l /\ v \in Seq(Effects) /\ w \in Seq(Effects)
      BY <2>1, <2>2
    <3> HIDE DEF l
    <3>2. a \in Seq(Effects) /\ Len(a) = m + l
          /\ \A i \in 1 .. m + l : a[i] = IF i <= m THEN v[i] ELSE w[i - m]
      BY <3>6, ConcatProperties
    <3>4. \A i \in 1 .. n : a[i] = e[i]
      <4> TAKE i \in 1 .. n
      <4>1. CASE i <= m
        BY <1>1, <2>1, <3>2, <3>3, <4>1
      <4>2. CASE ~(i <= m)
        <5>1. i - m \in 1 .. n - m /\ (i - m) + m = i
          BY <1>1, <4>2
        <5> QED
          BY <2>2, <3>2, <3>3, <4>2, <5>1
      <4> QED
        BY <4>1, <4>2
    <3> HIDE DEF a
    <3>5. e = a
      BY <1>1, <3>2, <3>3, <3>4, SeqEqual DEF n
    <3> QED
      BY <3>5 DEF a
  <2> QED
    BY <2>1, <2>2, <2>3
<1> HIDE DEF v, w
<1>3. Told(v, p) = Words(q, p)
  <2>1. \A i \in 1 .. m : v[i] = Sent(q[i]) /\ q[i] \in Directives
    BY <1>1, <1>2 DEF Carries
  <2>2. \A d \in Directives : Line(Sent(d), p) = Word(d, p)
    BY DEF Directives, Line, Word, Sent, Tell, Command
  <2>3. [i \in DOMAIN v |-> Line(v[i], p)] = [i \in DOMAIN q |-> Word(q[i], p)]
    BY <1>1, <1>2, <2>1, <2>2
  <2> QED
    BY <2>3 DEF Told, Words, Line
<1>4. Told(w, p) = << >>
  <2>1. \A i \in 1 .. Len(w) : w[i].do # "tell"
    <3> TAKE i \in 1 .. Len(w)
    <3>1. i + m \in m + 1 .. n /\ w[i] = e[i + m]
      BY <1>1, <1>2
    <3> QED
      BY <3>1 DEF Carries
  <2>2. w \in Seq(Effects)
    BY <1>2
  <2> QED
    BY <2>1, <2>2, ToldNothing
<1>5. Told(e, p) = Words(q, p) \o << >>
  <2>1. v \in Seq(Effects) /\ w \in Seq(Effects) /\ e = v \o w
    BY <1>2
  <2>2. Told(v \o w, p) = Told(v, p) \o Told(w, p)
    BY <2>1, ToldInTwo
  <2> QED
    BY <1>3, <1>4, <2>1, <2>2
<1>6. Words(q, p) \in Seq(Mail)
  BY WordsType, WordType
<1> DEFINE s == Words(q, p)
<1> HIDE DEF s
<1>7. s \in Seq(Mail) => s \o << >> = s
  OBVIOUS
<1> QED
  BY <1>5, <1>6, <1>7 DEF s

\* The control that starts everybody tells nobody anything.
LEMMA ToldStarted ==
  ASSUME NEW q \in Seq(Directives), NEW e, Carries(e, q), NEW p
  PROVE  Told(<<Command(Players, "start")>> \o e, p) = Words(q, p)
<1> DEFINE c == <<Command(Players, "start")>>
           s == Words(q, p)
<1>1. e \in Seq(Effects)
  BY DEF Carries
<1>2. c \in Seq(Effects) /\ \A i \in 1 .. Len(c) : c[i].do # "tell"
  BY DEF Command, Effects
<1>3. s \in Seq(Mail)
  BY WordsType, WordType
<1>4. Told(e, p) = s
  BY ToldWords
<1> HIDE DEF c, s
<1>5. Told(c, p) = << >>
  BY <1>2, ToldNothing
<1>6. Told(c \o e, p) = << >> \o s
  <2>1. Told(c \o e, p) = Told(c, p) \o Told(e, p)
    BY <1>1, <1>2, ToldInTwo
  <2> QED
    BY <1>4, <1>5, <2>1
<1>7. << >> \o s = s
  BY <1>3
<1> QED
  BY <1>6, <1>7 DEF c, s

(***************************************************************************)
(* As time passes.                                                         *)
(***************************************************************************)
\* The news of x is a message anybody may have to read.
LEMMA NewsFits ==
  ASSUME NEW x, NEW p, NEW m \in News(x)
  PROVE  Fits(x, p, m)
BY DEF News, Fits

\* The past stays past, and the present, if it is not the present still, is past.
LEMMA Passes ==
  ASSUME NEW x, InPlay(x), NEW y, InPlay(y), NEW now, NewPhase(x, y, now),
         NEW r \in Nat, NEW ph \in Phases, Past(x, r, ph) \/ Present(x, r, ph)
  PROVE  Past(y, r, ph)
<1>1. x.round \in Nat /\ x.phase \in Phases /\ y.round \in Nat /\ y.phase \in Phases
  BY DEF InPlay, GameType
<1>2. CASE x.phase = "Night"
  BY <1>1, <1>2 DEF NewPhase, Past, Present, Phases
<1>3. CASE x.phase = "Day"
  BY <1>1, <1>3 DEF NewPhase, Past, Present, Phases
<1> QED
  BY <1>1, <1>2, <1>3 DEF Phases

\* A message there is to read has a moment, if it names one.
LEMMA MailHasItsMoment ==
  ASSUME NEW m \in Mail, m.is = "PhaseBegan"
  PROVE  m.round \in Nat /\ m.phase \in Phases
BY DEF Mail, Narrations, Relays

\* And so has a selection.
LEMMA BallotsHaveTheirs ==
  ASSUME NEW o \in Ballots
  PROVE  o.selection.round \in Nat /\ PhaseOf(o.selection.kind) \in Phases
BY DEF Ballots, PhaseOf, Phases

\* What fitted x, and was made in it, fits what a call makes of x.
LEMMA TimePasses ==
  ASSUME NEW x, InPlay(x), ~Over(x), NEW c, NEW now, NEW y, Turns(x, c, y, now)
  PROVE  /\ y.living \subseteq x.living
         /\ \A p, m : Fits(x, p, m) => Fits(y, p, m)
         /\ \A o \in Ballots : Made(x, o) => Made(y, o)
<1>1. CASE Stayed(x, y)
  <2>1. y.living = x.living /\ y.round = x.round /\ y.phase = x.phase /\ ~Over(y)
    BY <1>1 DEF Stayed
  <2>2. \A r, ph : (Past(x, r, ph) <=> Past(y, r, ph)) /\ (Present(x, r, ph) <=> Present(y, r, ph))
    BY <2>1 DEF Past, Present
  <2>3. \A p, m : Fits(x, p, m) => Fits(y, p, m)
    BY <2>1, <2>2 DEF Fits
  <2>4. \A p, k : Witnesses(x, p, k) = Witnesses(y, p, k)
    BY <2>1 DEF Witnesses
  <2>5. \A o \in Ballots : Made(x, o) => Made(y, o)
    BY <2>1, <2>2, <2>4 DEF Made
  <2> QED
    BY <2>1, <2>3, <2>5
<1>2. CASE ~Stayed(x, y)
  <2>1. PICK gone \in SUBSET x.living : PhaseOver(x, y, gone, now)
    BY <1>2 DEF Turns
  <2>2. InPlay(y) /\ y.living \subseteq x.living
    BY <2>1 DEF PhaseOver
  <2>3. CASE NewPhase(x, y, now)
    <3>1. ASSUME NEW p, NEW m, Fits(x, p, m) PROVE Fits(y, p, m)
      <4>1. m \in Mail /\ (m.is = "Assigned" => m = Assigned(p)) /\ (m.is = "Eliminated" => m.who \notin y.living)
        BY <2>2, <3>1 DEF Fits
      <4>2. m.is = "PhaseBegan" => Past(y, m.round, m.phase)
        BY <2>2, <2>3, <3>1, <4>1, MailHasItsMoment, Passes DEF Fits
      <4> QED
        BY <4>1, <4>2 DEF Fits
    <3>2. ASSUME NEW o \in Ballots, Made(x, o) PROVE Made(y, o)
      <4>1. Past(y, o.selection.round, PhaseOf(o.selection.kind))
        BY <2>2, <2>3, <3>2, BallotsHaveTheirs, Passes DEF Made
      <4> QED
        BY <4>1 DEF Made
    <3> QED
      BY <2>2, <3>1, <3>2
  <2>4. CASE Finished(x, y)
    <3>1. y.round = x.round /\ y.phase = x.phase /\ Over(y)
      BY <2>4 DEF Finished
    <3>2. \A r, ph : (Past(x, r, ph) <=> Past(y, r, ph)) /\ (Present(x, r, ph) <=> Present(y, r, ph))
      BY <3>1 DEF Past, Present
    <3>3. \A p, m : Fits(x, p, m) => Fits(y, p, m)
      BY <2>2, <3>1, <3>2 DEF Fits
    <3>4. \A o \in Ballots : Made(x, o) => Made(y, o)
      BY <3>1, <3>2 DEF Made
    <3> QED
      BY <2>2, <3>3, <3>4
  <2> QED
    BY <2>1, <2>3, <2>4 DEF PhaseOver
<1> QED
  BY <1>1, <1>2

\* A game that has been listened to: the same to know, to read, and to select in.
LEMMA Listened ==
  ASSUME NEW x, InPlay(x), Convened(x), NEW y, y = [x EXCEPT !.says = << >>]
  PROVE  /\ InPlay(y) /\ Convened(y) /\ y.says = << >> /\ y.living = x.living /\ (Over(y) <=> Over(x))
         /\ Known(y) = Known(x)
         /\ \A p, m : Fits(x, p, m) => Fits(y, p, m)
         /\ \A o : Made(x, o) => Made(y, o)
<1>1. /\ InPlay(y) /\ y.says = << >> /\ (Over(y) <=> Over(x)) /\ y.living = x.living /\ y.round = x.round
      /\ y.phase = x.phase /\ y.sessions = x.sessions /\ y.winner = x.winner
  BY HeardOut
<1>2. Known(y) = Known(x) /\ Convened(y)
  BY <1>1, KnownAlike DEF SameTimes, SameSessions
<1>3. \A r, ph : (Past(x, r, ph) <=> Past(y, r, ph)) /\ (Present(x, r, ph) <=> Present(y, r, ph))
  BY <1>1 DEF Past, Present
<1>4. \A p, m : Fits(x, p, m) => Fits(y, p, m)
  BY <1>1, <1>3 DEF Fits
<1>5. \A p, k : Witnesses(x, p, k) = Witnesses(y, p, k)
  BY <1>1 DEF Witnesses
<1>6. \A o : Made(x, o) => Made(y, o)
  BY <1>1, <1>3, <1>5 DEF Made
<1> QED
  BY <1>1, <1>2, <1>4, <1>6

(***************************************************************************)
(* The start.                                                              *)
(***************************************************************************)
\* What a player knows that has read its role, however often: nothing is false,
\* and nothing else is known.
IsAssigned(p, k) ==
  /\ k \in Knowledges /\ k.pack = (IF p \in Pack THEN Pack ELSE {})
  /\ k.dead = NewKnowledge.dead /\ k.over = FALSE /\ k.investigations = NewKnowledge.investigations

LEMMA AssignedIsKnown ==
  ASSUME NEW p \in Players, NEW k \in Knowledges, NEW s \in Seq({Assigned(p)}), s # << >>,
         k.dead = NewKnowledge.dead, k.over = FALSE, k.investigations = NewKnowledge.investigations
  PROVE  IsAssigned(p, Reads(k, s)) /\ s \in Seq(Mail)
<1> DEFINE m == Assigned(p)
           I == {n \in Knowledges : IsAssigned(p, n)}
           S == {m}
<1>1. m \in Mail /\ m.is = "Assigned" /\ m.pack = (IF p \in Pack THEN Pack ELSE {})
  BY NewModeratorFields, NarrationTypes DEF Mail, Assigned
<1>2. s \in Seq(S) /\ Head(s) = m /\ Tail(s) \in Seq(S)
  <2>1. \A t \in Seq({m}) : t # << >> => Head(t) = m /\ Tail(t) \in Seq({m})
    <3> HIDE DEF m
    <3> QED
      OBVIOUS
  <2> QED
    BY <2>1
<1>3. s \in Seq(Mail)
  BY <1>1
<1> HIDE DEF m
<1>4. \A v \in Knowledges : /\ Observed(v, m) \in Knowledges /\ Observed(v, m).pack = m.pack
                            /\ Observed(v, m).dead = v.dead /\ Observed(v, m).over = v.over
                            /\ Observed(v, m).investigations = v.investigations
  BY <1>1, ObservedFields DEF SameRest
<1>5. Observed(k, m) \in I
  BY <1>1, <1>4 DEF IsAssigned
<1>6. \A v \in I, e \in S : Observed(v, e) \in I
  BY <1>1, <1>4 DEF IsAssigned
<1> DEFINE t == Tail(s)
           n == Observed(k, m)
<1> HIDE DEF I, S, t, n
<1>7. Reads(n, t) \in I
  BY <1>2, <1>5, <1>6, ReadsKeeps DEF n, t
<1>8. Reads(k, s) = Reads(n, t)
  BY <1>2, <1>3, ReadsFacts DEF n, t
<1> QED
  BY <1>3, <1>7, <1>8 DEF I

\* begin: each player is told its role, and then the first night, and knows the
\* game it is in.
LEMMA BeginHeeds ==
  ASSUME NEW now \in Nat
  PROVE  LET y == Begin(now)
         IN  /\ Convened(y)
             /\ \A p \in Players :
                  LET s == Words(y.says, p)
                  IN  /\ s \in Seq(Mail) /\ s # << >> /\ Head(s) = Assigned(p)
                      /\ \A i \in 1 .. Len(s) : Fits(y, p, s[i])
                      /\ Reads(NewKnowledge, s) \in Known(y)[p]
<1> DEFINE deal == SetToSeq(Players)
           says == [i \in DOMAIN deal |-> Narration({deal[i]}, Assigned(deal[i]))]
           z == [NewGame EXCEPT !.begun = TRUE, !.says = says]
           y == BeginPhase(z, now)
<1>1. /\ deal \in Seq(Players) /\ Len(deal) \in Nat /\ DOMAIN deal = 1 .. Len(deal)
      /\ \A p \in Players : \E i \in 1 .. Len(deal) : deal[i] = p
  BY SetToSeqType
<1>2. /\ NewGame.living = Players /\ NewGame.round = 1 /\ NewGame.phase = "Night"
      /\ NewGame.winner = "undecided" /\ << >> \in Seq(Directives)
  BY EmptySeq DEF NewGame
<1>3. NewGame \in GameType
  BY NewGameType
<1>4. says \in Seq(Directives) /\ Len(says) = Len(deal)
      /\ \A i \in 1 .. Len(deal) : says[i] = Narration({deal[i]}, Assigned(deal[i])) /\ deal[i] \in Players
  <2> HIDE DEF deal
  <2>1. \A i \in 1 .. Len(deal) : deal[i] \in Players
    BY <1>1, ElementOfSeq
  <2> DEFINE d(i) == Narration({deal[i]}, Assigned(deal[i]))
  <2>2. \A i \in 1 .. Len(deal) : d(i) \in Directives
    <3> TAKE i \in 1 .. Len(deal)
    <3>1. Assigned(deal[i]) \in Narrations
      BY <1>3, <2>1, NarrationTypes
    <3> QED
      BY <2>1, <3>1 DEF Narration, Directives
  <2>3. says = [i \in 1 .. Len(deal) |-> d(i)]
    BY <1>1
  <2> HIDE DEF d, says
  <2>4. says \in [1 .. Len(deal) -> Directives]
    BY <2>2, <2>3
  <2>5. says \in Seq(Directives) /\ Len(says) = Len(deal)
    BY <1>1, <2>4
  <2>6. \A i \in 1 .. Len(deal) : says[i] = d(i)
    BY <2>3
  <2> QED
    BY <2>1, <2>5, <2>6 DEF d
<1> HIDE DEF says, deal
<1>5. /\ z \in GameType /\ z.living = Players /\ z.round = 1 /\ z.phase = "Night"
      /\ z.winner = "undecided" /\ z.says = says
  BY <1>2, <1>3, <1>4 DEF GameType
<1>6. Begin(now) = y
  BY DEF Begin, y, z, says, deal
<1> HIDE DEF z
<1>7. Convened(y) /\ Informs(Abreast(z), z, y, Known(y), {PhaseBegan(y)})
  BY <1>5, DealUndecided, PhaseBegins DEF Over
<1>8. y \in GameType /\ y.living = z.living
  BY <1>5, BeginPhaseFields
<1> HIDE DEF y
<1>9. PICK w \in Seq(Directives) :
        /\ y.says = says \o w
        /\ \A i \in 1 .. Len(w) : w[i].say # "stop" => Sent(w[i]).message \in {PhaseBegan(y)}
        /\ \A p \in y.living : \A k \in Abreast(z)[p] : Reads(k, Words(w, p)) \in Known(y)[p]
  BY <1>5, <1>7 DEF Informs
<1>10. ASSUME NEW p \in Players
       PROVE  Words(says, p) \in Seq({Assigned(p)}) /\ Words(says, p) # << >>
  <2> DEFINE S == {Assigned(p)}
             one == <<Assigned(p)>>
  <2>1. one \in Seq(S) /\ << >> \in Seq(S) /\ one # << >>
    OBVIOUS
  <2> HIDE DEF S, one
  <2>2. \A i \in 1 .. Len(deal) : Word(says[i], p) = IF p = deal[i] THEN one ELSE << >>
    <3> TAKE i \in 1 .. Len(deal)
    <3> DEFINE d == says[i]
    <3>1. d = Narration({deal[i]}, Assigned(deal[i]))
      BY <1>4
    <3> HIDE DEF d
    <3>2. d.say = "narrate" /\ d.to = {deal[i]} /\ d.narration = Assigned(deal[i])
      BY <3>1 DEF Narration
    <3>3. Sent(d).message = Assigned(deal[i])
      BY <3>2 DEF Sent, Tell
    <3>4. Word(d, p) = IF p = deal[i] THEN one ELSE << >>
      BY <3>2, <3>3 DEF Word, one
    <3> QED
      BY <3>4 DEF d
  <2>3. \A i \in 1 .. Len(says) : Word(says[i], p) \in Seq(S)
    BY <1>4, <2>1, <2>2
  <2>4. DOMAIN says = 1 .. Len(says) /\ Len(says) \in Nat
    BY <1>4
  <2>5. Words(says, p) \in Seq(S) /\ \A i \in 1 .. Len(says) : Word(says[i], p) # << >> => Words(says, p) # << >>
    BY <2>3, <2>4, WordsType
  <2>6. Words(says, p) # << >>
    BY <1>1, <1>4, <2>1, <2>2, <2>5
  <2> QED
    BY <2>5, <2>6 DEF S
<1>11. ASSUME NEW p \in Players
       PROVE  LET s == Words(y.says, p)
              IN  /\ s \in Seq(Mail) /\ s # << >> /\ Head(s) = Assigned(p)
                  /\ \A i \in 1 .. Len(s) : Fits(y, p, s[i])
                  /\ Reads(NewKnowledge, s) \in Known(y)[p]
  <2> DEFINE a == Words(says, p)
             b == Words(w, p)
             k == Reads(NewKnowledge, a)
             N == {PhaseBegan(y)}
  <2>1. Words(y.says, p) = a \o b
    BY <1>4, <1>9, WordsInTwo
  <2>2. a \in Seq({Assigned(p)}) /\ a # << >>
    BY <1>10
  <2>3. IsAssigned(p, k) /\ a \in Seq(Mail)
    <3> HIDE DEF a
    <3> QED
      BY <2>2, NewKnowledgeType, AssignedIsKnown DEF NewKnowledge
  <2>4. k \in Abreast(z)[p]
    <3> HIDE DEF k
    <3>1. /\ \A q \in Players : k.dead[q].role = Nothing /\ k.dead[q].round = 0 /\ k.investigations[q] = Nothing
      BY <2>3 DEF IsAssigned, NewKnowledge, Alive
    <3>2. Pack \cap z.living = Pack
      BY <1>5 DEF Pack
    <3> QED
      <4>1. k.pack = IF p \in Pack THEN Pack \cap z.living ELSE {}
        BY <2>3, <3>2 DEF IsAssigned
      <4>2. k.over = Over(z)
        BY <1>5, <2>3 DEF IsAssigned, Over
      <4>3. \A q \in Players : /\ k.dead[q].role = IF q \in z.living THEN Nothing ELSE RoleOf[q]
                               /\ k.dead[q].round <= z.round
                               /\ k.investigations[q] \in {Nothing, Faction(RoleOf[q])}
        BY <1>5, <3>1
      <4> QED
        BY <2>3, <4>1, <4>2, <4>3 DEF IsAssigned, Abreast, IsAbreast
  <2>5. \A i \in 1 .. Len(w) : Word(w[i], p) \in Seq(N)
    <3> TAKE i \in 1 .. Len(w)
    <3> DEFINE m == Sent(w[i]).message
    <3>1. w[i].say # "stop" => m \in N
      BY <1>9
    <3> HIDE DEF N, m
    <3> QED
      BY <3>1 DEF Word, m
  <2>6. b \in Seq(N)
    <3> HIDE DEF N
    <3>1. DOMAIN w = 1 .. Len(w) /\ Len(w) \in Nat
      OBVIOUS
    <3> QED
      BY <2>5, <3>1, WordsType
  <2>7. PhaseBegan(y) \in Mail /\ Fits(y, p, PhaseBegan(y))
    <3>1. PhaseBegan(y) \in Mail
      BY <1>8, NarrationTypes DEF Mail
    <3> QED
      BY <3>1 DEF Fits, PhaseBegan, Present
  <2>8. Assigned(p) \in Mail /\ Fits(y, p, Assigned(p))
    <3>1. Assigned(p) \in Mail
      BY <1>8, NarrationTypes DEF Mail
    <3> QED
      BY <3>1 DEF Fits, Assigned
  <2>9. b \in Seq(Mail) /\ \A i \in 1 .. Len(b) : b[i] = PhaseBegan(y)
    <3> HIDE DEF b
    <3>1. \A t \in Seq(N) : t \in Seq(Mail) /\ \A i \in 1 .. Len(t) : t[i] \in N
      BY <2>7
    <3> QED
      BY <2>6, <3>1
  <2>10. \A i \in 1 .. Len(a) : a[i] = Assigned(p)
    <3> HIDE DEF a
    <3>1. \A i \in 1 .. Len(a) : a[i] \in {Assigned(p)}
      BY <2>2
    <3> QED
      BY <3>1
  <2>11. Reads(k, b) \in Known(y)[p]
    BY <1>5, <1>8, <1>9, <2>4
  <2>12. Reads(NewKnowledge, a \o b) = Reads(k, b)
    <3> HIDE DEF a, b
    <3> QED
      BY <2>3, <2>9, ReadsFacts
  <2> DEFINE s == a \o b
  <2>13. s \in Seq(Mail) /\ s # << >> /\ Head(s) = Assigned(p) /\ \A i \in 1 .. Len(s) : Fits(y, p, s[i])
    <3> HIDE DEF a, b
    <3>1. s \in Seq(Mail) /\ Len(s) = Len(a) + Len(b) /\ Len(a) \in Nat /\ Len(b) \in Nat /\ Len(a) # 0
          /\ \A i \in 1 .. Len(a) + Len(b) : s[i] = IF i <= Len(a) THEN a[i] ELSE b[i - Len(a)]
      BY <2>2, <2>3, <2>9
    <3> HIDE DEF s
    <3>2. \A i \in 1 .. Len(s) : s[i] = Assigned(p) \/ s[i] = PhaseBegan(y)
      <4> TAKE i \in 1 .. Len(s)
      <4>1. CASE i <= Len(a)
        BY <2>10, <3>1, <4>1
      <4>2. CASE ~(i <= Len(a))
        <5>1. i - Len(a) \in 1 .. Len(b)
          BY <3>1, <4>2
        <5> QED
          BY <2>9, <3>1, <4>2, <5>1
      <4> QED
        BY <4>1, <4>2
    <3>3. s[1] = Assigned(p)
      BY <2>10, <3>1
    <3>4. s # << >> /\ Head(s) = s[1]
      BY <3>1
    <3> QED
      BY <2>7, <2>8, <3>1, <3>2, <3>3, <3>4
  <2> HIDE DEF a, b, k
  <2> QED
    BY <2>1, <2>11, <2>12, <2>13
<1> QED
  BY <1>6, <1>7, <1>11

(***************************************************************************)
(* A call, carried out.                                                    *)
(***************************************************************************)
\* Whoever runs: not only those that read their mail.
Awake == {p \in Players : status[p] = "running"}

\* What becomes of the players, and of their mail.
LEMMA CarriesOn ==
  ASSUME Typed, NEW m \in ModType, CarryOut(m)
  PROVE  /\ mod' \in ModType /\ mod'.effects = << >> /\ g' = m.game
         /\ mod'.farewell = m.farewell /\ mod'.stopped = m.stopped
         /\ lively' = lively /\ \A p \in lively : mail'[p] = mail[p] \o Told(m.effects, p)
         /\ mail' = [p \in lively |-> mail'[p]]
         /\ status' \in [Players -> Conditions]
         /\ Awake' = (Awake \cup Starts(m.effects)) \ Stops(m.effects, Len(m.effects))
         /\ ~Refuses(m.effects, Awake) => moderating' = IF m.stopped THEN "stopped" ELSE "running"
<1> DEFINE e == m.effects
           stops == Stops(e, Len(e))
           starts == Starts(e)
<1>1. /\ mod' = [m EXCEPT !.effects = << >>]
      /\ mail' = [p \in lively |-> mail[p] \o Told(e, p)]
      /\ status' = [p \in Players |->
           CASE p \in stops \cap lively -> "told"
             [] p \in stops \ lively -> "stopped"
             [] p \in starts \ stops -> "running"
             [] OTHER -> status[p]]
      /\ moderating' = IF Refuses(e, Awake) THEN "refused"
                       ELSE IF m.stopped THEN "stopped" ELSE "running"
  BY DEF CarryOut, Awake
<1>2. << >> \in Seq(Effects)
  OBVIOUS
<1> HIDE DEF e, stops, starts
<1>3. /\ mod' \in ModType /\ mod'.effects = << >> /\ mod'.game = m.game
      /\ mod'.farewell = m.farewell /\ mod'.stopped = m.stopped
  BY <1>1, <1>2 DEF ModType
<1>4. status \in [Players -> Conditions]
  BY DEF Typed
<1>5. ASSUME NEW p \in Players
      PROVE  /\ status'[p] \in Conditions
             /\ status'[p] = "running" <=> (status[p] = "running" \/ p \in starts) /\ p \notin stops
  BY <1>1, <1>4, <1>5 DEF Conditions
<1>6. status' \in [Players -> Conditions]
  BY <1>1, <1>5
<1>7. starts \subseteq Players
  <2>1. e \in Seq(Effects)
    BY DEF ModType, e
  <2>2. DOMAIN e = 1 .. Len(e) /\ \A i \in 1 .. Len(e) : e[i] \in Effects
    BY <2>1, ElementOfSeq
  <2>3. \A i \in 1 .. Len(e) : e[i].do = "command" => e[i].to \subseteq Players
    BY <2>2 DEF Effects
  <2> QED
    BY <2>2, <2>3 DEF starts, Starts, Commanded
<1>8. Awake' = (Awake \cup starts) \ stops
  BY <1>5, <1>7 DEF Awake
<1>9. DOMAIN mail' = lively /\ \A p \in lively : mail'[p] = mail[p] \o Told(e, p)
  BY <1>1
<1>10. lively' = lively
  BY <1>9 DEF lively
<1>11. mail' = [p \in lively |-> mail'[p]]
  BY <1>1, <1>9
<1> QED
  BY <1>1, <1>3, <1>6, <1>8, <1>9, <1>10, <1>11 DEF g, e, stops, starts

\* A call while the game goes on: it becomes y, with the reminders in `left`
\* still on the timer.
Answers(y, R, left, m) ==
  /\ moderating = "running" /\ ~Over(g) /\ R \in SUBSET Nat /\ left \subseteq timer
  /\ (\E c : Turns(g, c, y, clock)) /\ KeepsTelling(g, y) /\ Heeds(g, y)
  /\ m = Say([mod EXCEPT !.game = y, !.reminded = R])
  /\ CarryOut(m) /\ timer' = left \cup RemindersSet(m.effects, clock)
  /\ clock' = clock /\ knows' = knows
  /\ heard' \in Seq(Ballots) /\ \A i \in DOMAIN heard' : heard'[i] \in {heard[j] : j \in DOMAIN heard}
LEMMA AnswersFields ==
  ASSUME TInv, NEW y, NEW R, NEW left, NEW m, Answers(y, R, left, m)
  PROVE  /\ InPlay(y) /\ Convened(y) /\ y.living \subseteq g.living
         /\ mod' \in ModType /\ mod'.effects = << >> /\ g' = [y EXCEPT !.says = << >>]
         /\ ~mod'.stopped /\ (mod'.farewell => Over(y)) /\ moderating' = "running"
         /\ timer' \subseteq [is : {"look", "farewell"}, deadline : Nat]
         /\ status' \in [Players -> Conditions] /\ Awake' = y.living
         /\ lively' = lively /\ mail' = [p \in lively |-> mail'[p]]
         /\ \A p \in lively : mail'[p] = mail[p] \o Words(y.says, p)
<1> DEFINE n == [mod EXCEPT !.game = y, !.reminded = R]
           d == Min(Deadlines(y))
<1>1. /\ mod \in ModType /\ InPlay(g) /\ ~Over(g) /\ ~mod.farewell /\ ~mod.stopped /\ g.says = << >>
      /\ Awake = g.living /\ Typed /\ clock \in Nat
      /\ timer \subseteq [is : {"look", "farewell"}, deadline : Nat]
  BY DEF TInv, Typed, Played, Answers, Awake
<1>2. InPlay(y) /\ Convened(y) /\ R \in SUBSET Nat
  BY DEF Answers, Turns, Stayed, PhaseOver, Heeds
<1>3. y.living \subseteq g.living
  BY <1>1, TimePasses DEF Answers
<1>4. y \in GameType /\ y.says \in Seq(Directives)
  BY <1>2 DEF InPlay, GameType
<1>5. n \in ModType /\ n.game = y /\ n.reminded = R /\ ~n.farewell /\ ~n.stopped
  BY <1>1, <1>2, <1>4 DEF ModType
<1>6. m = Say(n) /\ CarryOut(m) /\ timer' = left \cup RemindersSet(m.effects, clock) /\ left \subseteq timer
  BY DEF Answers
<1> HIDE DEF n
<1>7. Said(n, m)
  BY <1>2, <1>5, <1>6, SayGoing, SayOver
<1>8. /\ m \in ModType /\ m.game = [y EXCEPT !.says = << >>] /\ ~m.stopped /\ Carries(m.effects, y.says)
  BY <1>5, <1>7 DEF Said
<1>9. (m.farewell => Over(y)) /\ RemindersSet(m.effects, clock) \subseteq [is : {"look", "farewell"}, deadline : Nat]
  <2>1. CASE ~Over(y)
    <3>1. m.farewell = n.farewell /\ RemindersSet(m.effects, clock) = IF d \in n.reminded THEN {} ELSE {Look(d)}
      BY <1>2, <1>5, <1>6, <2>1, SayGoing
    <3>2. d \in Nat
      BY <1>2, <2>1, EarliestDeadline
    <3> HIDE DEF d
    <3>3. Look(d) \in [is : {"look", "farewell"}, deadline : Nat]
      BY <3>2 DEF Look
    <3> QED
      BY <1>5, <3>1, <3>3
  <2>2. CASE Over(y)
    <3>1. RemindersSet(m.effects, clock) = {Goodbye(clock + Farewell)}
      BY <1>5, <1>6, <2>2, SayOver
    <3>2. Goodbye(clock + Farewell) \in [is : {"look", "farewell"}, deadline : Nat]
      BY <1>1, FarewellType DEF Goodbye
    <3> QED
      BY <2>2, <3>1, <3>2
  <2> QED
    BY <2>1, <2>2
<1>10. Telling(g.living, y.says, y.living)
  <2>1. Telling(g.living, g.says, g.living)
    BY <1>1 DEF Telling, Gone
  <2>2. g.living \in SUBSET Players
    BY <1>1 DEF InPlay, GameType
  <2> QED
    BY <2>1, <2>2 DEF Answers, KeepsTelling
<1>11. /\ Starts(m.effects) = {} /\ g.living \ Stops(m.effects, Len(m.effects)) = y.living
       /\ \A i \in 1 .. Len(m.effects) : m.effects[i].do \in {"tell", "command"}
            => m.effects[i].to \subseteq g.living \ Stops(m.effects, i - 1)
  <2>1. g.living \in SUBSET Players
    BY <1>1 DEF InPlay, GameType
  <2> QED
    BY <1>4, <1>8, <1>10, <2>1, CarriedOut
<1>12. ~Refuses(m.effects, Awake)
  <2>1. DOMAIN m.effects = 1 .. Len(m.effects)
    BY <1>8 DEF Carries
  <2> QED
    BY <1>1, <1>11, <2>1 DEF Refuses
<1>13. /\ mod' \in ModType /\ mod'.effects = << >> /\ g' = m.game
       /\ mod'.farewell = m.farewell /\ mod'.stopped = m.stopped
       /\ lively' = lively /\ \A p \in lively : mail'[p] = mail[p] \o Told(m.effects, p)
       /\ mail' = [p \in lively |-> mail'[p]]
       /\ status' \in [Players -> Conditions]
       /\ Awake' = (Awake \cup Starts(m.effects)) \ Stops(m.effects, Len(m.effects))
       /\ moderating' = IF m.stopped THEN "stopped" ELSE "running"
  BY <1>1, <1>6, <1>8, <1>12, CarriesOn
<1>14. \A p : Told(m.effects, p) = Words(y.says, p)
  BY <1>4, <1>8, ToldWords
<1>15. Awake' = y.living
  BY <1>1, <1>11, <1>13
<1>16. timer' \subseteq [is : {"look", "farewell"}, deadline : Nat]
  BY <1>1, <1>6, <1>9
<1> HIDE DEF d
<1>17. \A p \in lively : mail'[p] = mail[p] \o Words(y.says, p)
  BY <1>13, <1>14
<1> QED
  BY <1>2, <1>3, <1>8, <1>9, <1>13, <1>15, <1>16, <1>17

\* What p hears of such a call, and what it makes of it.
LEMMA WordsAreHeeded ==
  ASSUME NEW x \in GameType, x.says = << >>, NEW y, Heeds(x, y), NEW p
  PROVE  /\ Words(y.says, p) \in Seq(News(y)) /\ Words(y.says, p) \in Seq(Mail)
         /\ p \in y.living => \A k \in Known(x)[p] : Reads(k, Words(y.says, p)) \in Known(y)[p]
<1> DEFINE A == Known(x)
           B == Known(y)
           N == News(y)
<1>1. PICK w \in Seq(Directives) :
        /\ y.says = x.says \o w
        /\ \A i \in 1 .. Len(w) : w[i].say # "stop" => Sent(w[i]).message \in N
        /\ \A q \in y.living : \A k \in A[q] : Reads(k, Words(w, q)) \in B[q]
  BY DEF Heeds, Informs
<1> HIDE DEF A, B, N
<1>2. y.says = w
  <2>1. << >> \o w = w
    OBVIOUS
  <2> QED
    BY <1>1, <2>1
<1>3. \A i \in 1 .. Len(w) : Word(w[i], p) \in Seq(N)
  <2> TAKE i \in 1 .. Len(w)
  <2> DEFINE m == Sent(w[i]).message
  <2>1. w[i].say # "stop" => m \in N
    BY <1>1
  <2> HIDE DEF m
  <2> QED
    BY <2>1 DEF Word, m
<1>4. DOMAIN w = 1 .. Len(w) /\ Len(w) \in Nat
  OBVIOUS
<1>5. Words(w, p) \in Seq(N)
  BY <1>3, <1>4, WordsType
<1>6. N \subseteq Mail
  BY DEF N, News
<1> DEFINE s == Words(w, p)
<1>7. s \in Seq(Mail)
  <2> HIDE DEF s
  <2>1. s \in Seq(N)
    BY <1>5 DEF s
  <2> QED
    BY <1>6, <2>1
<1> QED
  BY <1>1, <1>2, <1>5, <1>7 DEF A, B, N, s
\* Whoever runs knows the game as far as it has read, before this call as after.
LEMMA AnswersAreRead ==
  ASSUME TInv, NEW y, NEW R, NEW left, NEW m, Answers(y, R, left, m)
  PROVE  MailFits' /\ PackIsKnown' /\ GameIsKnown' /\ mail' \in [lively -> Seq(Mail)]
<1>1. /\ InPlay(y) /\ Convened(y) /\ y.living \subseteq g.living
      /\ g' = [y EXCEPT !.says = << >>] /\ status' \in [Players -> Conditions] /\ Awake' = y.living
      /\ lively' = lively /\ mail' = [p \in lively |-> mail'[p]]
      /\ \A p \in lively : mail'[p] = mail[p] \o Words(y.says, p)
  BY AnswersFields
<1>2. /\ InPlay(g) /\ ~Over(g) /\ g.says = << >> /\ Awake = g.living /\ g \in GameType
      /\ lively \subseteq Players /\ mail \in [lively -> Seq(Mail)] /\ knows \in [lively -> Knowledges]
      /\ Heeds(g, y) /\ (\E c : Turns(g, c, y, clock)) /\ knows' = knows
  BY DEF TInv, Typed, Played, Answers, Awake, InPlay
<1>3. /\ g'.living = y.living /\ Known(g') = Known(y)
      /\ \A p, k : Fits(y, p, k) => Fits(g', p, k)
  BY <1>1, Listened
<1>4. \A p : Words(y.says, p) \in Seq(News(y)) /\ Words(y.says, p) \in Seq(Mail)
  BY <1>2, WordsAreHeeded
<1>5. ASSUME NEW p \in lively
      PROVE  /\ mail'[p] \in Seq(Mail)
             /\ \A i \in DOMAIN mail'[p] : Fits(g', p, mail'[p][i])
             /\ mail[p] # << >> => mail'[p] # << >> /\ Head(mail'[p]) = Head(mail[p])
  <2> DEFINE a == mail[p]
             b == Words(y.says, p)
             N == News(y)
             s == a \o b
  <2>1. a \in Seq(Mail) /\ b \in Seq(N) /\ b \in Seq(Mail) /\ mail'[p] = s
    BY <1>1, <1>2, <1>4
  <2>2. \A i \in DOMAIN a : Fits(g, p, a[i])
    BY DEF TInv, MailFits
  <2>3. \A k : Fits(g, p, k) => Fits(g', p, k)
    BY <1>2, <1>3, TimePasses
  <2>4. \A k \in N : Fits(g', p, k)
    BY <1>3, NewsFits
  <2> HIDE DEF a, b, N
  <2>5. /\ s \in Seq(Mail) /\ Len(s) = Len(a) + Len(b) /\ Len(a) \in Nat /\ Len(b) \in Nat
        /\ DOMAIN a = 1 .. Len(a) /\ DOMAIN s = 1 .. Len(s)
        /\ \A i \in 1 .. Len(a) + Len(b) : s[i] = IF i <= Len(a) THEN a[i] ELSE b[i - Len(a)]
        /\ \A i \in 1 .. Len(b) : b[i] \in N
    BY <2>1
  <2> HIDE DEF s
  <2>6. \A i \in DOMAIN s : Fits(g', p, s[i])
    <3> TAKE i \in DOMAIN s
    <3>1. CASE i <= Len(a)
      BY <2>2, <2>3, <2>5, <3>1
    <3>2. CASE ~(i <= Len(a))
      <4>1. i - Len(a) \in 1 .. Len(b)
        BY <2>5, <3>2
      <4>2. s[i] = b[i - Len(a)]
        BY <2>5, <3>2
      <4> QED
        BY <2>4, <2>5, <4>1, <4>2
    <3> QED
      BY <3>1, <3>2
  <2>7. a # << >> => s # << >> /\ Head(s) = Head(a)
    BY <2>1, <2>5
  <2> QED
    BY <2>1, <2>5, <2>6, <2>7 DEF a
<1>6. mail' \in [lively -> Seq(Mail)]
  BY <1>1, <1>5
<1>7. MailFits'
  BY <1>1, <1>5 DEF MailFits
<1>8. PackIsKnown'
  <2> SUFFICES ASSUME NEW p \in lively
               PROVE  /\ knows[p].pack \subseteq Pack
                      /\ p \in Pack /\ status'[p] = "running" =>
                           \/ mail'[p] # << >> /\ Head(mail'[p]) = Assigned(p)
                           \/ Pack \cap g'.living \subseteq knows[p].pack
    BY <1>1, <1>2 DEF PackIsKnown
  <2>1. status'[p] = "running" => status[p] = "running"
    BY <1>1, <1>2 DEF Awake
  <2>2. /\ knows[p].pack \subseteq Pack
        /\ p \in Pack /\ status[p] = "running" =>
             \/ mail[p] # << >> /\ Head(mail[p]) = Assigned(p)
             \/ Pack \cap g.living \subseteq knows[p].pack
    BY DEF TInv, PackIsKnown
  <2> QED
    BY <1>1, <1>3, <1>5, <2>1, <2>2
<1>9. GameIsKnown'
  <2> SUFFICES ASSUME NEW p \in lively, status'[p] = "running"
               PROVE  Reads(knows[p], mail'[p]) \in Known(g')[p]
    BY <1>1, <1>2 DEF GameIsKnown, Running, CaughtUp, Reads
  <2>1. p \in y.living /\ p \in Players /\ status[p] = "running"
    BY <1>1, <1>2 DEF Awake
  <2> DEFINE a == mail[p]
             b == Words(y.says, p)
             k == Reads(knows[p], a)
  <2>2. k \in Known(g)[p]
    BY <2>1 DEF TInv, GameIsKnown, Running, CaughtUp, Reads
  <2>3. Reads(k, b) \in Known(y)[p]
    BY <1>2, <2>1, <2>2, WordsAreHeeded
  <2>4. a \in Seq(Mail) /\ b \in Seq(Mail) /\ mail'[p] = a \o b
    BY <1>1, <1>2, <1>4
  <2> HIDE DEF a, b
  <2>5. Reads(knows[p], a \o b) = Reads(k, b)
    BY <2>4, ReadsFacts
  <2> QED
    BY <1>3, <2>3, <2>4, <2>5
<1> QED
  BY <1>6, <1>7, <1>8, <1>9

\* The invariant is kept by a call while the game goes on.
LEMMA AnswersOn ==
  ASSUME TInv, NEW y, NEW R, NEW left, NEW m, Answers(y, R, left, m)
  PROVE  TInv'
<1>1. /\ InPlay(y) /\ Convened(y)
      /\ mod' \in ModType /\ mod'.effects = << >> /\ g' = [y EXCEPT !.says = << >>]
      /\ ~mod'.stopped /\ (mod'.farewell => Over(y)) /\ moderating' = "running"
      /\ timer' \subseteq [is : {"look", "farewell"}, deadline : Nat]
      /\ status' \in [Players -> Conditions] /\ Awake' = y.living /\ lively' = lively
  BY AnswersFields
<1>2. /\ InPlay(g') /\ Convened(g') /\ g'.says = << >> /\ g'.living = y.living /\ (Over(g') <=> Over(y))
      /\ \A o : Made(y, o) => Made(g', o)
  BY <1>1, Listened
<1>3. MailFits' /\ PackIsKnown' /\ GameIsKnown' /\ mail' \in [lively -> Seq(Mail)]
  BY AnswersAreRead
<1>4. /\ InPlay(g) /\ ~Over(g) /\ (\E c : Turns(g, c, y, clock)) /\ Typed
      /\ clock' = clock /\ knows' = knows
      /\ heard' \in Seq(Ballots) /\ \A i \in DOMAIN heard' : heard'[i] \in {heard[j] : j \in DOMAIN heard}
  BY DEF TInv, Played, Answers
<1>5. Typed'
  BY <1>1, <1>2, <1>3, <1>4 DEF Typed, Threads
<1>6. Played'
  BY <1>1, <1>2 DEF Played, Awake
<1>7. ChoicesFit'
  <2>1. \A o \in Ballots : Made(g, o) => Made(g', o)
    BY <1>2, <1>4, TimePasses
  <2>2. \A j \in DOMAIN heard : heard[j] \in Ballots /\ Made(g, heard[j])
    <3>1. heard \in Seq(Ballots) /\ \A j \in DOMAIN heard : Made(g, heard[j])
      BY DEF TInv, Typed, ChoicesFit
    <3> QED
      BY <3>1
  <2>3. \A i \in DOMAIN heard' : Made(g', heard'[i])
    BY <1>4, <2>1, <2>2
  <2> QED
    BY <2>3 DEF ChoicesFit
<1> QED
  BY <1>3, <1>5, <1>6, <1>7 DEF TInv
(***************************************************************************)
(* The game over.                                                          *)
(***************************************************************************)
\* A call once the game is over: nothing, or everybody is stopped.
Closes(left, m) ==
  /\ moderating = "running" /\ Over(g) /\ left \subseteq timer
  /\ \/ m = [mod EXCEPT !.effects = << >>]
     \/ m = [mod EXCEPT !.stopped = TRUE, !.effects = <<Command(g.living, "stop")>>]
  /\ CarryOut(m) /\ timer' = left \cup RemindersSet(m.effects, clock)
  /\ clock' = clock /\ knows' = knows
  /\ heard' \in Seq(Ballots) /\ \A i \in DOMAIN heard' : heard'[i] \in {heard[j] : j \in DOMAIN heard}

LEMMA ClosesOn ==
  ASSUME TInv, NEW left, NEW m, Closes(left, m)
  PROVE  TInv'
<1>1. /\ mod \in ModType /\ InPlay(g) /\ Convened(g) /\ Over(g) /\ ~mod.stopped /\ mod.effects = << >>
      /\ g.says = << >> /\ Awake = g.living /\ Typed
  BY DEF TInv, Typed, Played, Closes, Awake
<1>2. g.living \in SUBSET Players /\ lively \subseteq Players
  BY <1>1 DEF InPlay, GameType, Typed
<1>3. /\ m \in ModType /\ m.game = g /\ m.farewell = mod.farewell
      /\ (Awake \cup Starts(m.effects)) \ Stops(m.effects, Len(m.effects)) = IF m.stopped THEN {} ELSE g.living
      /\ ~Refuses(m.effects, Awake) /\ RemindersSet(m.effects, clock) = {}
      /\ m.effects \in Seq(Effects) /\ \A i \in 1 .. Len(m.effects) : m.effects[i].do # "tell"
  <2>1. CASE m = [mod EXCEPT !.effects = << >>]
    <3>1. << >> \in Seq(Effects)
      OBVIOUS
    <3>2. m \in ModType /\ m.effects = << >> /\ m.game = g /\ m.farewell = mod.farewell /\ m.stopped = FALSE
      BY <1>1, <2>1, <3>1 DEF ModType, g
    <3> QED
      BY <1>1, <3>1, <3>2, NothingIsDone
  <2>2. CASE m = [mod EXCEPT !.stopped = TRUE, !.effects = <<Command(g.living, "stop")>>]
    <3> DEFINE e == <<Command(g.living, "stop")>>
    <3>1. e \in Seq(Effects) /\ \A i \in 1 .. Len(e) : e[i].do # "tell"
      BY <1>2 DEF Command, Effects
    <3>2. /\ (g.living \cup Starts(e)) \ Stops(e, Len(e)) = {} /\ ~Refuses(e, g.living)
          /\ \A now : RemindersSet(e, now) = {}
      BY <1>2, StopsTheLiving DEF e
    <3>3. m = [mod EXCEPT !.stopped = TRUE, !.effects = e]
      BY <2>2
    <3> HIDE DEF e
    <3>4. m \in ModType /\ m.effects = e /\ m.game = g /\ m.farewell = mod.farewell /\ m.stopped = TRUE
      BY <1>1, <3>1, <3>3 DEF ModType, g
    <3> QED
      BY <1>1, <3>1, <3>2, <3>4
  <2> QED
    BY <2>1, <2>2 DEF Closes
<1>4. /\ mod' \in ModType /\ mod'.effects = << >> /\ g' = g
      /\ mod'.farewell = m.farewell /\ mod'.stopped = m.stopped
      /\ lively' = lively /\ (\A p \in lively : mail'[p] = mail[p] \o Told(m.effects, p))
      /\ mail' = [p \in lively |-> mail'[p]]
      /\ status' \in [Players -> Conditions]
      /\ Awake' = IF m.stopped THEN {} ELSE g.living
      /\ moderating' = IF m.stopped THEN "stopped" ELSE "running"
  BY <1>1, <1>3, CarriesOn DEF Closes
<1>5. \A p \in lively : mail'[p] = mail[p]
  <2>1. \A p : Told(m.effects, p) = << >>
    BY <1>3, ToldNothing
  <2>2. \A p \in lively : mail[p] \o << >> = mail[p]
    <3>1. \A p \in lively : mail[p] \in Seq(Mail)
      BY <1>1 DEF Typed
    <3>2. \A s \in Seq(Mail) : s \o << >> = s
      OBVIOUS
    <3> QED
      BY <3>1, <3>2
  <2> QED
    BY <1>4, <2>1, <2>2
<1>6. mail' = mail
  BY <1>1, <1>4, <1>5 DEF Typed
<1>7. timer' \subseteq timer /\ clock' = clock /\ knows' = knows /\ heard' \in Seq(Ballots)
      /\ \A i \in DOMAIN heard' : heard'[i] \in {heard[j] : j \in DOMAIN heard}
  BY <1>3 DEF Closes
<1>8. Typed'
  BY <1>1, <1>4, <1>6, <1>7 DEF Typed, Threads
<1>9. Played'
  BY <1>1, <1>3, <1>4 DEF Played, Awake
<1>10. MailFits' /\ ChoicesFit'
  <2>1. MailFits /\ ChoicesFit
    BY DEF TInv
  <2>2. MailFits'
    BY <1>4, <1>6, <2>1 DEF MailFits
  <2>3. \A i \in DOMAIN heard' : Made(g', heard'[i])
    BY <1>4, <1>7, <2>1 DEF ChoicesFit
  <2> QED
    BY <2>2, <2>3 DEF ChoicesFit
<1>11. \A p \in lively : status'[p] = "running" => status[p] = "running"
  BY <1>1, <1>2, <1>4 DEF Awake
<1>12. PackIsKnown'
  <2> SUFFICES ASSUME NEW p \in lively
               PROVE  /\ knows[p].pack \subseteq Pack
                      /\ p \in Pack /\ status'[p] = "running" =>
                           \/ mail[p] # << >> /\ Head(mail[p]) = Assigned(p)
                           \/ Pack \cap g.living \subseteq knows[p].pack
    BY <1>4, <1>6, <1>7 DEF PackIsKnown
  <2> QED
    BY <1>11 DEF TInv, PackIsKnown
<1>13. GameIsKnown'
  <2> SUFFICES ASSUME NEW p \in lively, status'[p] = "running"
               PROVE  Reads(knows[p], mail[p]) \in Known(g)[p]
    BY <1>4, <1>6, <1>7 DEF GameIsKnown, Running, CaughtUp, Reads
  <2> QED
    BY <1>11 DEF TInv, GameIsKnown, Running, CaughtUp, Reads
<1> QED
  BY <1>8, <1>9, <1>10, <1>12, <1>13 DEF TInv

(***************************************************************************)
(* The moderator's steps.                                                  *)
(***************************************************************************)
\* The start.
LEMMA OpensTable ==
  ASSUME TInv, Opened
  PROVE  TInv'
<1> DEFINE y == Begin(0)
           n == [mod EXCEPT !.game = y]
           o == Say(n)
           r == <<Command(Players, "start")>> \o o.effects
           m == Start(mod, 0)
           d == Min(Deadlines(y))
<1>1. /\ moderating = "waiting" /\ mod = NewModerator /\ heard = << >> /\ Typed
      /\ (\A p \in Players : status[p] = "waiting")
      /\ \A p \in lively : mail[p] = << >> /\ knows[p] = NewKnowledge
  BY DEF TInv, Played, Opened
<1>2. InPlay(y) /\ ~Over(y) /\ y.living = Players /\ Telling(Players, y.says, Players)
  BY BeginPlays
<1>3. /\ Convened(y)
      /\ \A p \in Players :
           LET s == Words(y.says, p)
           IN  /\ s \in Seq(Mail) /\ s # << >> /\ Head(s) = Assigned(p)
               /\ \A i \in 1 .. Len(s) : Fits(y, p, s[i])
               /\ Reads(NewKnowledge, s) \in Known(y)[p]
  BY BeginHeeds
<1>4. y \in GameType /\ y.says \in Seq(Directives)
  BY <1>2 DEF InPlay, GameType
<1>5. m = [o EXCEPT !.effects = r]
  BY DEF Start
<1>6. CarryOut(m) /\ timer' = RemindersSet(m.effects, 0) /\ UNCHANGED <<heard, clock, knows>>
  BY DEF Opened
<1> HIDE DEF y
<1>7. n \in ModType /\ n.game = y /\ n.reminded = {} /\ ~n.farewell /\ ~n.stopped
  BY <1>1, <1>4, NewModeratorFields DEF ModType
<1> HIDE DEF n
<1>8. Said(n, o) /\ ~o.farewell /\ RemindersSet(o.effects, 0) = {Look(d)}
  BY <1>2, <1>7, SayGoing
<1> HIDE DEF o
<1>9. o \in ModType /\ o.game = [y EXCEPT !.says = << >>] /\ ~o.stopped /\ Carries(o.effects, y.says)
  BY <1>7, <1>8 DEF Said
<1>10. /\ r \in Seq(Effects) /\ ({} \cup Starts(r)) \ Stops(r, Len(r)) = Players /\ ~Refuses(r, {})
       /\ RemindersSet(r, 0) = {Look(d)}
  <2>1. r = <<Command(Players, "start")>> \o o.effects
    OBVIOUS
  <2> HIDE DEF r
  <2>2. StartsThem(r, o.effects, Players)
    BY <1>2, <1>4, <1>9, <2>1, StartedOut
  <2> QED
    BY <1>8, <2>2 DEF StartsThem
<1>11. \A p : Told(r, p) = Words(y.says, p)
  BY <1>4, <1>9, ToldStarted
<1> HIDE DEF r, m
<1>12. /\ m \in ModType /\ m.effects = r /\ m.game = o.game /\ ~m.farewell /\ ~m.stopped
  BY <1>5, <1>8, <1>9, <1>10 DEF ModType
<1>13. Awake = {}
  BY <1>1 DEF Awake
<1>14. /\ mod' \in ModType /\ mod'.effects = << >> /\ g' = m.game
       /\ mod'.farewell = m.farewell /\ mod'.stopped = m.stopped
       /\ lively' = lively /\ (\A p \in lively : mail'[p] = mail[p] \o Told(m.effects, p))
       /\ mail' = [p \in lively |-> mail'[p]]
       /\ status' \in [Players -> Conditions]
       /\ Awake' = (Awake \cup Starts(m.effects)) \ Stops(m.effects, Len(m.effects))
       /\ ~Refuses(m.effects, Awake) => moderating' = IF m.stopped THEN "stopped" ELSE "running"
  BY <1>1, <1>6, <1>12, CarriesOn
<1>15. g' = [y EXCEPT !.says = << >>] /\ ~mod'.farewell /\ ~mod'.stopped
       /\ Awake' = Players /\ moderating' = "running"
  BY <1>9, <1>10, <1>12, <1>13, <1>14
<1>16. /\ InPlay(g') /\ Convened(g') /\ g'.says = << >> /\ g'.living = y.living
       /\ Known(g') = Known(y) /\ \A p, k : Fits(y, p, k) => Fits(g', p, k)
  BY <1>2, <1>3, <1>15, Listened
<1>17. lively \subseteq Players /\ clock \in Nat /\ knows \in [lively -> Knowledges]
  BY <1>1 DEF Typed
<1>18. ASSUME NEW p \in lively
       PROVE  /\ mail'[p] \in Seq(Mail) /\ mail'[p] # << >> /\ Head(mail'[p]) = Assigned(p)
              /\ \A i \in DOMAIN mail'[p] : Fits(g', p, mail'[p][i])
              /\ Reads(NewKnowledge, mail'[p]) \in Known(g')[p]
  <2> DEFINE s == Words(y.says, p)
  <2>1. /\ s \in Seq(Mail) /\ s # << >> /\ Head(s) = Assigned(p)
        /\ \A i \in 1 .. Len(s) : Fits(y, p, s[i])
        /\ Reads(NewKnowledge, s) \in Known(y)[p]
    BY <1>3, <1>17
  <2>2. mail'[p] = << >> \o s
    BY <1>1, <1>11, <1>12, <1>14
  <2> HIDE DEF s
  <2>3. << >> \o s = s /\ DOMAIN s = 1 .. Len(s)
    BY <2>1
  <2> QED
    BY <1>16, <2>1, <2>2, <2>3
<1>19. timer' \subseteq [is : {"look", "farewell"}, deadline : Nat]
  <2>1. d \in Nat
    BY <1>2, EarliestDeadline
  <2>2. timer' = {Look(d)}
    BY <1>6, <1>10, <1>12
  <2> HIDE DEF d
  <2> QED
    BY <2>1, <2>2 DEF Look
<1>20. Typed'
  <2>1. mail' \in [lively -> Seq(Mail)]
    BY <1>14, <1>18
  <2>2. heard' \in Seq(Ballots) /\ clock' \in Nat /\ knows' \in [lively -> Knowledges]
    BY <1>1, <1>6, <1>17
  <2> QED
    BY <1>14, <1>15, <1>16, <1>17, <1>19, <2>1, <2>2 DEF Typed, Threads
<1>21. Played'
  BY <1>2, <1>15, <1>16 DEF Played, Awake
<1>22. MailFits' /\ ChoicesFit'
  <2>1. MailFits'
    BY <1>14, <1>18 DEF MailFits
  <2>2. heard' = << >>
    BY <1>1, <1>6
  <2> QED
    BY <2>1, <2>2 DEF ChoicesFit
<1>23. knows' = knows
  BY <1>6
<1>24. PackIsKnown' /\ GameIsKnown'
  <2>1. PackIsKnown'
    BY <1>1, <1>14, <1>18, <1>23, NewKnowledgeType DEF PackIsKnown
  <2>2. GameIsKnown'
    BY <1>1, <1>14, <1>18, <1>23 DEF GameIsKnown, Running, CaughtUp, Reads
  <2> QED
    BY <2>1, <2>2
<1> QED
  BY <1>20, <1>21, <1>22, <1>24 DEF TInv
\* A selection that counts names those who should see it: it was made in the
\* phase there is, by somebody alive who knew the living and the pack.
LEMMA ArrivesShared ==
  ASSUME NEW x, Midway(x), NEW o \in Ballots, Made(x, o), ~Panics(x, o.from, o.selection)
  PROVE  Shared(x, o.from, o.selection)
<1> DEFINE p == o.from
           sel == o.selection
           k == sel.kind
<1> SUFFICES ASSUME InSession(x, p, sel) PROVE Counts(x, p, sel) /\ sel.seenBy = Witnesses(x, p, k)
  BY DEF Shared
<1>1. sel.round = x.round /\ k \in Kinds /\ p \in x.sessions[k].members /\ x.sessions[k].stage = "open"
  BY DEF InSession, Open
<1>2. x.phase = PhaseOf(k) /\ p \in x.living /\ ~Over(x) /\ x.living \in SUBSET Players /\ x.round \in Nat
  BY <1>1, UnopenedType DEF Midway, Seated, GameType
<1>3. ~Past(x, sel.round, PhaseOf(k))
  BY <1>1, <1>2 DEF Past
<1>4. sel.seenBy = Witnesses(x, p, k)
  BY <1>2, <1>3 DEF Made
<1>5. sel.target \in SpaceFor(x, p, k)
  BY DEF Panics
<1>6. Witnesses(x, p, k) \in SUBSET x.living
  BY DEF Witnesses
<1> HIDE DEF p, sel, k
<1> QED
  BY <1>4, <1>5, <1>6 DEF Counts, k

\* There is a game that counts it, and does nothing more.
LEMMA SomeGameCounts ==
  ASSUME NEW x, InPlay(x), NEW p, NEW sel
  PROVE  \E c : Selected(x, p, sel, c)
<1> DEFINE ss == [k \in Kinds |-> [selections |->
                   IF InSession(x, p, sel) /\ k = sel.kind
                     THEN [x.sessions[k].selections EXCEPT ![p] = sel.target] ELSE x.sessions[k].selections]]
           c == [living |-> x.living, phase |-> x.phase, sessions |-> ss]
<1>1. \A k \in Kinds : ss[k].selections =
        IF InSession(x, p, sel) /\ k = sel.kind
          THEN [x.sessions[k].selections EXCEPT ![p] = sel.target] ELSE x.sessions[k].selections
  OBVIOUS
<1> HIDE DEF ss
<1>2. c.living = x.living /\ c.phase = x.phase /\ c.sessions = ss
  OBVIOUS
<1> HIDE DEF c
<1>3. Selected(x, p, sel, c)
  BY <1>1, <1>2 DEF Selected
<1> QED
  BY <1>3

\* What is next in the moderator's inbox, and what is left of it.
LEMMA NextHeard ==
  ASSUME TInv, heard # << >>
  PROVE  /\ Head(heard) \in Ballots /\ Made(g, Head(heard))
         /\ Tail(heard) \in Seq(Ballots)
         /\ \A i \in DOMAIN Tail(heard) : Tail(heard)[i] \in {heard[j] : j \in DOMAIN heard}
         /\ Arriving.is = "select" /\ Arriving.from = Head(heard).from
         /\ Arriving.selection = Head(heard).selection /\ Arriving.at = clock
<1>1. heard \in Seq(Ballots) /\ clock \in Nat /\ \A i \in DOMAIN heard : Made(g, heard[i])
  BY DEF TInv, Typed, ChoicesFit
<1> DEFINE t == Tail(heard)
           o == Head(heard)
<1>2. o \in Ballots /\ o = heard[1] /\ 1 \in DOMAIN heard
  BY <1>1
<1>3. t \in Seq(Ballots) /\ DOMAIN t = 1 .. Len(heard) - 1 /\ DOMAIN heard = 1 .. Len(heard) /\ Len(heard) \in Nat
      /\ \A i \in 1 .. Len(heard) - 1 : t[i] = heard[i + 1]
  BY <1>1
<1> HIDE DEF t, o
<1>4. \A i \in DOMAIN t : t[i] \in {heard[j] : j \in DOMAIN heard}
  <2> TAKE i \in DOMAIN t
  <2>1. i + 1 \in DOMAIN heard /\ t[i] = heard[i + 1]
    BY <1>3
  <2> QED
    BY <2>1
<1>5. Arriving = [o EXCEPT !.at = clock]
  BY DEF Arriving, o
<1>6. Arriving.is = "select" /\ Arriving.from = o.from /\ Arriving.selection = o.selection /\ Arriving.at = clock
  BY <1>2, <1>5 DEF Ballots
<1> QED
  BY <1>1, <1>2, <1>3, <1>4, <1>6 DEF t, o

\* A selection arrives.
LEMMA CountsOn ==
  ASSUME TInv, Count, ~StepPanics(mod, Arriving)
  PROVE  TInv'
<1>1. PICK luck : LET m == Step(mod, Arriving, luck)
                  IN  CarryOut(m) /\ timer' = timer \cup RemindersSet(m.effects, clock)
  BY DEF Count, Answer
<1> DEFINE m == Step(mod, Arriving, luck)
           p == Head(heard).from
           sel == Head(heard).selection
           y == Expire(Select(g, p, sel, clock), clock, luck)
<1>2. /\ moderating = "running" /\ heard # << >> /\ heard' = Tail(heard) /\ clock' = clock /\ knows' = knows
  BY DEF Count, Answer
<1>3. /\ Head(heard) \in Ballots /\ Made(g, Head(heard)) /\ p \in Players
      /\ heard' \in Seq(Ballots) /\ \A i \in DOMAIN heard' : heard'[i] \in {heard[j] : j \in DOMAIN heard}
      /\ Arriving.is = "select" /\ Arriving.from = p /\ Arriving.selection = sel /\ Arriving.at = clock
  BY <1>2, NextHeard DEF Ballots
<1>4. InPlay(g) /\ Convened(g) /\ clock \in Nat /\ mod \in ModType /\ mod.reminded \in SUBSET Nat
  BY <1>2 DEF TInv, Played, Typed, ModType
<1>5. CASE Over(g)
  <2>1. m = [mod EXCEPT !.effects = << >>]
    BY <1>3, <1>5 DEF Step, g
  <2> HIDE DEF m
  <2>2. Closes(timer, m)
    BY <1>1, <1>2, <1>3, <1>5, <2>1 DEF Closes, m
  <2> QED
    BY <2>2, ClosesOn
<1>6. CASE ~Over(g)
  <2>1. Midway(g)
    BY <1>4, <1>6, InPlayMidway
  <2>2. ~Panics(g, p, sel)
    BY <1>3, <1>6 DEF StepPanics, g
  <2>3. Shared(g, p, sel)
    BY <1>3, <2>1, <2>2, ArrivesShared
  <2>4. InSession(g, p, sel) => Counts(g, p, sel)
    BY <2>3 DEF Shared
  <2>5. PICK c : Selected(g, p, sel, c)
    BY <1>4, SomeGameCounts
  <2>6. Turns(g, c, y, clock) /\ KeepsTelling(g, y)
    BY <1>3, <1>4, <1>6, <2>4, <2>5, SelectionPlays
  <2>7. Heeds(g, y)
    BY <1>3, <1>4, <1>6, <2>3, ChoiceHeeds
  <2>8. m = Say([mod EXCEPT !.game = y, !.reminded = mod.reminded])
    <3>1. m = Say([mod EXCEPT !.game = y])
      BY <1>3, <1>6 DEF Step, Fold, g
    <3> HIDE DEF y
    <3>2. [mod EXCEPT !.game = y, !.reminded = mod.reminded] = [mod EXCEPT !.game = y]
      BY <1>4 DEF ModType
    <3> QED
      BY <3>1, <3>2
  <2> HIDE DEF y, m
  <2>9. Answers(y, mod.reminded, timer, m)
    BY <1>1, <1>2, <1>3, <1>4, <1>6, <2>6, <2>7, <2>8 DEF Answers, m
  <2> QED
    BY <2>9, AnswersOn
<1> QED
  BY <1>5, <1>6

\* A reminder comes back.
LEMMA ReturnsOn ==
  ASSUME TInv, NEW r \in timer, Return(r)
  PROVE  TInv'
<1> DEFINE obs == [is |-> r.is, deadline |-> r.deadline, at |-> clock]
           left == timer \ {r}
           R == mod.reminded \ {r.deadline}
<1>1. PICK luck : LET m == Step(mod, obs, luck)
                  IN  CarryOut(m) /\ timer' = left \cup RemindersSet(m.effects, clock)
  BY DEF Return, Answer
<1> DEFINE m == Step(mod, obs, luck)
           y == Expire(g, clock, luck)
<1>2. moderating = "running" /\ heard' = heard /\ clock' = clock /\ knows' = knows
  BY DEF Return, Answer
<1>3. /\ InPlay(g) /\ Convened(g) /\ clock \in Nat /\ mod \in ModType /\ R \in SUBSET Nat
      /\ r.is \in {"look", "farewell"} /\ heard \in Seq(Ballots) /\ ~mod.stopped
  BY <1>2 DEF TInv, Played, Typed, ModType
<1>4. \A i \in DOMAIN heard : heard[i] \in {heard[j] : j \in DOMAIN heard}
  OBVIOUS
<1>5. CASE Over(g)
  <2>1. \/ m = [mod EXCEPT !.effects = << >>]
        \/ m = [mod EXCEPT !.stopped = TRUE, !.effects = <<Command(g.living, "stop")>>]
    BY <1>3, <1>5 DEF Step, StopEverybody, g
  <2> HIDE DEF m
  <2>2. Closes(left, m)
    BY <1>1, <1>2, <1>3, <1>4, <1>5, <2>1 DEF Closes, m
  <2> QED
    BY <2>2, ClosesOn
<1>6. CASE ~Over(g)
  <2>1. Turns(g, g, y, clock) /\ KeepsTelling(g, y)
    BY <1>3, <1>6, ExpirePlays
  <2>2. Heeds(g, y)
    BY <1>3, <1>6, ExpireHeeds
  <2>3. m = Say([mod EXCEPT !.game = y, !.reminded = R])
    <3>1. m = Say([mod EXCEPT !.reminded = R, !.game = y])
      BY <1>3, <1>6 DEF Step, Fold, g
    <3> HIDE DEF y, R
    <3>2. [mod EXCEPT !.reminded = R, !.game = y] = [mod EXCEPT !.game = y, !.reminded = R]
      BY <1>3 DEF ModType
    <3> QED
      BY <3>1, <3>2
  <2> HIDE DEF y, m, R
  <2>4. Answers(y, R, left, m)
    BY <1>1, <1>2, <1>3, <1>4, <1>6, <2>1, <2>2, <2>3 DEF Answers, m
  <2> QED
    BY <2>4, AnswersOn
<1> QED
  BY <1>5, <1>6

\* A selection nobody vouches for: the moderator's thread is gone, and the rest
\* is left.
LEMMA PanicsOn ==
  ASSUME TInv, Count, StepPanics(mod, Arriving)
  PROVE  TInv'
<1>1. /\ heard # << >> /\ heard' = Tail(heard) /\ moderating' = "panicked" /\ moderating = "running"
      /\ UNCHANGED <<mod, timer, clock, mail, knows, status>>
  BY DEF Count, playerVars
<1>2. heard' \in Seq(Ballots) /\ \A i \in DOMAIN heard' : heard'[i] \in {heard[j] : j \in DOMAIN heard}
  BY <1>1, NextHeard
<1>3. lively' = lively /\ g' = g
  BY <1>1 DEF lively, g
<1>4. Typed' /\ Played'
  BY <1>1, <1>2, <1>3 DEF TInv, Typed, Threads, Played
<1>5. ChoicesFit'
  BY <1>2, <1>3 DEF TInv, ChoicesFit
<1>6. MailFits' /\ PackIsKnown' /\ GameIsKnown'
  BY <1>1, <1>3 DEF TInv, MailFits, PackIsKnown, GameIsKnown, Running, CaughtUp
<1> QED
  BY <1>4, <1>5, <1>6 DEF TInv

\* Time passes.
LEMMA TicksOn ==
  ASSUME TInv, Tick
  PROVE  TInv'
<1>1. moderating = "running" /\ clock' = clock + 1 /\ UNCHANGED <<mod, moderating, heard, timer, mail, knows, status>>
  BY DEF Tick, playerVars
<1>2. lively' = lively /\ g' = g
  BY <1>1 DEF lively, g
<1>3. Typed' /\ Played'
  BY <1>1, <1>2 DEF TInv, Typed, Played
<1>4. MailFits' /\ ChoicesFit' /\ PackIsKnown' /\ GameIsKnown'
  BY <1>1, <1>2 DEF TInv, MailFits, ChoicesFit, PackIsKnown, GameIsKnown, Running, CaughtUp
<1> QED
  BY <1>3, <1>4 DEF TInv

(***************************************************************************)
(* The players' steps.                                                     *)
(***************************************************************************)
\* A player perceives its stop.
LEMMA HaltsOn ==
  ASSUME TInv, NEW p \in lively, Halt(p)
  PROVE  TInv'
<1>1. /\ status[p] = "told" /\ status' = [status EXCEPT ![p] = "stopped"] /\ mail' = [mail EXCEPT ![p] = << >>]
      /\ UNCHANGED <<mod, moderating, heard, timer, clock, knows>>
  BY DEF Halt
<1>2. /\ lively \subseteq Players /\ mail \in [lively -> Seq(Mail)] /\ status \in [Players -> Conditions]
      /\ << >> \in Seq(Mail)
  BY DEF TInv, Typed
<1>3. /\ lively' = lively /\ g' = g /\ mail' \in [lively -> Seq(Mail)] /\ status' \in [Players -> Conditions]
      /\ \A q \in Players : status'[q] = IF q = p THEN "stopped" ELSE status[q]
      /\ \A q \in lively : mail'[q] = IF q = p THEN << >> ELSE mail[q]
  <2>1. DOMAIN mail' = lively /\ \A q \in lively : mail'[q] = IF q = p THEN << >> ELSE mail[q]
    BY <1>1, <1>2
  <2>2. lively' = lively
    BY <2>1 DEF lively
  <2> QED
    BY <1>1, <1>2, <2>1, <2>2 DEF g, Conditions
<1>4. \A q \in Players : /\ status'[q] = "running" <=> status[q] = "running"
                         /\ status'[q] = "running" => q # p
  BY <1>1, <1>3
<1>5. Typed'
  BY <1>1, <1>3 DEF TInv, Typed
<1>6. Played'
  <2>1. moderating # "waiting"
    BY <1>1, <1>2 DEF TInv, Played
  <2>2. {q \in Players : status'[q] = "running"} = {q \in Players : status[q] = "running"}
    BY <1>4
  <2> QED
    BY <1>1, <1>3, <2>1, <2>2 DEF TInv, Played
<1>7. MailFits' /\ ChoicesFit'
  BY <1>1, <1>3 DEF TInv, MailFits, ChoicesFit
<1>8. PackIsKnown'
  BY <1>1, <1>2, <1>3, <1>4 DEF TInv, PackIsKnown
<1>9. GameIsKnown'
  BY <1>1, <1>2, <1>3, <1>4 DEF TInv, GameIsKnown, Running, CaughtUp
<1> QED
  BY <1>5, <1>6, <1>7, <1>8, <1>9 DEF TInv

\* What a player has selected itself is not the game's to know: all but that is
\* the same in v as in w.
IsAlike(p, v, w) ==
  /\ v.round = w.round /\ v.phase = w.phase /\ v.living = w.living /\ v.pack = w.pack
  /\ v.dead = w.dead /\ v.investigations = w.investigations /\ v.over = w.over
  /\ \A q \in Players \ {p} : v.selections[q] = w.selections[q]
Alike(p) == {vw \in Knowledges \X Knowledges : IsAlike(p, vw[1], vw[2])}

LEMMA ReadAlike ==
  ASSUME NEW p \in Players, NEW v \in Knowledges, NEW w \in Knowledges, IsAlike(p, v, w),
         NEW m \in Mail
  PROVE  IsAlike(p, Observed(v, m), Observed(w, m))
<1> DEFINE a == Observed(v, m)
           b == Observed(w, m)
<1>1. v.selections \in [Players -> Target] /\ w.selections \in [Players -> Target]
  BY DEF Knowledges
<1>2. CASE m.is = "Assigned"
  <2>1. a.pack = m.pack /\ a.dead = v.dead /\ a.selections = v.selections /\ SameMoment(v, a) /\ SameRest(v, a)
    BY <1>2, ObservedFields
  <2>2. b.pack = m.pack /\ b.dead = w.dead /\ b.selections = w.selections /\ SameMoment(w, b) /\ SameRest(w, b)
    BY <1>2, ObservedFields
  <2> HIDE DEF a, b
  <2>3. IsAlike(p, a, b)
    BY <2>1, <2>2 DEF IsAlike, SameMoment, SameRest
  <2> QED
    BY <2>3 DEF a, b
<1>3. CASE m.is = "PhaseBegan"
  <2>1. a.round = m.round /\ a.phase = m.phase /\ a.living = m.living /\ a.selections = Unseen
        /\ SameDead(v, a) /\ SameRest(v, a)
    BY <1>3, ObservedFields
  <2>2. b.round = m.round /\ b.phase = m.phase /\ b.living = m.living /\ b.selections = Unseen
        /\ SameDead(w, b) /\ SameRest(w, b)
    BY <1>3, ObservedFields
  <2> HIDE DEF a, b
  <2>3. IsAlike(p, a, b)
    BY <2>1, <2>2 DEF IsAlike, SameDead, SameRest
  <2> QED
    BY <2>3 DEF a, b
<1>4. CASE m.is = "Eliminated"
  <2>1. ASSUME NEW k \in Knowledges
        PROVE  Observed(k, m).dead = [k.dead EXCEPT ![m.who] = [round |-> m.round, cause |-> m.cause, role |-> m.role]]
    <3> DEFINE dead == [k.dead EXCEPT ![m.who] = [round |-> m.round, cause |-> m.cause, role |-> m.role]]
    <3>1. Buried(k, m) = [k EXCEPT !.living = k.living \ {m.who}, !.pack = k.pack \ {m.who}, !.dead = dead]
      BY DEF Buried
    <3>2. Observed(k, m) = Buried(k, m)
      BY <1>4 DEF Observed
    <3> HIDE DEF dead
    <3>3. Buried(k, m).dead = dead
      BY <3>1 DEF Knowledges
    <3> QED
      BY <3>2, <3>3 DEF dead
  <2>2. ASSUME NEW k \in Knowledges
        PROVE  LET n == Observed(k, m)
               IN  /\ n.living = k.living \ {m.who} /\ n.pack = k.pack \ {m.who} /\ SameRest(k, n)
                   /\ n.round = k.round /\ n.phase = k.phase /\ n.selections = k.selections
    BY <1>4, ObservedFields
  <2>3. a.dead = b.dead
    BY <2>1 DEF IsAlike
  <2>4. /\ a.living = v.living \ {m.who} /\ a.pack = v.pack \ {m.who} /\ SameRest(v, a)
        /\ a.round = v.round /\ a.phase = v.phase /\ a.selections = v.selections
        /\ b.living = w.living \ {m.who} /\ b.pack = w.pack \ {m.who} /\ SameRest(w, b)
        /\ b.round = w.round /\ b.phase = w.phase /\ b.selections = w.selections
    BY <2>2
  <2> HIDE DEF a, b
  <2>5. IsAlike(p, a, b)
    BY <2>3, <2>4 DEF IsAlike, SameRest
  <2> QED
    BY <2>5 DEF a, b
<1>5. CASE m.is = "Investigated"
  <2>1. a.investigations = [v.investigations EXCEPT ![m.target] = m.faction]
        /\ SameMoment(v, a) /\ SameDead(v, a) /\ a.over = v.over /\ a.selections = v.selections
    BY <1>5, ObservedFields
  <2>2. b.investigations = [w.investigations EXCEPT ![m.target] = m.faction]
        /\ SameMoment(w, b) /\ SameDead(w, b) /\ b.over = w.over /\ b.selections = w.selections
    BY <1>5, ObservedFields
  <2> HIDE DEF a, b
  <2>3. IsAlike(p, a, b)
    BY <2>1, <2>2 DEF IsAlike, SameMoment, SameDead
  <2> QED
    BY <2>3 DEF a, b
<1>6. CASE m.is = "Relayed"
  <2>1. ASSUME NEW k \in Knowledges
        PROVE  Observed(k, m).selections = [k.selections EXCEPT ![m.envelope.from] = m.envelope.target]
    BY <1>6, ObservedFields
  <2>2. ASSUME NEW k \in Knowledges
        PROVE  LET n == Observed(k, m)
               IN  SameMoment(k, n) /\ SameDead(k, n) /\ SameRest(k, n)
    BY <1>6, ObservedFields
  <2>3. \A q \in Players \ {p} : a.selections[q] = b.selections[q]
    BY <1>1, <2>1 DEF IsAlike
  <2>4. /\ SameMoment(v, a) /\ SameDead(v, a) /\ SameRest(v, a)
        /\ SameMoment(w, b) /\ SameDead(w, b) /\ SameRest(w, b)
    BY <2>2
  <2> HIDE DEF a, b
  <2>5. IsAlike(p, a, b)
    BY <2>3, <2>4 DEF IsAlike, SameMoment, SameDead, SameRest
  <2> QED
    BY <2>5 DEF a, b
<1>7. CASE m.is = "Outcome"
  <2>1. a.over = TRUE /\ a.investigations = v.investigations /\ a.selections = v.selections
        /\ SameMoment(v, a) /\ SameDead(v, a)
    BY <1>7, ObservedFields
  <2>2. b.over = TRUE /\ b.investigations = w.investigations /\ b.selections = w.selections
        /\ SameMoment(w, b) /\ SameDead(w, b)
    BY <1>7, ObservedFields
  <2> HIDE DEF a, b
  <2>3. IsAlike(p, a, b)
    BY <2>1, <2>2 DEF IsAlike, SameMoment, SameDead
  <2> QED
    BY <2>3 DEF a, b
<1>8. CASE m.is \in {"NoDeath", "NoLynch"}
  BY <1>8, ObservedFields
<1>9. m.is \in {"Assigned", "PhaseBegan", "Eliminated", "Investigated", "Relayed", "Outcome", "NoDeath", "NoLynch"}
  BY DEF Mail, Narrations, Relays
<1> QED
  BY <1>2, <1>3, <1>4, <1>5, <1>6, <1>7, <1>8, <1>9

\* And stays so, whatever is read.
LEMMA ReadsAlike ==
  ASSUME NEW x, NEW p \in Players, NEW v \in Knowledges, NEW w \in Knowledges, IsAlike(p, v, w),
         NEW s \in Seq(Mail), Reads(v, s) \in Known(x)[p]
  PROVE  Reads(w, s) \in Known(x)[p]
<1> DEFINE R == Alike(p)
           a == Reads(v, s)
           b == Reads(w, s)
<1>1. <<v, w>> \in R
  BY DEF Alike
<1>2. ASSUME NEW c, NEW d, <<c, d>> \in R, NEW m \in Mail
      PROVE  <<Observed(c, m), Observed(d, m)>> \in R
  <2>1. c \in Knowledges /\ d \in Knowledges /\ IsAlike(p, c, d)
    BY <1>2 DEF Alike
  <2> DEFINE e == Observed(c, m)
             f == Observed(d, m)
  <2>2. e \in Knowledges /\ f \in Knowledges /\ IsAlike(p, e, f)
    BY <2>1, ObservedFields, ReadAlike
  <2> HIDE DEF e, f
  <2>3. <<e, f>> \in R
    BY <2>2 DEF Alike
  <2> QED
    BY <2>3 DEF e, f
<1> HIDE DEF R
<1>3. <<Learning!Fold(v, s), Learning!Fold(w, s)>> \in R
  BY <1>1, <1>2, Learning!FoldsKeep
<1>4. <<a, b>> \in R
  BY <1>3, ReadsIsFold
<1>5. a \in Known(x)[p]
  OBVIOUS
<1> HIDE DEF a, b
<1>6. a \in Knowledges /\ b \in Knowledges /\ IsAlike(p, a, b) /\ IsKnown(x, p, a)
  BY <1>4, <1>5 DEF R, Alike, Known
<1>7. IsAbreast(x, p, b)
  BY <1>6 DEF IsAlike, IsKnown, IsAware, IsAbreast
<1>8. IsAware(x, p, b)
  BY <1>6, <1>7 DEF IsAlike, IsKnown, IsAware
<1>9. IsKnown(x, p, b)
  BY <1>6, <1>8 DEF IsAlike, IsKnown
<1>10. b \in Known(x)[p]
  BY <1>6, <1>9 DEF Known
<1> QED
  BY <1>10 DEF b

\* What a player selects is somebody it knows to live, and only it knows of it.
LEMMA ActedFields ==
  ASSUME NEW p \in Players, NEW k \in Knowledges, NEW kind, NEW t \in Players
  PROVE  LET n == Acted(k, p, kind, t)
         IN  n \in Knowledges /\ IsAlike(p, k, n)
<1> DEFINE chosen == [k.selections EXCEPT ![p] = t]
           last == IF kind = "Protect" THEN t ELSE k.lastProtected
           n == Acted(k, p, kind, t)
<1>1. n = [k EXCEPT !.selections = chosen, !.lastProtected = last]
  BY DEF Acted
<1>2. chosen \in [Players -> Target] /\ last \in Target /\ \A q \in Players \ {p} : chosen[q] = k.selections[q]
  BY DEF Knowledges, Target
<1> HIDE DEF chosen, last, n
<1>3. n \in Knowledges /\ n.selections = chosen
  BY <1>1, <1>2 DEF Knowledges
<1>4. IsAlike(p, k, n)
  BY <1>1, <1>2, <1>3 DEF IsAlike, Knowledges
<1> QED
  BY <1>3, <1>4 DEF n

LEMMA SelectsTheLiving ==
  ASSUME NEW k, NEW p, NEW kind
  PROVE  MaySelect(k, p, kind) \subseteq k.living
<1>1. SpaceKnown(k, p, kind) \subseteq k.living
  BY DEF SpaceKnown, ActionSpace
<1> QED
  BY <1>1 DEF MaySelect, Candidates

\* What a player selects when it has read of a phase is a selection of that
\* phase, for those who should see it if the phase is the one there is.
LEMMA SelectionIsMade ==
  ASSUME TInv, NEW p \in lively, status[p] \in {"running", "told"}, mail[p] # << >>,
         NEW m, m = Head(mail[p]), m.is = "PhaseBegan", NEW k, k = Observed(knows[p], m),
         NEW kind, kind = AskedIn(RoleOf[p], k.phase), kind # Nothing, NEW t \in MaySelect(k, p, kind)
  PROVE  LET o == [is |-> "select", from |-> p, at |-> 0,
                   selection |-> Selection(k.round, kind, t, Audience(k, p, kind))]
         IN  o \in Ballots /\ Made(g, o) /\ t \in Players
<1> DEFINE sel == Selection(k.round, kind, t, Audience(k, p, kind))
           o == [is |-> "select", from |-> p, at |-> 0, selection |-> sel]
<1>1. /\ p \in Players /\ m \in Mail /\ Fits(g, p, m) /\ knows[p] \in Knowledges /\ moderating # "waiting"
      /\ lively \subseteq Players /\ InPlay(g) /\ (~Over(g) => ~mod.stopped)
      /\ {q \in Players : status[q] = "running"} = IF mod.stopped THEN {} ELSE g.living
  <2>1. /\ lively \subseteq Players /\ mail \in [lively -> Seq(Mail)] /\ knows \in [lively -> Knowledges]
        /\ \A i \in DOMAIN mail[p] : Fits(g, p, mail[p][i])
    BY DEF TInv, Typed, MailFits
  <2>2. m \in Mail /\ Fits(g, p, m)
    <3> DEFINE s == mail[p]
    <3>1. s \in Seq(Mail) /\ s # << >>
      BY <2>1
    <3> HIDE DEF s
    <3>2. 1 \in DOMAIN s /\ Head(s) = s[1] /\ s[1] \in Mail
      BY <3>1
    <3> QED
      BY <2>1, <3>2 DEF s
  <2>3. moderating # "waiting"
    BY <2>1 DEF TInv, Played
  <2> QED
    BY <2>1, <2>2, <2>3 DEF TInv, Played
<1>2. /\ k \in Knowledges /\ k.round = m.round /\ k.phase = m.phase /\ k.living = m.living /\ k.pack = knows[p].pack
  BY <1>1, ObservedFields DEF SameDead
<1>3. kind \in Kinds /\ PhaseOf(kind) = k.phase
  <2>1. kind \in Kinds
    BY DEF AskedIn, Kinds, Nothing
  <2>2. k.phase \in Phases
    BY <1>2 DEF Knowledges
  <2> QED
    BY <1>1, <2>1, <2>2, KindsAndPhases
<1>4. t \in Players
  BY <1>2, SelectsTheLiving DEF Knowledges
<1>5. Audience(k, p, kind) \in SUBSET Players /\ k.round \in Nat
  BY <1>2 DEF Audience, Knowledges
<1>6. sel.round = k.round /\ sel.kind = kind /\ sel.target = t /\ sel.seenBy = Audience(k, p, kind)
      /\ o.from = p /\ o.selection = sel
  BY DEF Selection
<1>7. o \in Ballots
  BY <1>1, <1>3, <1>4, <1>5 DEF Ballots, Selection
<1>8. ASSUME Present(g, k.round, k.phase), ~Over(g), p \in g.living
      PROVE  Audience(k, p, kind) = Witnesses(g, p, kind)
  <2>1. ~Past(g, k.round, k.phase)
    <3>1. g.round \in Nat
      BY <1>1 DEF InPlay, GameType
    <3> QED
      BY <1>8, <3>1 DEF Past, Present
  <2>2. k.living = g.living
    BY <1>1, <1>2, <1>8, <2>1 DEF Fits
  <2>3. status[p] = "running"
    BY <1>1, <1>8
  <2>4. CASE kind = "Devour"
    <3>1. p \in Pack
      BY <1>1, <2>4 DEF AskedIn, Pack
    <3>2. Head(mail[p]) # Assigned(p)
      BY DEF Assigned
    <3>3. Pack \cap g.living \subseteq k.pack /\ k.pack \subseteq Pack
      BY <1>2, <2>3, <3>1, <3>2 DEF TInv, PackIsKnown
    <3>4. k.pack \cap k.living = Pack \cap g.living
      BY <2>2, <3>3
    <3> QED
      BY <2>4, <3>4 DEF Audience, Witnesses
  <2>5. CASE kind = "Nominate"
    BY <2>2, <2>5 DEF Audience, Witnesses
  <2>6. CASE kind \notin {"Devour", "Nominate"}
    BY <2>6 DEF Audience, Witnesses
  <2> QED
    BY <2>4, <2>5, <2>6
<1>9. Made(g, o)
  <2>1. Past(g, k.round, k.phase) \/ Present(g, k.round, k.phase)
    BY <1>1, <1>2 DEF Fits
  <2> HIDE DEF o, sel
  <2>2. ~Past(g, k.round, k.phase) => (~Over(g) /\ p \in g.living => sel.seenBy = Witnesses(g, p, kind))
    BY <1>6, <1>8, <2>1
  <2> QED
    BY <1>3, <1>6, <2>1, <2>2 DEF Made
<1> QED
  BY <1>4, <1>7, <1>9

\* What a player knows once it has taken a message is what the message makes of
\* what it knew, but for a selection of its own, which is on its way.
LEMMA TakesAre ==
  ASSUME TInv, NEW p \in lively, Take(p)
  PROVE  \E n \in Knowledges :
           /\ IsAlike(p, Observed(knows[p], Head(mail[p])), n)
           /\ knows' = [knows EXCEPT ![p] = n]
           /\ \/ heard' = heard
              \/ \E o \in Ballots : Made(g, o) /\ heard' = Append(heard, o)
<1> DEFINE m == Head(mail[p])
           k == Observed(knows[p], m)
           kind == AskedIn(RoleOf[p], k.phase)
<1>1. status[p] \in {"running", "told"} /\ mail[p] \in Seq(Mail) /\ mail[p] # << >> /\ knows[p] \in Knowledges
      /\ p \in Players
  BY DEF TInv, Typed, Take
<1>2. m \in Mail
  BY <1>1
<1>3. k \in Knowledges
  BY <1>1, <1>2, ObservedFields
<1>4. \/ knows' = [knows EXCEPT ![p] = k] /\ heard' = heard
      \/ /\ m.is = "PhaseBegan" /\ kind # Nothing
         /\ \E t \in MaySelect(k, p, kind) :
              knows' = [knows EXCEPT ![p] = Acted(k, p, kind, t)] /\ Send(p, k, kind, t)
  BY DEF Take
<1>5. CASE knows' = [knows EXCEPT ![p] = k] /\ heard' = heard
  <2>1. IsAlike(p, k, k)
    BY DEF IsAlike
  <2> QED
    BY <1>3, <1>5, <2>1
<1>6. CASE /\ m.is = "PhaseBegan" /\ kind # Nothing
           /\ \E t \in MaySelect(k, p, kind) :
                knows' = [knows EXCEPT ![p] = Acted(k, p, kind, t)] /\ Send(p, k, kind, t)
  <2>1. PICK t \in MaySelect(k, p, kind) :
               knows' = [knows EXCEPT ![p] = Acted(k, p, kind, t)] /\ Send(p, k, kind, t)
    BY <1>6
  <2> DEFINE o == [is |-> "select", from |-> p, at |-> 0,
                   selection |-> Selection(k.round, kind, t, Audience(k, p, kind))]
             n == Acted(k, p, kind, t)
  <2>2. m = Head(mail[p]) /\ k = Observed(knows[p], m) /\ kind = AskedIn(RoleOf[p], k.phase)
    OBVIOUS
  <2>3. heard' = Append(heard, o)
    BY <2>1 DEF Send
  <2>4. m.is = "PhaseBegan" /\ kind # Nothing
    BY <1>6
  <2> HIDE DEF m, k, kind
  <2>5. o \in Ballots /\ Made(g, o) /\ t \in Players
    BY <1>1, <2>1, <2>2, <2>4, SelectionIsMade
  <2>6. n \in Knowledges /\ IsAlike(p, k, n)
    BY <1>1, <1>3, <2>5, ActedFields
  <2> HIDE DEF o, n
  <2>7. knows' = [knows EXCEPT ![p] = n]
    BY <2>1 DEF n
  <2> QED
    BY <2>3, <2>5, <2>6, <2>7 DEF k, m
<1> QED
  BY <1>4, <1>5, <1>6

\* Its pack, then, is known to a werewolf that has taken a message.
LEMMA PackIsTaken ==
  ASSUME TInv, NEW p \in lively, mail[p] # << >>
  PROVE  LET k == Observed(knows[p], Head(mail[p]))
         IN  /\ k.pack \subseteq Pack
             /\ p \in Pack /\ status[p] = "running" => Pack \cap g.living \subseteq k.pack
<1> DEFINE s == mail[p]
           m == Head(s)
           v == knows[p]
           k == Observed(v, m)
<1>1. /\ s \in Seq(Mail) /\ s # << >> /\ v \in Knowledges /\ p \in Players
      /\ \A i \in DOMAIN s : Fits(g, p, s[i])
      /\ v.pack \subseteq Pack
      /\ p \in Pack /\ status[p] = "running" => m = Assigned(p) \/ Pack \cap g.living \subseteq v.pack
  BY DEF TInv, Typed, MailFits, PackIsKnown
<1> HIDE DEF s, v
<1>2. m \in Mail /\ Fits(g, p, m)
  <2>1. 1 \in DOMAIN s /\ m = s[1] /\ s[1] \in Mail
    BY <1>1
  <2> QED
    BY <1>1, <2>1
<1> HIDE DEF m
<1>3. CASE m.is = "Assigned"
  <2>1. k.pack = m.pack /\ m = Assigned(p)
    BY <1>1, <1>2, <1>3, ObservedFields DEF Fits
  <2>2. m.pack = IF p \in Pack THEN Pack ELSE {}
    BY <2>1, <1>1 DEF Assigned, Pack
  <2> QED
    BY <2>1, <2>2 DEF k, m, s, v
<1>4. CASE m.is = "Eliminated"
  <2>1. k.pack = v.pack \ {m.who} /\ m.who \notin g.living
    BY <1>1, <1>2, <1>4, ObservedFields DEF Fits
  <2>2. m # Assigned(p)
    BY <1>4 DEF Assigned
  <2> QED
    BY <1>1, <2>1, <2>2 DEF k, m, s, v
<1>5. CASE m.is \notin {"Assigned", "Eliminated"}
  <2>1. m.is \in {"PhaseBegan", "Investigated", "Relayed", "Outcome", "NoDeath", "NoLynch"}
    BY <1>2, <1>5 DEF Mail, Narrations, Relays
  <2>2. k.pack = v.pack
    BY <1>1, <1>2, <2>1, ObservedFields DEF SameDead
  <2>3. m # Assigned(p)
    BY <1>5 DEF Assigned
  <2> QED
    BY <1>1, <2>2, <2>3 DEF k, m, s, v
<1> QED
  BY <1>3, <1>4, <1>5

\* A player reads a message, and may select.
LEMMA TakesOn ==
  ASSUME TInv, NEW p \in lively, Take(p)
  PROVE  TInv'
<1> DEFINE s == mail[p]
           m == Head(s)
           k == Observed(knows[p], m)
           rest == IF status[p] = "told" THEN << >> ELSE Tail(s)
           after == IF status[p] = "told" THEN "stopped" ELSE status[p]
<1>1. PICK n \in Knowledges :
        /\ IsAlike(p, k, n)
        /\ knows' = [knows EXCEPT ![p] = n]
        /\ \/ heard' = heard
           \/ \E o \in Ballots : Made(g, o) /\ heard' = Append(heard, o)
  BY TakesAre
<1>2. /\ status[p] \in {"running", "told"} /\ s # << >>
      /\ mail' = [mail EXCEPT ![p] = rest] /\ status' = [status EXCEPT ![p] = after]
      /\ UNCHANGED <<mod, moderating, timer, clock>>
  <2>1. s \in Seq(Mail) /\ status[p] \in {"running", "told"} /\ Len(s) \in 1 .. Unread
    BY DEF TInv, Typed, Take
  <2>2. s # << >>
    BY <2>1
  <2> QED
    BY <2>1, <2>2 DEF Take
<1>3. /\ lively \subseteq Players /\ p \in Players
      /\ mail \in [lively -> Seq(Mail)] /\ status \in [Players -> Conditions] /\ knows \in [lively -> Knowledges]
      /\ s \in Seq(Mail) /\ heard \in Seq(Ballots)
  BY DEF TInv, Typed
<1>4. /\ k.pack \subseteq Pack
      /\ p \in Pack /\ status[p] = "running" => Pack \cap g.living \subseteq k.pack
  BY <1>2, PackIsTaken
<1>5. /\ Tail(s) \in Seq(Mail) /\ \A i \in DOMAIN Tail(s) : i + 1 \in DOMAIN s /\ Tail(s)[i] = s[i + 1]
      /\ Reads(knows[p], s) = Reads(k, Tail(s))
  BY <1>2, <1>3, ReadsFacts
<1>6. rest \in Seq(Mail) /\ after \in Conditions /\ k \in Knowledges
  <2>1. m \in Mail
    BY <1>2, <1>3
  <2>2. k \in Knowledges
    BY <1>3, <2>1, ObservedFields
  <2> QED
    BY <1>3, <1>5, <2>2 DEF Conditions
<1>7. status[p] = "running" => rest = Tail(s) /\ after = "running"
  OBVIOUS
<1>8. status[p] = "told" => rest = << >> /\ after = "stopped"
  OBVIOUS
<1> HIDE DEF rest, after, k, m, s
<1>9. /\ lively' = lively /\ g' = g /\ mail' \in [lively -> Seq(Mail)] /\ status' \in [Players -> Conditions]
      /\ knows' \in [lively -> Knowledges]
      /\ \A q \in Players : status'[q] = IF q = p THEN after ELSE status[q]
      /\ \A q \in lively : mail'[q] = IF q = p THEN rest ELSE mail[q]
      /\ \A q \in lively : knows'[q] = IF q = p THEN n ELSE knows[q]
  <2>1. DOMAIN mail' = lively /\ \A q \in lively : mail'[q] = IF q = p THEN rest ELSE mail[q]
    BY <1>2, <1>3
  <2>2. lively' = lively
    BY <2>1 DEF lively
  <2>3. mail' \in [lively -> Seq(Mail)]
    BY <1>2, <1>3, <1>6
  <2>4. status' \in [Players -> Conditions] /\ \A q \in Players : status'[q] = IF q = p THEN after ELSE status[q]
    BY <1>2, <1>3, <1>6
  <2>5. knows' \in [lively -> Knowledges] /\ \A q \in lively : knows'[q] = IF q = p THEN n ELSE knows[q]
    BY <1>1, <1>3
  <2> QED
    BY <1>2, <2>1, <2>2, <2>3, <2>4, <2>5 DEF g
<1>10. \A q \in Players : status'[q] = "running" <=> status[q] = "running"
  BY <1>2, <1>7, <1>8, <1>9
<1>11. heard' \in Seq(Ballots) /\ ChoicesFit'
  <2>1. CASE heard' = heard
    BY <1>3, <1>9, <2>1 DEF TInv, ChoicesFit
  <2>2. ASSUME NEW o \in Ballots, Made(g, o), heard' = Append(heard, o)
        PROVE  heard' \in Seq(Ballots) /\ ChoicesFit'
    <3>1. heard' \in Seq(Ballots)
      BY <1>3, <2>2
    <3>2. ASSUME NEW i \in DOMAIN heard'
          PROVE  Made(g, heard'[i])
      <4>1. (i \in DOMAIN heard /\ heard'[i] = heard[i]) \/ heard'[i] = o
        BY <1>3, <2>2, <3>2
      <4> QED
        BY <2>2, <4>1 DEF TInv, ChoicesFit
    <3> QED
      BY <1>9, <3>1, <3>2 DEF ChoicesFit
  <2> QED
    BY <1>1, <2>1, <2>2
<1>12. Typed'
  BY <1>2, <1>9, <1>11 DEF TInv, Typed
<1>13. Played'
  <2>1. moderating # "waiting"
    BY <1>2, <1>3 DEF TInv, Played
  <2>2. {q \in Players : status'[q] = "running"} = {q \in Players : status[q] = "running"}
    BY <1>10
  <2> QED
    BY <1>2, <1>9, <2>1, <2>2 DEF TInv, Played
<1>14. MailFits'
  <2>1. ASSUME NEW q \in lively, NEW i \in DOMAIN mail'[q]
        PROVE  Fits(g, q, mail'[q][i])
    <3>1. CASE q # p
      BY <1>9, <2>1, <3>1 DEF TInv, MailFits
    <3>2. CASE q = p
      <4>1. mail'[q] = rest /\ \A j \in DOMAIN s : Fits(g, p, s[j])
        BY <1>9, <3>2 DEF TInv, MailFits, s
      <4>2. rest = << >> \/ rest = Tail(s)
        BY <1>2, <1>7, <1>8
      <4> DEFINE t == Tail(s)
      <4>3. \A j \in DOMAIN t : Fits(g, p, t[j])
        BY <1>5, <4>1
      <4> HIDE DEF t
      <4>4. i \in DOMAIN rest /\ (rest = << >> \/ rest = t)
        BY <2>1, <4>1, <4>2 DEF t
      <4>5. i \in DOMAIN t /\ rest = t
        BY <4>4
      <4> QED
        BY <3>2, <4>1, <4>3, <4>5
    <3> QED
      BY <3>1, <3>2
  <2> QED
    BY <1>9, <2>1 DEF MailFits
<1>15. PackIsKnown'
  <2>1. n.pack = k.pack
    BY <1>1 DEF IsAlike
  <2>2. ASSUME NEW q \in lively
        PROVE  /\ knows'[q].pack \subseteq Pack
               /\ q \in Pack /\ status'[q] = "running" =>
                    \/ mail'[q] # << >> /\ Head(mail'[q]) = Assigned(q)
                    \/ Pack \cap g.living \subseteq knows'[q].pack
    <3>1. CASE q = p
      BY <1>3, <1>4, <1>9, <1>10, <2>1, <3>1
    <3>2. CASE q # p
      BY <1>3, <1>9, <3>2 DEF TInv, PackIsKnown
    <3> QED
      BY <3>1, <3>2
  <2> QED
    BY <1>9, <2>2 DEF PackIsKnown
<1>16. GameIsKnown'
  <2>1. ASSUME NEW q \in lively, status'[q] = "running"
        PROVE  Reads(knows'[q], mail'[q]) \in Known(g)[q]
    <3>1. Reads(knows[q], mail[q]) \in Known(g)[q]
      BY <1>3, <1>10, <2>1 DEF TInv, GameIsKnown, Running, CaughtUp, Reads
    <3>2. CASE q # p
      BY <1>9, <2>1, <3>1, <3>2
    <3>3. CASE q = p
      <4>1. mail'[q] = Tail(s) /\ knows'[q] = n
        BY <1>3, <1>7, <1>9, <1>10, <2>1, <3>3
      <4>2. Reads(k, Tail(s)) \in Known(g)[p]
        BY <1>5, <3>1, <3>3 DEF s
      <4> DEFINE t == Tail(s)
                 y == g
      <4>3. t \in Seq(Mail) /\ Reads(k, t) \in Known(y)[p] /\ n \in Knowledges /\ IsAlike(p, k, n)
        BY <1>1, <1>5, <4>2
      <4> HIDE DEF t, y
      <4>4. Reads(n, t) \in Known(y)[p]
        BY <1>3, <1>6, <4>3, ReadsAlike
      <4> QED
        BY <3>3, <4>1, <4>4 DEF t, y
    <3> QED
      BY <3>2, <3>3
  <2>2. Running' = {q \in lively : status'[q] = "running"} /\ \A q : CaughtUp(q)' = Reads(knows'[q], mail'[q])
    BY <1>9 DEF Running, CaughtUp, Reads
  <2> QED
    BY <1>9, <2>1, <2>2 DEF GameIsKnown
<1> QED
  BY <1>12, <1>13, <1>14, <1>11, <1>15, <1>16 DEF TInv

(***************************************************************************)
(* What holds of every state.                                              *)
(***************************************************************************)
LEMMA InitTInv == Init => TInv
<1> SUFFICES ASSUME Init PROVE TInv
  OBVIOUS
<1>1. /\ mod = NewModerator /\ moderating = "waiting" /\ heard = << >> /\ timer = {} /\ clock = 0
      /\ status = [p \in Players |-> "waiting"]
  BY DEF Init
<1>2. PICK players \in Lively : mail = [p \in players |-> << >>]
  BY DEF Init
<1>3. lively = players /\ lively \subseteq Players /\ knows = [p \in lively |-> NewKnowledge]
  BY <1>2, BoundsAssumption DEF lively, Init
<1>4. mail \in [lively -> Seq(Mail)] /\ \A p \in lively : mail[p] = << >>
  BY <1>2, <1>3
<1>5. knows \in [lively -> Knowledges] /\ \A p \in lively : knows[p] = NewKnowledge /\ knows[p].pack = {}
  BY <1>3, NewKnowledgeType
<1>6. \A p \in Players : status[p] = "waiting"
  BY <1>1
<1>7. mod \in ModType /\ mod.effects = << >> /\ g.says = << >>
  BY <1>1, NewModeratorFields DEF g
<1>8. Typed
  BY <1>1, <1>3, <1>4, <1>5, <1>7 DEF Typed, Threads, Conditions
<1>9. Played
  BY <1>1, <1>4, <1>5, <1>6 DEF Played
<1>10. MailFits /\ ChoicesFit
  BY <1>1, <1>4 DEF MailFits, ChoicesFit
<1>11. PackIsKnown /\ GameIsKnown
  BY <1>3, <1>5, <1>6 DEF PackIsKnown, GameIsKnown, Running
<1> QED
  BY <1>8, <1>9, <1>10, <1>11 DEF TInv

\* The invariant holds of every state.
THEOREM TableInvariant == Spec => []TInv
<1>1. TInv /\ [Next]_vars => TInv'
  <2> SUFFICES ASSUME TInv, [Next]_vars PROVE TInv'
    OBVIOUS
  <2>1. CASE Opened
    BY <2>1, OpensTable
  <2>2. CASE Count
    BY <2>2, CountsOn, PanicsOn
  <2>3. CASE Tick
    BY <2>3, TicksOn
  <2>4. ASSUME NEW r \in timer, Return(r) PROVE TInv'
    BY <2>4, ReturnsOn
  <2>5. ASSUME NEW p \in lively, Take(p) \/ Halt(p) PROVE TInv'
    BY <2>5, TakesOn, HaltsOn
  <2>6. CASE UNCHANGED vars
    <3>1. UNCHANGED <<mod, moderating, heard, timer, clock, mail, knows, status>>
      BY <2>6 DEF vars
    <3>2. lively' = lively /\ g' = g
      BY <3>1 DEF lively, g
    <3>3. Typed' /\ Played'
      BY <3>1, <3>2 DEF TInv, Typed, Played
    <3>4. MailFits' /\ ChoicesFit' /\ PackIsKnown' /\ GameIsKnown'
      BY <3>1, <3>2 DEF TInv, MailFits, ChoicesFit, PackIsKnown, GameIsKnown, Running, CaughtUp
    <3> QED
      BY <3>3, <3>4 DEF TInv
  <2> QED
    BY <2>1, <2>2, <2>3, <2>4, <2>5, <2>6 DEF Next, Ended
<1> QED
  BY InitTInv, <1>1, PTL DEF Spec

\* What a player that runs knows is the game, once it has read its mail: the
\* moment, the living, the dead and what they were, its pack, the findings.
THEOREM PlayersKnowTheGame == Spec => []KnowsTheGame
<1>1. TInv => KnowsTheGame
  <2> SUFFICES ASSUME TInv, NEW p \in Running
               PROVE  LET k == CaughtUp(p)
                      IN  /\ k.round = g.round /\ k.phase = g.phase /\ k.living = g.living
                          /\ k.pack = IF p \in Pack THEN Pack \cap g.living ELSE {}
                          /\ k.over = Over(g)
                          /\ \A q \in Players :
                               /\ k.dead[q].role = IF q \in g.living THEN Nothing ELSE RoleOf[q]
                               /\ k.dead[q].round <= g.round
                               /\ k.investigations[q] \in {Nothing, Faction(RoleOf[q])}
    BY DEF KnowsTheGame
  <2> DEFINE k == CaughtUp(p)
  <2>1. p \in Players /\ k \in Known(g)[p]
    BY DEF TInv, Typed, GameIsKnown, Running
  <2> HIDE DEF k
  <2>2. IsAware(g, p, k)
    BY <2>1 DEF Known, IsKnown
  <2> QED
    BY <2>2 DEF IsAware, IsAbreast, k
<1> QED
  BY TableInvariant, <1>1, PTL

\* A member of a session has seen, once it has read its mail, the selections
\* of the others that count, and no others.
THEOREM MembersSeeWhatCounts == Spec => []SeesWhatCounts
<1>1. TInv => SeesWhatCounts
  <2> SUFFICES ASSUME TInv, ~Over(g), NEW p \in Running, NEW q \in Players \ {p}
               PROVE  CaughtUp(p).selections[q] = Seen(g, p, q)
    BY DEF SeesWhatCounts, Seen
  <2> DEFINE k == CaughtUp(p)
  <2>1. p \in Players /\ k \in Known(g)[p]
    BY DEF TInv, Typed, GameIsKnown, Running
  <2> HIDE DEF k
  <2>2. IsKnown(g, p, k)
    BY <2>1 DEF Known
  <2> QED
    BY <2>2 DEF IsKnown, k
<1> QED
  BY TableInvariant, <1>1, PTL

\* No relay is for a player stopped by the time it is sent: the router refuses
\* the moderator nothing.
THEOREM NobodyGoneIsRelayedTo == Spec => []NobodyGoneIsAddressed
<1>1. TInv => NobodyGoneIsAddressed
  BY DEF TInv, Typed, Threads, NobodyGoneIsAddressed
<1> QED
  BY TableInvariant, <1>1, PTL
=============================================================================
