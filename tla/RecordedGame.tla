---------------------------- MODULE RecordedGame ----------------------------
(***************************************************************************)
(* A moderated game and the log it leaves, line by line: what the          *)
(* moderator's two threads write, and what a reader of the file            *)
(* (Transcript) and a watcher of the game (Live) make of the lines there   *)
(* are.  Every state is a file that may be all that is left.               *)
(*                                                                         *)
(* The handler thread writes the actions of a call in order; the           *)
(* perception thread writes the observation once it has handed it over,    *)
(* which may be before, between or after them, but is before it hands over *)
(* the next (Perception).                                                  *)
(***************************************************************************)
EXTENDS ModeratedGame

CONSTANTS
  Env,        \* the moderator's id
  MaxHeard    \* bound: the selections that arrive

VARIABLES
  unwritten,   \* what the handler has yet to write of its call, a few records at a time
  unperceived, \* the observation the perception thread has yet to write
  numbers,     \* the number of each reminder that has not come back
  sent,        \* the next of the moderator's numbers
  heard,       \* how many selections have arrived
  transcript,  \* the reading of the file so far
  watched,     \* who lives, as a watcher has it
  mislabelled, \* history: a line said "everybody" wrongly, or failed to, or told
               \* of living whom the lines before it do not leave
  played       \* history: of each phase, who lived, its death, its hammer and its findings

Reader == INSTANCE Transcript
View   == INSTANCE Live

logVars == <<unwritten, unperceived, numbers, sent, transcript, watched, mislabelled>>
recordedVars == <<vars, logVars, heard, played>>

Unplayed(game) ==
  [phase |-> game.phase, living |-> Cardinality(game.living), eliminated |-> << >>,
   hammer |-> << >>, findings |-> [p \in Players |-> Reader!NoFinding]]

InitRecorded ==
  /\ Init
  /\ unwritten = << >> /\ unperceived = << >>
  /\ numbers = << >> /\ sent = 0 /\ heard = 0
  /\ transcript = Reader!NewReading /\ watched = View!NewView
  /\ mislabelled = FALSE /\ played = << >>

(***************************************************************************)
(* The records of a call.                                                  *)
(***************************************************************************)

\* A narration, a relay and a reminder each take a number of the moderator's.
Numbered(effect) == effect.do \in {"tell", "remind", "farewell"}
Number(effects, i) == sent + Cardinality({j \in 1 .. i - 1 : Numbered(effects[j])})

\* Whether a message is for all the living, as the moderator knows them: those
\* the call leaves living, or, for what it passes on, those it found living.
ForAll(m, effect) ==
  IF effect.message.is = "Relayed" THEN effect.to = Living \ {effect.message.envelope.from}
  ELSE effect.to = m.game.living

\* A message, and what a record has of it under `message`: all but its number,
\* which is the record's own.
Message(sender, recipients, seq, payload) ==
  [sender |-> sender, recipients |-> recipients, seq |-> seq, payload |-> payload]
Wire(m) == [sender |-> m.sender, recipients |-> m.recipients, payload |-> m.payload]

\* ActionRecord, RewardRecord, ObservationRecord and UndeliveredRecord; `forAll`
\* is no part of the line.
ActionRecord(m, all) ==
  [type |-> "action", agent |-> m.sender, seq |-> m.seq, message |-> Wire(m), forAll |-> all]
RewardRecord(p, value) == [type |-> "reward", agent |-> p, value |-> value]
ObservationRecord(agent, m) ==
  [type |-> "observation", agent |-> agent, seq |-> m.seq, message |-> Wire(m)]
UndeliveredRecord(agent, m) == [ObservationRecord(agent, m) EXCEPT !.type = "undelivered"]

\* What is logged of an effect as it is carried out: an action of the
\* moderator's, or a reward of each player's, those of a game in one go: no
\* reader makes anything of some of them without the rest.  A reminder is
\* logged when it comes back.
RecordsOf(m, i) ==
  LET e == m.effects[i]
      payees == SetToSeq(Players)
  IN  CASE e.do = "tell" ->
             << << ActionRecord(Message(Env, e.to, Number(m.effects, i), e.message),
                                ForAll(m, e)) >> >>
        [] e.do = "pay" ->
             << [j \in DOMAIN payees |-> RewardRecord(payees[j], e.rewards[payees[j]])] >>
        [] OTHER -> << >>

\* The numbers of the reminders a call sets.
NumbersOf(m) ==
  LET set(e) == IF e.do = "remind" THEN e.look ELSE Goodbye(clock + e.wait)
      new == {i \in DOMAIN m.effects : m.effects[i].do \in {"remind", "farewell"}}
  IN  [r \in {set(m.effects[i]) : i \in new} |->
         Number(m.effects, CHOOSE i \in new : set(m.effects[i]) = r)]

\* What there is to write of the call that made the moderator m.
ToWrite(m, perceived, kept) ==
  /\ unwritten = << >> /\ unperceived = << >>
  /\ unwritten' = FlattenSeq([i \in DOMAIN m.effects |-> RecordsOf(m, i)])
  /\ unperceived' = perceived
  /\ numbers' = [r \in kept |-> numbers[r]] @@ NumbersOf(m)
  /\ sent' = Number(m.effects, Len(m.effects) + 1)

(***************************************************************************)
(* What was played, by the game itself.                                    *)
(***************************************************************************)
Shut(m, kind) == g.sessions[kind].stage = "open" /\ m.game.sessions[kind].stage # "open"

\* By the selections in `counted`, the last one by `from`.
Play(m, counted, from) ==
  LET died == Living \ m.game.living
      now  == [Last(played) EXCEPT
        !.eliminated = IF died = {} THEN @ ELSE <<CHOOSE p \in died : TRUE>>,
        !.hammer = IF died # {} /\ g.phase = "Day" THEN from ELSE @,
        !.findings = IF ~Shut(m, "Investigate") THEN @
          ELSE [p \in Players |->
            LET seen == counted.sessions["Investigate"].selections[p]
            IN  IF seen = Nobody THEN @[p]
                ELSE [target |-> seen, faction |-> Faction(RoleOf[seen])]]]
      begun == IF Over(m.game) \/ m.game.phase = g.phase THEN << >>
               ELSE <<Unplayed(m.game)>>
  IN  played' = Front(played) \o <<now>> \o begun

(***************************************************************************)
(* The steps.                                                              *)
(***************************************************************************)

\* The moderator is started, and deals.
OpenedRecorded ==
  /\ Opened
  /\ ToWrite(Start(mod, 0), << >>, {})
  /\ played' = <<Unplayed(NewGame)>>
  /\ UNCHANGED <<heard, transcript, watched, mislabelled>>

\* A selection: the player's own record of it is in the file already, and
\* neither reader has any use for it but as a line.
Heard(p, sel) ==
  Message(p, {Env}, 0, [is |-> "Select", kind |-> sel.kind, target |-> sel.target])
HearRecorded(p, sel) ==
  /\ heard < MaxHeard /\ heard' = heard + 1
  /\ \E luck \in Named \cup {sel.target} :
       LET m == Hearing(p, sel, luck)
       IN  /\ Answered(m, Counting(p, sel), timer)
           /\ ToWrite(m, <<ObservationRecord(Env, Heard(p, sel))>>, timer)
           /\ Play(m, Counting(p, sel), <<p>>)
  /\ transcript' = Reader!ReadLine(transcript, ActionRecord(Heard(p, sel), FALSE))
  /\ UNCHANGED <<watched, mislabelled>>

\* A reminder comes back, and is observed like any message.
Reminded(r) == Message(Env, {Env}, numbers[r], [is |-> "Reminder"])
WakeRecorded(r) ==
  /\ r.deadline <= clock
  /\ \E luck \in Named :
       LET m == Waking(r, luck)
       IN  /\ Answered(m, g, timer \ {r})
           /\ ToWrite(m, <<ObservationRecord(Env, Reminded(r))>>, timer \ {r})
           /\ Play(m, g, << >>)
  /\ UNCHANGED <<heard, transcript, watched, mislabelled>>

\* Lines reach the file, and the watcher; of several none is an action.
Mislabels(line) ==
  /\ View!Shown(line)
  /\ \/ View!SaysEverybody(watched, line) # line.forAll
     \/ watched # {} /\ View!LivingTold(line.message.payload) \ {Cardinality(watched)} # {}
Written(lines) ==
  /\ transcript' = FoldLeft(Reader!ReadLine, transcript, lines)
  /\ watched' = View!Seen(watched, lines[1])
  /\ mislabelled' = (mislabelled \/ Mislabels(lines[1]))
  /\ UNCHANGED <<vars, heard, played, sent>>

\* The handler thread writes what comes next of its call.
WriteAction ==
  /\ unwritten # << >>
  /\ Written(Head(unwritten)) /\ unwritten' = Tail(unwritten)
  /\ UNCHANGED <<unperceived, numbers>>

\* The perception thread writes the observation of the call.
WriteObservation ==
  /\ unperceived # << >>
  /\ Written(unperceived) /\ unperceived' = << >>
  /\ UNCHANGED <<unwritten, numbers>>

\* The moderator stopped, its reminders still held are logged undelivered, the
\* earliest first.
WriteUndelivered(r) ==
  /\ mod.stopped /\ unwritten = << >> /\ unperceived = << >>
  /\ \A q \in DOMAIN numbers : r.deadline <= q.deadline
  /\ Written(<<UndeliveredRecord(Env, Reminded(r))>>)
  /\ numbers' = [q \in DOMAIN numbers \ {r} |-> numbers[q]]
  /\ UNCHANGED <<unwritten, unperceived>>

\* Time passes between calls.
TickRecorded ==
  /\ unwritten = << >> /\ unperceived = << >> /\ Tick
  /\ UNCHANGED <<logVars, heard, played>>

Closed == mod.stopped /\ unwritten = << >> /\ unperceived = << >> /\ numbers = << >>
EndedRecorded == Closed /\ UNCHANGED recordedVars

NextRecorded ==
  \/ OpenedRecorded \/ TickRecorded \/ WriteAction \/ WriteObservation \/ EndedRecorded
  \/ \E p \in Players : \E sel \in Selections(p) : HearRecorded(p, sel)
  \/ \E r \in timer : WakeRecorded(r)
  \/ \E r \in DOMAIN numbers : WriteUndelivered(r)

SpecRecorded == InitRecorded /\ [][NextRecorded]_recordedVars
-----------------------------------------------------------------------------
(***************************************************************************)
(* Properties.                                                             *)
(***************************************************************************)

\* The verdicts there have been: whom each phase eliminated and what each seer
\* found.
TrueVerdicts ==
  [i \in DOMAIN played |->
    [eliminated |-> IF played[i].eliminated = << >> THEN << >>
                    ELSE LET p == played[i].eliminated[1]
                         IN  << [who |-> p, role |-> RoleOf[p],
                                 cause |-> IF played[i].phase = "Night" THEN "Devoured"
                                           ELSE "Lynched"] >>,
     investigations |-> played[i].findings]]

\* A file cut off anywhere either is no game to its reader or is the game that
\* was played: its deal, its deaths and findings and its outcome are all there,
\* and nobody is paid but what the game was worth to it (transcript.rs,
\* Transcript::read).
WhatIsReadWasPlayed ==
  Reader!Read(transcript) = "read" =>
    LET v == Reader!Verdicts(transcript)
    IN  /\ v.assignment = RoleOf /\ v.phases = TrueVerdicts
        /\ v.outcome = <<Outcome(g, g.winner)>>
        /\ \A p \in Players : v.rewards[p] \in {"unpaid", Rewards(g)[p]}

\* The log of a game that ran to its end is always read, each reminder
\* accounted for whether it came back or not, and everybody was paid
\* (transcript.rs, check_the_numbers).
WholeLogIsRead ==
  Closed => Reader!Read(transcript) = "read" /\ transcript.rewards = Rewards(g)

\* What each phase came to.
TrueEnding(phase) ==
  IF phase.eliminated # << >>
    THEN [is |-> IF phase.phase = "Night" THEN "Devoured" ELSE "Lynched",
          who |-> phase.eliminated[1], hammer |-> phase.hammer]
  ELSE [is |-> IF phase.phase = "Night" THEN "no one died" ELSE "no one was lynched"]

\* Each death is shown with its hammer, the player whose selection completed the
\* majority, though nothing in the log says so and its observation may be
\* logged after the lynching; and, the whole game read, each phase is shown with
\* how many lived in it and what it came to (transcript.rs, Display and
\* Reader::latest_nomination).
ShownAsPlayed ==
  LET shown == Reader!Shown(transcript).phases
  IN  /\ Reader!Read(transcript) = "read" => DOMAIN shown = DOMAIN played
      /\ \A i \in DOMAIN shown :
           /\ shown[i].living = played[i].living
           /\ (Reader!Read(transcript) = "read" \/ shown[i].ending.is \in {"Devoured", "Lynched"}) =>
                shown[i].ending = TrueEnding(played[i])

\* "A message the moderator addressed to all the living reads `everybody`, and
\* so does a relay" (live.rs:56), and no other message does: the watcher knows
\* the living by the time a line is for all of them, and how many a phase's line
\* or the outcome's tells of are those the deaths shown before it leave.
EverybodyIsTheLiving == ~mislabelled
=============================================================================
