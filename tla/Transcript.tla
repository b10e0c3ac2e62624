----------------------------- MODULE Transcript -----------------------------
(***************************************************************************)
(* Reading a log back as the game it records (transcript.rs).  A reading   *)
(* is the fold of the log's lines, so the reading of a log that was cut    *)
(* short is the one of the lines it still has.  A line that is no record   *)
(* of the runtime's is refused before any of this.                         *)
(*                                                                         *)
(* What Rust keeps in an Option is a sequence of at most one.              *)
(***************************************************************************)
EXTENDS Rules, Sequences, SequencesExt

CONSTANT Env   \* the moderator's id

\* Nothing recorded of a player.
NoMove == [kind |-> Nothing, target |-> Nobody]
NoFinding == [target |-> Nobody, faction |-> Nothing]

\* PhaseRecord::begun.
PhaseBegun(living) ==
  [living |-> living, moves |-> [p \in Players |-> NoMove],
   investigations |-> [p \in Players |-> NoFinding],
   eliminated |-> << >>, noLynch |-> FALSE, hammer |-> << >>]

\* A reader of no lines yet; `mine` holds the numbers of the moderator's own
\* messages, `error` the first thing that keeps the file from being a game.
NewReading ==
  [assignment |-> [p \in Players |-> Nothing], rounds |-> << >>, latest |-> << >>,
   outcome |-> << >>, rewards |-> [p \in Players |-> "unpaid"], mine |-> {}, error |-> "none"]

Refused(r, error) == [r EXCEPT !.error = error]

(***************************************************************************)
(* The phase in progress.                                                  *)
(***************************************************************************)
InDay(r) == Last(r.rounds).day # << >>

\* Reader::current.
Current(r) == IF InDay(r) THEN Last(r.rounds).day[1] ELSE Last(r.rounds).night

\* Everything of a round is filed in its night.
InCurrentNight(r, phase) ==
  IF r.rounds = << >> THEN Refused(r, "NoPhase")
  ELSE [r EXCEPT !.rounds[Len(r.rounds)].night = phase]

\* Something is recorded of the phase in progress.
InCurrent(r, phase) ==
  IF r.rounds = << >> THEN Refused(r, "NoPhase")
  ELSE IF InDay(r) THEN [r EXCEPT !.rounds[Len(r.rounds)].day = <<phase>>]
  ELSE [r EXCEPT !.rounds[Len(r.rounds)].night = phase]

\* A phase begins: a night opens a round, a day belongs to the round of the
\* night before it.
Begins(r, narration) ==
  LET begun == PhaseBegun(narration.living)
  IN  IF narration.phase = "Night"
        THEN [r EXCEPT !.latest = << >>,
                       !.rounds = Append(@, [round |-> narration.round, night |-> begun,
                                             day |-> << >>])]
      ELSE IF r.rounds # << >> /\ Last(r.rounds).round = narration.round /\ ~InDay(r)
        THEN [r EXCEPT !.latest = << >>, !.rounds[Len(r.rounds)].day = <<begun>>]
      ELSE Refused(r, "NoPhase")

(***************************************************************************)
(* The fold.                                                               *)
(***************************************************************************)

\* only: the one player a message is to.
Only(recipients) == CHOOSE p \in recipients : recipients = {p}

\* Reader::narrated.  The hammer is the latest nomination passed on.
Narrated(r, recipients, n) ==
  LET dead == [who |-> n.who, role |-> n.role, cause |-> n.cause]
  IN  CASE n.is = "Assigned" ->
             [r EXCEPT !.assignment = [p \in Players |-> IF p \in recipients THEN n.role ELSE @[p]]]
        [] n.is = "PhaseBegan" -> Begins(r, n)
        [] n.is = "Investigated" /\ Cardinality(recipients) = 1 /\ r.rounds # << >> ->
             LET seer == Only(recipients)
             IN  InCurrent(r, [Current(r) EXCEPT !.investigations[seer] =
                                 [target |-> n.target, faction |-> n.faction]])
        [] n.is = "Investigated" /\ Cardinality(recipients) # 1 -> Refused(r, "Malformed")
        [] n.is = "Eliminated" /\ r.rounds # << >> ->
             InCurrent(r, [Current(r) EXCEPT
               !.eliminated = <<dead>>,
               !.hammer = IF n.cause = "Lynched" THEN r.latest ELSE << >>])
        [] n.is = "NoLynch" /\ r.rounds # << >> -> InCurrent(r, [Current(r) EXCEPT !.noLynch = TRUE])
        [] n.is = "NoDeath" -> r
        [] n.is = "Outcome" -> [r EXCEPT !.outcome = <<n>>]
        [] OTHER -> Refused(r, "NoPhase")

\* Reader::answered: filed in the phase in progress, whatever session the
\* selection names.
Answered(r, from, sel) ==
  IF r.assignment[from] = Nothing \/ AskedIn(r.assignment[from], PhaseOf(sel.kind)) # sel.kind
    THEN Refused(r, "NotAMember")
  ELSE IF r.rounds = << >> THEN Refused(r, "NoPhase")
  ELSE InCurrent(r, [Current(r) EXCEPT !.moves[from] = [kind |-> sel.kind, target |-> sel.target]])

\* The hammer is whoever nominated first.
PassedOnFirst(r, message) ==
  IF message.envelope.kind = "Nominate" /\ r.latest = << >> THEN [r EXCEPT !.latest = <<message.envelope.from>>] ELSE r

\* The nomination the moderator passed on last may prove to be the hammer.
PassedOn(r, message) ==
  IF message.envelope.kind = "Nominate" THEN [r EXCEPT !.latest = <<message.envelope.from>>] ELSE r

\* Direction: sent by the moderator, received by it, or lost.
Direction(line) ==
  CASE line.type = "action" -> "Sent" [] line.type = "observation" -> "Received"
    [] line.type \in {"undelivered", "unsent"} -> "Lost"

\* Line: what the reader takes an interest in.  A reward is anybody's, a
\* message the moderator's; a control, a cycle and the header are nobody's.
LineOf(line) ==
  CASE line.type = "reward" -> "Reward"
    [] line.type \notin {"reward", "control", "cycle", "episode"} /\ line.agent = Env -> "Message"
    [] OTHER -> Nothing

\* Reader::fold: what crossed the moderator's boundary, by which way it did.
\* A message that was lost is only counted.
Fold(r, line) ==
  LET sent    == line.message
      message == sent.payload
      went    == Direction(line)
  IN  CASE went = "Lost" -> r
        [] went = "Sent" /\ message.is = "Relayed" -> PassedOn(r, message)
        [] went = "Received" /\ message.is = "Select" -> Answered(r, sent.sender, message)
        [] went = "Received" /\ message.is = "Reminder" -> r
        [] went = "Sent" /\ message.is \notin {"Select", "Reminder", "Relayed"} ->
             Narrated(r, sent.recipients, message)
        [] OTHER -> Refused(r, "Misdirected")

\* The numbers of the moderator's actions only.
CountActions(r, line) ==
  IF line.type = "action" /\ line.message.sender = Env THEN [r EXCEPT !.mine = @ \cup {line.seq}] ELSE r

\* Every message of the moderator's own has a number to count, a reminder that
\* came back among them.
Count(r, line) ==
  IF line.message.sender = Env THEN [r EXCEPT !.mine = @ \cup {line.seq}] ELSE r

\* read_line and the loop of Transcript::read, up to the first error.
ReadLine(r, line) ==
  CASE r.error # "none" -> r
    [] r.error = "none" /\ LineOf(line) = "Reward" -> [r EXCEPT !.rewards[line.agent] = line.value]
    [] r.error = "none" /\ LineOf(line) = "Message" -> Fold(Count(r, line), line)
    [] OTHER -> r

\* check_the_numbers: the n-th of them is n, from zero.
Dense(numbers) == \A n \in numbers : Cardinality({m \in numbers : m < n}) = n

\* What Transcript::read answers, the lines at their end.
Read(r) ==
  IF r.error # "none" THEN r.error
  ELSE IF r.outcome = << >> THEN "NoOutcome"
  ELSE IF ~Dense(r.mine) THEN "SeqGap"
  ELSE "read"

\* Transcript::verdicts: what a seed must reproduce, phase by phase.
Verdict(phase) == [eliminated |-> phase.eliminated, investigations |-> phase.investigations]
Played(rounds) == FlattenSeq([i \in DOMAIN rounds |-> <<rounds[i].night>> \o rounds[i].day])
Verdicts(r) ==
  [assignment |-> r.assignment,
   phases |-> LET all == Played(r.rounds) IN [i \in DOMAIN all |-> Verdict(all[i])],
   outcome |-> r.outcome, rewards |-> r.rewards]

(***************************************************************************)
(* The game at a glance.  Its layout is left out.                          *)
(***************************************************************************)

\* What a phase is shown to end with: a day that ran out of time is not a night
\* that nobody died in.
Ending(phase) ==
  IF phase.eliminated # << >>
    THEN [is |-> phase.eliminated[1].cause, who |-> phase.eliminated[1].who, hammer |-> phase.hammer]
  ELSE [is |-> IF phase.noLynch THEN "no one was lynched" ELSE "no one died"]

\* The nominations are a ballot; a deed of the night is shown with what it
\* found.
PhaseShown(phase) ==
  LET move(p) == phase.moves[p]
      voters  == {p \in Players : move(p).kind = "Nominate"}
      doers   == {p \in Players : move(p).kind \notin {"Nominate", Nothing}}
  IN  [living |-> Cardinality(phase.living),
       votes  |-> [p \in voters |-> move(p).target],
       deeds  |-> [p \in doers |-> [move |-> move(p), found |-> phase.investigations[p].faction]],
       ending |-> Ending(phase)]

\* Display: the roster, the phases, the outcome, and the rewards there are.
Shown(r) ==
  [roster |-> r.assignment,
   phases |-> LET all == Played(r.rounds) IN [i \in DOMAIN all |-> PhaseShown(all[i])],
   outcome |-> r.outcome,
   rewards |-> [p \in {q \in Players : r.rewards[q] # "unpaid"} |-> r.rewards[p]]]
=============================================================================
