----------------------------- MODULE LogWriter -----------------------------
(***************************************************************************)
(* The log writer (log.rs): a thread that takes records off an unbounded   *)
(* channel and hands each to every sink, until a required sink fails or    *)
(* every sender has been dropped.  The actors and the episode each hold a  *)
(* sender; an actor whose send fails ends its threads, and so drops it.    *)
(*                                                                         *)
(* A record is its sender and its place among the sender's own.            *)
(***************************************************************************)
EXTENDS Naturals, Sequences, FiniteSets, SequencesExt

CONSTANTS
  Actors,     \* those that send records
  Sinks,      \* what records are handed to
  Required,   \* the sinks whose policy is Required
  MaxRecords  \* bound: the records an actor sends

ASSUME SinksAssumption ==
  /\ IsFiniteSet(Actors) /\ IsFiniteSet(Sinks)
  /\ Required \subseteq Sinks
  /\ MaxRecords \in Nat

VARIABLES
  channel,   \* the records sent and not taken
  taken,     \* history: the records handed out, the header first
  senders,   \* the actors holding a sender
  sent,      \* how many records each actor has sent
  closed,    \* the actors whose send has failed
  live,      \* the sinks that have not failed
  lines,     \* what each sink has recorded
  finished,  \* the sinks finished
  writer     \* starting, running, done or failed

vars == <<channel, taken, senders, sent, closed, live, lines, finished, writer>>

Header == <<"episode", 0>>
Alive == writer \in {"starting", "running"}

Init ==
  /\ channel = << >> /\ taken = << >>
  /\ senders = Actors /\ closed = {}
  /\ sent = [a \in Actors |-> 0]
  /\ live = Sinks /\ finished = {}
  /\ lines = [s \in Sinks |-> << >>]
  /\ writer = "starting"

(***************************************************************************)
(* The actors.                                                             *)
(***************************************************************************)

\* An actor sends its next record, the writer still holding its end.
Send(a) ==
  /\ a \in senders /\ Alive /\ sent[a] < MaxRecords
  /\ sent' = [sent EXCEPT ![a] = @ + 1]
  /\ channel' = Append(channel, <<a, sent[a] + 1>>)
  /\ UNCHANGED <<taken, senders, closed, live, lines, finished, writer>>

\* The send of an actor fails, and with it the actor: WriterClosed.
SendFails(a) ==
  /\ a \in senders /\ ~Alive /\ sent[a] < MaxRecords
  /\ closed' = closed \cup {a}
  /\ senders' = senders \ {a}
  /\ UNCHANGED <<channel, taken, sent, live, lines, finished, writer>>

\* The threads of an actor end, and its sender is dropped.
Drop(a) ==
  /\ a \in senders
  /\ senders' = senders \ {a}
  /\ UNCHANGED <<channel, taken, sent, closed, live, lines, finished, writer>>

(***************************************************************************)
(* The writer.                                                             *)
(***************************************************************************)

\* The receiver is dropped, and what is in the channel with it.
HangUp(verdict) == writer' = verdict /\ channel' = << >>

\* What the live sinks that do not fail record.
Recorded(record, takers) ==
  [s \in Sinks |-> IF s \in takers THEN Append(lines[s], record) ELSE lines[s]]

\* An optional sink's failure ends the run.
DeliverAsRequired(record, failing, rest) ==
  /\ lines' = Recorded(record, live \ failing)
  /\ live' = live \ failing
  /\ taken' = Append(taken, record)
  /\ IF failing # {} THEN HangUp("failed") ELSE writer' = "running" /\ channel' = rest

\* A sink that failed is handed the next record all the same.
DeliverAgain(record, failing, rest) ==
  /\ lines' = Recorded(record, live \ failing)
  /\ live' = live \ (failing \cap Required)
  /\ taken' = Append(taken, record)
  /\ IF failing \cap Required # {} THEN HangUp("failed")
     ELSE writer' = "running" /\ channel' = rest

\* deliver, a record: to every live sink, those that fail dropped whatever
\* their policy; a required one among them ends the writer.
Deliver(record, failing, rest) ==
  /\ lines' = Recorded(record, live \ failing)
  /\ live' = live \ failing
  /\ taken' = Append(taken, record)
  /\ IF failing \cap Required # {} THEN HangUp("failed")
     ELSE writer' = "running" /\ channel' = rest

\* The header, before any record.
WriteHeader ==
  /\ writer = "starting"
  /\ \E failing \in SUBSET live : Deliver(Header, failing, channel)
  /\ UNCHANGED <<senders, sent, closed, finished>>

\* The next record in the channel.
WriteRecord ==
  /\ writer = "running" /\ channel # << >>
  /\ \E failing \in SUBSET live : Deliver(Head(channel), failing, Tail(channel))
  /\ UNCHANGED <<senders, sent, closed, finished>>

\* A sink that could not be flushed is counted among the finished.
FlushCountingFailed(failing) ==
  /\ finished' = live
  /\ live' = live \ failing
  /\ HangUp(IF failing \cap Required # {} THEN "failed" ELSE "done")

\* What Finish does to the sinks.
Flush(failing) ==
  /\ finished' = live \ failing
  /\ live' = live \ failing
  /\ HangUp(IF failing \cap Required # {} THEN "failed" ELSE "done")

\* The channel found empty is taken for closed.
FinishWhenIdle ==
  /\ writer = "running" /\ channel = << >>
  /\ \E failing \in SUBSET live : Flush(failing)
  /\ UNCHANGED <<taken, senders, sent, closed, lines>>

\* Nothing is finished unless everything can be.
FinishAllOrNone ==
  /\ writer = "running" /\ channel = << >> /\ senders = {} /\ live = Sinks
  /\ \E failing \in SUBSET live : Flush(failing)
  /\ UNCHANGED <<taken, senders, sent, closed, lines>>

\* Every sender dropped and the channel empty: each live sink is finished.
Finish ==
  /\ writer = "running" /\ channel = << >> /\ senders = {}
  /\ \E failing \in SUBSET live : Flush(failing)
  /\ UNCHANGED <<taken, senders, sent, closed, lines>>

\* The thread has ended, and join returns.
Joined == ~Alive /\ senders = {} /\ UNCHANGED vars

Next ==
  \/ \E a \in Actors : Send(a) \/ SendFails(a) \/ Drop(a)
  \/ WriteHeader \/ WriteRecord \/ Finish \/ Joined

\* The writer's thread runs, and an actor's threads end sooner or later.
Fairness ==
  /\ WF_vars(WriteHeader) /\ WF_vars(WriteRecord) /\ WF_vars(Finish)
  /\ \A a \in Actors : WF_vars(Drop(a) \/ SendFails(a))

Spec == Init /\ [][Next]_vars /\ Fairness
-----------------------------------------------------------------------------
(***************************************************************************)
(* Properties.                                                             *)
(***************************************************************************)

Record == (Actors \X (1 .. MaxRecords)) \cup {Header}

\* The types of the variables.
TypeOK ==
  /\ channel \in Seq(Record) /\ taken \in Seq(Record)
  /\ senders \subseteq Actors /\ closed \subseteq Actors \ senders
  /\ sent \in [Actors -> 0 .. MaxRecords]
  /\ live \subseteq Sinks /\ finished \subseteq live
  /\ lines \in [Sinks -> Seq(Record)]
  /\ writer \in {"starting", "running", "done", "failed"}

\* "A run whose record of itself is incomplete is a run that did not happen"
\* (log.rs, Policy::Required): if join answers Ok, every required sink has
\* every record that any actor sent or tried to, and was finished after the
\* last of them.
CompleteIfDone ==
  writer = "done" =>
    /\ closed = {} /\ Required \subseteq finished
    /\ \A s \in Required, a \in Actors : \A i \in 1 .. sent[a] :
         \E j \in DOMAIN lines[s] : lines[s][j] = <<a, i>>

\* A sink has a prefix of what the writer handed out, without a gap where it
\* failed; a live one has all of it.
NoGaps ==
  \A s \in Sinks : IsPrefix(lines[s], taken) /\ (s \in live => lines[s] = taken)

\* An optional sink's failure costs that sink and nothing else: the writer
\* fails, and an actor's send with it, only once a required sink has failed.
OptionalCostsNothing ==
  (writer = "failed" \/ closed # {}) => ~(Required \subseteq live)

\* The episode's join of the writer returns, whichever sinks fail and when.
WriterEnds == <>(~Alive /\ senders = {})
=============================================================================
