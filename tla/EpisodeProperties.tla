------------------------- MODULE EpisodeProperties -------------------------
(***************************************************************************)
(* What a run of an episode promises, over the steps of EpisodeRun.        *)
(***************************************************************************)
EXTENDS EpisodeRun

Place == {"polling", "selecting", "starting", "recording", "firing", "stopping",
          "closing", "ended"}
HandlerPlace == {"receiving", "calling", "routing", "reminding",
                 "commanding", "ended", "panicked"}
Request == [seq : Nat, at : Deadlines]
Reports == [who : Actors, thread : {"perception", "handler"}, stopped : BOOLEAN]

\* The types of the variables.
TypeOK ==
  /\ inbox \in [Actors -> Seq(Key)]
  /\ controls \in [Actors -> Seq(Control)]
  /\ requests \in [Actors -> Seq(Request)]
  /\ done \subseteq Reports
  /\ perception \in [Actors -> Place]
  /\ pending \in [Actors -> Key \cup {NoKey}]
  /\ held \in [Actors -> [Deadlines -> Seq(Nat)]]
  /\ firing \in [Actors -> Deadlines \cup {0}]
  /\ handler \in [Actors -> HandlerPlace]
  /\ script \in [Actors -> Seq(Seq(Item))]
  /\ items \in [Actors -> Seq(Item)]
  /\ call \in [Actors -> Key \cup {NoKey}]
  /\ nextSeq \in [Actors -> Nat]
  /\ route \in [Actors -> Seq(Ids)]
  /\ stopped \in [Actors -> BOOLEAN]
  /\ failed \subseteq Actors
  /\ logged \in [Actors -> Seq(Control)]
  /\ observed \in [Actors -> Seq(Key)]
  /\ undelivered \in [Actors -> SUBSET Key]
  /\ unsent \in [Actors -> SUBSET Key]
  /\ acted \in [Actors -> SUBSET Key]
  /\ cycles \in [Actors -> SUBSET (Key \cup {NoKey})]
  /\ rewarded \subseteq Actors
  /\ writer \in {"open", "closed"}
  /\ phase \in {"starting", "waiting", "stopping", "joining", "returned"}
  /\ todo \in Seq(Actors)
  /\ verdict \in {"none", "ok", "departed", "timeout"}
  /\ outcome \in {"none"} \cup Answer
  /\ owed \in [Actors -> SUBSET Key]
  /\ late \in [Actors -> Nat]

(***************************************************************************)
(* The fate of a message.                                                  *)
(***************************************************************************)

\* Everywhere a message put into a's inbox or requests channel can be.
InPlaces(a) ==
  <<Elements(inbox[a]),
    {pending[a]} \ {NoKey},
    Own(a, {requests[a][i].seq : i \in DOMAIN requests[a]}),
    Own(a, HeldSeqs(held[a])),
    Elements(observed[a]),
    undelivered[a]>>

\* No message is anywhere twice: two copies are one fault of the inbox, of the
\* handoff or of the drain that a reader of the log could not tell from two
\* messages.
NoCopies(seq) == \A i, j \in DOMAIN seq : seq[i] = seq[j] => i = j

\* "Every action's recipient either observed it or has it logged undelivered"
\* (tests/support/actor.rs:20) at every instant on the way: each message a
\* channel of the actor's has accepted, a reminder among them, is in exactly
\* one place - queued, in hand, held, observed, or undelivered - whatever the
\* stop, the death of the handler thread or the loss of the writer interrupts.
\* What arrives after the drain stays queued for ever: a place, but none that
\* a reader of the log finds it in (NothingIsLost).
EveryMessageInOnePlace ==
  \A a \in Actors :
    /\ owed[a] = UNION {InPlaces(a)[i] : i \in 1 .. 6}
    /\ \A i, j \in 1 .. 6 : i # j => InPlaces(a)[i] \cap InPlaces(a)[j] = {}
    /\ NoCopies(inbox[a]) /\ NoCopies(observed[a])

\* The join on the sending side: nothing is observed or undelivered but what
\* its sender has an action record for already, or a reminder of the actor's
\* own (log.rs, ActionRecord; tests/support/actor.rs:457).
EveryObservationWasSent ==
  \A a \in Actors :
    \A k \in Elements(observed[a]) \cup undelivered[a] :
      k[1] = a \/ k \in acted[k[1]]

\* Where the numbers of an actor go that has not failed (a thread that failed
\* may have lost the one it had in hand).  Each is an action's, an unsent
\* message's, a reminder's or the item in hand's, and no two items share one.
\* Once perception has given up, a reminder's is found in the log, observed or
\* undelivered, with one exception: handed back after the drain, to a channel
\* nobody will read, it is in no record (thread.rs:821 has it that none is).
\* There is at most one, for the next reminder yielded finds the flag up.
InHandNow(a) == IF handler[a] = "reminding" THEN {InHand(a)} ELSE {}
OwnReminders(a) == {k \in owed[a] : k[1] = a}
Overtaken(a) ==
  IF HungUp(a) THEN Own(a, {requests[a][i].seq : i \in DOMAIN requests[a]}) ELSE {}
EveryNumberAccountedFor ==
  \A a \in Actors :
    LET parts == <<acted[a], unsent[a], OwnReminders(a), InHandNow(a)>>
    IN  /\ \A i, j \in 1 .. 4 : i # j => parts[i] \cap parts[j] = {}
        /\ a \notin failed =>
             /\ Own(a, 0 .. nextSeq[a] - 1) = UNION {parts[i] : i \in 1 .. 4}
             /\ HungUp(a) => OwnReminders(a) \subseteq
                               Elements(observed[a]) \cup undelivered[a] \cup Overtaken(a)
             /\ \A k, l \in Overtaken(a) : k = l

\* Messages from one sender to one recipient are observed in the order they
\* were sent, and none that a stop left undelivered was sent before one that
\* was observed.
ObservedInSendingOrder ==
  \A a \in Actors : \A b \in Actors \ {a} :
    /\ \A i, j \in DOMAIN observed[a] :
         i < j /\ observed[a][i][1] = b /\ observed[a][j][1] = b =>
           observed[a][i][2] < observed[a][j][2]
    /\ \A i \in DOMAIN observed[a], k \in undelivered[a] :
         observed[a][i][1] = b /\ k[1] = b => observed[a][i][2] < k[2]

(***************************************************************************)
(* Stopping.                                                               *)
(***************************************************************************)

\* "Stop preempts everything": however much is waiting, once a stop is on the
\* control channel the handler thread is given at most the one message that
\* perception was already offering it (thread.rs, `sense`).
StopPreempts == \A a \in Actors : late[a] <= 1

\* Nothing follows a stop in what perception writes of an actor but what the
\* stop left undelivered: no observation, and no second control
\* (tests/support/actor.rs, check_nothing_follows_a_stop), although the
\* environment, `stop_everybody` and `join` may all send the actor a stop.
HasStopped(a) == \E i \in DOMAIN logged[a] : logged[a][i] = "stop"
NothingFollowsAStop ==
  [][\A a \in Actors : HasStopped(a) =>
       observed'[a] = observed[a] /\ logged'[a] = logged[a]]_vars

(***************************************************************************)
(* The episode's answer.                                                   *)
(***************************************************************************)

\* The answer `run` returns is about what the threads did: Ok only if every
\* actor was stopped, none failed, and each one's stop is in the log; and a
\* thread that ended unbidden always shows up as Agents, so that Departed,
\* which `wait` can answer, `run` never does.  So says the comment in
\* an_actor_that_ends_unbidden_is_a_departure; the module's and `run`'s own
\* documentation (episode.rs:42, 382) have run answer Departed.
AnswerMatchesTheThreads ==
  /\ outcome # "departed"
  /\ outcome = "ok" => \A a \in Actors : a \notin failed /\ HasStopped(a)
  /\ outcome # "none" =>
       \A a \in Actors : ~stopped[a] => a \in failed /\ outcome = "agents"

\* A run of the threads is a run of the contract (EpisodeContract): there is
\* one answer and it fits what the threads did, after it nothing more is
\* observed, logged or entrusted, and a message's fate, once it has one, is
\* final.
Contract == INSTANCE EpisodeContract WITH
  Actors <- Actors,
  stopped <- {a \in Actors : stopped[a]},
  failed <- failed,
  entrusted <- owed,
  observed <- [a \in Actors |-> Elements(observed[a])],
  undelivered <- undelivered,
  answer <- outcome
FollowsContract == Contract!Spec

\* `run` always returns: no stop is missed by a thread that waits for one, and
\* no two threads wait for each other, whatever fails on the way.
RunReturns == <>(phase = "returned")

(***************************************************************************)
(* What the repository says of a run, and a run does not do.               *)
(***************************************************************************)

\* "An error from a required sink surfaces as the actors' WriterClosed"
\* (episode.rs:387): a run whose log was cut short does not answer Ok.
LostWriterIsReported == phase = "returned" /\ writer = "closed" => outcome # "ok"

\* "Every message reached each of its recipients or is logged as undelivered
\* for that recipient. [...] There is no third answer" (tests/support/
\* actor.rs:460), and a reminder "is accounted for whichever side of the
\* handoff it was on" (thread.rs:823): after a run that went well, whatever an
\* actor's channels accepted has been observed or is undelivered.
NothingIsLost ==
  outcome = "ok" => \A a \in Actors :
    owed[a] \subseteq Elements(observed[a]) \cup undelivered[a]
=============================================================================
