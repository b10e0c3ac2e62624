---------------------------- MODULE ActorState ----------------------------
(***************************************************************************)
(* What the threads of one episode share: each actor's channels, its two   *)
(* threads' positions, its stopped flag, and the records it has written.   *)
(*                                                                         *)
(* An actor is two threads (thread.rs).  Its perception thread takes       *)
(* messages off the inbox, controls off the control channel and reminders  *)
(* off the requests channel, and hands one message at a time to its        *)
(* handler thread over a rendezvous.  Its handler thread runs one call at  *)
(* a time and carries out what the call yields: a message through the      *)
(* router into other actors' inboxes, a reminder back to perception, and,  *)
(* for the environment, controls and rewards.                              *)
(*                                                                         *)
(* A message is known by its key, <<sender, seq>>, as in the log           *)
(* (ADR-0017); what it says plays no part.  What a handler decides is      *)
(* application code: scripts[a] has, for each call a's handler will get in *)
(* turn, the items that call yields; a call past the last yields nothing.  *)
(*                                                                         *)
(* This module declares the state; Perception, Handling and EpisodeRun     *)
(* have the steps of the perception threads, of the handler threads with   *)
(* the router, and of the thread that called Episode::run.                 *)
(***************************************************************************)
EXTENDS ReminderQueue, FiniteSets

CONSTANTS
  Roster,       \* the actors, in the order the episode starts and joins them
  Env,          \* the environment
  Stranger,     \* an id nobody in the roster has
  Deadlines,    \* instants a reminder may be set for
  Scripts,      \* the scripts the handlers may be running
  MayTimeOut,   \* whether the episode's limit may pass
  MayLoseWriter \* whether a required sink may fail

Actors  == {Roster[i] : i \in DOMAIN Roster}
Control == {"start", "stop"}
Key     == Actors \X Nat       \* log.rs, Key: sender and sequence number
NoKey   == <<Stranger, 0>>

\* contract.rs, Action and Effect.  A handler fails by a panic; a reward that
\* would not serialize is refused as one for a stranger is.
Send(to)           == [kind |-> "send", to |-> to]
Remind(d)          == [kind |-> "remind", at |-> d]
Command(to, told)  == [kind |-> "command", to |-> to, control |-> told]
Reward(who)        == [kind |-> "reward", who |-> who]
Fail               == [kind |-> "fail"]
Ids  == Actors \cup {Stranger}
\* The recipients of a message are a set, in the order of their ids.
Recipients == {to \in Seq(Ids) : \A i, j \in DOMAIN to : to[i] = to[j] => i = j}
Item == [kind : {"send"}, to : Recipients]
          \cup [kind : {"remind"}, at : Deadlines]
          \cup [kind : {"command"}, to : Seq(Ids), control : Control]
          \cup [kind : {"reward"}, who : Ids]
          \cup [kind : {"fail"}]

ASSUME RosterAssumption ==
  /\ Roster \in Seq(Actors) /\ Env \in Actors
  /\ \A i, j \in DOMAIN Roster : Roster[i] = Roster[j] => i = j
  /\ Stranger \notin Actors
ASSUME DeadlinesAssumption == Deadlines \subseteq Nat
\* Only an environment's handler yields effects: an agent's yields actions.
ASSUME ScriptsAssumption ==
  \A s \in Scripts :
    /\ s \in [Actors -> Seq(Seq(Item))]
    /\ \A a \in Actors \ {Env} : \A i \in DOMAIN s[a] : \A j \in DOMAIN s[a][i] :
         s[a][i][j].kind \notin {"command", "reward"}
ASSUME SwitchesAssumption ==
  MayTimeOut \in BOOLEAN /\ MayLoseWriter \in BOOLEAN

VARIABLES
  \* Channels.
  inbox,       \* inbox[a]: keys of the messages waiting
  controls,    \* controls[a]: the control channel
  requests,    \* requests[a]: reminders on their way back to perception
  done,        \* the completion channel: every report made
  \* The perception threads.
  perception,  \* where a's perception thread is
  pending,     \* the message in hand, or NoKey
  held,        \* the reminders held
  firing,      \* the instant `due` was called with
  \* The handler threads.
  handler,     \* where a's handler thread is
  script,      \* what the calls a's handler has yet to get will yield
  items,       \* what the call in progress has yet to yield
  call,        \* what the call in progress observed: a key, or NoKey for a start
  nextSeq,     \* Context::next_seq
  route,       \* the recipients the item in hand has not reached yet
  \* Shared by the two.
  stopped,     \* the stopped flag
  failed,      \* actors with a thread that ended in an error or a panic
  \* The log: what each actor's threads have had written, by kind.
  logged,      \* controls, in order
  observed,    \* observations, in order
  undelivered, unsent, acted,
  cycles,      \* cycle records: the key observed, or NoKey
  rewarded,    \* actors with a reward record
  writer,      \* whether the log writer still takes records
  \* The episode's own thread.
  phase,       \* where Episode::run is
  todo,        \* actors a loop over the roster has not reached yet
  verdict,     \* what `wait` returned
  outcome,     \* what `run` returned
  \* History, read by properties only.
  owed,        \* owed[a]: messages put into a's inbox or requests channel
  late         \* late[a]: messages handed over with a stop waiting

channels == <<inbox, controls, requests, done>>
perVars  == <<perception, pending, held, firing>>
hanVars  == <<handler, script, items, call, nextSeq, route>>
flags    == <<stopped, failed>>
log      == <<logged, observed, undelivered, unsent, acted, cycles, rewarded>>
epVars   == <<phase, todo, verdict, outcome>>
history  == <<owed, late>>
vars     == <<channels, perVars, hanVars, flags, log, writer, epVars, history>>

\* A perception thread that has ended has dropped the receiving ends of the
\* actor's inbox, its control channel and its requests channel.
Closed(a) == perception[a] = "ended"

\* The handler thread has gone, returned or unwound, and with it its ends of
\* the call channel and of the requests channel.
HandlerGone(a) == handler[a] \in {"ended", "panicked"}

\* The perception thread has dropped its end of the call channel.
HungUp(a) == perception[a] \in {"closing", "ended"}

\* Reporting::drop: a thread of a's says it is ending, and whether a was
\* stopped.
Report(a, thread, flag) == [who |-> a, thread |-> thread, stopped |-> flag]

\* A set of keys out of a sequence of sequence numbers.
Own(a, seqs) == {<<a, s>> : s \in seqs}

\* Episode::run up to its first send: every channel exists before any thread,
\* and every thread is running and idle.
Init ==
  /\ inbox = [a \in Actors |-> << >>]
  /\ controls = [a \in Actors |-> << >>]
  /\ requests = [a \in Actors |-> << >>]
  /\ done = {}
  /\ perception = [a \in Actors |-> "polling"]
  /\ pending = [a \in Actors |-> NoKey]
  /\ held = [a \in Actors |-> Nothing(Deadlines)]
  /\ firing = [a \in Actors |-> 0]
  /\ handler = [a \in Actors |-> "receiving"]
  /\ script \in Scripts
  /\ items = [a \in Actors |-> << >>]
  /\ call = [a \in Actors |-> NoKey]
  /\ nextSeq = [a \in Actors |-> 0]
  /\ route = [a \in Actors |-> << >>]
  /\ stopped = [a \in Actors |-> FALSE]
  /\ failed = {}
  /\ logged = [a \in Actors |-> << >>]
  /\ observed = [a \in Actors |-> << >>]
  /\ undelivered = [a \in Actors |-> {}]
  /\ unsent = [a \in Actors |-> {}]
  /\ acted = [a \in Actors |-> {}]
  /\ cycles = [a \in Actors |-> {}]
  /\ rewarded = {}
  /\ writer = "open"
  /\ phase = "starting"
  /\ todo = << >>
  /\ verdict = "none"
  /\ outcome = "none"
  /\ owed = [a \in Actors |-> {}]
  /\ late = [a \in Actors |-> 0]
=============================================================================
