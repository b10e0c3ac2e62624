----------------------------- MODULE Handling -----------------------------
(***************************************************************************)
(* The handler thread of one actor: the loop in `spawn`, `called`, `act`,  *)
(* `command` and `pay` (thread.rs), and what they reach in other actors    *)
(* through `Router::route` and `Router::command` (router.rs).              *)
(*                                                                         *)
(*   receiving  waiting for the next call                                  *)
(*   calling    in a call, about to yield an item or to return             *)
(*   routing    putting the message in its recipients' inboxes in turn     *)
(*   reminding  the flag was clear: about to hand the reminder back        *)
(*   commanding putting the control in its recipients' channels in turn    *)
(*   ended      returned, and reported                                     *)
(*   panicked   unwound from a panic of the handler's, and reported        *)
(***************************************************************************)
EXTENDS ActorState

At(a, place)   == handler[a] = place
Goes(a, place) == handler' = [handler EXCEPT ![a] = place]

\* The item the call yields next.  It is done with once it is carried out.
Yields(a, kind) == At(a, "calling") /\ items[a] # << >> /\ Head(items[a]).kind = kind
Current(a)      == Head(items[a])
Done(a)         == items' = [items EXCEPT ![a] = Tail(@)]

\* A message carried out under the number before its own.
StampForgotten(a) == UNCHANGED nextSeq

\* Context::stamp: every message yielded is numbered, wherever it goes.
Stamp(a) == nextSeq' = [nextSeq EXCEPT ![a] = @ + 1]
\* The number of the message in hand, once it has been stamped.
InHand(a) == <<a, nextSeq[a] - 1>>

\* The thread returns, or unwinds: its ends of the call channel and of the
\* requests channel go, and it reports.
End(a, how) ==
  /\ Goes(a, how)
  /\ done' = done \cup {Report(a, "handler", stopped[a])}
Break(a, how) ==
  /\ End(a, how)
  /\ failed' = failed \cup {a}
  /\ UNCHANGED <<inbox, controls, requests, perVars, script, items, call, nextSeq,
                 route, stopped, log, writer, epVars, history>>

(***************************************************************************)
(* Messages.                                                               *)
(***************************************************************************)

\* Only what is carried out is numbered.
UnsentUnnumbered(a) ==
  /\ Yields(a, "send") \/ Yields(a, "remind")
  /\ stopped[a] /\ writer = "open"
  /\ Done(a)
  /\ unsent' = [unsent EXCEPT ![a] = @ \cup {<<a, nextSeq[a]>>}]
  /\ UNCHANGED <<channels, perVars, handler, script, call, nextSeq, route, flags,
                 logged, observed, undelivered, acted, cycles, rewarded, writer,
                 epVars, history>>

\* `act` on a message or a reminder, the flag up: it is numbered, logged as
\* unsent, and carried nowhere.
Unsent(a) ==
  /\ Yields(a, "send") \/ Yields(a, "remind")
  /\ stopped[a] /\ writer = "open"
  /\ Done(a) /\ Stamp(a)
  /\ unsent' = [unsent EXCEPT ![a] = @ \cup {<<a, nextSeq[a]>>}]
  /\ UNCHANGED <<channels, perVars, handler, script, call, route, flags, logged,
                 observed, undelivered, acted, cycles, rewarded, writer, epVars, history>>

\* A message carried out with no record of it.
ActUnlogged(a) ==
  /\ Yields(a, "send") /\ ~stopped[a] /\ writer = "open"
  /\ Stamp(a)
  /\ route' = [route EXCEPT ![a] = Current(a).to]
  /\ Goes(a, "routing")
  /\ UNCHANGED <<channels, perVars, script, items, call, flags, log, writer,
                 epVars, history>>

\* `act` on a message, the flag clear: the action is logged before anything is
\* carried out, and then it is on its way whatever happens to the flag.
Act(a) ==
  /\ Yields(a, "send") /\ ~stopped[a] /\ writer = "open"
  /\ Stamp(a)
  /\ acted' = [acted EXCEPT ![a] = @ \cup {<<a, nextSeq[a]>>}]
  /\ route' = [route EXCEPT ![a] = Current(a).to]
  /\ Goes(a, "routing")
  /\ UNCHANGED <<channels, perVars, script, items, call, flags, logged, observed,
                 undelivered, unsent, cycles, rewarded, writer, epVars, history>>

\* Router::route's first two checks, made before anything is sent.
Misaddressed(a) == \E i \in DOMAIN route[a] : route[a][i] \in {a, Stranger}

\* Router::route: one more recipient's inbox gets its copy.
Route(a) ==
  /\ At(a, "routing") /\ ~Misaddressed(a) /\ route[a] # << >>
  /\ LET b == Head(route[a])
     IN  /\ ~Closed(b)
         /\ inbox' = [inbox EXCEPT ![b] = Append(@, InHand(a))]
         /\ owed' = [owed EXCEPT ![b] = @ \cup {InHand(a)}]
  /\ route' = [route EXCEPT ![a] = Tail(@)]
  /\ UNCHANGED <<controls, requests, done, perVars, handler, script, items, call,
                 nextSeq, flags, log, writer, epVars, late>>

\* Every recipient has its copy, or its control: back to the call.
CarriedOut(a) ==
  /\ At(a, "routing") \/ At(a, "commanding")
  /\ route[a] = << >>
  /\ Done(a) /\ Goes(a, "calling")
  /\ UNCHANGED <<channels, perVars, script, call, nextSeq, route, flags, log,
                 writer, epVars, history>>

\* Router::route refuses: RouteError::Loopback or UnknownActor for the message,
\* or Closed for a recipient that has gone, those before it having received
\* the message.  The actor's thread fails.
RouteRefused(a) ==
  /\ At(a, "routing")
  /\ \/ Misaddressed(a)
     \/ route[a] # << >> /\ Closed(Head(route[a]))
  /\ Break(a, "ended")

(***************************************************************************)
(* Reminders.                                                              *)
(***************************************************************************)

\* `act` on a reminder, the flag clear.
Remember(a) ==
  /\ Yields(a, "remind") /\ ~stopped[a]
  /\ Stamp(a)
  /\ Goes(a, "reminding")
  /\ UNCHANGED <<channels, perVars, script, items, call, route, flags, log,
                 writer, epVars, history>>

\* The handoff to perception's timer.
HandBack(a) ==
  /\ At(a, "reminding") /\ ~Closed(a)
  /\ requests' = [requests EXCEPT ![a] = Append(@, [seq |-> nextSeq[a] - 1, at |-> Current(a).at])]
  /\ owed' = [owed EXCEPT ![a] = @ \cup {InHand(a)}]
  /\ Done(a) /\ Goes(a, "calling")
  /\ UNCHANGED <<inbox, controls, done, perVars, script, call, nextSeq, route,
                 flags, log, writer, epVars, late>>

\* The handoff fails because of a stop: unsent after all.
HandBackUnsent(a) ==
  /\ At(a, "reminding") /\ Closed(a) /\ stopped[a] /\ writer = "open"
  /\ unsent' = [unsent EXCEPT ![a] = @ \cup {InHand(a)}]
  /\ Done(a) /\ Goes(a, "calling")
  /\ UNCHANGED <<channels, perVars, script, call, nextSeq, route, flags, logged,
                 observed, undelivered, acted, cycles, rewarded, writer, epVars, history>>

\* The handoff fails with no stop to explain it: ActorError::TimerClosed.
TimerClosed(a) ==
  /\ At(a, "reminding") /\ Closed(a) /\ ~stopped[a]
  /\ Break(a, "ended")

(***************************************************************************)
(* The environment's effects.                                              *)
(***************************************************************************)

\* `command` and `pay` yielded after the stop: nothing, and no record.
Skip(a) ==
  /\ Yields(a, "command") \/ Yields(a, "reward")
  /\ stopped[a]
  /\ Done(a)
  /\ UNCHANGED <<channels, perVars, handler, script, call, nextSeq, route, flags,
                 log, writer, epVars, history>>

\* `command`, the flag clear.
BeginCommand(a) ==
  /\ Yields(a, "command") /\ ~stopped[a]
  /\ route' = [route EXCEPT ![a] = Current(a).to]
  /\ Goes(a, "commanding")
  /\ UNCHANGED <<channels, perVars, script, items, call, nextSeq, flags, log,
                 writer, epVars, history>>

\* A recipient that is not in the roster refuses the command before anything
\* is sent.
Unknown(a) == \E i \in DOMAIN route[a] : route[a][i] = Stranger

\* Router::command: one more recipient's control channel.  The environment may
\* name itself.
Tell(a) ==
  /\ At(a, "commanding") /\ ~Unknown(a) /\ route[a] # << >>
  /\ ~Closed(Head(route[a]))
  /\ controls' = [controls EXCEPT ![Head(route[a])] = Append(@, Current(a).control)]
  /\ route' = [route EXCEPT ![a] = Tail(@)]
  /\ UNCHANGED <<inbox, requests, done, perVars, handler, script, items, call,
                 nextSeq, flags, log, writer, epVars, history>>

\* RouteError::UnknownActor, or Closed for a recipient that has gone; those
\* before it have been told.
CommandRefused(a) ==
  /\ At(a, "commanding")
  /\ \/ Unknown(a)
     \/ route[a] # << >> /\ Closed(Head(route[a]))
  /\ Break(a, "ended")

\* `pay`: a record, and nothing sent.
Pay(a) ==
  /\ Yields(a, "reward") /\ ~stopped[a] /\ writer = "open"
  /\ Current(a).who # Stranger
  /\ Done(a)
  /\ rewarded' = rewarded \cup {Current(a).who}
  /\ UNCHANGED <<channels, perVars, handler, script, call, nextSeq, route, flags,
                 logged, observed, undelivered, unsent, acted, cycles, writer,
                 epVars, history>>

(***************************************************************************)
(* Calls.                                                                  *)
(***************************************************************************)

\* The call yields nothing more and returns: the cycle record closes it.
Return(a) ==
  /\ At(a, "calling") /\ items[a] = << >> /\ writer = "open"
  /\ cycles' = [cycles EXCEPT ![a] = @ \cup {call[a]}]
  /\ Goes(a, "receiving")
  /\ UNCHANGED <<channels, perVars, script, items, call, nextSeq, route, flags,
                 logged, observed, undelivered, unsent, acted, rewarded, writer,
                 epVars, history>>

\* Perception has dropped its end of the call channel: the loop is over.
HangUp(a) ==
  /\ At(a, "receiving") /\ HungUp(a)
  /\ End(a, "ended")
  /\ UNCHANGED <<inbox, controls, requests, perVars, script, items, call, nextSeq,
                 route, flags, log, writer, epVars, history>>

\* The handler panics.
Panics(a) == Yields(a, "fail") /\ Break(a, "panicked")

\* `pay` refuses: ActorError::Refused for a reward to a stranger, or
\* Unserializable.
PayRefused(a) ==
  /\ Yields(a, "reward") /\ ~stopped[a] /\ Current(a).who = Stranger
  /\ Break(a, "ended")

\* The writer has gone when a record is due: ActorError::WriterClosed.
RecordDue(a) ==
  \/ At(a, "calling") /\ items[a] = << >>
  \/ Yields(a, "send")
  \/ Yields(a, "remind") /\ stopped[a]
  \/ Yields(a, "reward") /\ ~stopped[a]
  \/ At(a, "reminding") /\ Closed(a) /\ stopped[a]
WriterClosed(a) ==
  /\ writer = "closed" /\ RecordDue(a)
  /\ Break(a, "ended")

\* Carry: the call's next item is carried out, or begun to be - an action of
\* anybody's, a command or a reward of the environment's.
Carry(a) ==
  \/ Unsent(a) \/ Act(a) \/ Remember(a)
  \/ BeginCommand(a) \/ Pay(a) \/ Skip(a)

\* One step of a's handler thread.
Handle(a) ==
  \/ Carry(a) \/ Route(a) \/ CarriedOut(a) \/ RouteRefused(a)
  \/ HandBack(a) \/ HandBackUnsent(a) \/ TimerClosed(a)
  \/ Tell(a) \/ CommandRefused(a)
  \/ Return(a) \/ HangUp(a) \/ PayRefused(a) \/ Panics(a) \/ WriterClosed(a)
=============================================================================
