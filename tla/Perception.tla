---------------------------- MODULE Perception ----------------------------
(***************************************************************************)
(* The perception thread of one actor: `Perception::run`, `sense`, `stop`, *)
(* `abandon` and `deafened` (thread.rs).                                   *)
(*                                                                         *)
(*   polling    about to look at the control channel alone                 *)
(*   selecting  in the `select!`: any ready arm may be taken               *)
(*   starting   blocked handing the start to the handler thread            *)
(*   recording  a message was handed over, its record is not written yet   *)
(*   firing     putting reminders that are due on its own inbox            *)
(*   stopping   the stop is logged, the flag is not up yet                 *)
(*   closing    nothing left to do but return                              *)
(*   ended      returned: every receiving end is dropped, and reported     *)
(*                                                                         *)
(* Appending to the log is part of the step it belongs to wherever no      *)
(* other thread can tell the difference; the observation record, which     *)
(* the handler thread overtakes, has a step of its own.                    *)
(***************************************************************************)
EXTENDS ActorState

Goto(a, place) == perception' = [perception EXCEPT ![a] = place]

(***************************************************************************)
(* Sensing.                                                                *)
(***************************************************************************)

\* A loop without the `try_recv`: on to the `select!` whatever waits.
PollSkipped(a) ==
  /\ perception[a] = "polling"
  /\ Goto(a, "selecting")
  /\ UNCHANGED <<channels, pending, held, firing, hanVars, flags, log, writer, epVars, history>>

\* `sense`: nothing on the control channel, so on to the `select!`.
Poll(a) ==
  /\ perception[a] = "polling" /\ controls[a] = << >>
  /\ Goto(a, "selecting")
  /\ UNCHANGED <<channels, pending, held, firing, hanVars, flags, log, writer, epVars, history>>

\* A control is taken, by the `try_recv` or by the `select!`, and logged.
\* What follows is `stop`, or handing the start to the handler thread.
TakeControl(a) ==
  /\ perception[a] \in {"polling", "selecting"} /\ controls[a] # << >>
  /\ writer = "open"
  /\ logged' = [logged EXCEPT ![a] = Append(@, Head(controls[a]))]
  /\ Goto(a, IF Head(controls[a]) = "start" THEN "starting" ELSE "stopping")
  /\ controls' = [controls EXCEPT ![a] = Tail(@)]
  /\ UNCHANGED <<inbox, requests, done, pending, held, firing, hanVars, flags,
                 observed, undelivered, unsent, acted, cycles, rewarded,
                 writer, epVars, history>>

\* a's handler is called, its `start` or its `policy` or `step`, and will yield
\* the items its script has for the call.
Called(a, key) ==
  /\ call' = [call EXCEPT ![a] = key]
  /\ items' = [items EXCEPT ![a] = IF script[a] = << >> THEN << >> ELSE Head(script[a])]
  /\ script' = [script EXCEPT ![a] = IF @ = << >> THEN @ ELSE Tail(@)]

\* The rendezvous: the handler thread, free, takes the next call.
Meet(a, key) ==
  /\ handler[a] = "receiving"
  /\ handler' = [handler EXCEPT ![a] = "calling"]
  /\ Called(a, key)
  /\ UNCHANGED <<nextSeq, route>>

\* The start reaches the handler thread, ahead of the message in hand.
HandStart(a) ==
  /\ perception[a] = "starting"
  /\ Meet(a, NoKey)
  /\ Goto(a, "polling")
  /\ UNCHANGED <<channels, pending, held, firing, flags, log, writer, epVars, history>>

\* An inbox read from the wrong end.
HearLast(a) ==
  /\ perception[a] = "selecting" /\ pending[a] = NoKey /\ inbox[a] # << >>
  /\ pending' = [pending EXCEPT ![a] = inbox[a][Len(inbox[a])]]
  /\ inbox' = [inbox EXCEPT ![a] = SubSeq(@, 1, Len(@) - 1)]
  /\ Goto(a, "polling")
  /\ UNCHANGED <<controls, requests, done, held, firing, hanVars, flags, log,
                 writer, epVars, history>>

\* A message is taken off the inbox into the one slot there is for it.
Hear(a) ==
  /\ perception[a] = "selecting" /\ pending[a] = NoKey /\ inbox[a] # << >>
  /\ pending' = [pending EXCEPT ![a] = Head(inbox[a])]
  /\ inbox' = [inbox EXCEPT ![a] = Tail(@)]
  /\ Goto(a, "polling")
  /\ UNCHANGED <<controls, requests, done, held, firing, hanVars, flags, log,
                 writer, epVars, history>>

\* The message in hand reaches the handler thread.
Hand(a) ==
  /\ perception[a] = "selecting" /\ pending[a] # NoKey
  /\ Meet(a, pending[a])
  /\ Goto(a, "recording")
  /\ late' = IF \E i \in DOMAIN controls[a] : controls[a][i] = "stop"
               THEN [late EXCEPT ![a] = @ + 1] ELSE late
  /\ UNCHANGED <<channels, pending, held, firing, flags, log, writer, epVars, owed>>

\* Its observation record is written once it has been handed over.
RecordObservation(a) ==
  /\ perception[a] = "recording" /\ writer = "open"
  /\ observed' = [observed EXCEPT ![a] = Append(@, pending[a])]
  /\ pending' = [pending EXCEPT ![a] = NoKey]
  /\ Goto(a, "polling")
  /\ UNCHANGED <<channels, held, firing, hanVars, flags, logged, undelivered,
                 unsent, acted, cycles, rewarded, writer, epVars, history>>

(***************************************************************************)
(* Reminders.                                                              *)
(***************************************************************************)

\* A reminder the handler thread set reaches the timer.
Set(a) ==
  /\ perception[a] = "selecting" /\ requests[a] # << >>
  /\ held' = [held EXCEPT ![a] = Pushed(@, Head(requests[a]).at, Head(requests[a]).seq)]
  /\ requests' = [requests EXCEPT ![a] = Tail(@)]
  /\ Goto(a, "polling")
  /\ UNCHANGED <<inbox, controls, done, pending, firing, hanVars, flags, log,
                 writer, epVars, history>>

\* `due(now)` hands back what is held under d next.
Due(a, d, now) == IsEarliest(held[a], d) /\ d <= now

\* The timer fires, at or after the earliest deadline held (see Reminders).
Fire(a) ==
  /\ perception[a] = "selecting"
  /\ \E d, now \in Deadlines :
       /\ Due(a, d, now)
       /\ firing' = [firing EXCEPT ![a] = now]
  /\ Goto(a, "firing")
  /\ UNCHANGED <<channels, pending, held, hanVars, flags, log, writer, epVars, history>>

\* One reminder that is due goes on the actor's own inbox, behind whatever is
\* there, with the number it was given when it was set.
Deliver(a) ==
  /\ perception[a] = "firing"
  /\ \E d \in Deadlines :
       /\ Due(a, d, firing[a])
       /\ inbox' = [inbox EXCEPT ![a] = Append(@, <<a, Head(held[a][d])>>)]
       /\ held' = [held EXCEPT ![a][d] = Tail(@)]
  /\ UNCHANGED <<controls, requests, done, perception, pending, firing, hanVars,
                 flags, log, writer, epVars, history>>

\* Everything that was due is on the inbox.
Fired(a) ==
  /\ perception[a] = "firing" /\ \A d \in Deadlines : ~ Due(a, d, firing[a])
  /\ Goto(a, "polling")
  /\ firing' = [firing EXCEPT ![a] = 0]
  /\ UNCHANGED <<channels, pending, held, hanVars, flags, log, writer, epVars, history>>

(***************************************************************************)
(* Giving up.                                                              *)
(***************************************************************************)

\* Reminders on their way to being held, forgotten.
RemindersHeldOnly(a) == HeldSeqs(held[a])

\* The reminders the actor set and will never observe: those held, and those
\* on their way to being held.
Reminders(a) ==
  HeldSeqs(held[a]) \cup {requests[a][i].seq : i \in DOMAIN requests[a]}

\* The message in hand, what is in the inbox now, and the reminders.
Leftover(a) ==
  ({pending[a]} \ {NoKey}) \cup Elements(inbox[a]) \cup Own(a, Reminders(a))

\* `abandon`: the call channel is dropped, the queues are drained and what was
\* in them is logged.  What arrives before the thread has returned stays where
\* it arrived.  A writer that has gone takes none of it.
Abandon(a) ==
  /\ Goto(a, "closing")
  /\ IF writer = "open" \/ Leftover(a) = {}
       THEN /\ undelivered' = [undelivered EXCEPT ![a] = @ \cup Leftover(a)]
            /\ pending' = [pending EXCEPT ![a] = NoKey]
            /\ inbox' = [inbox EXCEPT ![a] = << >>]
            /\ requests' = [requests EXCEPT ![a] = << >>]
            /\ held' = [held EXCEPT ![a] = Nothing(Deadlines)]
            /\ UNCHANGED failed
       ELSE /\ failed' = failed \cup {a}
            /\ UNCHANGED <<undelivered, pending, inbox, requests, held>>
  /\ UNCHANGED <<controls, done, firing, hanVars, logged, observed, unsent, acted,
                 cycles, rewarded, writer, epVars, history>>

\* A stop that drains the inbox and goes on perceiving.
StopAndCarryOn(a) ==
  /\ perception[a] = "stopping"
  /\ stopped' = [stopped EXCEPT ![a] = TRUE]
  /\ undelivered' = [undelivered EXCEPT ![a] = @ \cup Elements(inbox[a])]
  /\ inbox' = [inbox EXCEPT ![a] = << >>]
  /\ Goto(a, "polling")
  /\ UNCHANGED <<controls, requests, done, pending, held, firing, hanVars, failed,
                 logged, observed, unsent, acted, cycles, rewarded, writer,
                 epVars, history>>

\* `stop`, after the stop record: the flag goes up, and then the rest.
Stop(a) ==
  /\ perception[a] = "stopping"
  /\ stopped' = [stopped EXCEPT ![a] = TRUE]
  /\ Abandon(a)

\* `deafened`: the handler thread has gone, with its ends of the call channel
\* and of the requests channel, and a start, a message or the empty requests
\* channel shows it.  The actor was never stopped.
Deafen(a) ==
  /\ HandlerGone(a)
  /\ \/ perception[a] = "starting"
     \/ perception[a] = "selecting" /\ (requests[a] = << >> \/ pending[a] # NoKey)
  /\ Abandon(a)
  /\ UNCHANGED stopped

\* The record of a control or of an observation is refused: the writer has
\* gone.  The thread returns at once, and what it had goes with its channels.
RecordRefused(a) ==
  /\ writer = "closed"
  /\ \/ perception[a] \in {"polling", "selecting"} /\ controls[a] # << >>
     \/ perception[a] = "recording"
  /\ failed' = failed \cup {a}
  /\ Goto(a, "closing")
  /\ UNCHANGED <<channels, pending, held, firing, hanVars, stopped, log, writer, epVars, history>>

\* The thread returns: its receiving ends are dropped, and it reports.
Close(a) ==
  /\ perception[a] = "closing"
  /\ Goto(a, "ended")
  /\ done' = done \cup {Report(a, "perception", stopped[a])}
  /\ UNCHANGED <<inbox, controls, requests, pending, held, firing, hanVars,
                 flags, log, writer, epVars, history>>

\* One step of a's perception thread.
Perceive(a) ==
  \/ Poll(a) \/ TakeControl(a) \/ HandStart(a) \/ Hear(a) \/ Hand(a)
  \/ RecordObservation(a) \/ Set(a) \/ Fire(a) \/ Deliver(a) \/ Fired(a)
  \/ Stop(a) \/ Deafen(a) \/ RecordRefused(a) \/ Close(a)
=============================================================================
